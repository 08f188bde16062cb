---------------------------- MODULE EndpointHistory ----------------------------
(***************************************************************************)
(* The remembered addresses of one paired peer, in the two implementations *)
(* of EndpointRepository side by side (InMemoryEndpointRepository and      *)
(* SqlitePeerRepository), and the tasks that use them: connect_remembered  *)
(* for several session kinds, inbound sessions, pairing and forget.        *)
(*                                                                         *)
(* Both stores get the same calls; "backend" is the one whose answers are  *)
(* dialled.  Every call reads the clock first and changes the store in a   *)
(* later step, after its await.  last_seen_at_ms is always written         *)
(* together with last_success_at_ms, so one stamp stands for both.  The    *)
(* unit of the clock is one second.                                        *)
(***************************************************************************)
EXTENDS Integers, FiniteSets, Sequences, Functions

CONSTANTS
    Native,       \* addresses that Connection::remote_address reports as dialled
    Mapped,       \* other, IPv4 ones, reported IPv4-mapped by the dual-stack socket
    Dials,        \* tasks in connect_remembered, one per session kind
    Limit,        \* 16 endpoints
    MaxExponent,  \* 8
    DelayCap,     \* 300 seconds, only in the SQL statement
    MaxAge,       \* 90 days, only in the SQL query
    MaxClock,     \* bound of the clock
    MaxCalls,     \* bound of the calls that change a store
    NoCall

Addresses == Native \cup Mapped
Inbound == "inbound"
Writers == Dials \cup {Inbound}

VARIABLES
    clock,
    backend,   \* the repository the runtime was built with
    paired,    \* the peer has a row, with TrustState::Paired
    memory,    \* rows of the in-memory store, newest success first
    sqlite,    \* rows of the peer_endpoints table
    phase,     \* where each dial is
    left,      \* candidates of each dial that have not been joined
    listed,    \* the addresses each dial was given
    attempt,   \* 1 from the listener socket, 2 from a fresh port
    call,      \* the repository call a task is in
    calls,     \* how many there have been
    forgetting \* forget has deleted the peer and not yet its endpoints

dials == <<phase, left, listed, attempt>>
vars == <<clock, backend, paired, memory, sqlite, dials, call, calls, forgetting>>

Row(a, now) == [address |-> a, success |-> now, failures |-> 0, retry |-> 0]
AddressesOf(rows) == {r.address : r \in rows}

Init ==
    /\ clock = 0
    /\ backend \in {"memory", "sqlite"}
    /\ paired = TRUE
    /\ memory = <<>>
    /\ sqlite = {}
    /\ phase = [d \in Dials |-> "idle"]
    /\ left = [d \in Dials |-> {}]
    /\ listed = [d \in Dials |-> {}]
    /\ attempt = [d \in Dials |-> 1]
    /\ call = [t \in Writers |-> NoCall]
    /\ calls = 0
    /\ forgetting = FALSE

Count == calls < MaxCalls /\ calls' = calls + 1

-----------------------------------------------------------------------------
(* The in-memory store.                                                    *)

(* sort_by_key(Reverse(last_success_at_ms)) is a stable sort: the place of *)
(* a row is the number of rows up to it in the new order.                  *)
UpTo(rows, i) ==
    {j \in DOMAIN rows : \/ rows[j].success > rows[i].success
                         \/ rows[j].success = rows[i].success /\ j <= i}
NewestFirst(rows) ==
    [k \in DOMAIN rows |-> rows[CHOOSE i \in DOMAIN rows : Cardinality(UpTo(rows, i)) = k]]

(* Mutant: the oldest rows are kept.                                       *)
TruncatedFront(rows) ==
    SubSeq(rows, 1 + (IF Len(rows) > Limit THEN Len(rows) - Limit ELSE 0), Len(rows))

(* truncate(16).                                                           *)
Truncated(rows) == SubSeq(rows, 1, IF Len(rows) > Limit THEN Limit ELSE Len(rows))

MemoryAuthenticated(a, now) ==
    IF a \in AddressesOf(Range(memory))
    THEN Truncated(NewestFirst(
           [i \in DOMAIN memory |-> IF memory[i].address = a THEN Row(a, now) ELSE memory[i]]))
    ELSE Truncated(NewestFirst(Append(memory, Row(a, now))))

Exponent(failures) == IF failures > MaxExponent THEN MaxExponent ELSE failures

MemoryFailure(a, now) ==
    [i \in DOMAIN memory |->
       IF memory[i].address # a THEN memory[i]
       ELSE LET n == memory[i].failures + 1
            IN [memory[i] EXCEPT !.failures = n, !.retry = now + 2^Exponent(n)]]

MemoryAnswer == AddressesOf({r \in Range(memory) : r.retry <= clock})

-----------------------------------------------------------------------------
(* The SQLite store.                                                       *)

(* Mutant: the update on conflict leaves the backoff in place.             *)
SqliteAuthenticatedKeepsBackoff(a, now) ==
    IF ~paired THEN sqlite
    ELSE IF a \notin AddressesOf(sqlite) THEN sqlite \cup {Row(a, now)}
    ELSE {IF r.address # a THEN r ELSE [r EXCEPT !.success = now] : r \in sqlite}

(* INSERT ... ON CONFLICT DO UPDATE; without the peer's row the foreign    *)
(* key refuses it.                                                         *)
SqliteAuthenticated(a, now) ==
    IF paired THEN {r \in sqlite : r.address # a} \cup {Row(a, now)} ELSE sqlite

(* Mutant: the exponent is taken from the count before this failure.       *)
SqliteFailureOffByOne(a, now) ==
    {IF r.address # a THEN r
     ELSE [r EXCEPT !.failures = @ + 1, !.retry = now + 2^Exponent(r.failures)] : r \in sqlite}

SqliteFailure(a, now) ==
    {IF r.address # a THEN r
     ELSE LET delay == 2^Exponent(r.failures + 1)
          IN [r EXCEPT !.failures = @ + 1,
                       !.retry = now + (IF delay > DelayCap THEN DelayCap ELSE delay)] :
       r \in sqlite}

(* Rows of the last 90 days that may be retried, the newest 16 of them;    *)
(* ORDER BY leaves the order of equal stamps open.                         *)
SqliteAnswers ==
    LET eligible == {r \in sqlite : r.retry <= clock /\ r.success >= clock - MaxAge}
    IN {AddressesOf(rows) : rows \in
          {s \in SUBSET eligible :
             /\ Cardinality(s) <= Limit
             /\ s # eligible => Cardinality(s) = Limit
             /\ \A r \in s, q \in eligible \ s : r.success >= q.success}}

Answers == IF backend = "memory" THEN {MemoryAnswer} ELSE SqliteAnswers

-----------------------------------------------------------------------------
(* connect_remembered: require_paired first ...                            *)
ConnectRemembered(d) ==
    /\ phase[d] = "idle" /\ call[d] = NoCall
    /\ paired
    /\ phase' = [phase EXCEPT ![d] = "checked"]
    /\ UNCHANGED <<clock, backend, paired, memory, sqlite, left, listed, attempt, call, calls, forgetting>>

(* ... then, under the dial lock, the list to race; an empty one is an     *)
(* error.                                                                  *)
ReadEndpoints(d) ==
    /\ phase[d] = "checked"
    /\ \E list \in Answers :
         /\ phase' = [phase EXCEPT ![d] = IF list = {} THEN "idle" ELSE "racing"]
         /\ left' = [left EXCEPT ![d] = list]
         /\ listed' = [listed EXCEPT ![d] = list]
    /\ attempt' = [attempt EXCEPT ![d] = 1]
    /\ UNCHANGED <<clock, backend, paired, memory, sqlite, call, calls, forgetting>>

(* A candidate of race_endpoints_on fails for whatever reason, a timeout   *)
(* while it waited for capacity included, and record_failure is called.    *)
CandidateFails(d, a) ==
    /\ phase[d] = "racing" /\ call[d] = NoCall
    /\ a \in left[d]
    /\ left' = [left EXCEPT ![d] = @ \ {a}]
    /\ call' = [call EXCEPT ![d] = [ok |-> FALSE, host |-> a, now |-> clock]]
    /\ Count
    /\ UNCHANGED <<clock, backend, paired, memory, sqlite, phase, listed, attempt, forgetting>>

(* A candidate wins; the others are shut down and record nothing.          *)
(* remember_authenticated_session records it if the peer is still paired.  *)
CandidateWins(d, a) ==
    /\ phase[d] = "racing" /\ call[d] = NoCall
    /\ a \in left[d]
    /\ left' = [left EXCEPT ![d] = {}]
    /\ listed' = [listed EXCEPT ![d] = {}]
    /\ phase' = [phase EXCEPT ![d] = "idle"]
    /\ call' = [call EXCEPT ![d] = IF paired THEN [ok |-> TRUE, host |-> a, now |-> clock] ELSE @]
    /\ Count
    /\ UNCHANGED <<clock, backend, paired, memory, sqlite, attempt, forgetting>>

(* Every candidate has failed: a first race whose path timed out is run    *)
(* once more over the same addresses, otherwise the call fails.            *)
RaceFails(d) ==
    /\ phase[d] = "racing" /\ call[d] = NoCall
    /\ left[d] = {}
    /\ \/ /\ attempt[d] = 1
          /\ attempt' = [attempt EXCEPT ![d] = 2]
          /\ left' = [left EXCEPT ![d] = listed[d]]
          /\ UNCHANGED <<phase, listed>>
       \/ /\ phase' = [phase EXCEPT ![d] = "idle"]
          /\ listed' = [listed EXCEPT ![d] = {}]
          /\ UNCHANGED <<attempt, left>>
    /\ UNCHANGED <<clock, backend, paired, memory, sqlite, call, calls, forgetting>>

(* The accept loop remembers the address of an inbound session.            *)
InboundSession(a) ==
    /\ call[Inbound] = NoCall
    /\ paired
    /\ call' = [call EXCEPT ![Inbound] = [ok |-> TRUE, host |-> a, now |-> clock]]
    /\ Count
    /\ UNCHANGED <<clock, backend, paired, memory, sqlite, dials, forgetting>>

(* canonical_endpoint: a candidate is dialled, and its failure recorded,   *)
(* under the plain IPv4 address.                                           *)
Canonical(a) == IF a \in Mapped THEN [ipv4 |-> a] ELSE a

(* The call gets the write lock, or its statement runs.                    *)
Apply(t) ==
    /\ call[t] # NoCall
    /\ LET c == call[t] IN
       IF c.ok
       THEN /\ memory' = MemoryAuthenticated(c.host, c.now)
            /\ sqlite' = SqliteAuthenticated(c.host, c.now)
       ELSE /\ memory' = MemoryFailure(Canonical(c.host), c.now)
            /\ sqlite' = SqliteFailure(Canonical(c.host), c.now)
    /\ call' = [call EXCEPT ![t] = NoCall]
    /\ UNCHANGED <<clock, backend, paired, dials, calls, forgetting>>

(* forget: peers.forget cascades to the rows of the table ...              *)
ForgetPeer ==
    /\ ~forgetting
    /\ paired' = FALSE
    /\ sqlite' = {}
    /\ forgetting' = TRUE
    /\ Count
    /\ UNCHANGED <<clock, backend, memory, dials, call>>

(* ... then endpoints.forget.                                              *)
ForgetEndpoints ==
    /\ forgetting
    /\ memory' = <<>>
    /\ sqlite' = {}
    /\ forgetting' = FALSE
    /\ UNCHANGED <<clock, backend, paired, dials, call, calls>>

(* save_pairing of a new pairing with the same device.                     *)
Pair ==
    /\ ~paired
    /\ paired' = TRUE
    /\ UNCHANGED <<clock, backend, memory, sqlite, dials, call, calls, forgetting>>

Tick ==
    /\ clock < MaxClock
    /\ clock' = clock + 1
    /\ UNCHANGED <<backend, paired, memory, sqlite, dials, call, calls, forgetting>>

Next ==
    \/ \E d \in Dials :
         \/ ConnectRemembered(d) \/ ReadEndpoints(d) \/ RaceFails(d)
         \/ \E a \in Addresses : CandidateFails(d, a) \/ CandidateWins(d, a)
    \/ \E a \in Addresses : InboundSession(a)
    \/ \E t \in Writers : Apply(t)
    \/ ForgetPeer \/ ForgetEndpoints \/ Pair \/ Tick

Spec == Init /\ [][Next]_vars

-----------------------------------------------------------------------------
Rows == [address : Addresses, success : 0..MaxClock, failures : Nat, retry : Nat]

TypeOK ==
    /\ clock \in 0..MaxClock
    /\ backend \in {"memory", "sqlite"}
    /\ paired \in BOOLEAN /\ forgetting \in BOOLEAN
    /\ Range(memory) \subseteq Rows /\ Len(memory) <= Limit
    /\ sqlite \subseteq Rows
    /\ phase \in [Dials -> {"idle", "checked", "racing"}]
    /\ left \in [Dials -> SUBSET Addresses]
    /\ listed \in [Dials -> SUBSET Addresses]
    /\ \A d \in Dials : left[d] \subseteq listed[d]
    /\ attempt \in [Dials -> 1..2]
    /\ calls \in 0..MaxCalls
    /\ \A t \in Writers : call[t] # NoCall =>
         call[t] \in [ok : BOOLEAN, host : Addresses, now : 0..clock]

(* The two implementations of EndpointRepository answer alike while both   *)
(* hold rows of this pairing only, at most Limit of them: whatever calls   *)
(* overlapped, the in-memory list offers the rows of the last MaxAge that  *)
(* the SQL query offers.                                                   *)
StoresAgree ==
    /\ paired
    /\ Cardinality(sqlite) <= Limit
    /\ AddressesOf(Range(memory)) \subseteq AddressesOf(sqlite)
    => SqliteAnswers =
         {MemoryAnswer \ AddressesOf({r \in sqlite : r.success < clock - MaxAge})}

=============================================================================
