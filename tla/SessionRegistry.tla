--------------------------- MODULE SessionRegistry ---------------------------
(***************************************************************************)
(* The session table of one NetworkRuntime: who may put an authenticated   *)
(* connection into it, which connection wins, what is closed, and when an  *)
(* entry disappears.                                                       *)
(*                                                                         *)
(* A connection id stands for one QUIC connection with its Session object. *)
(* Four callers register sessions: connect (direct outbound), the accept   *)
(* loop (direct inbound), connect_input_relay and accept_input_relay.      *)
(* Every step between two awaits of those callers is an action here, so    *)
(* registrations of different tasks interleave as the executor allows.     *)
(*                                                                         *)
(* Abstractions: an endpoint race is one outbound connection (DialRace     *)
(* models the race); a rank is its initiator id, because register_session  *)
(* compares ranks only when the initiators differ; a process instance id   *)
(* is the number of the peer process that sent it.  The branch of          *)
(* register_session for the very same Session object is left out: each     *)
(* caller registers a Session it has just created.                         *)
(***************************************************************************)
EXTENDS Naturals, Sequences, Functions

CONSTANTS
    Local,            \* device id of this runtime
    Peers,            \* device ids of the peers; ids are ordered
    Kinds,            \* session kinds kept in the table
    RealtimeInput,    \* the kind that may also arrive through a relay
    Conns,            \* connection ids
    NoConn,           \* no connection
    NoSession,        \* no Session object yet
    MaxRetired,       \* MAX_RETIRED_PEER_INSTANCES
    MaxProcess,       \* bound: processes a peer runs one after the other
    LegacyProcesses   \* processes of a release that sends no instance id

ASSUME ConstantsOK ==
    /\ Local \in Nat
    /\ Peers \subseteq Nat \ {Local}
    /\ RealtimeInput \in Kinds
    /\ NoConn \notin Conns
    /\ MaxRetired \in Nat \ {0}
    /\ MaxProcess \in Nat \ {0}
    /\ LegacyProcesses \subseteq 1..MaxProcess

VARIABLES
    stage,     \* progress of the task that owns the connection
    session,   \* peer, kind, origin and instance of the Session object
    result,    \* the Session that register_session returned to the task
    open,      \* connections without a close_reason at this end
    handle,    \* connections whose Arc<Session> is still held somewhere
    streams,   \* connections some FeatureStream or transport handle is held of
    table,     \* sessions: (peer, kind) -> ActiveSession
    gate,      \* session_dials: the connection being dialled under the lock
    running    \* number of the process each peer is running

vars == <<stage, session, result, open, handle, streams, table, gate, running>>

NoInstance == 0
Origins == {"connect", "accept", "relay_connect", "relay_accept"}
Info == [peer : Peers, kind : Kinds, origin : Origins, instance : Nat]
Keys == Peers \X Kinds
Entry == [conn : Conns \cup {NoConn}, retired : Seq(Nat)]
NoEntry == [conn |-> NoConn, retired |-> <<>>]

Key(c) == <<session[c].peer, session[c].kind>>
Outbound(c) == session[c].origin \in {"connect", "relay_connect"}
Relayed(c) == session[c].origin \in {"relay_connect", "relay_accept"}
Initiator(c) == IF Outbound(c) THEN Local ELSE session[c].peer
InstanceOf(process) == IF process \in LegacyProcesses THEN NoInstance ELSE process

(* The Weak<Session> of the entry upgrades and its connection has no close *)
(* reason: what active() and the rejection path of register_session ask.   *)
Usable(k) == table[k].conn \in handle \cap open

(* A direct connection closes when its last Connection or stream handle is *)
(* dropped.  A relayed one closes when its RelayTunnel is dropped, and only *)
(* the Session object and the table entry hold that.                       *)
Anchored(c) ==
    \/ c \in handle'
    \/ table'[Key(c)].conn = c
    \/ c \in streams' /\ ~Relayed(c)

CloseExcept(o) == open' = {c \in o : Anchored(c)}

-----------------------------------------------------------------------------
Init ==
    /\ stage = [c \in Conns |-> "unused"]
    /\ session = [c \in Conns |-> NoSession]
    /\ result = [c \in Conns |-> NoConn]
    /\ open = {}
    /\ handle = {}
    /\ streams = {}
    /\ table = [k \in Keys |-> NoEntry]
    /\ gate = [k \in Keys |-> NoConn]
    /\ running = [p \in Peers |-> 1]

(* connect, connect_remembered, connect_paired_at: take the dial lock of   *)
(* the key, let active() drop a dead entry, start dialling.                *)
StartConnect(c, p, kind) ==
    LET k == <<p, kind>> IN
    /\ stage[c] = "unused"
    /\ gate[k] = NoConn
    /\ ~Usable(k)
    /\ stage' = [stage EXCEPT ![c] = "dialing"]
    /\ session' = [session EXCEPT ![c] =
           [peer |-> p, kind |-> kind, origin |-> "connect", instance |-> NoInstance]]
    /\ gate' = [gate EXCEPT ![k] = c]
    /\ table' = [table EXCEPT ![k] = NoEntry]
    /\ UNCHANGED <<result, handle, streams, running>>
    /\ CloseExcept(open)

(* connect_input_relay: active() drops a dead entry; no dial lock is taken. *)
StartRelayConnect(c, p) ==
    LET k == <<p, RealtimeInput>> IN
    /\ stage[c] = "unused"
    /\ ~Usable(k)
    /\ stage' = [stage EXCEPT ![c] = "dialing"]
    /\ session' = [session EXCEPT ![c] =
           [peer |-> p, kind |-> RealtimeInput, origin |-> "relay_connect",
            instance |-> NoInstance]]
    /\ table' = [table EXCEPT ![k] = NoEntry]
    /\ UNCHANGED <<result, handle, streams, gate, running>>
    /\ CloseExcept(open)

Release(c) ==
    gate' = [k \in Keys |-> IF gate[k] = c THEN NoConn ELSE gate[k]]

(* Every candidate failed or timed out: the error releases the dial lock.  *)
DialFails(c) ==
    /\ stage[c] = "dialing"
    /\ stage' = [stage EXCEPT ![c] = "unused"]
    /\ session' = [session EXCEPT ![c] = NoSession]
    /\ Release(c)
    /\ UNCHANGED <<result, open, handle, streams, table, running>>

(* finish_authentication of a dialled connection: the instance id is the   *)
(* one in the SessionAccepted this end reads, which the process that sent  *)
(* it may not have survived.                                               *)
AuthenticateOutbound(c, process) ==
    /\ stage[c] = "dialing"
    /\ process <= running[session[c].peer]
    /\ stage' = [stage EXCEPT ![c] = "authenticated"]
    /\ session' = [session EXCEPT ![c].instance = InstanceOf(process)]
    /\ open' = open \cup {c}
    /\ handle' = handle \cup {c}
    /\ UNCHANGED <<result, streams, table, gate, running>>

(* authenticate_inbound, from the accept loop or from accept_input_relay.  *)
AuthenticateInbound(c, p, kind, origin, process) ==
    /\ stage[c] = "unused"
    /\ process <= running[p]
    /\ origin \in {"accept", "relay_accept"}
    /\ origin = "relay_accept" => kind = RealtimeInput
    /\ stage' = [stage EXCEPT ![c] = "authenticated"]
    /\ session' = [session EXCEPT ![c] =
           [peer |-> p, kind |-> kind, origin |-> origin, instance |-> InstanceOf(process)]]
    /\ open' = open \cup {c}
    /\ handle' = handle \cup {c}
    /\ UNCHANGED <<result, streams, table, gate, running>>

-----------------------------------------------------------------------------
(* The decisions of register_session about an incoming session c and the   *)
(* entry of its key.                                                       *)
Current(c) == table[Key(c)].conn

NeverObsolete(c) == FALSE   \* mutant: the retired list is kept but not consulted

Obsolete(c) ==
    /\ session[c].instance # NoInstance
    /\ session[c].instance \in Range(table[Key(c)].retired)

Restarted(c) ==
    /\ Current(c) # NoConn
    /\ session[Current(c)].instance # NoInstance
    /\ session[c].instance # NoInstance
    /\ session[Current(c)].instance # session[c].instance

SameInitiator(c) == Initiator(Current(c)) = Initiator(c)
KeepDirect(c) == ~SameInitiator(c) /\ ~Relayed(Current(c)) /\ Relayed(c)
PreferDirect(c) == Relayed(Current(c)) /\ ~Relayed(c)

(* Mutant: the first registered session always wins.                      *)
KeepsFirst(c) == Usable(Key(c)) /\ ~Restarted(c)

(* A live entry stays unless the peer restarted, the newcomer is a         *)
(* reconnect of the same initiator, a direct path replaces a relay, or the *)
(* newcomer ranks lower.                                                   *)
KeepsCurrent(c) ==
    /\ Usable(Key(c))
    /\ ~Restarted(c)
    /\ \/ KeepDirect(c)
       \/ /\ ~PreferDirect(c)
          /\ ~SameInitiator(c)
          /\ Initiator(Current(c)) <= Initiator(c)

(* Mutant: the replaced instance is pushed even when it did not change.    *)
RetireAlways(c) ==
    LET longer == Append(table[Key(c)].retired, session[Current(c)].instance)
    IN IF Current(c) = NoConn THEN table[Key(c)].retired
       ELSE IF Len(longer) > MaxRetired THEN Tail(longer) ELSE longer

(* push_back of the previous instance, then pop_front beyond the bound.    *)
Retire(c) ==
    LET longer == Append(table[Key(c)].retired, session[Current(c)].instance)
    IN IF ~Restarted(c) THEN table[Key(c)].retired
       ELSE IF Len(longer) > MaxRetired THEN Tail(longer) ELSE longer

(* What register_session returns: the session itself, the live one it      *)
(* lost to, or an error (NoConn).                                          *)
Returned(c) ==
    IF Obsolete(c) THEN IF Usable(Key(c)) THEN Current(c) ELSE NoConn
    ELSE IF KeepsCurrent(c) THEN Current(c) ELSE c

(* Mutants: the replaced connection is not closed; the loser is not        *)
(* closed; the rejection closes the connection it keeps.                   *)
ClosesOnlyTheLoser(c) == IF Obsolete(c) \/ KeepsCurrent(c) THEN {c} ELSE {}

ClosesOnlyTheReplaced(c) ==
    IF ~(Obsolete(c) \/ KeepsCurrent(c)) /\ (Restarted(c) \/ Usable(Key(c)))
    THEN {Current(c)} ELSE {}

ClosesTheKept(c) ==
    IF Obsolete(c) THEN {c}
    ELSE IF Restarted(c) \/ Usable(Key(c)) THEN {Current(c)} ELSE {}

(* Connections register_session closes explicitly.                         *)
Closed(c) ==
    IF Obsolete(c) \/ KeepsCurrent(c) THEN {c}
    ELSE IF Restarted(c) \/ Usable(Key(c)) THEN {Current(c)} ELSE {}

(* Mutant: the entry is inserted before the decision is made.              *)
RegisterSessionInsertsFirst(c) ==
    /\ stage[c] = "authenticated"
    /\ stage' = [stage EXCEPT ![c] =
           IF session[c].origin = "connect" /\ Returned(c) # NoConn
           THEN "registered" ELSE "done"]
    /\ result' = [result EXCEPT ![c] = Returned(c)]
    /\ table' = [table EXCEPT ![Key(c)] = [conn |-> c, retired |-> Retire(c)]]
    /\ handle' = IF Returned(c) = c THEN handle ELSE handle \ {c}
    /\ IF Returned(c) = NoConn THEN Release(c) ELSE UNCHANGED gate
    /\ UNCHANGED <<session, streams, running>>
    /\ CloseExcept(open \ Closed(c))

(* register_session, under the table lock.  A loser's own Session object   *)
(* is dropped by its task.  A direct dial goes on to remember the returned *)
(* session, still under its dial lock; the other callers are done.         *)
RegisterSession(c) ==
    /\ stage[c] = "authenticated"
    /\ stage' = [stage EXCEPT ![c] =
           IF session[c].origin = "connect" /\ Returned(c) # NoConn
           THEN "registered" ELSE "done"]
    /\ result' = [result EXCEPT ![c] = Returned(c)]
    /\ table' = IF Returned(c) = c
                THEN [table EXCEPT ![Key(c)] = [conn |-> c, retired |-> Retire(c)]]
                ELSE table
    /\ handle' = IF Returned(c) = c THEN handle ELSE handle \ {c}
    /\ IF Returned(c) = NoConn THEN Release(c) ELSE UNCHANGED gate
    /\ UNCHANGED <<session, streams, running>>
    /\ CloseExcept(open \ Closed(c))

(* remember_authenticated_session for the Session the race returned, then  *)
(* connect returns and drops the dial lock.                                *)
RememberDialed(c) ==
    /\ stage[c] = "registered"
    /\ stage' = [stage EXCEPT ![c] = "done"]
    /\ Release(c)
    /\ UNCHANGED <<session, result, open, handle, streams, table, running>>

-----------------------------------------------------------------------------
(* disconnect, and the last part of forget: every entry of the peer is     *)
(* removed and its connection closed.                                      *)
Disconnect(p) ==
    LET doomed == {table[k].conn : k \in {p} \X Kinds} IN
    /\ \E k \in {p} \X Kinds : table[k].conn # NoConn
    /\ table' = [k \in Keys |-> IF k[1] = p THEN NoEntry ELSE table[k]]
    /\ UNCHANGED <<stage, session, result, handle, streams, gate, running>>
    /\ CloseExcept(open \ doomed)

(* grant of CrossScreenInject: only the realtime input entry goes.         *)
GrantInject(p) ==
    LET k == <<p, RealtimeInput>> IN
    /\ table[k].conn # NoConn
    /\ table' = [table EXCEPT ![k] = NoEntry]
    /\ UNCHANGED <<stage, session, result, handle, streams, gate, running>>
    /\ CloseExcept(open \ {table[k].conn})

(* The peer, the application (Session::close) or the transport's idle      *)
(* timeout closes the connection.                                          *)
TransportCloses(c) ==
    /\ c \in open
    /\ open' = open \ {c}
    /\ UNCHANGED <<stage, session, result, handle, streams, table, gate, running>>

(* The task register_input_relay spawned sees its connection closed and    *)
(* removes the entry if it is still this connection's.                     *)
RelayWatcher(c) ==
    /\ stage[c] = "done"
    /\ Relayed(c)
    /\ c \notin open
    /\ Current(c) = c
    /\ table' = [table EXCEPT ![Key(c)] = NoEntry]
    /\ UNCHANGED <<stage, session, result, open, handle, streams, gate, running>>

(* Mutant: the session reaches features before register_session is done.   *)
OpenStreamUnregistered(c) ==
    /\ c \in handle \cap open
    /\ c \notin streams
    /\ streams' = streams \cup {c}
    /\ UNCHANGED <<stage, session, result, open, handle, table, gate, running>>

(* A feature opens or accepts a stream: the FeatureStream does not own the *)
(* Session.  active() and the winner that register_session returns to      *)
(* another caller hand out a session whose dialler still remembers it.     *)
OpenStream(c) ==
    /\ stage[c] \in {"registered", "done"}
    /\ c \in handle \cap open
    /\ c \notin streams
    /\ streams' = streams \cup {c}
    /\ UNCHANGED <<stage, session, result, open, handle, table, gate, running>>

(* The last Arc<Session> of a finished task goes away.                     *)
DropHandle(c) ==
    /\ stage[c] = "done"
    /\ c \in handle
    /\ \A d \in Conns : stage[d] = "registered" => result[d] # c
    /\ handle' = handle \ {c}
    /\ UNCHANGED <<stage, session, result, streams, table, gate, running>>
    /\ CloseExcept(open)

DropStreams(c) ==
    /\ c \in streams
    /\ streams' = streams \ {c}
    /\ UNCHANGED <<stage, session, result, handle, table, gate, running>>
    /\ CloseExcept(open)

(* The peer process ends and another one starts.  Its connections close    *)
(* here later, when the transport times out (TransportCloses).             *)
Restart(p) ==
    /\ running[p] < MaxProcess
    /\ running' = [running EXCEPT ![p] = @ + 1]
    /\ UNCHANGED <<stage, session, result, open, handle, streams, table, gate>>

(* Bookkeeping of the model: the id of a connection that nothing refers to *)
(* any more is used again.                                                 *)
Recycle(c) ==
    /\ stage[c] = "done"
    /\ c \notin open \cup handle \cup streams
    /\ Current(c) # c
    /\ stage' = [stage EXCEPT ![c] = "unused"]
    /\ session' = [session EXCEPT ![c] = NoSession]
    /\ result' = [result EXCEPT ![c] = NoConn]
    /\ UNCHANGED <<open, handle, streams, table, gate, running>>

Next ==
    \/ \E c \in Conns, p \in Peers, kind \in Kinds : StartConnect(c, p, kind)
    \/ \E c \in Conns, p \in Peers : StartRelayConnect(c, p)
    \/ \E c \in Conns : DialFails(c)
    \/ \E c \in Conns, process \in 1..MaxProcess : AuthenticateOutbound(c, process)
    \/ \E c \in Conns, p \in Peers, kind \in Kinds, origin \in Origins, process \in 1..MaxProcess :
           AuthenticateInbound(c, p, kind, origin, process)
    \/ \E c \in Conns : RegisterSession(c)
    \/ \E c \in Conns : RememberDialed(c)
    \/ \E p \in Peers : Disconnect(p)
    \/ \E p \in Peers : GrantInject(p)
    \/ \E c \in Conns : TransportCloses(c)
    \/ \E c \in Conns : RelayWatcher(c)
    \/ \E c \in Conns : OpenStream(c)
    \/ \E c \in Conns : DropHandle(c)
    \/ \E c \in Conns : DropStreams(c)
    \/ \E p \in Peers : Restart(p)
    \/ \E c \in Conns : Recycle(c)

Spec == Init /\ [][Next]_vars

-----------------------------------------------------------------------------
Stages == {"unused", "dialing", "authenticated", "registered", "done"}

(* Types, and what each stage of a task says about its connection.         *)
TypeOK ==
    /\ stage \in [Conns -> Stages]
    /\ session \in [Conns -> Info \cup {NoSession}]
    /\ \A c \in Conns : stage[c] # "unused" => session[c] \in Info
    /\ result \in [Conns -> Conns \cup {NoConn}]
    /\ open \subseteq {c \in Conns : stage[c] \in {"authenticated", "registered", "done"}}
    /\ handle \subseteq {c \in Conns : stage[c] \in {"authenticated", "registered", "done"}}
    /\ \A c \in Conns : stage[c] = "authenticated" => c \in handle
    /\ streams \subseteq {c \in Conns : stage[c] \in {"registered", "done"}}
    /\ table \in [Keys -> Entry]
    /\ gate \in [Keys -> Conns \cup {NoConn}]
    /\ running \in [Peers -> 1..MaxProcess]

(* The connection of an entry is one that register_session admitted under  *)
(* exactly that key, so no connection sits in the table twice or under     *)
(* another peer, and none gets there before its task called                *)
(* register_session.                                                       *)
EntriesAdmitted ==
    \A k \in Keys : table[k].conn # NoConn =>
        /\ stage[table[k].conn] \in {"registered", "done"}
        /\ result[table[k].conn] = table[k].conn
        /\ Key(table[k].conn) = k

(* retired_peer_instances never holds the instance of the session it       *)
(* belongs to, never repeats an instance and stays within its bound: the   *)
(* session in the table cannot be refused as obsolete against its own      *)
(* entry.                                                                  *)
RetiredHistory ==
    \A k \in Keys :
        LET past == table[k].retired IN
        /\ Len(past) <= MaxRetired
        /\ \A i, j \in DOMAIN past : i # j => past[i] # past[j]
        /\ NoInstance \notin Range(past)
        /\ table[k].conn = NoConn => past = <<>>
        /\ table[k].conn # NoConn => session[table[k].conn].instance \notin Range(past)

(* A live session that the application can still reach through its         *)
(* Arc<Session> is the one in the table: replacement, rejection and        *)
(* removal never strand one, so disconnect, grant, revoke and forget find  *)
(* it.  In particular one key never has two of them.                       *)
HeldSessionIsInTable ==
    \A c \in Conns :
        stage[c] \in {"registered", "done"} /\ c \in open \cap handle
            => table[Key(c)].conn = c

(* While an entry lives, a process it has retired never gets the slot      *)
(* back, in whatever order delayed registrations arrive.                   *)
RetiredNeverReturns ==
    [][\A k \in Keys :
           table[k].conn # NoConn /\ table'[k].conn # NoConn
               => session'[table'[k].conn].instance \notin Range(table[k].retired)]_vars

(* Arbitration never costs a peer its session: registering a connection    *)
(* that is still open leaves a usable session under a key that had one.    *)
ArbitrationKeepsASession ==
    [][\A c \in Conns :
           RegisterSession(c) /\ c \in open /\ Usable(Key(c)) => Usable(Key(c))']_vars

=============================================================================
