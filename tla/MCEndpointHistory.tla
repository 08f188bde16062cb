-------------------------- MODULE MCEndpointHistory --------------------------
(* TLC instance of EndpointHistory, with a history variable: what the       *)
(* calls have reported about each address since the peer was paired.        *)
EXTENDS EndpointHistory, TLC

DialSymmetry == Permutations(Dials) \cup Permutations(Native)

VARIABLES
    report,       \* stamp of the last failure since the last success, or:
    late          \* a success has replaced a later one of the same address
Unknown == -2     \* never authenticated in this pairing
Fresh == -1       \* authenticated, no failure since

ReportedBy(a) == {t \in Writers : call[t] # NoCall /\ call'[t] = NoCall /\ call[t].host = a}

MCInit == Init /\ report = [a \in Addresses |-> Unknown] /\ late = FALSE

MCNext ==
    /\ Next
    /\ report' = [a \in Addresses |->
         IF forgetting' # forgetting THEN Unknown
         ELSE IF ReportedBy(a) = {} THEN report[a]
         ELSE LET c == call[CHOOSE t \in ReportedBy(a) : TRUE] IN
              IF c.ok THEN IF paired THEN Fresh ELSE report[a]
              ELSE IF report[a] = Unknown THEN Unknown ELSE c.now]
    /\ late' = IF memory' = <<>> THEN FALSE
               ELSE late \/ \E r \in Range(memory), q \in Range(memory') :
                              r.address = q.address /\ q.success < r.success

MCSpec == MCInit /\ [][MCNext]_<<vars, report, late>>

ListedNow(d, a) == phase[d] = "checked" /\ phase'[d] = "racing" /\ a \in listed'[d]

(* connect_remembered does not dial an address again within the first      *)
(* backoff (two seconds) of a failure that was recorded after its last     *)
(* success, whichever dial recorded it.  Here for the addresses that are   *)
(* dialled in the form they are stored in.                                 *)
NoEarlyRedial ==
    [][\A d \in Dials, a \in Native :
         ListedNow(d, a) /\ report[a] >= 0 => clock >= report[a] + 2]_<<vars, report, late>>

(* The test of the backoff, repository.rs:595-596, for every address:      *)
(* after a recorded failure the address is not offered.                    *)
NoEarlyRedialAnyAddress ==
    [][\A d \in Dials, a \in Addresses :
         ListedNow(d, a) /\ report[a] >= 0 => clock >= report[a] + 2]_<<vars, report, late>>

(* An address whose last report is a success of this pairing is offered by *)
(* both stores, unless it is older than MaxAge (SQLite only) or Limit      *)
(* other addresses were authenticated no earlier: neither a leftover       *)
(* backoff nor the limit can hide the newest route to the peer.            *)
FreshIsOffered ==
    \A r \in sqlite :
      LET newer == AddressesOf({q \in sqlite \cup Range(memory) :
                                 q.address # r.address /\ q.success >= r.success}) IN
      report[r.address] = Fresh /\ Cardinality(newer) < Limit
        => /\ r.success >= clock - MaxAge => \A list \in SqliteAnswers : r.address \in list
           /\ ~late => r.address \in MemoryAnswer
=============================================================================
