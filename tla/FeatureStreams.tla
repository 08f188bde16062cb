--------------------------- MODULE FeatureStreams ---------------------------
(***************************************************************************)
(* accept_feature_stream of one session: the header slots, the callers     *)
(* that take turns at them, and a remote end that opens streams and sends  *)
(* their headers in its own time.                                          *)
(***************************************************************************)
EXTENDS Naturals, FiniteSets

CONSTANTS
    Streams,    \* 1..n, in the order the remote end opens them
    Slots,      \* header slots of a session
    Callers,    \* tasks that call accept_feature_stream
    Impatient   \* those whose calls may be dropped

VARIABLES
    up,       \* the connection has no close reason
    header,   \* what has arrived of each header: nothing, valid or invalid
    stream,   \* where each stream is
    caller,   \* out, waiting for the lock of pending_headers, or holding it
    late      \* history: streams whose header was not there when it was asked for

vars == <<up, header, stream, caller, late>>

Pending == {s \in Streams : stream[s] \in {"reading", "parsed", "rejected"}}
Joinable == {s \in Streams : stream[s] \in {"parsed", "rejected"}}

Init ==
    /\ up = TRUE
    /\ header = [s \in Streams |-> "nothing"]
    /\ stream = [s \in Streams |-> "unopened"]
    /\ caller = [t \in Callers |-> "out"]
    /\ late = {}

Move(s, to) == stream' = [stream EXCEPT ![s] = to]

(* The remote end: opens a stream, sends its header, possibly later.       *)
Open(s) ==
    /\ up
    /\ stream[s] = "unopened"
    /\ \A r \in Streams : r < s => stream[r] # "unopened"
    /\ Move(s, "queued")
    /\ UNCHANGED <<up, header, caller, late>>

SendHeader(s, h) ==
    /\ up
    /\ stream[s] \in {"queued", "reading"}
    /\ header[s] = "nothing"
    /\ header' = [header EXCEPT ![s] = h]
    /\ UNCHANGED <<up, stream, caller, late>>

Close ==
    /\ up
    /\ up' = FALSE
    /\ UNCHANGED <<header, stream, caller, late>>

(* accept_feature_stream is called, and gets the lock.                     *)
Call(t) ==
    /\ caller[t] = "out"
    /\ caller' = [caller EXCEPT ![t] = "waiting"]
    /\ UNCHANGED <<up, header, stream, late>>

Lock(t) ==
    /\ caller[t] = "waiting"
    /\ \A r \in Callers : caller[r] # "holding"
    /\ caller' = [caller EXCEPT ![t] = "holding"]
    /\ UNCHANGED <<up, header, stream, late>>

Return(t) == caller' = [caller EXCEPT ![t] = "out"]

(* The branches of the biased select, in their order.                      *)
ReturnClosed(t) ==
    /\ caller[t] = "holding"
    /\ ~up
    /\ Return(t)
    /\ UNCHANGED <<up, header, stream, late>>

Join(t, s) ==
    /\ caller[t] = "holding"
    /\ up
    /\ s \in Joinable
    /\ IF stream[s] = "parsed"
       THEN Move(s, "delivered") /\ Return(t)
       ELSE Move(s, "refused") /\ UNCHANGED caller
    /\ UNCHANGED <<up, header, late>>

Accept(t, s) ==
    /\ caller[t] = "holding"
    /\ up
    /\ Joinable = {}
    /\ Cardinality(Pending) < Slots
    /\ stream[s] = "queued"
    /\ \A r \in Streams : r < s => stream[r] # "queued"
    /\ Move(s, "reading")
    /\ late' = IF header[s] = "nothing" THEN late \cup {s} ELSE late
    /\ UNCHANGED <<up, header, caller>>

(* Mutant: the tasks belong to the call and are aborted with it.           *)
DropCallerAborts(t) ==
    /\ t \in Impatient
    /\ caller[t] # "out"
    /\ Return(t)
    /\ stream' = [s \in Streams |->
           IF caller[t] = "holding" /\ s \in Pending THEN "refused" ELSE stream[s]]
    /\ UNCHANGED <<up, header, late>>

(* The future of a caller is dropped, at the lock or in the select.        *)
DropCaller(t) ==
    /\ t \in Impatient
    /\ caller[t] # "out"
    /\ Return(t)
    /\ UNCHANGED <<up, header, stream, late>>

(* read_feature_header: a header that has arrived is validated ...         *)
Parse(s) ==
    /\ stream[s] = "reading"
    /\ header[s] # "nothing"
    /\ Move(s, IF header[s] = "valid" THEN "parsed" ELSE "rejected")
    /\ UNCHANGED <<up, header, caller, late>>

(* Mutant: no timeout, only the end of the connection ends the read.       *)
GiveUpWhenClosed(s) ==
    /\ stream[s] = "reading"
    /\ header[s] = "nothing"
    /\ ~up
    /\ Move(s, "rejected")
    /\ UNCHANGED <<up, header, caller, late>>

(* ... and one that does not arrive in time, or at all, resets the stream. *)
GiveUp(s) ==
    /\ stream[s] = "reading"
    /\ header[s] = "nothing"
    /\ Move(s, "rejected")
    /\ UNCHANGED <<up, header, caller, late>>

Select(t) == ReturnClosed(t) \/ \E s \in Streams : Join(t, s) \/ Accept(t, s)

Next ==
    \/ Close
    \/ \E s \in Streams :
           Open(s) \/ (\E h \in {"valid", "invalid"} : SendHeader(s, h)) \/ Parse(s) \/ GiveUp(s)
    \/ \E t \in Callers : Call(t) \/ Lock(t) \/ Select(t) \/ DropCaller(t)

(* Tasks that can run do, and the timeout of a header passes.  A feature   *)
(* service that does not drop its calls calls again whenever one has       *)
(* returned; the lock is a queue, so it gets the lock among the others.    *)
Fairness ==
    /\ \A s \in Streams : WF_vars(Parse(s)) /\ WF_vars(GiveUp(s))
    /\ \A t \in Callers : WF_vars(Select(t))
    /\ \A t \in Callers \ Impatient : WF_vars(Call(t)) /\ SF_vars(Lock(t))

Spec == Init /\ [][Next]_vars /\ Fairness

-----------------------------------------------------------------------------
TypeOK ==
    /\ up \in BOOLEAN
    /\ header \in [Streams -> {"nothing", "valid", "invalid"}]
    /\ stream \in [Streams ->
           {"unopened", "queued", "reading", "parsed", "rejected", "delivered", "refused"}]
    /\ caller \in [Callers -> {"out", "waiting", "holding"}]
    /\ Cardinality(Pending) <= Slots
    /\ Cardinality({t \in Callers : caller[t] = "holding"}) <= 1

(* "Dropping the caller preserves already accepted streams": a stream is   *)
(* refused only for an invalid header or for one that was not there when   *)
(* a slot asked for it.                                                    *)
StreamsRefusedForCause ==
    \A s \in Streams : stream[s] = "refused" => header[s] = "invalid" \/ s \in late

(* "Incomplete headers occupy one of eight bounded parsing slots, not the  *)
(* entire session": a stream whose valid header arrived before its turn is *)
(* handed to a caller however many silent streams are ahead of it, unless  *)
(* the connection closes.                                                  *)
CompleteStreamsServed ==
    \A s \in Streams :
        stream[s] = "queued" /\ header[s] = "valid" ~> stream[s] = "delivered" \/ ~up
=============================================================================
