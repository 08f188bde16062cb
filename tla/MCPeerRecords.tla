---------------------------- MODULE MCPeerRecords ----------------------------
(* What a node stores about a peer: TLC instances of Trust and of            *)
(* EndpointHistory.  A behaviour is one of three scenarios.  "sequential":   *)
(* one call of Trust at a time, whichever it is.  "concurrent": all calls    *)
(* overlap, with fewer session kinds and until a forget has failed halfway   *)
(* or a call has acted on a stale read.  "endpoints": the endpoint history.  *)
EXTENDS MCTrust, FiniteSets

CONSTANTS Native, Mapped, Dials, Limit, MaxExponent, DelayCap, MaxAge, MaxClock, MaxCalls, NoCall

ASSUME RecordConstantsOK == IsFiniteSet(Tasks)

(* The plain form of a mapped address is none of the addresses, and the    *)
(* cap in the SQL statement is above the largest backoff.                  *)
ASSUME HistoryConstantsOK ==
    /\ Native \cap Mapped = {} /\ \A a \in Mapped : [ipv4 |-> a] \notin Native \cup Mapped
    /\ IsFiniteSet(Native \cup Mapped) /\ "inbound" \notin Dials
    /\ Limit \in Nat \ {0} /\ MaxExponent \in Nat \ {0} /\ {DelayCap, MaxAge, MaxClock} \subseteq Nat
    /\ \A n \in 1..MaxExponent : 2^n \in 2..DelayCap

VARIABLES
    scenario,
    halfForgotten,   \* history: a forget has failed with the peer's row gone
    staleRead,       \* history: a call has acted on grants that changed since its read
    gone,            \* history: grants that went and that no call has been asked for since
    clock, backend, known, memory, sqlite, phase, left, listed, attempt, call, calls, forgetting,
    report, late

History == INSTANCE MCEndpointHistory WITH paired <- known

trustVars == <<vars, halfForgotten, staleRead, gone>>
historyVars == <<clock, backend, known, memory, sqlite, phase, left, listed, attempt, call,
                 calls, forgetting, report, late>>

RecordSymmetry == TaskSymmetry \cup Permutations(Dials) \cup Permutations(Native)

InScenario ==
    CASE scenario = "sequential" -> Cardinality({t \in Tasks : step[t] # "idle"}) <= 1
      [] scenario = "concurrent" -> \A t \in Tasks : kind[t] \notin OtherKinds

Continues == scenario = "concurrent" => ~halfForgotten /\ ~staleRead

(* A pairing drops a grant that was added after it had read the others, or  *)
(* a relay is registered whose grant went after it was required.            *)
ActsOnStaleRead(t) ==
    \/ PairSave(t) /\ ~(grants \subseteq grants')
    \/ Register(t) /\ ~(read[t] \subseteq grants)

(* What the pairings under way will write: the grants they have read and    *)
(* those they were asked to add; and what a call that starts is asked to    *)
(* add.                                                                     *)
Pending == UNION {read[t] \cup arg[t] : t \in {u \in Tasks : step[u] = "pair_save"}}
Asking ==
    UNION {arg'[t] : t \in {u \in Tasks : step[u] = "idle" /\ op'[u] \in {"pair", "grant"}}}

Noted ==
    /\ halfForgotten' = (halfForgotten
           \/ \E t \in Tasks : step[t] = "forget_endpoints" /\ StorageError(t))
    /\ staleRead' = (staleRead \/ \E t \in Tasks : ActsOnStaleRead(t))
    /\ gone' = (gone \ Asking) \cup ((grants \ grants') \ Pending)

(* Trust with the history variables, and nothing left out.                  *)
TrustInit == Init /\ halfForgotten = FALSE /\ staleRead = FALSE /\ gone = {}

TrustNext == Next /\ Noted

TrustSpec == TrustInit /\ [][TrustNext]_trustVars

MCInit ==
    /\ scenario \in {"sequential", "concurrent", "endpoints"}
    /\ TrustInit
    /\ History!MCInit
    /\ scenario = "endpoints" => ~paired
    /\ scenario # "endpoints" => backend = "memory"

MCNext ==
    /\ UNCHANGED scenario
    /\ \/ scenario # "endpoints" /\ Continues /\ TrustNext /\ InScenario' /\ UNCHANGED historyVars
       \/ scenario = "endpoints" /\ History!MCNext /\ UNCHANGED trustVars

MCSpec == MCInit /\ [][MCNext]_<<scenario, trustVars, historyVars>>

-----------------------------------------------------------------------------
(* "tears down all feature sessions so stale authority cannot survive in    *)
(* memory": a forget that no other call overlaps, and that does not fail    *)
(* halfway, leaves no session behind.                                       *)
LoneForgetClosesSessions ==
    scenario = "sequential" /\ ~halfForgotten => NoSessionSurvivesForget

(* However the calls overlap, a session outlives a grant it was given in    *)
(* two ways only: a forget has failed halfway, or a call has acted on       *)
(* grants that changed after it had read them (revoke, forget, grant,       *)
(* confirm_pairing_with_grants and accept_input_relay).                     *)
RevokedGrantIsClosed == ~halfForgotten /\ ~staleRead => StaleGrantIsBeingClosed

(* A grant that revoke or forget has removed is back only if a call was     *)
(* asked to add it since, or a pairing had read it before it went           *)
(* (confirm_pairing_with_grants writes back what it has read).              *)
RevokedStaysRevoked == gone \cap grants = {}

(* Both endpoint stores answer alike (EndpointRepository).                  *)
StoresAgree == History!StoresAgree

(* Neither a leftover backoff nor the limit hides the newest route.         *)
FreshIsOffered == History!FreshIsOffered

(* No address is dialled within the backoff of a recorded failure.          *)
NoEarlyRedial == History!NoEarlyRedial
=============================================================================
