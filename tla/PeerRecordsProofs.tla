--------------------------- MODULE PeerRecordsProofs ---------------------------
(***************************************************************************)
(* Proofs about what a node stores about a peer and the authority its      *)
(* sessions have, for any number of calls, capabilities and session kinds. *)
(***************************************************************************)
EXTENDS MCPeerRecords, TLAPS

(* The provers of a leaf that names none, and their seconds. A leaf that   *)
(* needs arithmetic, functions or records names SMT.                       *)
USE ZenonT(30), SMTT(30)

(* Most steps leave the database alone.                                    *)
LEMMA StoredUntouched ==
    ASSUME RowsNeedAPeer, UNCHANGED stored PROVE RowsNeedAPeer'
  BY DEF RowsNeedAPeer, stored

LEMMA NextRows == ASSUME RowsNeedAPeer, [Next]_vars PROVE RowsNeedAPeer'
<1>1. ASSUME NEW t \in Tasks, NEW caps \in SUBSET Capabilities, PairRead(t, caps)
      PROVE  RowsNeedAPeer'
  BY <1>1, StoredUntouched DEF PairRead
<1>2. ASSUME NEW t \in Tasks, PairSave(t) \/ AutoSave(t) PROVE RowsNeedAPeer'
  BY <1>2 DEF PairSave, AutoSave, RowsNeedAPeer
<1>3. ASSUME NEW t \in Tasks, ForgetPeer(t) PROVE RowsNeedAPeer'
  BY <1>3 DEF ForgetPeer, RowsNeedAPeer
<1>4. ASSUME NEW t \in Tasks, ForgetEndpoints(t) PROVE RowsNeedAPeer'
  BY <1>4 DEF ForgetEndpoints, RowsNeedAPeer
<1>5. ASSUME NEW t \in Tasks, CloseAll(t) \/ CloseForGrant(t) PROVE RowsNeedAPeer'
  BY <1>5, StoredUntouched DEF CloseAll, CloseForGrant
<1>6. ASSUME NEW t \in Tasks, NEW c \in Capabilities, GrantSave(t, c) PROVE RowsNeedAPeer'
  BY <1>6 DEF GrantSave, RowsNeedAPeer
<1>7. ASSUME NEW t \in Tasks, NEW c \in Capabilities, RevokeDelete(t, c) PROVE RowsNeedAPeer'
  BY <1>7 DEF RevokeDelete, RowsNeedAPeer
<1>8. ASSUME NEW t \in Tasks, NEW origin \in Origins, NEW k \in Kinds, Check(t, origin, k)
      PROVE  RowsNeedAPeer'
  BY <1>8, StoredUntouched DEF Check
<1>9. ASSUME NEW t \in Tasks,
             AutoRead(t) \/ Authorize(t) \/ Register(t) \/ Recheck(t) \/ StorageError(t)
      PROVE  RowsNeedAPeer'
  BY <1>9, StoredUntouched DEF AutoRead, Authorize, Register, Recheck, StorageError
<1>10. ASSUME NEW t \in Tasks, Record(t) PROVE RowsNeedAPeer'
  BY <1>10 DEF Record, RowsNeedAPeer
<1>11. ASSUME NEW t \in Tasks, Negotiate(t) \/ SessionEnds(t) PROVE RowsNeedAPeer'
  BY <1>11, StoredUntouched DEF Negotiate, SessionEnds
<1>12. CASE Crash \/ UNCHANGED vars
  BY <1>12, StoredUntouched DEF Crash, vars
<1>. QED
  BY <1>1, <1>2, <1>3, <1>4, <1>5, <1>6, <1>7, <1>8, <1>9, <1>10, <1>11, <1>12 DEF Next

(* The foreign keys of the schema hold up: whatever calls overlap, fail or *)
(* are cut short, no grant and no endpoint outlives its peer.              *)
THEOREM NoOrphanRows == Spec => []RowsNeedAPeer
<1>1. Init => RowsNeedAPeer
  BY DEF Init, RowsNeedAPeer
<1>2. RowsNeedAPeer /\ [Next]_vars => RowsNeedAPeer'
  BY NextRows
<1>. QED
  BY <1>1, <1>2, PTL DEF Spec

-----------------------------------------------------------------------------
Closing == {u \in Tasks : step[u] \in {"close_all", "forget_endpoints"}}

GrantTypes ==
    /\ step \in [Tasks -> Steps]
    /\ op = [t \in Tasks |-> op[t]]
    /\ arg = [t \in Tasks |-> arg[t]]
    /\ read = [t \in Tasks |-> read[t]]
    /\ sessions \subseteq Tasks
    /\ snapshot = [t \in Tasks |-> snapshot[t]]

(* A session that keeps a grant that is gone is about to be closed, and    *)
(* what is gone is not on its way back either.                             *)
GrantInv ==
    /\ GrantTypes
    /\ ~halfForgotten /\ ~staleRead =>
           \A t \in sessions : snapshot[t] \subseteq grants \/ Closing # {}
    /\ gone \cap (grants \cup Pending) = {}

LEMMA InitGrantInv == ASSUME TrustInit PROVE GrantInv
  BY DEF TrustInit, Init, GrantInv, GrantTypes, Pending, Steps

LEMMA GotoFrame ==
    ASSUME GrantTypes, NEW t \in Tasks, NEW s \in Steps, Goto(t, s)
    PROVE  /\ step' \in [Tasks -> Steps] /\ step'[t] = s
           /\ \A r \in Tasks \ {t} : step'[r] = step[r] /\ read'[r] = read[r] /\ arg'[r] = arg[r]
           /\ op' = [r \in Tasks |-> op'[r]]
           /\ arg' = [r \in Tasks |-> arg'[r]]
           /\ read' = [r \in Tasks |-> read'[r]]
<1>1. CASE s = "idle"
  BY <1>1 DEF Goto, GrantTypes
<1>2. CASE s # "idle"
  BY <1>2 DEF Goto, GrantTypes
<1>. QED
  BY <1>1, <1>2

LEMMA BeginFrame ==
    ASSUME GrantTypes, NEW t \in Tasks, NEW name, NEW caps, NEW s \in Steps, Begin(t, name, caps, s)
    PROVE  /\ step' \in [Tasks -> Steps] /\ step[t] = "idle" /\ step'[t] = s
           /\ \A r \in Tasks \ {t} : step'[r] = step[r] /\ arg'[r] = arg[r]
           /\ op' = [r \in Tasks |-> op'[r]] /\ op'[t] = name
           /\ arg' = [r \in Tasks |-> arg'[r]] /\ arg'[t] = caps
  BY DEF Begin, GrantTypes

(* A session keeps its grants, or has them from the database as it is, or  *)
(* is about to be closed.                                                  *)
Authorized ==
    ~halfForgotten' /\ ~staleRead' =>
        \/ Closing' # {}
        \/ \A t \in sessions' :
               \/ snapshot'[t] \subseteq grants'
               \/ /\ t \in sessions /\ snapshot'[t] = snapshot[t]
                  /\ grants \subseteq grants' /\ Closing \subseteq Closing'

(* No pairing reads, and none but those under way is asked for anything.   *)
NothingAsked ==
    \A t \in Tasks : step'[t] = "pair_save" =>
        step[t] = "pair_save" /\ read'[t] = read[t] /\ arg'[t] = arg[t]

LEMMA AuthorizedStep ==
    ASSUME GrantInv, Noted, Authorized
    PROVE  ~halfForgotten' /\ ~staleRead' =>
               \A t \in sessions' : snapshot'[t] \subseteq grants' \/ Closing' # {}
<1>1. ~halfForgotten' /\ ~staleRead' => ~halfForgotten /\ ~staleRead
  BY DEF Noted
<1>. QED
  BY <1>1 DEF GrantInv, Authorized

(* Most steps write no grant but those of a pairing.                       *)
LEMMA GrantStep ==
    ASSUME GrantInv, Noted, GrantTypes', Authorized, NothingAsked,
           grants' \subseteq grants \cup Pending
    PROVE  GrantInv'
<1>1. Pending' \subseteq Pending
  BY DEF Pending, NothingAsked
<1>2. gone' \subseteq gone \cup ((grants \ grants') \ Pending)
  BY DEF Noted
<1>3. gone' \cap (grants' \cup Pending') = {}
  BY <1>1, <1>2 DEF GrantInv
<1>. QED
  BY <1>3, AuthorizedStep DEF GrantInv

(* A call is asked to add grants.                                          *)
LEMMA AskStep ==
    ASSUME GrantInv, Noted, GrantTypes', Authorized,
           NEW t \in Tasks, NEW caps, step[t] = "idle", op'[t] \in {"pair", "grant"}, arg'[t] = caps,
           \A r \in Tasks \ {t} : step'[r] = step[r] /\ read'[r] = read[r] /\ arg'[r] = arg[r],
           step'[t] = "pair_save" => read'[t] \subseteq grants,
           grants \subseteq grants', grants' \subseteq grants \cup caps
    PROVE  GrantInv'
<1>1. caps \subseteq Asking
  BY DEF Asking
<1>2. Pending' \subseteq Pending \cup grants \cup caps
  BY DEF Pending
<1>3. gone' \subseteq gone \ caps
  BY <1>1 DEF Noted
<1>4. gone' \cap (grants' \cup Pending') = {}
  BY <1>2, <1>3 DEF GrantInv
<1>. QED
  BY <1>4, AuthorizedStep DEF GrantInv

LEMMA NextGrantInv == ASSUME GrantInv, Next, Noted PROVE GrantInv'
<1>0. GrantTypes
  BY DEF GrantInv
<1>1. ASSUME NEW t \in Tasks, NEW caps \in SUBSET Capabilities, PairRead(t, caps)
      PROVE  GrantInv'
  <2>1. /\ Begin(t, "pair", caps, "pair_save") /\ read' = [read EXCEPT ![t] = grants]
        /\ UNCHANGED <<grants, sessions, snapshot>>
    BY <1>1 DEF PairRead, stored
  <2>2. /\ step' \in [Tasks -> Steps] /\ step[t] = "idle" /\ step'[t] = "pair_save"
        /\ \A r \in Tasks \ {t} : step'[r] = step[r] /\ arg'[r] = arg[r]
        /\ op' = [r \in Tasks |-> op'[r]] /\ op'[t] = "pair"
        /\ arg' = [r \in Tasks |-> arg'[r]] /\ arg'[t] = caps
    BY <1>0, <2>1, BeginFrame DEF Steps
  <2>3. /\ GrantTypes' /\ read'[t] = grants
        /\ \A r \in Tasks \ {t} : read'[r] = read[r]
    BY <1>0, <2>1, <2>2 DEF GrantTypes
  <2>4. Authorized
    BY <2>1, <2>2 DEF Authorized, Closing
  <2>. QED
    BY <2>1, <2>2, <2>3, <2>4, AskStep
<1>2. ASSUME NEW t \in Tasks, NEW s \in Steps \ {"pair_save"}, Goto(t, s),
             sessions' \subseteq Tasks, snapshot' = [r \in Tasks |-> snapshot'[r]],
             grants' \subseteq grants \cup Pending,
             Closing \subseteq Closing' => Authorized,
             step[t] \notin {"close_all", "forget_endpoints"} \/ Authorized
      PROVE  GrantInv'
  <2>1. /\ step' \in [Tasks -> Steps] /\ step'[t] = s
        /\ \A r \in Tasks \ {t} : step'[r] = step[r] /\ read'[r] = read[r] /\ arg'[r] = arg[r]
        /\ op' = [r \in Tasks |-> op'[r]]
        /\ arg' = [r \in Tasks |-> arg'[r]]
        /\ read' = [r \in Tasks |-> read'[r]]
    BY <1>0, <1>2, GotoFrame
  <2>2. GrantTypes'
    BY <1>2, <2>1 DEF GrantTypes
  <2>3. NothingAsked
    BY <1>2, <2>1 DEF NothingAsked
  <2>4. Authorized
    BY <1>2, <2>1 DEF Closing
  <2>. QED
    BY <1>2, <2>2, <2>3, <2>4, GrantStep
<1>3. ASSUME NEW t \in Tasks, PairSave(t) PROVE GrantInv'
  <2>1. /\ step[t] = "pair_save" /\ Goto(t, "recheck") /\ UNCHANGED <<sessions, snapshot>>
        /\ grants' = read[t] \cup arg[t]
    BY <1>3 DEF PairSave
  <2>2. grants' \subseteq Pending
    BY <2>1 DEF Pending
  <2>3. ~staleRead' => grants \subseteq grants'
    BY <1>3 DEF Noted, ActsOnStaleRead
  <2>4. Closing \subseteq Closing' => Authorized
    BY <2>1, <2>3 DEF Authorized
  <2>. QED
    BY <1>0, <1>2, <2>1, <2>2, <2>4 DEF GrantTypes, Steps
<1>4. ASSUME NEW t \in Tasks, NEW name, NEW caps, NEW s \in Steps \ {"idle", "pair_save"},
             Begin(t, name, caps, s), grants' \subseteq grants,
             read' = read, UNCHANGED <<sessions, snapshot>>,
             grants' = grants \/ s \in {"close_all", "forget_endpoints"}
      PROVE  GrantInv'
  <2>1. /\ step' \in [Tasks -> Steps] /\ step[t] = "idle" /\ step'[t] = s
        /\ \A r \in Tasks \ {t} : step'[r] = step[r] /\ arg'[r] = arg[r]
        /\ op' = [r \in Tasks |-> op'[r]] /\ arg' = [r \in Tasks |-> arg'[r]]
    BY <1>0, <1>4, BeginFrame
  <2>2. GrantTypes' /\ NothingAsked
    BY <1>0, <1>4, <2>1 DEF GrantTypes, NothingAsked
  <2>3. Authorized
    BY <1>4, <2>1 DEF Authorized, Closing
  <2>. QED
    BY <1>4, <2>2, <2>3, GrantStep
<1>5. ASSUME NEW t \in Tasks, ForgetPeer(t) PROVE GrantInv'
  <2>1. /\ Begin(t, "forget", {}, "forget_endpoints") /\ grants' \subseteq grants
        /\ UNCHANGED <<read, sessions, snapshot>>
    BY <1>5 DEF ForgetPeer
  <2>. QED
    BY <1>4, <2>1 DEF Steps
<1>6. ASSUME NEW t \in Tasks, ForgetEndpoints(t) PROVE GrantInv'
  <2>1. Goto(t, "close_all") /\ UNCHANGED <<grants, sessions, snapshot>>
    BY <1>6 DEF ForgetEndpoints
  <2>2. t \in Closing'
    BY <1>0, <2>1, GotoFrame DEF Closing, Steps
  <2>3. Authorized
    BY <2>2 DEF Authorized
  <2>. QED
    BY <1>0, <1>2, <2>1, <2>3 DEF GrantTypes, Steps
<1>7. ASSUME NEW t \in Tasks, CloseAll(t) PROVE GrantInv'
  <2>1. /\ Goto(t, "idle") /\ grants' = grants /\ sessions' = {}
        /\ snapshot' = [r \in Tasks |-> {}]
    BY <1>7 DEF CloseAll, stored
  <2>2. Authorized
    BY <2>1 DEF Authorized
  <2>. QED
    BY <1>2, <2>1, <2>2 DEF Steps
<1>8. ASSUME NEW t \in Tasks, NEW c \in Capabilities, GrantSave(t, c) PROVE GrantInv'
  <2>1. /\ Begin(t, "grant", {c}, "close_for_grant") /\ grants' = grants \cup {c}
        /\ UNCHANGED <<read, sessions, snapshot>>
    BY <1>8 DEF GrantSave
  <2>2. /\ step' \in [Tasks -> Steps] /\ step[t] = "idle" /\ step'[t] = "close_for_grant"
        /\ \A r \in Tasks \ {t} : step'[r] = step[r] /\ arg'[r] = arg[r]
        /\ op' = [r \in Tasks |-> op'[r]] /\ op'[t] = "grant"
        /\ arg' = [r \in Tasks |-> arg'[r]] /\ arg'[t] = {c}
    BY <1>0, <2>1, BeginFrame DEF Steps
  <2>3. GrantTypes'
    BY <1>0, <2>1, <2>2 DEF GrantTypes
  <2>4. Authorized
    BY <2>1, <2>2 DEF Authorized, Closing
  <2>. QED
    BY <2>1, <2>2, <2>3, <2>4, AskStep
<1>9. ASSUME NEW t \in Tasks, CloseForGrant(t) PROVE GrantInv'
  <2>1. /\ step[t] = "close_for_grant" /\ Goto(t, "idle") /\ grants' = grants
        /\ sessions' \subseteq sessions
        /\ snapshot' = [s \in Tasks |-> IF s \in sessions' THEN snapshot[s] ELSE {}]
    BY <1>9 DEF CloseForGrant, stored
  <2>2. Closing \subseteq Closing' => Authorized
    BY <1>0, <2>1 DEF Authorized, GrantTypes
  <2>. QED
    BY <1>0, <1>2, <2>1, <2>2 DEF GrantTypes, Steps
<1>10. ASSUME NEW t \in Tasks, NEW c \in Capabilities, RevokeDelete(t, c) PROVE GrantInv'
  <2>1. /\ Begin(t, "revoke", {c}, "close_all") /\ grants' \subseteq grants
        /\ UNCHANGED <<read, sessions, snapshot>>
    BY <1>10 DEF RevokeDelete
  <2>. QED
    BY <1>4, <2>1 DEF Steps
<1>11. ASSUME NEW t \in Tasks, AutoRead(t) PROVE GrantInv'
  BY <1>4, <1>11 DEF AutoRead, stored, Steps
<1>12. ASSUME NEW t \in Tasks, NEW origin \in Origins, NEW k \in Kinds, Check(t, origin, k)
       PROVE  GrantInv'
  <2>1. PICK s \in {"recheck", "authorize", "register"} : Begin(t, origin, {}, s)
    BY <1>12 DEF Check
  <2>. QED
    BY <1>4, <1>12, <2>1 DEF Check, stored, Steps
<1>13. ASSUME NEW t \in Tasks, AutoSave(t) \/ Record(t) \/ Recheck(t) \/ StorageError(t)
       PROVE  GrantInv'
  <2>1. PICK s \in {"idle", "register", "record"} : Goto(t, s)
    BY <1>13 DEF AutoSave, Record, Recheck, StorageError
  <2>2. /\ UNCHANGED <<grants, sessions, snapshot>>
        /\ step[t] \notin {"close_all", "forget_endpoints"} \/ halfForgotten'
    BY <1>13 DEF AutoSave, Record, Recheck, StorageError, stored, Noted
  <2>3. /\ Closing \subseteq Closing' => Authorized
        /\ halfForgotten' => Authorized
    BY <2>2 DEF Authorized
  <2>. QED
    BY <1>0, <1>2, <2>1, <2>2, <2>3 DEF GrantTypes, Steps
<1>14. ASSUME NEW t \in Tasks, Authorize(t) PROVE GrantInv'
  <2>1. step[t] = "authorize" /\ UNCHANGED <<grants, sessions, snapshot>>
    BY <1>14 DEF Authorize, stored
  <2>2. Closing \subseteq Closing' => Authorized
    BY <2>1 DEF Authorized
  <2>3. CASE Goto(t, "idle")
    BY <1>0, <1>2, <2>1, <2>2, <2>3 DEF GrantTypes, Steps
  <2>4. CASE ~Goto(t, "idle")
    <3>1. /\ step' = [step EXCEPT ![t] = "register"] /\ UNCHANGED <<op, arg>>
          /\ read' = [read EXCEPT ![t] = {Inject}]
      BY <1>14, <2>4 DEF Authorize
    <3>2. GrantTypes' /\ NothingAsked /\ Closing \subseteq Closing'
      BY <1>0, <2>1, <3>1 DEF GrantTypes, NothingAsked, Closing, Steps
    <3>. QED
      BY <2>1, <2>2, <3>2, GrantStep
  <2>. QED
    BY <2>3, <2>4
<1>15. ASSUME NEW t \in Tasks, Register(t) PROVE GrantInv'
  <2>1. PICK s \in {"recheck", "idle"} : Goto(t, s)
    BY <1>15 DEF Register
  <2>2. /\ step[t] = "register" /\ grants' = grants /\ sessions' \subseteq sessions \cup {t}
        /\ snapshot' = [r \in Tasks |->
               IF r \notin sessions' THEN {} ELSE IF r = t THEN read[t] ELSE snapshot[r]]
    BY <1>15 DEF Register, stored
  <2>3. ~staleRead' => read[t] \subseteq grants
    BY <1>15 DEF Noted, ActsOnStaleRead
  <2>4. \A r \in sessions' : \/ snapshot'[r] = read[t]
                             \/ r \in sessions /\ snapshot'[r] = snapshot[r]
    BY <1>0, <2>2 DEF GrantTypes
  <2>5. Closing \subseteq Closing' => Authorized
    BY <2>2, <2>3, <2>4 DEF Authorized
  <2>. QED
    BY <1>0, <1>2, <2>1, <2>2, <2>5 DEF GrantTypes, Steps
<1>16. ASSUME NEW t \in Tasks, Negotiate(t) \/ SessionEnds(t) PROVE GrantInv'
  <2>1. /\ UNCHANGED <<grants, step, op, arg, read>> /\ sessions' \subseteq sessions
        /\ snapshot' = [r \in Tasks |-> snapshot'[r]]
        /\ \A r \in sessions' : snapshot'[r] \in {snapshot[r], grants}
    BY <1>0, <1>16 DEF Negotiate, SessionEnds, stored, GrantTypes
  <2>2. GrantTypes' /\ NothingAsked /\ Authorized
    BY <1>0, <2>1 DEF GrantTypes, NothingAsked, Authorized, Closing
  <2>. QED
    BY <2>1, <2>2, GrantStep
<1>17. CASE Crash
  <2>1. GrantTypes' /\ NothingAsked /\ Authorized /\ grants' = grants
    BY <1>17 DEF Crash, GrantTypes, NothingAsked, Authorized, Steps, stored
  <2>. QED
    BY <2>1, GrantStep
<1>. QED
  BY <1>1, <1>3, <1>5, <1>6, <1>7, <1>8, <1>9, <1>10, <1>11, <1>12, <1>13, <1>14, <1>15, <1>16,
     <1>17 DEF Next

LEMMA StutterGrants == ASSUME GrantInv, UNCHANGED trustVars PROVE GrantInv'
  BY DEF trustVars, vars, stored, GrantInv, GrantTypes, Closing, Pending

LEMMA GrantInvariant == TrustSpec => []GrantInv
<1>1. GrantInv /\ [TrustNext]_trustVars => GrantInv'
  BY NextGrantInv, StutterGrants DEF TrustNext
<1>. QED
  BY <1>1, InitGrantInv, PTL DEF TrustSpec

(* However pairing, grants, revocations, forgets, relays and handshakes    *)
(* overlap, fail and crash, a session keeps a grant that is gone only if a *)
(* forget has failed halfway or a call has acted on grants that changed    *)
(* since it read them: otherwise revoke and forget close it.               *)
THEOREM RevokedIsClosed == TrustSpec => []RevokedGrantIsClosed
<1>1. GrantInv => RevokedGrantIsClosed
  BY DEF GrantInv, Closing, RevokedGrantIsClosed, StaleGrantIsBeingClosed
<1>. QED
  BY <1>1, GrantInvariant, PTL

(* However the calls overlap, fail and crash, a grant that is gone comes   *)
(* back only if a call is asked for it, or a pairing had read it before it *)
(* went.                                                                   *)
THEOREM NoGrantReturnsByItself == TrustSpec => []RevokedStaysRevoked
<1>1. GrantInv => RevokedStaysRevoked
  BY DEF GrantInv, RevokedStaysRevoked
<1>. QED
  BY <1>1, GrantInvariant, PTL

(* What is proved of the overlapping calls holds in every scenario that    *)
(* TLC explores.                                                           *)
THEOREM ScenariosAreTrust == MCSpec => TrustSpec
<1>1. MCInit => TrustInit
  BY DEF MCInit
<1>2. [MCNext]_<<scenario, trustVars, historyVars>> => [TrustNext]_trustVars
  BY DEF MCNext
<1>. QED
  BY <1>1, <1>2, PTL DEF MCSpec, TrustSpec

-----------------------------------------------------------------------------
(* What the step of a call says about it.                                  *)
TaskOK(t) ==
    /\ step[t] = "idle" => op[t] = "none"
    /\ step[t] = "pair_save" => op[t] = "pair"
    /\ step[t] = "authorize" => op[t] = "relay_accept"
    /\ step[t] = "register" => op[t] \in Origins
    /\ op[t] \in Origins => kind[t] \in Kinds

ScenarioOK ==
    /\ scenario \in {"sequential", "concurrent", "endpoints"}
    /\ scenario = "sequential" =>
           \A s, t \in Tasks : step[s] # "idle" /\ step[t] # "idle" => s = t

(* Without a pairing there is no session, and none on its way, but of the  *)
(* kinds open to unpaired peers, unless a forget is about to close it.     *)
Unpaired ==
    scenario = "sequential" /\ ~halfForgotten /\ ~paired =>
        /\ Closing # {} \/ \A t \in sessions : kind[t] \in OpenKinds
        /\ \A t \in Tasks : op[t] \in Origins => kind[t] \in OpenKinds

RecordInv == TypeOK /\ ScenarioOK /\ Unpaired /\ \A t \in Tasks : TaskOK(t)

LEMMA InitRecords == MCInit => RecordInv
<1> SUFFICES ASSUME MCInit PROVE RecordInv
  OBVIOUS
<1>1. TypeOK
  BY DEF MCInit, TrustInit, Init, TypeOK, Steps
<1>2. ScenarioOK /\ Unpaired
  BY DEF MCInit, TrustInit, Init, ScenarioOK, Unpaired, Origins
<1>3. \A t \in Tasks : TaskOK(t)
  BY DEF MCInit, TrustInit, Init, TaskOK, Origins
<1>. QED
  BY <1>1, <1>2, <1>3 DEF RecordInv

(* A step of task t leaves the other tasks alone.                          *)
Others(t) ==
    \A r \in Tasks \ {t} : /\ step'[r] = step[r] /\ op'[r] = op[r]
                           /\ read'[r] = read[r] /\ kind'[r] = kind[r]

LEMMA GotoFacts ==
    ASSUME TypeOK, NEW t \in Tasks, NEW s \in Steps, Goto(t, s)
    PROVE  /\ step' \in [Tasks -> Steps] /\ op' \in [Tasks -> Ops \cup {"none"}]
           /\ arg' \in [Tasks -> SUBSET Capabilities] /\ read' \in [Tasks -> SUBSET Capabilities]
           /\ kind' = kind /\ Others(t)
           /\ step'[t] = s
           /\ s = "idle" => op'[t] = "none" /\ read'[t] = {}
           /\ s # "idle" => op'[t] = op[t] /\ read'[t] = read[t] /\ arg' = arg
<1>1. CASE s = "idle"
  BY <1>1 DEF Goto, TypeOK, Others
<1>2. CASE s # "idle"
  BY <1>2 DEF Goto, TypeOK, Others
<1>. QED
  BY <1>1, <1>2

(* Beside a call that is under way after the step there is no other one.   *)
LEMMA OthersIdle ==
    ASSUME RecordInv, scenario' = scenario, scenario = "sequential", ScenarioOK',
           NEW t \in Tasks, step'[t] # "idle",
           \A r \in Tasks \ {t} : step'[r] = step[r]
    PROVE  \A r \in Tasks \ {t} : op[r] = "none"
<1> SUFFICES ASSUME NEW r \in Tasks \ {t} PROVE op[r] = "none"
  OBVIOUS
<1>1. step[r] = "idle"
  BY DEF ScenarioOK
<1>. QED
  BY <1>1 DEF RecordInv, TaskOK

(* A call takes a step that stores at most a pairing or an endpoint.       *)
LEMMA Moves ==
    ASSUME RecordInv, ScenarioOK', scenario' = scenario, halfForgotten => halfForgotten',
           NEW t \in Tasks, NEW s \in Steps \ {"pair_save", "authorize"}, Goto(t, s),
           UNCHANGED <<grants, sessions, snapshot>>,
           paired' \in BOOLEAN, remembered' \in BOOLEAN, paired => paired',
           \/ step[t] \notin {"close_all", "forget_endpoints"}
           \/ s \in {"close_all", "forget_endpoints"}
           \/ halfForgotten',
           s = "register" => op[t] \in Origins
    PROVE  RecordInv'
<1>1. /\ step' \in [Tasks -> Steps] /\ op' \in [Tasks -> Ops \cup {"none"}]
      /\ arg' \in [Tasks -> SUBSET Capabilities] /\ read' \in [Tasks -> SUBSET Capabilities]
      /\ kind' = kind /\ Others(t) /\ step'[t] = s
      /\ s = "idle" => op'[t] = "none" /\ read'[t] = {}
      /\ s # "idle" => op'[t] = op[t] /\ read'[t] = read[t]
  BY GotoFacts DEF RecordInv
<1>2. TypeOK'
  BY <1>1 DEF RecordInv, TypeOK
<1>3. ASSUME NEW r \in Tasks PROVE TaskOK(r)'
  <2>1. CASE r = t
    BY <1>1, <2>1 DEF RecordInv, TaskOK, Origins
  <2>2. CASE r # t
    BY <1>1, <2>2 DEF RecordInv, TaskOK, Others
  <2>. QED
    BY <2>1, <2>2
<1>4. Closing \subseteq Closing' \/ halfForgotten' \/ Closing' # {}
  BY <1>1 DEF Closing, Others
<1>6. \A r \in Tasks : op'[r] \in Origins => op[r] \in Origins
  BY <1>1 DEF Others, Origins
<1>7. Unpaired'
  BY <1>1, <1>4, <1>6 DEF RecordInv, Unpaired
<1>. QED
  BY <1>2, <1>3, <1>7 DEF RecordInv

(* A call starts.                                                          *)
LEMMA Begins ==
    ASSUME RecordInv, ScenarioOK', scenario' = scenario, scenario # "endpoints",
           halfForgotten => halfForgotten',
           NEW t \in Tasks, NEW name, NEW caps \in SUBSET Capabilities,
           NEW s \in Steps \ {"idle"}, Begin(t, name, caps, s),
           UNCHANGED <<sessions, snapshot>>,
           paired' \in BOOLEAN, remembered' \in BOOLEAN, grants' \subseteq Capabilities,
           read' \in [Tasks -> SUBSET Capabilities], kind' \in [Tasks -> Kinds \cup {NoKind}],
           \A r \in Tasks \ {t} : kind'[r] = kind[r],
           TaskOK(t)', kind'[t] = kind[t] \/ t \notin sessions,
           paired' \/ ~paired \/ s \in {"close_all", "forget_endpoints"},
           ~paired' /\ name \in Origins => kind'[t] \in OpenKinds
    PROVE  RecordInv'
<1>1. /\ step' \in [Tasks -> Steps] /\ op' \in [Tasks -> Ops \cup {"none"}]
      /\ arg' \in [Tasks -> SUBSET Capabilities]
      /\ step[t] = "idle" /\ step'[t] = s /\ op'[t] = name
      /\ \A r \in Tasks \ {t} : step'[r] = step[r] /\ op'[r] = op[r]
  BY DEF RecordInv, TypeOK, Begin
<1>2. scenario = "sequential" => \A r \in Tasks \ {t} : op[r] = "none"
  BY <1>1, OthersIdle
<1>3. \A r \in sessions : r \in Tasks /\ kind'[r] = kind[r]
  BY DEF RecordInv, TypeOK
<1>4. TypeOK'
  BY <1>1, <1>3 DEF RecordInv, TypeOK
<1>5. ASSUME NEW r \in Tasks PROVE TaskOK(r)'
  <2>1. CASE r # t
    BY <1>1, <2>1 DEF RecordInv, TaskOK
  <2>. QED
    BY <2>1
<1>6. Closing \subseteq Closing'
  BY <1>1 DEF Closing
<1>7. s \in {"close_all", "forget_endpoints"} => Closing' # {}
  BY <1>1 DEF Closing
<1>9. Unpaired'
  <2> SUFFICES ASSUME scenario = "sequential", ~halfForgotten', ~paired'
               PROVE  /\ Closing' # {} \/ \A r \in sessions : kind'[r] \in OpenKinds
                      /\ \A r \in Tasks : op'[r] \in Origins => kind'[r] \in OpenKinds
    BY DEF Unpaired
  <2>1. \A r \in Tasks : op'[r] \in Origins => kind'[r] \in OpenKinds
    BY <1>1, <1>2 DEF Origins
  <2>. QED
    BY <1>3, <1>6, <1>7, <2>1 DEF RecordInv, Unpaired
<1>. QED
  BY <1>4, <1>5, <1>9 DEF RecordInv

(* Sessions go as the call that closes them returns.                       *)
LEMMA Closes ==
    ASSUME RecordInv, ScenarioOK', scenario' = scenario, halfForgotten => halfForgotten',
           NEW t \in Tasks, Goto(t, "idle"), UNCHANGED stored,
           sessions' \subseteq sessions,
           snapshot' = [r \in Tasks |-> IF r \in sessions' THEN snapshot[r] ELSE {}],
           step[t] \notin {"close_all", "forget_endpoints"} \/ sessions' = {}
    PROVE  RecordInv'
<1>1. /\ step' \in [Tasks -> Steps] /\ op' \in [Tasks -> Ops \cup {"none"}]
      /\ arg' \in [Tasks -> SUBSET Capabilities] /\ read' \in [Tasks -> SUBSET Capabilities]
      /\ kind' = kind /\ Others(t) /\ step'[t] = "idle" /\ op'[t] = "none" /\ read'[t] = {}
  BY GotoFacts DEF RecordInv, Steps
<1>2. TypeOK'
  BY <1>1 DEF RecordInv, TypeOK, stored
<1>3. ASSUME NEW r \in Tasks PROVE TaskOK(r)'
  BY <1>1 DEF RecordInv, TaskOK, Others, Origins, stored
<1>4. Closing \subseteq Closing' \/ sessions' = {}
  BY <1>1 DEF Closing, Others
<1>7. \A r \in Tasks : op'[r] \in Origins => op[r] \in Origins
  BY <1>1 DEF Others, Origins
<1>8. Unpaired'
  BY <1>1, <1>4, <1>7 DEF RecordInv, Unpaired, stored
<1>. QED
  BY <1>2, <1>3, <1>8 DEF RecordInv

(* A session is negotiated anew with the stored grants, or ends.           *)
LEMMA SessionMoves ==
    ASSUME RecordInv, ScenarioOK', scenario' = scenario, halfForgotten => halfForgotten',
           NEW t \in Tasks, Negotiate(t) \/ SessionEnds(t)
    PROVE  RecordInv'
<1>1. /\ UNCHANGED <<stored, step, op, arg, read, kind>> /\ sessions' \subseteq sessions
      /\ snapshot' \in [Tasks -> SUBSET Capabilities]
  BY DEF Negotiate, SessionEnds, RecordInv, TypeOK
<1>2. TypeOK'
  BY <1>1 DEF RecordInv, TypeOK, stored
<1>3. \A r \in Tasks : TaskOK(r)'
  BY <1>1 DEF RecordInv, TaskOK, stored
<1>4. Closing' = Closing
  BY <1>1 DEF Closing
<1>5. Unpaired'
  BY <1>1, <1>4 DEF RecordInv, Unpaired, stored
<1>. QED
  BY <1>2, <1>3, <1>5 DEF RecordInv

LEMMA CrashRecords ==
    ASSUME RecordInv, ScenarioOK', Crash PROVE RecordInv'
<1>1. TypeOK'
  BY DEF Crash, RecordInv, TypeOK, Steps, stored
<1>2. \A r \in Tasks : TaskOK(r)'
  BY DEF Crash, TaskOK, Origins
<1>3. Unpaired'
  BY DEF Crash, Unpaired, Origins
<1>. QED
  BY <1>1, <1>2, <1>3 DEF RecordInv

LEMMA PairSaveRecords ==
    ASSUME RecordInv, ScenarioOK', scenario' = scenario, scenario # "endpoints",
           halfForgotten => halfForgotten', NEW t \in Tasks, PairSave(t)
    PROVE  RecordInv'
<1>1. /\ step' \in [Tasks -> Steps] /\ op' \in [Tasks -> Ops \cup {"none"}]
      /\ arg' \in [Tasks -> SUBSET Capabilities] /\ read' \in [Tasks -> SUBSET Capabilities]
      /\ kind' = kind /\ Others(t)
      /\ step'[t] = "recheck" /\ op'[t] = op[t] /\ read'[t] = read[t]
  BY GotoFacts DEF RecordInv, Steps, PairSave
<1>2. /\ step[t] = "pair_save" /\ op[t] = "pair" /\ paired' = TRUE
      /\ UNCHANGED <<remembered, sessions, snapshot>>
  BY DEF PairSave, RecordInv, TaskOK
<1>4. TypeOK'
  BY <1>1, <1>2 DEF PairSave, RecordInv, TypeOK
<1>5. ASSUME NEW r \in Tasks PROVE TaskOK(r)'
  <2>1. CASE r = t
    BY <1>1, <1>2, <2>1 DEF RecordInv, TaskOK, Origins
  <2>2. CASE r # t
    BY <1>1, <2>2 DEF RecordInv, TaskOK, Others
  <2>. QED
    BY <2>1, <2>2
<1>7. Unpaired'
  BY <1>2 DEF Unpaired
<1>. QED
  BY <1>4, <1>5, <1>7 DEF RecordInv

LEMMA AuthorizeRecords ==
    ASSUME RecordInv, ScenarioOK', scenario' = scenario, halfForgotten => halfForgotten',
           NEW t \in Tasks, Authorize(t)
    PROVE  RecordInv'
<1>1. CASE Goto(t, "idle")
  BY <1>1, Moves DEF Authorize, stored, RecordInv, TypeOK, Steps
<1>2. CASE ~Goto(t, "idle")
  <2>1. /\ Inject \in grants /\ step[t] = "authorize" /\ op[t] = "relay_accept"
        /\ step' = [step EXCEPT ![t] = "register"]
        /\ read' = [read EXCEPT ![t] = {Inject}]
        /\ UNCHANGED <<stored, op, arg, kind, sessions, snapshot>>
    BY <1>2 DEF Authorize, RecordInv, TaskOK
  <2>2. TypeOK'
    BY <2>1 DEF RecordInv, TypeOK, Steps, stored
  <2>3. ASSUME NEW r \in Tasks PROVE TaskOK(r)'
    BY <2>1 DEF RecordInv, TypeOK, TaskOK, Origins, stored
  <2>4. Closing' = Closing
    BY <2>1 DEF Closing, RecordInv, TypeOK
  <2>5. Unpaired'
    BY <2>1, <2>4 DEF RecordInv, Unpaired, stored
  <2>. QED
    BY <2>2, <2>3, <2>5 DEF RecordInv
<1>. QED
  BY <1>1, <1>2

LEMMA RegisterRecords ==
    ASSUME RecordInv, ScenarioOK', scenario' = scenario, halfForgotten => halfForgotten',
           NEW t \in Tasks, Register(t)
    PROVE  RecordInv'
<1>1. PICK s \in {"recheck", "idle"} : Goto(t, s)
  BY DEF Register
<1>2. /\ step[t] = "register" /\ UNCHANGED stored /\ sessions' \subseteq sessions \cup {t}
      /\ snapshot' = [r \in Tasks |->
             IF r \notin sessions' THEN {} ELSE IF r = t THEN read[t] ELSE snapshot[r]]
  BY DEF Register
<1>3. /\ step' \in [Tasks -> Steps] /\ op' \in [Tasks -> Ops \cup {"none"}]
      /\ arg' \in [Tasks -> SUBSET Capabilities] /\ read' \in [Tasks -> SUBSET Capabilities]
      /\ kind' = kind /\ Others(t) /\ step'[t] = s
      /\ s = "idle" => op'[t] = "none" /\ read'[t] = {}
      /\ s # "idle" => op'[t] = op[t] /\ read'[t] = read[t]
  BY <1>1, GotoFacts DEF RecordInv, Steps
<1>4. /\ op[t] \in Origins /\ kind[t] \in Kinds
      /\ read[t] \in SUBSET Capabilities /\ sessions \subseteq Tasks
  BY <1>2 DEF RecordInv, TaskOK, TypeOK
<1>5. TypeOK'
  BY <1>2, <1>3, <1>4 DEF RecordInv, TypeOK, stored
<1>6. ASSUME NEW r \in Tasks PROVE TaskOK(r)'
  <2>1. CASE r = t
    BY <1>1, <1>2, <1>3, <1>4, <2>1 DEF RecordInv, TaskOK, Origins, stored
  <2>2. CASE r # t
    BY <1>2, <1>3, <2>2 DEF RecordInv, TaskOK, Others, stored
  <2>. QED
    BY <2>1, <2>2
<1>7. Closing \subseteq Closing'
  BY <1>2, <1>3 DEF Closing, Others
<1>10. \A r \in Tasks : op'[r] \in Origins => op[r] \in Origins
  BY <1>3 DEF Others, Origins
<1>11. Unpaired'
  BY <1>2, <1>3, <1>4, <1>7, <1>10 DEF RecordInv, Unpaired, stored
<1>. QED
  BY <1>5, <1>6, <1>11 DEF RecordInv

-----------------------------------------------------------------------------
INSTANCE FiniteSetTheorems

LEMMA AtMostOne ==
    ASSUME NEW S, IsFiniteSet(S), Cardinality(S) <= 1, NEW x \in S, NEW y \in S
    PROVE  x = y
<1> SUFFICES ASSUME x # y PROVE FALSE
  OBVIOUS
<1>1. Cardinality(S) \in Nat /\ Cardinality({x, y}) <= Cardinality(S)
  BY FS_CardinalityType, FS_Subset
<1>2. IsFiniteSet({x}) /\ Cardinality({x}) = 1
  BY FS_Singleton
<1>3. Cardinality({x} \cup {y}) = 2
  BY <1>2, FS_AddElement, SMTT(30)
<1>4. {x} \cup {y} = {x, y}
  OBVIOUS
<1>. QED
  BY <1>1, <1>3, <1>4, SMTT(30)

(* The scenario a step is in keeps what ScenarioOK says of it.             *)
LEMMA ScenarioStep ==
    ASSUME RecordInv, scenario' = scenario, scenario # "endpoints", InScenario'
    PROVE  ScenarioOK'
<1>1. ASSUME scenario = "sequential", NEW s \in Tasks, NEW t \in Tasks,
             step'[s] # "idle", step'[t] # "idle"
      PROVE  s = t
  <2>1. Cardinality({r \in Tasks : step'[r] # "idle"}) <= 1
    BY <1>1 DEF InScenario
  <2>2. IsFiniteSet({r \in Tasks : step'[r] # "idle"})
    BY RecordConstantsOK, FS_Subset
  <2>. QED
    BY <1>1, <2>1, <2>2, AtMostOne, SMTT(30)
<1>. QED
  BY <1>1 DEF RecordInv, ScenarioOK

LEMMA NextRecords ==
    ASSUME RecordInv, scenario' = scenario, scenario # "endpoints", Next, Noted, InScenario'
    PROVE  RecordInv'
<1>0. ScenarioOK' /\ (halfForgotten => halfForgotten')
  BY ScenarioStep DEF Noted
<1>1. ASSUME NEW t \in Tasks, NEW caps \in SUBSET Capabilities, PairRead(t, caps)
      PROVE  RecordInv'
  <2>1. /\ Begin(t, "pair", caps, "pair_save") /\ step[t] = "idle"
        /\ UNCHANGED <<paired, grants, remembered, kind, sessions, snapshot>>
        /\ read' \in [Tasks -> SUBSET Capabilities]
    BY <1>1 DEF PairRead, Begin, stored, RecordInv, TypeOK
  <2>2. step'[t] = "pair_save" /\ op'[t] = "pair"
    BY <2>1 DEF Begin, RecordInv, TypeOK
  <2>3. TaskOK(t)'
    BY <2>1, <2>2 DEF TaskOK, Origins
  <2>4. /\ paired \in BOOLEAN /\ remembered \in BOOLEAN /\ grants \subseteq Capabilities
        /\ kind \in [Tasks -> Kinds \cup {NoKind}]
    BY DEF RecordInv, TypeOK
  <2>. QED
    BY <1>0, <2>1, <2>3, <2>4, Begins DEF Steps, Origins
<1>2. ASSUME NEW t \in Tasks, PairSave(t) PROVE RecordInv'
  BY <1>0, <1>2, PairSaveRecords
<1>3. ASSUME NEW t \in Tasks, NEW name, NEW caps \in SUBSET Capabilities,
             NEW s \in {"forget_endpoints", "close_for_grant", "close_all", "auto_save"},
             Begin(t, name, caps, s), name \notin Origins, name \notin {"pair", "relay_accept"},
             UNCHANGED <<read, kind, sessions, snapshot>>,
             paired' \in BOOLEAN, remembered' \in BOOLEAN, grants' \subseteq Capabilities,
             paired' \/ ~paired \/ s \in {"close_all", "forget_endpoints"}
      PROVE  RecordInv'
  <2>1. step[t] = "idle" /\ step'[t] = s /\ op'[t] = name
    BY <1>3 DEF Begin, RecordInv, TypeOK, TaskOK
  <2>2. TaskOK(t)'
    BY <1>3, <2>1 DEF TaskOK
  <2>3. /\ read \in [Tasks -> SUBSET Capabilities] /\ kind \in [Tasks -> Kinds \cup {NoKind}]
    BY DEF RecordInv, TypeOK
  <2>4. s \in Steps \ {"idle"}
    BY <1>3 DEF Steps
  <2>. QED
    BY <1>0, <1>3, <2>2, <2>3, <2>4, Begins
<1>4. ASSUME NEW t \in Tasks, ForgetPeer(t) PROVE RecordInv'
  <2>1. /\ Begin(t, "forget", {}, "forget_endpoints")
        /\ paired' = FALSE /\ remembered' = FALSE /\ grants' = {}
        /\ UNCHANGED <<read, kind, sessions, snapshot>>
    BY <1>4 DEF ForgetPeer
  <2>2. "forget" \notin Origins /\ "forget" \notin {"pair", "relay_accept"}
    BY DEF Origins
  <2>. QED
    BY <1>3, <2>1, <2>2
<1>5. ASSUME NEW t \in Tasks, ForgetEndpoints(t) PROVE RecordInv'
  BY <1>0, <1>5, Moves DEF ForgetEndpoints, Steps, RecordInv, TypeOK
<1>6. ASSUME NEW t \in Tasks, CloseAll(t) PROVE RecordInv'
  <2>1. snapshot' = [r \in Tasks |-> IF r \in sessions' THEN snapshot[r] ELSE {}]
    BY <1>6 DEF CloseAll
  <2>. QED
    BY <1>0, <1>6, <2>1, Closes DEF CloseAll
<1>7. ASSUME NEW t \in Tasks, NEW c \in Capabilities, GrantSave(t, c) PROVE RecordInv'
  BY <1>3, <1>7, SMTT(30) DEF GrantSave, Origins, RecordInv, TypeOK
<1>8. ASSUME NEW t \in Tasks, CloseForGrant(t) PROVE RecordInv'
  <2>1. sessions' \subseteq sessions
    BY <1>8 DEF CloseForGrant
  <2>. QED
    BY <1>0, <1>8, <2>1, Closes DEF CloseForGrant
<1>9. ASSUME NEW t \in Tasks, NEW c \in Capabilities, RevokeDelete(t, c) PROVE RecordInv'
  BY <1>3, <1>9, SMTT(30) DEF RevokeDelete, Origins, RecordInv, TypeOK
<1>10. ASSUME NEW t \in Tasks, AutoRead(t) PROVE RecordInv'
  BY <1>3, <1>10, SMTT(30) DEF AutoRead, Origins, stored, RecordInv, TypeOK
<1>11. ASSUME NEW t \in Tasks, AutoSave(t) PROVE RecordInv'
  BY <1>0, <1>11, Moves DEF AutoSave, Steps, RecordInv, TypeOK
<1>12. ASSUME NEW t \in Tasks, NEW origin \in Origins, NEW k \in Kinds, Check(t, origin, k)
       PROVE  RecordInv'
  <2>1. PICK s \in {"recheck", "authorize", "register"} :
            /\ Begin(t, origin, {}, s)
            /\ s = "authorize" => origin = "relay_accept"
    BY <1>12 DEF Check, Origins
  <2>2. /\ t \notin sessions /\ (k \notin OpenKinds => paired)
        /\ kind' = [kind EXCEPT ![t] = k]
        /\ UNCHANGED <<paired, grants, remembered, read, sessions, snapshot>>
    BY <1>12 DEF Check, stored
  <2>3. step[t] = "idle" /\ step'[t] = s /\ op'[t] = origin /\ kind'[t] = k
    BY <2>1, <2>2 DEF Begin, RecordInv, TypeOK, TaskOK
  <2>4. TaskOK(t)'
    BY <2>1, <2>2, <2>3 DEF TaskOK
  <2>5. /\ read \in [Tasks -> SUBSET Capabilities] /\ kind' \in [Tasks -> Kinds \cup {NoKind}]
        /\ \A r \in Tasks \ {t} : kind'[r] = kind[r]
        /\ paired \in BOOLEAN /\ remembered \in BOOLEAN /\ grants \subseteq Capabilities
    BY <2>2 DEF RecordInv, TypeOK
  <2>6. s \in Steps \ {"idle"}
    BY <2>1 DEF Steps
  <2>. QED
    BY <1>0, <2>1, <2>2, <2>3, <2>4, <2>5, <2>6, Begins
<1>13. ASSUME NEW t \in Tasks, Authorize(t) PROVE RecordInv'
  BY <1>0, <1>13, AuthorizeRecords
<1>14. ASSUME NEW t \in Tasks, Register(t) PROVE RecordInv'
  BY <1>0, <1>14, RegisterRecords
<1>15. ASSUME NEW t \in Tasks, Recheck(t) \/ Record(t) PROVE RecordInv'
  <2>1. PICK s \in {"record", "register", "idle"} :
            Goto(t, s) /\ (s = "register" => op[t] \in Origins)
    BY <1>15 DEF Recheck, Record, Origins
  <2>. QED
    BY <1>0, <1>15, <2>1, Moves DEF Recheck, Record, Steps, stored, RecordInv, TypeOK
<1>16. ASSUME NEW t \in Tasks, StorageError(t) PROVE RecordInv'
  <2>1. PICK s \in {"register", "idle"} : Goto(t, s) /\ (s = "register" => op[t] \in Origins)
    BY <1>16 DEF StorageError, Origins
  <2>2. step[t] \notin {"close_all", "forget_endpoints"} \/ halfForgotten'
    BY <1>16 DEF StorageError, Noted
  <2>. QED
    BY <1>0, <1>16, <2>1, <2>2, Moves DEF StorageError, Steps, stored, RecordInv, TypeOK
<1>17. ASSUME NEW t \in Tasks, Negotiate(t) \/ SessionEnds(t) PROVE RecordInv'
  BY <1>0, <1>17, SessionMoves
<1>18. CASE Crash
  BY <1>0, <1>18, CrashRecords
<1>. QED
  BY <1>1, <1>2, <1>4, <1>5, <1>6, <1>7, <1>8, <1>9, <1>10, <1>11, <1>12, <1>13, <1>14, <1>15,
     <1>16, <1>17, <1>18 DEF Next

LEMMA StutterRecords ==
    ASSUME RecordInv, UNCHANGED <<scenario, trustVars>> PROVE RecordInv'
<1>1. UNCHANGED <<scenario, halfForgotten, paired, grants, remembered, step, op, arg, read, kind,
                  sessions, snapshot>>
  BY DEF trustVars, vars, stored
<1>2. TypeOK' /\ ScenarioOK'
  BY <1>1 DEF RecordInv, TypeOK, ScenarioOK
<1>3. Unpaired' /\ \A t \in Tasks : TaskOK(t)'
  BY <1>1 DEF RecordInv, Unpaired, Closing, TaskOK
<1>. QED
  BY <1>2, <1>3 DEF RecordInv

LEMMA RecordStep ==
    RecordInv /\ [MCNext]_<<scenario, trustVars, historyVars>> => RecordInv'
<1> SUFFICES ASSUME RecordInv, [MCNext]_<<scenario, trustVars, historyVars>> PROVE RecordInv'
  OBVIOUS
<1>1. CASE scenario' = scenario /\ scenario # "endpoints" /\ TrustNext /\ InScenario'
  BY <1>1, NextRecords DEF TrustNext
<1>2. CASE UNCHANGED <<scenario, trustVars>>
  BY <1>2, StutterRecords
<1>. QED
  BY <1>1, <1>2 DEF MCNext

(* A forget that nothing overlaps, and that does not fail halfway, leaves  *)
(* no session but of the kinds open to unpaired peers.                     *)
THEOREM LoneForgetCloses == MCSpec => []LoneForgetClosesSessions
<1>1. RecordInv => LoneForgetClosesSessions
  <2> SUFFICES ASSUME RecordInv, scenario = "sequential", ~halfForgotten, AllIdle, ~paired
               PROVE  \A t \in sessions : kind[t] \in OpenKinds
    BY DEF LoneForgetClosesSessions, NoSessionSurvivesForget
  <2>1. Closing = {}
    BY DEF AllIdle, Closing
  <2>. QED
    BY <2>1 DEF RecordInv, Unpaired
<1>. QED
  BY <1>1, InitRecords, RecordStep, PTL DEF MCSpec
=============================================================================
