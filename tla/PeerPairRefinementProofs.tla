------------------------ MODULE PeerPairRefinementProofs ------------------------
(***************************************************************************)
(* Each node of a pair runs the registry: the refinement of                *)
(* SessionRegistry by PeerPair, from the invariant of PeerPairProofs.      *)
(***************************************************************************)
EXTENDS PeerPairProofs

(* The provers of a leaf that names none, and their seconds. A leaf that   *)
(* needs arithmetic, functions or records names SMT.                       *)
USE ZenonT(30), SMTT(30)

LEMMA InitView == ASSUME NEW n \in Nodes, Init PROVE Registry(n)!Init
<1>1. ASSUME NEW c \in Conns PROVE RegistryStage(n, c) = "unused" /\ RegistrySession(n, c) = NoSession
  <2>1. stage[n][c] = "unused"
    BY DEF Init
  <2>2. RegistryStage(n, c) = "unused"
    BY <2>1, RegistryStages
  <2>. QED
    BY <2>2 DEF RegistrySession
<1>2. RegistryOpen(n) = {} /\ RegistryHandle(n) = {}
  BY DEF Init, RegistryOpen, RegistryHandle
<1>3. [k \in {<<Other(n), RealtimeInput>>} |-> table[n]] =
          [k \in {Other(n)} \X {RealtimeInput} |-> [conn |-> NoConn, retired |-> <<>>]]
      /\ [k \in {<<Other(n), RealtimeInput>>} |-> gate[n]] =
          [k \in {Other(n)} \X {RealtimeInput} |-> NoConn]
  <2>1. {Other(n)} \X {RealtimeInput} = {<<Other(n), RealtimeInput>>}
    BY SMTT(30)
  <2>. QED
    BY <2>1 DEF Init, NoEntry
<1>4. [p \in {Other(n)} |-> proc[p]] = [p \in {Other(n)} |-> 1] /\ result[n] = [c \in Conns |-> NoConn]
  BY NodeFacts DEF Init
<1>. QED
  BY <1>1, <1>2, <1>3, <1>4
     DEF Registry!Init, Registry!Keys, Registry!NoEntry, StageView, SessionView, TableView,
         GateView, RunningView, PairKey

(* Nothing of what the registry of node n holds has changed.               *)
LEMMA StutterView ==
    ASSUME NEW n \in Nodes, UNCHANGED <<StageView(n), SessionView(n), RegistryOpen(n), RegistryHandle(n)>>,
           result'[n] = result[n], table'[n] = table[n], gate'[n] = gate[n],
           proc'[Other(n)] = proc[Other(n)]
    PROVE  UNCHANGED Registry(n)!vars
  BY DEF Registry!vars, StageView, SessionView, TableView, GateView, RunningView, PairKey

(* One connection moves on, as far as the registry of node n can tell.     *)
LEMMA MoveView ==
    ASSUME NEW n \in Nodes, NEW x \in Conns,
           \A c \in Conns \ {x} : stage'[n][c] = stage[n][c] /\ route'[c] = route[c]
    PROVE  /\ StageView(n)' = [StageView(n) EXCEPT ![x] = RegistryStage(n, x)']
           /\ SessionView(n)' = [SessionView(n) EXCEPT ![x] = RegistrySession(n, x)']
<1>1. ASSUME NEW c \in Conns \ {x}
      PROVE  RegistryStage(n, c)' = RegistryStage(n, c) /\ RegistrySession(n, c)' = RegistrySession(n, c)
  <2>1. stage'[n][c] = stage[n][c] /\ route'[c] = route[c]
    OBVIOUS
  <2>2. RegistryStage(n, c)' = RegistryStage(n, c)
    BY <2>1 DEF RegistryStage
  <2>3. RegistryOrigin(n, c)' = RegistryOrigin(n, c)
    BY <2>1 DEF RegistryOrigin
  <2>. QED
    BY <2>1, <2>2, <2>3 DEF RegistrySession, Other
<1>. QED
  BY <1>1 DEF StageView, SessionView

(* Every connection the registry has open is held by its session, so       *)
(* nothing closes for want of a handle.                                    *)
LEMMA OpenHeld ==
    ASSUME PairInv, NEW n \in Nodes
    PROVE  /\ RegistryOpen(n) \subseteq RegistryHandle(n)
           /\ RegistryHandle(n) \subseteq Conns
  BY DEF RegistryOpen, RegistryHandle, PairInv, PairTypes, EndAt, Registered

LEMMA UsableView ==
    ASSUME PairInv, NEW n \in Nodes
    PROVE  Registry(n)!Usable(PairKey(n)) <=> Usable(n)
<1>1. Registry(n)!Usable(PairKey(n)) <=> table[n].conn \in RegistryHandle(n) \cap RegistryOpen(n)
  BY DEF Registry!Usable, PairKey, TableView
<1>2. table[n].conn # NoConn /\ table[n].conn \in up[n] =>
          table[n].conn \in RegistryHandle(n) \cap RegistryOpen(n)
  BY DEF RegistryHandle, RegistryOpen, PairInv, EntryAt, Registered, PairTypes
<1>3. table[n].conn \in RegistryHandle(n) \cap RegistryOpen(n) =>
          table[n].conn # NoConn /\ table[n].conn \in up[n]
  BY NodeFacts DEF RegistryHandle, RegistryOpen
<1>. QED
  BY <1>1, <1>2, <1>3 DEF Usable

LEMMA RegistryStagesAfter ==
    ASSUME NEW n \in Nodes, NEW c \in Conns
    PROVE  /\ stage'[n][c] \in {"handshake", "confirmed"} =>
                  RegistryStage(n, c)' = IF route'[c].initiator = n THEN "dialing" ELSE "unused"
           /\ stage'[n][c] \in {"authenticated", "registered", "done"} =>
                  RegistryStage(n, c)' = stage'[n][c]
           /\ stage'[n][c] \notin {"handshake", "confirmed", "authenticated", "registered", "done"} =>
                  RegistryStage(n, c)' = "unused"
  BY DEF RegistryStage

(* What is open and held, if the connections in use are the same.          *)
LEMMA SameOpen ==
    ASSUME PairInv, PairInv', NEW n \in Nodes,
           \A c \in Conns :
               \/ /\ stage'[n][c] = stage[n][c] /\ result'[n][c] = result[n][c]
                  /\ c \in up'[n] <=> c \in up[n]
               \/ /\ stage[n][c] \notin {"authenticated"} \cup Registered
                  /\ stage'[n][c] \notin {"authenticated"} \cup Registered
    PROVE  UNCHANGED <<RegistryOpen(n), RegistryHandle(n)>>
<1>1. up[n] \subseteq Conns /\ up'[n] \subseteq Conns
  BY DEF PairInv, PairTypes
<1>2. ASSUME NEW c \in Conns
      PROVE  /\ c \in RegistryOpen(n)' <=> c \in RegistryOpen(n)
             /\ c \in RegistryHandle(n)' <=> c \in RegistryHandle(n)
  BY DEF RegistryOpen, RegistryHandle, Registered
<1>3. /\ RegistryOpen(n) \subseteq Conns /\ RegistryOpen(n)' \subseteq Conns
      /\ RegistryHandle(n) \subseteq Conns /\ RegistryHandle(n)' \subseteq Conns
  BY <1>1 DEF RegistryOpen, RegistryHandle
<1>. QED
  BY <1>2, <1>3

(* The pair has one key.                                                   *)
LEMMA KeyView ==
    ASSUME NEW n \in Nodes
    PROVE  /\ TableView(n)[PairKey(n)] = table[n] /\ GateView(n)[PairKey(n)] = gate[n]
           /\ TableView(n)' = [TableView(n) EXCEPT ![PairKey(n)] = table'[n]]
           /\ GateView(n)' = [GateView(n) EXCEPT ![PairKey(n)] = gate'[n]]
<1>1. PairKey(n)' = PairKey(n)
  BY DEF PairKey, Other
<1>. QED
  BY <1>1 DEF TableView, GateView

LEMMA NothingUnanchored ==
    ASSUME NEW n \in Nodes, NEW o, o \subseteq RegistryHandle(n)', RegistryOpen(n)' = o
    PROVE  Registry(n)!CloseExcept(o)
  BY
     DEF Registry!CloseExcept, Registry!Anchored, TableView, PairKey

LEMMA DialView ==
    ASSUME PairInv, PairInv', NEW n \in Nodes, NEW relayed \in BOOLEAN, Dial(n, relayed)
    PROVE  Registry(n)!Next
<1>00. dialed \in Nat /\ dialed + 1 \in Conns
  BY NodeFacts, SMTT(30) DEF Dial, PairInv, PairTypes, Conns
<1>0. PICK x \in Conns :
      /\ x = dialed + 1
      /\ route' = [route EXCEPT ![x] = [initiator |-> n, relayed |-> relayed, proc |-> proc]]
      /\ stage' = [i \in Nodes |-> [stage[i] EXCEPT ![x] = "handshake"]]
      /\ up' = [i \in Nodes |-> up[i] \cup {x}]
      /\ table' = [table EXCEPT ![n] = NoEntry]
      /\ ~relayed => gate[n] = NoConn /\ gate' = [gate EXCEPT ![n] = x]
      /\ relayed => UNCHANGED gate
      /\ UNCHANGED <<result, proc>>
      /\ ~Usable(n)
  BY <1>00 DEF Dial
<1>1. stage[n][x] = "unused"
  <2>1. x > dialed
    BY <1>00, <1>0, SMTT(30)
  <2>. QED
    BY <2>1 DEF PairInv, EndAt
<1>2. /\ stage'[n][x] = "handshake" /\ route'[x].initiator = n /\ route'[x].relayed = relayed
      /\ \A c \in Conns \ {x} : stage'[n][c] = stage[n][c] /\ route'[c] = route[c]
  BY <1>0, SMTT(30) DEF PairInv, PairTypes
<1>3. UNCHANGED <<RegistryOpen(n), RegistryHandle(n)>>
  <2>1. \A c \in Conns \ {x} : c \in up'[n] <=> c \in up[n]
    BY <1>0
  <2>. QED
    BY <1>0, <1>1, <1>2, <2>1, SameOpen DEF Registered
<1>4. /\ RegistryStage(n, x) = "unused" /\ RegistryStage(n, x)' = "dialing"
      /\ RegistryOrigin(n, x)' = IF relayed THEN "relay_connect" ELSE "connect"
  <2>1. RegistryStage(n, x) = "unused" /\ RegistryStage(n, x)' = "dialing"
    BY <1>1, <1>2, RegistryStages, RegistryStagesAfter
  <2>2. RegistryOrigin(n, x)' = IF relayed THEN "relay_connect" ELSE "connect"
    BY <1>2 DEF RegistryOrigin
  <2>. QED
    BY <2>1, <2>2
<1>5. RegistrySession(n, x)' = [peer |-> Other(n), kind |-> RealtimeInput,
                                origin |-> IF relayed THEN "relay_connect" ELSE "connect",
                                instance |-> 0]
  BY <1>4 DEF RegistrySession, Other
<1>6. /\ StageView(n)[x] = "unused"
      /\ StageView(n)' = [StageView(n) EXCEPT ![x] = "dialing"]
      /\ SessionView(n)' = [SessionView(n) EXCEPT ![x] =
             [peer |-> Other(n), kind |-> RealtimeInput,
              origin |-> IF relayed THEN "relay_connect" ELSE "connect", instance |-> 0]]
  BY <1>2, <1>4, <1>5, MoveView, SMTT(30) DEF StageView
<1>7. TableView(n)' = [TableView(n) EXCEPT ![PairKey(n)] = NoEntry]
  <2>1. table'[n] = NoEntry
    BY <1>0, SMTT(30) DEF PairInv, PairTypes
  <2>. QED
    BY <2>1, KeyView
<1>8. Registry(n)!CloseExcept(RegistryOpen(n)) /\ ~Registry(n)!Usable(PairKey(n))
  BY <1>0, <1>3, OpenHeld, NothingUnanchored, UsableView, SMTT(30)
<1>9. RunningView(n)' = RunningView(n) /\ result'[n] = result[n]
  BY <1>0 DEF RunningView, Other
<1>10. CASE ~relayed
  <2>1. GateView(n)[PairKey(n)] = NoConn /\ GateView(n)' = [GateView(n) EXCEPT ![PairKey(n)] = x]
    <3>1. gate[n] = NoConn /\ gate'[n] = x
      BY <1>0, <1>10, SMTT(30) DEF PairInv, PairTypes
    <3>. QED
      BY <3>1, KeyView
  <2>2. Registry(n)!StartConnect(x, Other(n), RealtimeInput)
    BY <1>3, <1>6, <1>7, <1>8, <1>9, <1>10, <2>1
       DEF Registry!StartConnect, Registry!NoInstance, Registry!NoEntry, NoEntry, StageView,
           SessionView, TableView, GateView, RunningView, PairKey
  <2>. QED
    BY <2>2 DEF Registry!Next
<1>11. CASE relayed
  <2>1. GateView(n)' = GateView(n)
    BY <1>0, <1>11 DEF GateView, PairKey, Other
  <2>2. Registry(n)!StartRelayConnect(x, Other(n))
    BY <1>3, <1>6, <1>7, <1>8, <1>9, <1>11, <2>1
       DEF Registry!StartRelayConnect, Registry!NoInstance, Registry!NoEntry, NoEntry,
           StageView, SessionView, TableView, GateView, RunningView, PairKey
  <2>. QED
    BY <2>2 DEF Registry!Next
<1>. QED
  BY <1>10, <1>11

LEMMA OpenHeldAfter ==
    ASSUME PairInv', NEW n \in Nodes
    PROVE  RegistryOpen(n)' \subseteq RegistryHandle(n)'
  BY DEF RegistryOpen, RegistryHandle, PairInv, PairTypes, EndAt, Registered

(* The dial lock is given up by the task that has it, or by none.          *)
LEMMA ReleaseView ==
    ASSUME PairInv, NEW n \in Nodes, NEW c \in Conns, Release(n, c)
    PROVE  Registry(n)!Release(c)
<1>1. gate'[n] = IF gate[n] = c THEN NoConn ELSE gate[n]
  BY DEF Release, PairInv, PairTypes
<1>2. {Other(n)} \X {RealtimeInput} = {<<Other(n), RealtimeInput>>}
  BY SMTT(30)
<1>. QED
  BY <1>1, <1>2
     DEF Registry!Release, Registry!Keys, Other, GateView, PairKey

LEMMA AuthenticateView ==
    ASSUME PairInv, PairInv', NEW n \in Nodes, NEW x \in Conns, Authenticate(n, x)
    PROVE  Registry(n)!Next
<1> DEFINE o == Other(n)
           i == Instance(n, x)
           new == [peer |-> o, kind |-> RealtimeInput, origin |-> RegistryOrigin(n, x), instance |-> i]
<1>0. /\ stage[n][x] = "confirmed" /\ x \in up[n]
      /\ stage' = [stage EXCEPT ![n][x] = "authenticated"]
      /\ UNCHANGED <<route, result, up, table, gate, proc>>
  BY DEF Authenticate
<1>1. /\ stage'[n][x] = "authenticated"
      /\ \A c \in Conns \ {x} : stage'[n][c] = stage[n][c] /\ route'[c] = route[c]
  BY <1>0 DEF PairInv, PairTypes
<1>2. i \in 1..proc[o] /\ i \in 1..MaxProcess /\ o \in Nodes /\ route[x].initiator \in Nodes
  <2>1. o \in Nodes /\ EndAt(n, x) /\ proc[o] \in 1..MaxProcess
    BY NodeFacts DEF PairInv, PairTypes
  <2>2. i \in 1..proc[o] /\ route[x].initiator \in Nodes
    BY <1>0, <2>1 DEF EndAt, Instance
  <2>. QED
    BY <2>1, <2>2, NodeFacts, SMTT(30)
<1>3. RegistryStage(n, x)' = "authenticated" /\ RegistryOrigin(n, x)' = RegistryOrigin(n, x)
  <2>1. RegistryStage(n, x)' = "authenticated"
    BY <1>1, RegistryStagesAfter, SMTT(30)
  <2>2. RegistryOrigin(n, x)' = RegistryOrigin(n, x)
    BY <1>0 DEF RegistryOrigin
  <2>. QED
    BY <2>1, <2>2
<1>4. RegistrySession(n, x)' = new
  BY <1>0, <1>3 DEF RegistrySession, Instance, Other
<1>5. /\ StageView(n)' = [StageView(n) EXCEPT ![x] = "authenticated"]
      /\ SessionView(n)' = [SessionView(n) EXCEPT ![x] = new]
  <2> HIDE DEF new
  <2>. QED
    BY <1>1, <1>3, <1>4, MoveView, SMTT(30)
<1>6. /\ RegistryOpen(n)' = RegistryOpen(n) \cup {x}
      /\ RegistryHandle(n)' = RegistryHandle(n) \cup {x}
  <2>1. up[n] \subseteq Conns /\ up'[n] = up[n] /\ result'[n] = result[n]
    BY <1>0 DEF PairInv, PairTypes
  <2>2. RegistryOpen(n)' = RegistryOpen(n) \cup {x}
    BY <1>0, <1>1, <2>1 DEF RegistryOpen
  <2>3. RegistryHandle(n)' = RegistryHandle(n) \cup {x}
    BY <1>1, <2>1 DEF RegistryHandle
  <2>. QED
    BY <2>2, <2>3
<1>7. /\ TableView(n)' = TableView(n) /\ GateView(n)' = GateView(n) /\ RunningView(n)' = RunningView(n)
      /\ result'[n] = result[n]
  BY <1>0 DEF TableView, GateView, RunningView, PairKey, Other
<1>8. RunningView(n)[o] = proc[o] /\ i <= proc[o]
  BY <1>2, NodeFacts, SMTT(30) DEF RunningView, PairInv, PairTypes
<1>9. CASE route[x].initiator = n
  <2>1. RegistryStage(n, x) = "dialing"
    BY <1>0, <1>9, RegistryStages
  <2>2. SessionView(n)[x] = [peer |-> o, kind |-> RealtimeInput, origin |-> RegistryOrigin(n, x),
                             instance |-> 0]
    BY <2>1 DEF SessionView, RegistrySession
  <2>3. SessionView(n)' = [SessionView(n) EXCEPT ![x].instance = i] /\ SessionView(n)[x].peer = o
    <3>1. [SessionView(n)[x] EXCEPT !.instance = i] = new
      BY <2>2, SMTT(30)
    <3> HIDE DEF new, i, o
    <3>2. [SessionView(n) EXCEPT ![x].instance = i] = [SessionView(n) EXCEPT ![x] = new]
      BY <3>1
    <3>. QED
      BY <1>5, <2>2, <3>2, SMTT(30)
  <2>4. StageView(n)[x] = "dialing"
    BY <2>1 DEF StageView
  <2> HIDE DEF i, o, new
  <2>5. Registry(n)!AuthenticateOutbound(x, i)
    BY <1>5, <1>6, <1>7, <1>8, <2>3, <2>4
       DEF Registry!AuthenticateOutbound, Registry!InstanceOf, StageView, SessionView,
           TableView, GateView, RunningView, PairKey
  <2>. QED
    BY <1>2, <2>5
       DEF Registry!Next
<1>10. CASE route[x].initiator # n
  <2>1. RegistryStage(n, x) = "unused"
    BY <1>0, <1>10, RegistryStages
  <2>2. StageView(n)[x] = "unused"
    BY <2>1 DEF StageView
  <2>3. RegistryOrigin(n, x) \in {"accept", "relay_accept"}
    BY <1>10, RegistryOrigins
  <2>4. Registry(n)!AuthenticateInbound(x, o, RealtimeInput, RegistryOrigin(n, x), i)
    BY <1>5, <1>6, <1>7, <1>8, <2>2, <2>3
       DEF Registry!AuthenticateInbound, Registry!InstanceOf, StageView, SessionView,
           TableView, GateView, RunningView, PairKey
  <2>. QED
    BY <1>2, <2>3, <2>4
       DEF Registry!Next, Registry!Origins
<1>. QED
  BY <1>9, <1>10

LEMMA GiveUpView ==
    ASSUME PairInv, PairInv', NEW n \in Nodes, NEW x \in Conns, GiveUp(n, x)
    PROVE  Registry(n)!Next \/ UNCHANGED Registry(n)!vars
<1>0. /\ stage[n][x] \in {"handshake", "confirmed"}
      /\ stage' = [stage EXCEPT ![n][x] = Fallen(stage[n][x])]
      /\ up' = [up EXCEPT ![n] = @ \ {x}] /\ Release(n, x)
      /\ UNCHANGED <<route, result, table, proc>>
  BY DEF GiveUp, PairInv, PairTypes
<1>1. /\ stage'[n][x] \in {"failed", "aborted"}
      /\ \A c \in Conns \ {x} : /\ stage'[n][c] = stage[n][c] /\ route'[c] = route[c]
                                /\ c \in up'[n] <=> c \in up[n]
  BY <1>0 DEF PairInv, PairTypes, Fallen
<1>2. UNCHANGED <<RegistryOpen(n), RegistryHandle(n)>>
  BY <1>0, <1>1, SameOpen DEF Registered
<1>3. RegistryStage(n, x)' = "unused" /\ RegistrySession(n, x)' = NoSession
  <2>1. RegistryStage(n, x)' = "unused"
    BY <1>1, RegistryStagesAfter, SMTT(30)
  <2>. QED
    BY <2>1 DEF RegistrySession
<1>4. /\ StageView(n)' = [StageView(n) EXCEPT ![x] = "unused"]
      /\ SessionView(n)' = [SessionView(n) EXCEPT ![x] = NoSession]
  BY <1>1, <1>3, MoveView
<1>5. TableView(n)' = TableView(n) /\ RunningView(n)' = RunningView(n) /\ result'[n] = result[n]
  BY <1>0 DEF TableView, RunningView, PairKey, Other
<1>6. CASE route[x].initiator = n
  <2>1. StageView(n)[x] = "dialing"
    BY <1>0, <1>6, RegistryStages DEF StageView
  <2>2. Registry(n)!Release(x)
    BY <1>0, ReleaseView
  <2>3. Registry(n)!DialFails(x)
    BY <1>2, <1>4, <1>5, <2>1, <2>2
       DEF Registry!DialFails, StageView, SessionView, TableView, RunningView, PairKey
  <2>. QED
    BY <2>3 DEF Registry!Next
<1>7. CASE route[x].initiator # n
  <2>1. RegistryStage(n, x) = "unused"
    BY <1>0, <1>7, RegistryStages
  <2>2. RegistrySession(n, x) = NoSession
    BY <2>1 DEF RegistrySession
  <2>3. StageView(n)' = StageView(n) /\ SessionView(n)' = SessionView(n)
    BY <1>4, <2>1, <2>2 DEF StageView, SessionView
  <2>4. gate[n] # x
    BY <1>7, NodeFacts DEF PairInv, GateAt
  <2>5. gate'[n] = gate[n] /\ table'[n] = table[n] /\ proc'[Other(n)] = proc[Other(n)]
    BY <1>0, <2>4 DEF Release, PairInv, PairTypes
  <2>. QED
    BY <1>2, <1>5, <2>3, <2>5, StutterView
<1>. QED
  BY <1>6, <1>7

LEMMA RegisterView ==
    ASSUME PairInv, PairInv', NEW n \in Nodes, NEW x \in Conns, RegisterSession(n, x)
    PROVE  Registry(n)!Next
<1> DEFINE returned == Registry(n)!Returned(x)
           closed == Registry(n)!Closed(x)
           next == IF RegistryOrigin(n, x) = "connect" /\ returned # NoConn THEN "registered" ELSE "done"
           entry == [conn |-> x, retired |-> Registry(n)!Retire(x)]
<1>0. /\ stage[n][x] = "authenticated"
      /\ stage' = [stage EXCEPT ![n][x] = next]
      /\ result' = [result EXCEPT ![n][x] = returned]
      /\ table' = IF returned = x THEN [table EXCEPT ![n] = entry] ELSE table
      /\ up' = [up EXCEPT ![n] = @ \ closed]
      /\ IF returned = NoConn THEN Release(n, x) ELSE UNCHANGED gate
      /\ UNCHANGED <<route, proc>>
  BY DEF RegisterSession
<1>1. Registry(n)!Key(x) = PairKey(n)
  BY <1>0, Decision DEF PairKey
<1>2. /\ StageView(n)[x] = "authenticated"
      /\ SessionView(n)[x].origin = RegistryOrigin(n, x)
  <2>1. RegistryStage(n, x) = "authenticated"
    BY <1>0, RegistryStages
  <2>2. RegistrySession(n, x).origin = RegistryOrigin(n, x)
    BY <1>0, RegistrySessions, SMTT(30)
  <2>. QED
    BY <2>1, <2>2 DEF StageView, SessionView
<1> HIDE DEF returned, closed, entry
<1>3. /\ stage'[n][x] = next /\ result'[n] = [result[n] EXCEPT ![x] = returned]
      /\ up'[n] = up[n] \ closed /\ up[n] \subseteq Conns
      /\ table'[n] = IF returned = x THEN entry ELSE table[n]
      /\ \A c \in Conns \ {x} : /\ stage'[n][c] = stage[n][c] /\ route'[c] = route[c]
                                /\ result'[n][c] = result[n][c]
  BY <1>0, SMTT(30) DEF PairInv, PairTypes
<1>4. result'[n][x] = returned
  BY <1>3 DEF PairInv, PairTypes
<1>5. /\ StageView(n)' = [StageView(n) EXCEPT ![x] = next]
      /\ SessionView(n)' = SessionView(n)
  <2>1. RegistryStage(n, x)' = next
    BY <1>3, RegistryStagesAfter, SMTT(30)
  <2>2. RegistryOrigin(n, x)' = RegistryOrigin(n, x)
    BY <1>0 DEF RegistryOrigin
  <2>3. RegistrySession(n, x)' = RegistrySession(n, x)
    <3>1. RegistryStage(n, x) = "authenticated" /\ RegistryStage(n, x)' \in {"registered", "done"}
      BY <1>0, <2>1, RegistryStages, SMTT(30)
    <3>. QED
      BY <1>0, <2>2, <3>1 DEF RegistrySession, Other
  <2> HIDE DEF next
  <2>4. StageView(n)' = [StageView(n) EXCEPT ![x] = next]
    BY <1>3, <2>1, MoveView, SMTT(30)
  <2>5. SessionView(n)' = [SessionView(n) EXCEPT ![x] = RegistrySession(n, x)]
    BY <1>3, <2>3, MoveView, SMTT(30)
  <2>. QED
    BY <2>4, <2>5 DEF SessionView
<1>6. RegistryHandle(n)' = IF returned = x THEN RegistryHandle(n) ELSE RegistryHandle(n) \ {x}
  BY <1>0, <1>3, <1>4, SMTT(30) DEF RegistryHandle
<1>7. RegistryOpen(n)' = RegistryOpen(n) \ closed
  BY <1>0, <1>3 DEF RegistryOpen
<1>8. Registry(n)!CloseExcept(RegistryOpen(n) \ closed)
  BY <1>7, OpenHeldAfter, NothingUnanchored
<1>9. TableView(n)' = IF returned = x THEN [TableView(n) EXCEPT ![PairKey(n)] = entry] ELSE TableView(n)
  <2>1. CASE returned = x
    BY <1>3, <2>1, KeyView
  <2>2. CASE returned # x
    BY <1>3, <2>2 DEF TableView, PairKey, Other
  <2>. QED
    BY <2>1, <2>2
<1>10. IF returned = NoConn THEN Registry(n)!Release(x) ELSE GateView(n)' = GateView(n)
  <2>1. CASE returned = NoConn
    BY <1>0, <2>1, ReleaseView
  <2>2. CASE returned # NoConn
    BY <1>0, <2>2 DEF GateView, PairKey, Other
  <2>. QED
    BY <2>1, <2>2
<1>11. RunningView(n)' = RunningView(n)
  BY <1>0 DEF RunningView, Other
<1>12. Registry(n)!RegisterSession(x)
  BY <1>1, <1>2, <1>3, <1>5, <1>6, <1>8, <1>9, <1>10, <1>11
     DEF Registry!RegisterSession, returned, closed, entry, StageView, SessionView, TableView,
         GateView, RunningView, PairKey
<1>. QED
  BY <1>12 DEF Registry!Next

LEMMA RememberView ==
    ASSUME PairInv, PairInv', NEW n \in Nodes, NEW x \in Conns, RememberDialed(n, x)
    PROVE  Registry(n)!Next
<1>0. /\ stage[n][x] = "registered" /\ stage' = [stage EXCEPT ![n][x] = "done"] /\ Release(n, x)
      /\ UNCHANGED <<route, result, up, table, proc>>
  BY DEF RememberDialed
<1>1. /\ stage'[n][x] = "done"
      /\ \A c \in Conns \ {x} : stage'[n][c] = stage[n][c] /\ route'[c] = route[c]
  BY <1>0 DEF PairInv, PairTypes
<1>2. StageView(n)[x] = "registered" /\ StageView(n)' = [StageView(n) EXCEPT ![x] = "done"]
  BY <1>0, <1>1, RegistryStages, RegistryStagesAfter, MoveView, SMTT(30) DEF StageView
<1>3. SessionView(n)' = SessionView(n)
  <2>1. RegistryOrigin(n, x)' = RegistryOrigin(n, x)
    BY <1>0 DEF RegistryOrigin
  <2>2. RegistryStage(n, x) = "registered" /\ RegistryStage(n, x)' = "done"
    BY <1>0, <1>1, RegistryStages, RegistryStagesAfter, SMTT(30)
  <2>3. RegistrySession(n, x)' = RegistrySession(n, x)
    BY <1>0, <2>1, <2>2 DEF RegistrySession, Other
  <2>4. SessionView(n)' = [SessionView(n) EXCEPT ![x] = RegistrySession(n, x)]
    BY <1>1, <2>3, MoveView, SMTT(30)
  <2>. QED
    BY <2>4 DEF SessionView
<1>4. UNCHANGED <<RegistryOpen(n), RegistryHandle(n)>>
  BY <1>0, <1>1, SMTT(30) DEF RegistryOpen, RegistryHandle
<1>5. TableView(n)' = TableView(n) /\ RunningView(n)' = RunningView(n) /\ result'[n] = result[n]
  BY <1>0 DEF TableView, RunningView, PairKey, Other
<1>6. Registry(n)!Release(x)
  BY <1>0, ReleaseView
<1>7. Registry(n)!RememberDialed(x)
  BY <1>2, <1>3, <1>4, <1>5, <1>6
     DEF Registry!RememberDialed, StageView, SessionView, TableView, RunningView, PairKey
<1>. QED
  BY <1>7 DEF Registry!Next

(* The steps of node n that move no connection on.                         *)
LEMMA StillView ==
    ASSUME NEW n \in Nodes, stage'[n] = stage[n], route' = route
    PROVE  StageView(n)' = StageView(n) /\ SessionView(n)' = SessionView(n)
<1>1. ASSUME NEW c \in Conns
      PROVE  RegistryStage(n, c)' = RegistryStage(n, c) /\ RegistrySession(n, c)' = RegistrySession(n, c)
  <2>1. RegistryStage(n, c)' = RegistryStage(n, c)
    BY DEF RegistryStage
  <2>2. RegistryOrigin(n, c)' = RegistryOrigin(n, c)
    BY DEF RegistryOrigin
  <2>. QED
    BY <2>1, <2>2 DEF RegistrySession, Other
<1>. QED
  BY <1>1 DEF StageView, SessionView

LEMMA CloseView ==
    ASSUME PairInv, PairInv', NEW n \in Nodes, NEW x \in Conns, PeerCloses(n, x)
    PROVE  Registry(n)!Next \/ UNCHANGED Registry(n)!vars
<1>0. /\ x \in up[n] /\ up'[n] = up[n] \ {x}
      /\ UNCHANGED <<route, stage, result, table, gate, proc>>
  BY DEF PeerCloses, PairInv, PairTypes
<1>1. StageView(n)' = StageView(n) /\ SessionView(n)' = SessionView(n)
  BY <1>0, StillView
<1>2. /\ RegistryOpen(n)' = RegistryOpen(n) \ {x}
      /\ RegistryHandle(n)' = RegistryHandle(n)
  BY <1>0 DEF RegistryOpen, RegistryHandle
<1>3. /\ TableView(n)' = TableView(n) /\ GateView(n)' = GateView(n) /\ RunningView(n)' = RunningView(n)
      /\ result'[n] = result[n]
  BY <1>0 DEF TableView, GateView, RunningView, PairKey, Other
<1>4. CASE x \in RegistryOpen(n)
  <2>1. Registry(n)!TransportCloses(x)
    BY <1>1, <1>2, <1>3, <1>4
      
          DEF Registry!TransportCloses, StageView, SessionView, TableView, GateView,
              RunningView, PairKey
  <2>. QED
    BY <2>1 DEF Registry!Next
<1>5. CASE x \notin RegistryOpen(n)
  BY <1>0, <1>1, <1>2, <1>5, StutterView
<1>. QED
  BY <1>4, <1>5

LEMMA RelayWatcherView ==
    ASSUME PairInv, PairInv', NEW n \in Nodes, NEW x \in Conns, RelayWatcher(n, x)
    PROVE  Registry(n)!Next
<1>0. /\ stage[n][x] = "done" /\ route[x].relayed /\ x \notin up[n] /\ table[n].conn = x
      /\ table'[n] = NoEntry
      /\ UNCHANGED <<route, stage, result, up, gate, proc>>
  BY DEF RelayWatcher, PairInv, PairTypes
<1>1. StageView(n)' = StageView(n) /\ SessionView(n)' = SessionView(n)
  BY <1>0, StillView
<1>2. /\ RegistryOpen(n)' = RegistryOpen(n) /\ RegistryHandle(n)' = RegistryHandle(n)
      /\ x \notin RegistryOpen(n)
  BY <1>0 DEF RegistryOpen, RegistryHandle
<1>3. TableView(n)' = [TableView(n) EXCEPT ![PairKey(n)] = NoEntry] /\ TableView(n)[PairKey(n)].conn = x
  BY <1>0, KeyView
<1>4. GateView(n)' = GateView(n) /\ RunningView(n)' = RunningView(n) /\ result'[n] = result[n]
  BY <1>0 DEF GateView, RunningView, PairKey, Other
<1>5. /\ StageView(n)[x] = "done"
      /\ SessionView(n)[x].peer = Other(n) /\ SessionView(n)[x].kind = RealtimeInput
      /\ SessionView(n)[x].origin \in {"relay_connect", "relay_accept"}
  <2>1. RegistryStage(n, x) = "done"
    BY <1>0, RegistryStages, SMTT(30)
  <2>2. RegistrySession(n, x) = [peer |-> Other(n), kind |-> RealtimeInput,
                                 origin |-> RegistryOrigin(n, x), instance |-> route[x].proc[Other(n)]]
    BY <1>0, RegistrySessions DEF Registered
  <2>3. RegistryOrigin(n, x) \in {"relay_connect", "relay_accept"}
    BY <1>0, RegistryOrigins
  <2>. QED
    BY <2>1, <2>2, <2>3, SMTT(30) DEF StageView, SessionView
<1>6. Registry(n)!RelayWatcher(x)
  BY <1>1, <1>2, <1>3, <1>4, <1>5
    
        DEF Registry!RelayWatcher, Registry!Relayed, Registry!Current, Registry!Key,
            Registry!NoEntry, NoEntry, StageView, SessionView, TableView, GateView,
            RunningView, PairKey
<1>. QED
  BY <1>6 DEF Registry!Next

(* The pair has one kind of session, so that a disconnect takes the same   *)
(* one entry as the grant of CrossScreenInject.                            *)
LEMMA DisconnectView ==
    ASSUME PairInv, PairInv', NEW n \in Nodes, Disconnect(n)
    PROVE  Registry(n)!Next
<1> DEFINE x == table[n].conn
<1>0. /\ x # NoConn /\ table'[n] = NoEntry /\ up'[n] = up[n] \ {x}
      /\ UNCHANGED <<route, stage, result, gate, proc>>
  BY DEF Disconnect, PairInv, PairTypes
<1>1. StageView(n)' = StageView(n) /\ SessionView(n)' = SessionView(n)
  BY <1>0, StillView
<1>2. RegistryOpen(n)' = RegistryOpen(n) \ {x} /\ RegistryHandle(n)' = RegistryHandle(n)
  BY <1>0 DEF RegistryOpen, RegistryHandle
<1>3. Registry(n)!CloseExcept(RegistryOpen(n) \ {x})
  BY <1>2, OpenHeldAfter, NothingUnanchored
<1>4. TableView(n)' = [TableView(n) EXCEPT ![PairKey(n)] = NoEntry] /\ TableView(n)[PairKey(n)].conn = x
  BY <1>0, KeyView
<1>5. GateView(n)' = GateView(n) /\ RunningView(n)' = RunningView(n) /\ result'[n] = result[n]
  BY <1>0 DEF GateView, RunningView, PairKey, Other
<1>6. Registry(n)!GrantInject(Other(n))
  BY <1>0, <1>1, <1>2, <1>3, <1>4, <1>5
     DEF Registry!GrantInject, Registry!NoEntry, NoEntry, StageView, SessionView, TableView,
         GateView, RunningView, PairKey
<1>. QED
  BY <1>6 DEF Registry!Next

-----------------------------------------------------------------------------
(* What the other node does.                                               *)
LEMMA AsideView ==
    ASSUME NEW n \in Nodes, stage'[n] = stage[n], route' = route, result'[n] = result[n],
           up'[n] = up[n], table'[n] = table[n], gate'[n] = gate[n]
    PROVE  /\ UNCHANGED <<StageView(n), SessionView(n), RegistryOpen(n), RegistryHandle(n)>>
           /\ UNCHANGED <<TableView(n), GateView(n)>>
<1>1. UNCHANGED <<RegistryOpen(n), RegistryHandle(n)>>
  BY DEF RegistryOpen, RegistryHandle
<1>2. UNCHANGED <<TableView(n), GateView(n)>>
  BY DEF TableView, GateView, PairKey, Other
<1>. QED
  BY <1>1, <1>2, StillView

LEMMA PeerTaskView ==
    ASSUME PairInv, NEW n \in Nodes, NEW m \in Nodes \ {n},
           (\E c \in Conns : Task(m, c) \/ HandshakeTimesOut(m, c)) \/ Disconnect(m)
    PROVE  UNCHANGED Registry(n)!vars
<1> DEFINE Same == /\ stage'[n] = stage[n] /\ route' = route /\ result'[n] = result[n]
                   /\ up'[n] = up[n] /\ table'[n] = table[n] /\ gate'[n] = gate[n] /\ proc' = proc
<1>1. Same
  <2>1. ASSUME NEW c \in Conns, Task(m, c) \/ HandshakeTimesOut(m, c) PROVE Same
    <3>1. CASE SendAccepted(m, c) \/ Authenticate(m, c)
      BY <3>1 DEF SendAccepted, Authenticate, PairInv, PairTypes
    <3>2. CASE GiveUp(m, c)
      BY <3>2 DEF GiveUp, Release, PairInv, PairTypes
    <3>3. CASE RegisterSession(m, c)
      BY <3>3 DEF RegisterSession, Release, PairInv, PairTypes
    <3>4. CASE RememberDialed(m, c)
      BY <3>4 DEF RememberDialed, Release, PairInv, PairTypes
    <3>5. CASE PeerCloses(m, c) \/ RelayWatcher(m, c)
      BY <3>5 DEF PeerCloses, RelayWatcher, PairInv, PairTypes
    <3>. QED
      BY <2>1, <3>1, <3>2, <3>3, <3>4, <3>5 DEF Task, HandshakeFails, HandshakeTimesOut
  <2>2. CASE Disconnect(m)
    BY <2>2 DEF Disconnect, PairInv, PairTypes
  <2>. QED
    BY <2>1, <2>2
<1>. QED
  BY <1>1, AsideView, StutterView

(* A connection the other node dials is nothing to the registry before it  *)
(* has authenticated.                                                      *)
LEMMA PeerDialView ==
    ASSUME PairInv, PairInv', NEW n \in Nodes, NEW m \in Nodes \ {n}, NEW relayed \in BOOLEAN, Dial(m, relayed)
    PROVE  UNCHANGED Registry(n)!vars
<1>00. dialed \in Nat /\ dialed + 1 \in Conns
  BY NodeFacts, SMTT(30) DEF Dial, PairInv, PairTypes, Conns
<1>0. PICK x \in Conns :
      /\ x = dialed + 1
      /\ route' = [route EXCEPT ![x] = [initiator |-> m, relayed |-> relayed, proc |-> proc]]
      /\ stage' = [i \in Nodes |-> [stage[i] EXCEPT ![x] = "handshake"]]
      /\ up' = [i \in Nodes |-> up[i] \cup {x}]
      /\ table' = [table EXCEPT ![m] = NoEntry]
      /\ gate' = gate \/ gate' = [gate EXCEPT ![m] = x]
      /\ UNCHANGED <<result, proc>>
  BY <1>00 DEF Dial
<1>1. stage[n][x] = "unused"
  <2>1. x > dialed
    BY <1>00, <1>0, SMTT(30)
  <2>. QED
    BY <2>1 DEF PairInv, EndAt
<1>2. /\ stage'[n][x] = "handshake" /\ route'[x].initiator = m
      /\ \A c \in Conns \ {x} : stage'[n][c] = stage[n][c] /\ route'[c] = route[c]
      /\ table'[n] = table[n] /\ gate'[n] = gate[n]
  BY <1>0, SMTT(30) DEF PairInv, PairTypes
<1>3. UNCHANGED <<RegistryOpen(n), RegistryHandle(n)>>
  <2>1. \A c \in Conns \ {x} : c \in up'[n] <=> c \in up[n]
    BY <1>0
  <2>. QED
    BY <1>0, <1>1, <1>2, <2>1, SameOpen DEF Registered
<1>4. RegistryStage(n, x) = "unused" /\ RegistryStage(n, x)' = "unused"
  BY <1>1, <1>2, RegistryStages, RegistryStagesAfter
<1>5. RegistrySession(n, x) = NoSession /\ RegistrySession(n, x)' = NoSession
  BY <1>4 DEF RegistrySession
<1>6. StageView(n)' = StageView(n) /\ SessionView(n)' = SessionView(n)
  <2>1. /\ StageView(n)' = [StageView(n) EXCEPT ![x] = "unused"]
        /\ SessionView(n)' = [SessionView(n) EXCEPT ![x] = NoSession]
    BY <1>2, <1>4, <1>5, MoveView
  <2>. QED
    BY <1>4, <1>5, <2>1 DEF StageView, SessionView
<1>. QED
  BY <1>0, <1>2, <1>3, <1>6, StutterView

LEMMA PeerRestartView ==
    ASSUME PairInv, NEW n \in Nodes, NEW m \in Nodes \ {n}, Restart(m)
    PROVE  Registry(n)!Next
<1>0. /\ proc[m] < MaxProcess /\ proc'[m] = proc[m] + 1
      /\ stage'[n] = stage[n] /\ route' = route /\ result'[n] = result[n]
      /\ up'[n] = up[n] /\ table'[n] = table[n] /\ gate'[n] = gate[n]
  BY DEF Restart, PairInv, PairTypes
<1>1. m = Other(n)
  BY SMTT(30) DEF Nodes, Other
<1>2. /\ UNCHANGED <<StageView(n), SessionView(n), RegistryOpen(n), RegistryHandle(n)>>
      /\ UNCHANGED <<TableView(n), GateView(n)>>
  BY <1>0, AsideView
<1>3. RunningView(n)[m] < MaxProcess /\ RunningView(n)' = [RunningView(n) EXCEPT ![m] = @ + 1]
  BY <1>0, <1>1 DEF RunningView, Other
<1>4. Registry(n)!Restart(m)
  BY <1>0, <1>2, <1>3
     DEF Registry!Restart, StageView, SessionView, TableView, GateView, RunningView, PairKey
<1>. QED
  BY <1>1, <1>4 DEF Registry!Next

LEMMA SendView ==
    ASSUME PairInv, PairInv', NEW n \in Nodes, NEW x \in Conns, SendAccepted(n, x)
    PROVE  UNCHANGED Registry(n)!vars
<1>0. /\ stage[n][x] = "handshake" /\ stage'[n][x] = "confirmed"
      /\ \A c \in Conns \ {x} : stage'[n][c] = stage[n][c]
      /\ UNCHANGED <<route, result, up, table, gate, proc>>
  BY DEF SendAccepted, PairInv, PairTypes
<1>1. RegistryStage(n, x)' = RegistryStage(n, x) /\ RegistryStage(n, x) \in {"unused", "dialing"}
  BY <1>0, RegistryStages, RegistryStagesAfter, SMTT(30)
<1>2. RegistrySession(n, x)' = RegistrySession(n, x)
  <2>1. RegistryOrigin(n, x)' = RegistryOrigin(n, x)
    BY <1>0 DEF RegistryOrigin
  <2>. QED
    BY <1>0, <1>1, <2>1 DEF RegistrySession, Other
<1>3. StageView(n)' = StageView(n) /\ SessionView(n)' = SessionView(n)
  <2>1. /\ StageView(n)' = [StageView(n) EXCEPT ![x] = RegistryStage(n, x)]
        /\ SessionView(n)' = [SessionView(n) EXCEPT ![x] = RegistrySession(n, x)]
    BY <1>0, <1>1, <1>2, MoveView
  <2>. QED
    BY <2>1 DEF StageView, SessionView
<1>4. UNCHANGED <<RegistryOpen(n), RegistryHandle(n)>>
  BY <1>0, SameOpen DEF Registered
<1>. QED
  BY <1>0, <1>3, <1>4, StutterView

(* Every step of the pair is a step of the registry of a node that does    *)
(* not restart, or none of its business.                                   *)
LEMMA NextView ==
    ASSUME PairInv, PairInv', NEW n \in Nodes \ RestartNodes, Next
    PROVE  Registry(n)!Next \/ UNCHANGED Registry(n)!vars
<1>1. PICK m \in Nodes : \/ \E relayed \in BOOLEAN : Dial(m, relayed)
                         \/ \E c \in Conns : Task(m, c)
                         \/ \E c \in Conns : HandshakeTimesOut(m, c)
                         \/ Disconnect(m)
                         \/ Restart(m)
  BY DEF Next
<1>2. CASE m # n
  <2>1. ASSUME NEW relayed \in BOOLEAN, Dial(m, relayed) PROVE UNCHANGED Registry(n)!vars
    BY <1>2, <2>1, PeerDialView
  <2>2. ASSUME (\E c \in Conns : Task(m, c) \/ HandshakeTimesOut(m, c)) \/ Disconnect(m)
        PROVE  UNCHANGED Registry(n)!vars
    BY <1>2, <2>2, PeerTaskView
  <2>3. CASE Restart(m)
    BY <1>2, <2>3, PeerRestartView
  <2>. QED
    BY <1>1, <2>1, <2>2, <2>3
<1>3. CASE m = n
  <2>1. ASSUME NEW relayed \in BOOLEAN, Dial(n, relayed) PROVE Registry(n)!Next
    BY <2>1, DialView
  <2>2. ASSUME NEW c \in Conns, Task(n, c) \/ HandshakeTimesOut(n, c)
        PROVE  Registry(n)!Next \/ UNCHANGED Registry(n)!vars
    <3>1. CASE SendAccepted(n, c)
      BY <3>1, SendView
    <3>2. CASE Authenticate(n, c)
      BY <3>2, AuthenticateView
    <3>3. CASE GiveUp(n, c)
      BY <3>3, GiveUpView
    <3>4. CASE RegisterSession(n, c)
      BY <3>4, RegisterView
    <3>5. CASE RememberDialed(n, c)
      BY <3>5, RememberView
    <3>6. CASE PeerCloses(n, c)
      BY <3>6, CloseView
    <3>7. CASE RelayWatcher(n, c)
      BY <3>7, RelayWatcherView
    <3>. QED
      BY <2>2, <3>1, <3>2, <3>3, <3>4, <3>5, <3>6, <3>7 DEF Task, HandshakeFails, HandshakeTimesOut
  <2>3. CASE Disconnect(n)
    BY <2>3, DisconnectView
  <2>4. ~Restart(n)
    BY DEF Restart
  <2>. QED
    BY <1>1, <1>3, <2>1, <2>2, <2>3, <2>4
<1>. QED
  BY <1>2, <1>3

LEMMA StepView ==
    ASSUME NEW n \in Nodes \ RestartNodes, PairInv, PairInv', [Next]_vars
    PROVE  [Registry(n)!Next]_(Registry(n)!vars)
<1>1. CASE Next
  BY <1>1, NextView
<1>2. CASE UNCHANGED vars
  <2>1. /\ stage'[n] = stage[n] /\ route' = route /\ result'[n] = result[n] /\ up'[n] = up[n]
        /\ table'[n] = table[n] /\ gate'[n] = gate[n] /\ proc' = proc
    BY <1>2 DEF vars
  <2>. QED
    BY <2>1, AsideView, StutterView
<1>. QED
  BY <1>1, <1>2

(* Each node that does not restart runs the registry: what the pair does   *)
(* to its table, its dial lock and its connections are steps of            *)
(* SessionRegistry with the other node as its only peer, whatever the      *)
(* other node does, its restarts included.                                 *)
THEOREM NodeImplementsRegistry ==
    ASSUME NEW n \in Nodes \ RestartNodes
    PROVE  Spec => Registry(n)!Init /\ [][Registry(n)!Next]_(Registry(n)!vars)
<1>1. Init => Registry(n)!Init
  BY InitView
<1>2. PairInv /\ PairInv' /\ [Next]_vars => [Registry(n)!Next]_(Registry(n)!vars)
  BY StepView
<1>. QED
  BY <1>1, <1>2, PairInvariant, PTL DEF Spec

(* Node 1 of the pair implements SessionRegistry if it does not restart:   *)
(* the statement the run checks, where only node 2 restarts.               *)
THEOREM Node1Refines ==
    ASSUME 1 \notin RestartNodes
    PROVE  Spec => Node1ImplementsRegistry
<1>1. 1 \in Nodes \ RestartNodes
  BY DEF Nodes
<1>2. Init => Registry(1)!Init
  BY <1>1, InitView
<1>3. PairInv /\ PairInv' /\ [Next]_vars =>
          [UNCHANGED vars \/ Registry(1)!Next]_(Registry(1)!vars)
  BY <1>1, StepView
<1>. QED
  BY <1>2, <1>3, PairInvariant, PTL DEF Spec, Node1ImplementsRegistry
===============================================================================
