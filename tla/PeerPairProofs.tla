---------------------------- MODULE PeerPairProofs ----------------------------
(***************************************************************************)
(* Proofs about two runtimes that dial each other, for any number of       *)
(* dials, processes, timeouts and disconnects and any bound of the retired *)
(* list.                                                                   *)
(***************************************************************************)
EXTENDS MCPeerPair, Functions, TLAPS

(* The provers of a leaf that names none, and their seconds. A leaf that   *)
(* needs arithmetic, functions or records names SMT.                       *)
USE ZenonT(30), SMTT(30)

PairTypes ==
    /\ dialed \in 0..MaxDials
    /\ route \in [Conns -> [initiator : {0} \cup Nodes, relayed : BOOLEAN, proc : [Nodes -> Nat]]]
    /\ stage \in [Nodes -> [Conns -> Stages]]
    /\ result \in [Nodes -> [Conns -> Conns \cup {NoConn}]]
    /\ up \in [Nodes -> SUBSET Conns]
    /\ table \in [Nodes -> [conn : Conns \cup {NoConn}, retired : Seq(Nat)]]
    /\ gate \in [Nodes -> Conns \cup {NoConn}]
    /\ proc \in [Nodes -> 1..MaxProcess]
    /\ timeouts \in Nat
    /\ disconnects \in Nat

Registered == {"registered", "done"}

(* What the stage of one end says: of the connection itself, of the table  *)
(* of that node, and of what the other end has sent.                       *)
EndAt(n, c) ==
    /\ c > dialed => stage[n][c] = "unused" /\ ~route[c].relayed
    /\ stage[n][c] \in {"unused", "failed", "aborted"} => c \notin up[n]
    /\ stage[n][c] \in Registered /\ c \in up[n] => result[n][c] = c /\ table[n].conn = c
    /\ stage[n][c] \in {"authenticated"} \cup Registered => SentAccepted(Other(n), c)
    /\ stage[n][c] # "unused" =>
           /\ route[c].initiator \in Nodes
           /\ \A i \in Nodes : route[c].proc[i] \in 1..proc[i]

(* A direct dial holds the dial lock of its node until its task is over.   *)
LockAt(n, c) ==
    stage[n][c] \in Working /\ route[c].initiator = n /\ ~route[c].relayed => gate[n] = c

EntryAt(n) ==
    table[n].conn # NoConn =>
        stage[n][table[n].conn] \in Registered /\ result[n][table[n].conn] = table[n].conn

GateAt(n) ==
    gate[n] # NoConn =>
        /\ stage[n][gate[n]] \in Working
        /\ route[gate[n]].initiator = n /\ ~route[gate[n]].relayed

PairInv ==
    /\ PairTypes
    /\ \A n \in Nodes : EntryAt(n) /\ GateAt(n)
    /\ \A n \in Nodes, c \in Conns : EndAt(n, c) /\ LockAt(n, c)

LEMMA NodeFacts ==
    /\ \A n \in Nodes : Other(n) \in Nodes /\ Other(n) # n /\ Other(Other(n)) = n
    /\ NoConn \notin Conns
    /\ Conns \subseteq Nat
    /\ MaxDials \in Nat /\ MaxProcess \in Nat /\ MaxRetired \in Nat
  BY PairConstantsOK, SMTT(30) DEF Nodes, Other, Conns, NoConn

LEMMA InitPair == Init => PairInv
<1> SUFFICES ASSUME Init PROVE PairInv
  OBVIOUS
<1>1. PairTypes
  <2>1. NoRoute \in [initiator : {0} \cup Nodes, relayed : BOOLEAN, proc : [Nodes -> Nat]]
    BY SMTT(30) DEF NoRoute, Nodes
  <2>2. NoEntry \in [conn : Conns \cup {NoConn}, retired : Seq(Nat)]
    BY SMTT(30) DEF NoEntry
  <2>3. "unused" \in Stages /\ 1 \in 1..MaxProcess
    BY PairConstantsOK, SMTT(30) DEF Stages
  <2>. QED
    BY <2>1, <2>2, <2>3, NodeFacts, SMTT(30) DEF Init, PairTypes
<1>. QED
  BY <1>1 DEF Init, PairInv, EndAt, LockAt, EntryAt, GateAt, NoEntry, NoRoute, Registered, Working

-----------------------------------------------------------------------------
(* What the decisions of SessionRegistry read, in terms of the pair.       *)
LEMMA RegistryStages ==
    ASSUME NEW n \in Nodes, NEW c \in Conns
    PROVE  /\ stage[n][c] \in {"handshake", "confirmed"} =>
                  RegistryStage(n, c) = IF route[c].initiator = n THEN "dialing" ELSE "unused"
           /\ stage[n][c] \in {"authenticated", "registered", "done"} =>
                  RegistryStage(n, c) = stage[n][c]
           /\ stage[n][c] \notin {"handshake", "confirmed", "authenticated", "registered", "done"} =>
                  RegistryStage(n, c) = "unused"
  BY DEF RegistryStage

LEMMA RegistrySessions ==
    ASSUME NEW n \in Nodes, NEW c \in Conns, stage[n][c] \in {"authenticated"} \cup Registered
    PROVE  RegistrySession(n, c) = [peer |-> Other(n), kind |-> RealtimeInput,
                                    origin |-> RegistryOrigin(n, c),
                                    instance |-> route[c].proc[Other(n)]]
<1>1. RegistryStage(n, c) \notin {"unused", "dialing"}
  BY RegistryStages DEF Registered
<1>. QED
  BY <1>1 DEF RegistrySession

LEMMA RegistryOrigins ==
    ASSUME NEW n \in Nodes, NEW c \in Conns
    PROVE  RegistryOrigin(n, c) =
               IF route[c].initiator = n
               THEN IF route[c].relayed THEN "relay_connect" ELSE "connect"
               ELSE IF route[c].relayed THEN "relay_accept" ELSE "accept"
  BY DEF RegistryOrigin

-----------------------------------------------------------------------------
(* The decision about c at node n, as the pair sees it: with the entry     *)
(* that is there, and the processes and initiators of the two connections. *)
Instance(n, c) == route[c].proc[Other(n)]
ObsoleteAt(n, c) == Instance(n, c) \in Range(table[n].retired)
RestartedAt(n, c) ==
    table[n].conn # NoConn /\ Instance(n, table[n].conn) # Instance(n, c)

(* A connection in use has the numbers of two real processes.              *)
LEMMA InstanceFacts ==
    ASSUME PairInv, NEW n \in Nodes, NEW c \in Conns, NEW i \in Nodes, stage[i][c] # "unused"
    PROVE  Instance(n, c) \in Nat \ {0}
<1>1. Other(n) \in Nodes
  BY NodeFacts
<1>2. EndAt(i, c) /\ proc \in [Nodes -> 1..MaxProcess]
  BY DEF PairInv, PairTypes
<1>3. route[c].proc[Other(n)] \in 1..proc[Other(n)] /\ proc[Other(n)] \in Nat
  BY <1>1, <1>2, NodeFacts, SMTT(30) DEF EndAt
<1>. QED
  BY <1>3, SMTT(30) DEF Instance

LEMMA Decision ==
    ASSUME PairInv, NEW n \in Nodes, NEW c \in Conns, stage[n][c] = "authenticated"
    PROVE  /\ Registry(n)!Key(c) = <<Other(n), RealtimeInput>>
           /\ Registry(n)!Current(c) = table[n].conn
           /\ Registry(n)!Usable(Registry(n)!Key(c)) <=> Usable(n)
           /\ Registry(n)!Obsolete(c) <=> ObsoleteAt(n, c)
           /\ Registry(n)!Restarted(c) <=> RestartedAt(n, c)
<1>1. RegistrySession(n, c) = [peer |-> Other(n), kind |-> RealtimeInput,
                               origin |-> RegistryOrigin(n, c), instance |-> Instance(n, c)]
  BY RegistrySessions DEF Instance
<1>2. Registry(n)!Key(c) = <<Other(n), RealtimeInput>>
  BY <1>1, SMTT(30) DEF Registry!Key, SessionView
<1>3. Registry(n)!Current(c) = table[n].conn
  BY <1>2 DEF Registry!Current, TableView, PairKey
<1>4. Registry(n)!Usable(Registry(n)!Key(c)) <=> Usable(n)
  <2>1. Registry(n)!Usable(Registry(n)!Key(c)) <=>
            table[n].conn \in RegistryHandle(n) \cap RegistryOpen(n)
    BY <1>2 DEF Registry!Usable, TableView, PairKey
  <2>2. table[n].conn # NoConn /\ table[n].conn \in up[n] =>
            table[n].conn \in RegistryHandle(n) \cap RegistryOpen(n)
    BY DEF RegistryHandle, RegistryOpen, PairInv, EntryAt, Registered, PairTypes
  <2>3. table[n].conn \in RegistryHandle(n) \cap RegistryOpen(n) =>
            table[n].conn # NoConn /\ table[n].conn \in up[n]
    BY NodeFacts DEF RegistryHandle, RegistryOpen
  <2>. QED
    BY <2>1, <2>2, <2>3 DEF Usable
<1>5. Instance(n, c) \in Nat \ {0}
  BY InstanceFacts
<1>6. Registry(n)!Obsolete(c) <=> ObsoleteAt(n, c)
  BY <1>1, <1>2, <1>5, SMTT(30)
     DEF Registry!Obsolete, Registry!NoInstance, Registry!Range, Range, ObsoleteAt,
         SessionView, TableView, PairKey
<1>7. Registry(n)!Restarted(c) <=> RestartedAt(n, c)
  <2>1. CASE table[n].conn = NoConn
    BY <1>3, <2>1
       DEF Registry!Restarted, RestartedAt, SessionView
  <2>2. CASE table[n].conn # NoConn
    <3> DEFINE d == table[n].conn
    <3>1. d \in Conns /\ stage[n][d] \in Registered
      BY <2>2 DEF PairInv, PairTypes, EntryAt
    <3>2. Instance(n, d) \in Nat \ {0}
      BY <3>1, InstanceFacts DEF Registered
    <3>3. RegistrySession(n, d).instance = Instance(n, d)
      BY <3>1, RegistrySessions, SMTT(30) DEF Instance
    <3>4. SessionView(n)[d].instance = Instance(n, d)
          /\ SessionView(n)[c].instance = Instance(n, c)
      BY <1>1, <3>1, <3>3, SMTT(30) DEF SessionView
    <3>. QED
      BY <1>3, <1>5, <2>2, <3>2, <3>4
         DEF Registry!Restarted, Registry!NoInstance, RestartedAt, SessionView
  <2>. QED
    BY <2>1, <2>2
<1>. QED
  BY <1>2, <1>3, <1>4, <1>6, <1>7

(* Whoever loses is closed, and only whoever loses: the incoming session,  *)
(* or the live one it replaces.                                            *)
LEMMA Arbitration ==
    ASSUME PairInv, NEW n \in Nodes, NEW c \in Conns, stage[n][c] = "authenticated"
    PROVE  /\ table[n].conn # c
           /\ Registry(n)!Returned(c) = c =>
                  /\ Registry(n)!Closed(c) \subseteq {table[n].conn}
                  /\ Usable(n) => Registry(n)!Closed(c) = {table[n].conn}
           /\ Registry(n)!Returned(c) # c =>
                  /\ Registry(n)!Closed(c) = {c}
                  /\ Registry(n)!Returned(c) \in {NoConn, table[n].conn}
           /\ Registry(n)!Retire(c) \in Seq(Nat)
<1>1. table[n].conn # c /\ c # NoConn
  BY NodeFacts DEF PairInv, EntryAt, Registered
<1>2. /\ Registry(n)!Returned(c) = c =>
                  /\ Registry(n)!Closed(c) \subseteq {table[n].conn}
                  /\ Usable(n) => Registry(n)!Closed(c) = {table[n].conn}
      /\ Registry(n)!Returned(c) # c =>
                  /\ Registry(n)!Closed(c) = {c}
                  /\ Registry(n)!Returned(c) \in {NoConn, table[n].conn}
  BY <1>1, Decision
     DEF Registry!Returned, Registry!Closed
<1>3. Registry(n)!Retire(c) \in Seq(Nat)
  <2>1. table[n].retired \in Seq(Nat)
    BY DEF PairInv, PairTypes
  <2>2. CASE ~RestartedAt(n, c)
    BY <2>1, <2>2, Decision
       DEF Registry!Retire, SessionView, TableView, PairKey
  <2>3. CASE RestartedAt(n, c)
    <3> DEFINE d == table[n].conn
               longer == Append(table[n].retired, Instance(n, d))
    <3>1. d \in Conns /\ stage[n][d] \in Registered
      BY <2>3 DEF PairInv, PairTypes, EntryAt, RestartedAt
    <3>2. RegistrySession(n, d).instance = Instance(n, d) /\ Instance(n, d) \in Nat
      BY <3>1, RegistrySessions, InstanceFacts, SMTT(30) DEF Instance, Registered
    <3>3. SessionView(n)[d].instance = Instance(n, d)
      BY <3>1, <3>2 DEF SessionView
    <3>4. Registry(n)!Retire(c) = IF Len(longer) > MaxRetired THEN Tail(longer) ELSE longer
      BY <2>3, <3>3, Decision, SMTT(30)
         DEF Registry!Retire, SessionView, TableView, PairKey
    <3>5. longer \in Seq(Nat) /\ longer # <<>>
      BY <2>1, <3>2, SMTT(30)
    <3> HIDE DEF longer
    <3>. QED
      BY <3>4, <3>5, SMTT(30)
  <2>. QED
    BY <2>2, <2>3
<1>. QED
  BY <1>1, <1>2, <1>3

-----------------------------------------------------------------------------
LEMMA DialPair ==
    ASSUME PairInv, NEW n \in Nodes, NEW relayed \in BOOLEAN, Dial(n, relayed)
    PROVE  PairInv'
<1> DEFINE c == dialed + 1
<1>0. /\ dialed \in Nat /\ c \in Conns /\ dialed' = c /\ c > dialed
      /\ route' = [route EXCEPT ![c] = [initiator |-> n, relayed |-> relayed, proc |-> proc]]
      /\ stage' = [i \in Nodes |-> [stage[i] EXCEPT ![c] = "handshake"]]
      /\ up' = [i \in Nodes |-> up[i] \cup {c}]
      /\ table' = [table EXCEPT ![n] = NoEntry]
      /\ UNCHANGED <<result, proc, timeouts, disconnects>>
      /\ ~Usable(n)
  BY NodeFacts, SMTT(30) DEF Dial, PairInv, PairTypes, Conns
<1>1. \A i \in Nodes : stage[i][c] = "unused"
  BY <1>0 DEF PairInv, EndAt
<1>2. \/ relayed /\ gate' = gate
      \/ ~relayed /\ gate[n] = NoConn /\ gate' = [gate EXCEPT ![n] = c]
  BY DEF Dial
<1> HIDE DEF c
<1>3. PairTypes'
  <2>1. dialed' \in 0..MaxDials
    BY <1>0, SMTT(30) DEF Conns
  <2>2. proc \in [Nodes -> Nat] /\ "handshake" \in Stages /\ NoEntry \in [conn : Conns \cup {NoConn}, retired : Seq(Nat)]
    BY NodeFacts, SMTT(30) DEF PairInv, PairTypes, Stages, NoEntry
  <2>3. route' \in [Conns -> [initiator : {0} \cup Nodes, relayed : BOOLEAN, proc : [Nodes -> Nat]]]
    BY <1>0, <2>2 DEF PairInv, PairTypes
  <2>4. stage' \in [Nodes -> [Conns -> Stages]]
    BY <1>0, <2>2 DEF PairInv, PairTypes
  <2>5. up' \in [Nodes -> SUBSET Conns]
    BY <1>0 DEF PairInv, PairTypes
  <2>6. table' \in [Nodes -> [conn : Conns \cup {NoConn}, retired : Seq(Nat)]]
    BY <1>0, <2>2 DEF PairInv, PairTypes
  <2>7. gate' \in [Nodes -> Conns \cup {NoConn}]
    BY <1>0, <1>2 DEF PairInv, PairTypes
  <2>. QED
    BY <1>0, <2>1, <2>3, <2>4, <2>5, <2>6, <2>7 DEF PairInv, PairTypes
<1>4. ASSUME NEW i \in Nodes PROVE EntryAt(i)' /\ GateAt(i)'
  <2>1. EntryAt(i)'
    BY <1>0, <1>1 DEF PairInv, PairTypes, EntryAt, NoEntry, Registered
  <2>2. GateAt(i)'
    <3>1. gate[i] # NoConn => gate[i] \in Conns /\ gate[i] # c
      <4>1. GateAt(i) /\ gate[i] \in Conns \cup {NoConn} /\ stage[i][c] = "unused"
        BY <1>1 DEF PairInv, PairTypes
      <4>. QED
        BY <4>1 DEF GateAt, Working
    <3>2. gate'[i] = gate[i] \/ (i = n /\ ~relayed /\ gate'[i] = c)
      BY <1>2 DEF PairInv, PairTypes
    <3>3. CASE gate'[i] = gate[i]
      BY <1>0, <3>1, <3>3 DEF PairInv, PairTypes, GateAt
    <3>4. CASE i = n /\ ~relayed /\ gate'[i] = c
      <4>1. stage'[i][c] = "handshake" /\ route'[c].initiator = n /\ route'[c].relayed = relayed
        BY <1>0 DEF PairInv, PairTypes
      <4>. QED
        BY <3>4, <4>1 DEF GateAt, Working
    <3>. QED
      BY <3>2, <3>3, <3>4
  <2>. QED
    BY <2>1, <2>2
<1>5. ASSUME NEW i \in Nodes, NEW d \in Conns PROVE EndAt(i, d)'
  <2>1. Other(i) \in Nodes
    BY NodeFacts
  <2>2. CASE d = c
    <3>0. ~(d > dialed')
      BY <1>0, <2>2, NodeFacts, SMTT(30)
    <3>1. stage'[i][d] = "handshake"
      BY <1>0, <2>2 DEF PairInv, PairTypes
    <3>2. route'[d].initiator = n /\ route'[d].proc = proc
      BY <1>0, <2>2 DEF PairInv, PairTypes
    <3>3. \A j \in Nodes : proc[j] \in 1..proc[j]
      BY NodeFacts, SMTT(30) DEF PairInv, PairTypes
    <3>. QED
      BY <1>0, <3>0, <3>1, <3>2, <3>3 DEF EndAt, Registered
  <2>3. CASE d # c
    <3>1. /\ stage'[i][d] = stage[i][d] /\ stage'[Other(i)][d] = stage[Other(i)][d]
          /\ route'[d] = route[d] /\ (d \in up'[i] <=> d \in up[i])
          /\ d > dialed' => d > dialed
      BY <1>0, <2>1, <2>3, NodeFacts, SMTT(30) DEF PairInv, PairTypes
    <3>2. stage[i][d] \in Registered /\ d \in up[i] => result[i][d] = d /\ table'[i].conn = d
      <4>1. CASE i = n
        BY <1>0, <4>1, NodeFacts DEF PairInv, PairTypes, EndAt, Usable
      <4>2. CASE i # n
        BY <1>0, <4>2 DEF PairInv, PairTypes, EndAt
      <4>. QED
        BY <4>1, <4>2
    <3>3. EndAt(i, d)
      BY DEF PairInv
    <3>. QED
      BY <1>0, <3>1, <3>2, <3>3 DEF EndAt, SentAccepted
  <2>. QED
    BY <2>2, <2>3
<1>6. ASSUME NEW i \in Nodes, NEW d \in Conns PROVE LockAt(i, d)'
  <2>1. LockAt(i, d)
    BY DEF PairInv
  <2>2. CASE d = c
    <3>1. route'[d].initiator = n /\ route'[d].relayed = relayed
      BY <1>0, <2>2 DEF PairInv, PairTypes
    <3>2. i = n /\ ~relayed => gate'[i] = d
      BY <1>2, <2>2 DEF PairInv, PairTypes
    <3>. QED
      BY <3>1, <3>2 DEF LockAt
  <2>3. CASE d # c
    <3>1. stage'[i][d] = stage[i][d] /\ route'[d] = route[d]
      BY <1>0, <2>3 DEF PairInv, PairTypes
    <3>2. gate[i] = d => gate'[i] = d
      BY <1>2, NodeFacts DEF PairInv, PairTypes
    <3>. QED
      BY <2>1, <3>1, <3>2 DEF LockAt
  <2>. QED
    BY <2>2, <2>3
<1>. QED
  BY <1>3, <1>4, <1>5, <1>6 DEF PairInv

(* A step of node n that is about its connection c alone: the task goes to *)
(* another stage, the connection may have closed, the lock may be given up. *)
LEMMA TaskStep ==
    ASSUME PairInv, NEW n \in Nodes, NEW c \in Conns, NEW s \in Stages,
           UNCHANGED <<dialed, route, proc, result, table>>,
           timeouts' \in Nat, disconnects' \in Nat,
           stage' = [stage EXCEPT ![n][c] = s],
           up' = up \/ up' = [up EXCEPT ![n] = @ \ {c}],
           \/ gate' = gate /\ (gate[n] = c => s \in Working)
           \/ s \notin Working /\ gate' = [gate EXCEPT ![n] = IF @ = c THEN NoConn ELSE @],
           stage[n][c] # "unused", s # "unused", s \in Working => stage[n][c] \in Working,
           s \in {"failed", "aborted"} => c \notin up'[n] /\ stage[n][c] \in {"handshake", "confirmed"},
           s = "failed" => stage[n][c] = "handshake",
           s \in {"authenticated"} \cup Registered => SentAccepted(Other(n), c),
           s \in Registered => stage[n][c] \in Registered,
           s = "handshake" => stage[n][c] = "handshake",
           stage[n][c] \in Registered => s \in Registered
    PROVE  PairInv'
<1>1. PairTypes'
  <2>1. stage' \in [Nodes -> [Conns -> Stages]]
    BY DEF PairInv, PairTypes
  <2>2. up' \in [Nodes -> SUBSET Conns]
    <3>1. up \in [Nodes -> SUBSET Conns] /\ up[n] \ {c} \in SUBSET Conns
      BY DEF PairInv, PairTypes
    <3>. QED
      BY <3>1
  <2>3. gate' \in [Nodes -> Conns \cup {NoConn}]
    BY DEF PairInv, PairTypes
  <2>. QED
    BY <2>1, <2>2, <2>3 DEF PairInv, PairTypes
<1>2. ASSUME NEW i \in Nodes, NEW d \in Conns
      PROVE  /\ stage'[i][d] = IF i = n /\ d = c THEN s ELSE stage[i][d]
             /\ d \in up'[i] => d \in up[i]
  BY SMTT(30) DEF PairInv, PairTypes
<1>3. ASSUME NEW i \in Nodes PROVE EntryAt(i)' /\ GateAt(i)'
  <2>1. EntryAt(i)'
    BY <1>2, SMTT(30) DEF PairInv, PairTypes, EntryAt
  <2>2. GateAt(i)'
    <3>1. gate'[i] # NoConn => gate'[i] = gate[i] /\ gate[i] \in Conns
      BY NodeFacts, SMTT(30) DEF PairInv, PairTypes
    <3>2. gate'[i] # NoConn => stage'[i][gate[i]] \in Working
      <4>1. CASE i = n /\ gate[i] = c
        BY <1>2, <3>1, <4>1, SMTT(30) DEF PairInv, PairTypes
      <4>2. CASE ~(i = n /\ gate[i] = c)
        BY <1>2, <3>1, <4>2, SMTT(30) DEF PairInv, GateAt
      <4>. QED
        BY <4>1, <4>2
    <3>. QED
      BY <3>1, <3>2 DEF PairInv, GateAt
  <2>. QED
    BY <2>1, <2>2
<1>4. ASSUME NEW i \in Nodes, NEW d \in Conns PROVE SentAccepted(i, d) => SentAccepted(i, d)'
  BY <1>2, <1>4, SMTT(30) DEF SentAccepted
<1>5. ASSUME NEW i \in Nodes, NEW d \in Conns PROVE EndAt(i, d)'
  <2>1. EndAt(i, d) /\ Other(i) \in Nodes
    BY NodeFacts DEF PairInv
  <2>2. SentAccepted(Other(i), d) => SentAccepted(Other(i), d)'
    BY <1>4, <2>1
  <2>3. CASE i = n /\ d = c
    <3>1. stage'[i][d] = s /\ (d \in up'[i] => d \in up[i])
      BY <1>2, <2>3
    <3>2. SentAccepted(Other(n), c) => SentAccepted(Other(n), c)'
      BY <2>2, <2>3
    <3>. QED
      BY <2>1, <2>3, <3>1, <3>2 DEF EndAt, Registered
  <2>4. CASE ~(i = n /\ d = c)
    <3>1. stage'[i][d] = stage[i][d] /\ (d \in up'[i] => d \in up[i])
      BY <1>2, <2>4, SMTT(30)
    <3>. QED
      BY <2>1, <2>2, <3>1 DEF EndAt
  <2>. QED
    BY <2>3, <2>4
<1>6. ASSUME NEW i \in Nodes, NEW d \in Conns PROVE LockAt(i, d)'
  <2>1. LockAt(i, d)
    BY DEF PairInv
  <2>2. CASE i = n /\ d = c
    BY <1>2, <2>1, <2>2 DEF LockAt
  <2>3. CASE ~(i = n /\ d = c)
    <3>1. stage'[i][d] = stage[i][d]
      BY <1>2, <2>3, SMTT(30)
    <3>2. gate[i] = d => gate'[i] = d
      BY <2>3 DEF PairInv, PairTypes
    <3>. QED
      BY <2>1, <3>1, <3>2 DEF LockAt
  <2>. QED
    BY <2>2, <2>3
<1>. QED
  BY <1>1, <1>3, <1>5, <1>6 DEF PairInv

(* A connection closes at node n, an entry whose connection is closed is   *)
(* removed, or both.                                                       *)
LEMMA CloseStep ==
    ASSUME PairInv, NEW n \in Nodes, NEW gone \in SUBSET Conns,
           UNCHANGED <<dialed, route, stage, result, gate, proc, timeouts>>,
           disconnects' \in Nat,
           up' = [up EXCEPT ![n] = @ \ gone],
           \/ table' = table
           \/ table' = [table EXCEPT ![n] = NoEntry] /\ table[n].conn \notin up[n] \ gone
    PROVE  PairInv'
<1>1. PairTypes'
  <2>1. up' \in [Nodes -> SUBSET Conns]
    <3>1. up \in [Nodes -> SUBSET Conns] /\ up[n] \ gone \in SUBSET Conns
      BY DEF PairInv, PairTypes
    <3>. QED
      BY <3>1
  <2>2. table' \in [Nodes -> [conn : Conns \cup {NoConn}, retired : Seq(Nat)]]
    <3>1. NoEntry \in [conn : Conns \cup {NoConn}, retired : Seq(Nat)]
      BY SMTT(30) DEF NoEntry
    <3>. QED
      BY <3>1 DEF PairInv, PairTypes
  <2>. QED
    BY <2>1, <2>2 DEF PairInv, PairTypes
<1>2. ASSUME NEW i \in Nodes, NEW d \in Conns PROVE d \in up'[i] => d \in up[i]
  BY DEF PairInv, PairTypes
<1>3. ASSUME NEW i \in Nodes PROVE table'[i] = table[i] \/ table'[i] = NoEntry
  BY DEF PairInv, PairTypes
<1>4. ASSUME NEW i \in Nodes PROVE EntryAt(i)' /\ GateAt(i)'
  BY <1>3, SMTT(30) DEF PairInv, EntryAt, GateAt, NoEntry
<1>5. ASSUME NEW i \in Nodes, NEW d \in Conns PROVE EndAt(i, d)'
  <2>1. EndAt(i, d)
    BY DEF PairInv
  <2>2. d \in up'[i] /\ table[i].conn = d => table'[i].conn = d
    BY DEF PairInv, PairTypes
  <2>. QED
    BY <1>2, <2>1, <2>2 DEF EndAt, SentAccepted
<1>6. ASSUME NEW i \in Nodes, NEW d \in Conns PROVE LockAt(i, d)'
  BY DEF PairInv, LockAt
<1>. QED
  BY <1>1, <1>4, <1>5, <1>6 DEF PairInv

LEMMA RegisterPair ==
    ASSUME PairInv, NEW n \in Nodes, NEW c \in Conns, RegisterSession(n, c)
    PROVE  PairInv'
<1> DEFINE r == Registry(n)!Returned(c)
           x == Registry(n)!Closed(c)
           old == table[n].conn
           list == Registry(n)!Retire(c)
           s == IF RegistryOrigin(n, c) = "connect" /\ r # NoConn THEN "registered" ELSE "done"
<1>00. s \in Registered
  BY DEF Registered
<1>0. /\ stage[n][c] = "authenticated"
      /\ stage' = [stage EXCEPT ![n][c] = s]
      /\ result' = [result EXCEPT ![n][c] = r]
      /\ table' = IF r = c THEN [table EXCEPT ![n] = [conn |-> c, retired |-> list]] ELSE table
      /\ up' = [up EXCEPT ![n] = @ \ x]
      /\ \/ s = "registered" /\ gate' = gate
         \/ s = "done" /\ RegistryOrigin(n, c) # "connect" /\ gate' = gate
         \/ s = "done" /\ gate' = [gate EXCEPT ![n] = IF @ = c THEN NoConn ELSE @]
      /\ UNCHANGED <<dialed, route, proc, timeouts, disconnects>>
  BY DEF RegisterSession, Release
<1>1. /\ old # c
      /\ r = c => x \subseteq {old} /\ (Usable(n) => x = {old})
      /\ r # c => x = {c} /\ r \in {NoConn, old}
      /\ list \in Seq(Nat)
  BY <1>0, Arbitration
<1> HIDE DEF r, x, list, s
<1>2. PairTypes'
  <2>1. r \in Conns \cup {NoConn} /\ s \in Stages
    BY <1>00, <1>1 DEF PairInv, PairTypes, Registered, Stages
  <2>2. stage' \in [Nodes -> [Conns -> Stages]]
    BY <1>0, <2>1 DEF PairInv, PairTypes
  <2>3. result' \in [Nodes -> [Conns -> Conns \cup {NoConn}]]
    BY <1>0, <2>1 DEF PairInv, PairTypes
  <2>4. up' \in [Nodes -> SUBSET Conns]
    <3>1. up \in [Nodes -> SUBSET Conns] /\ up[n] \ x \in SUBSET Conns
      BY DEF PairInv, PairTypes
    <3>. QED
      BY <1>0, <3>1
  <2>5. gate' \in [Nodes -> Conns \cup {NoConn}]
    BY <1>0 DEF PairInv, PairTypes
  <2>6. table' \in [Nodes -> [conn : Conns \cup {NoConn}, retired : Seq(Nat)]]
    BY <1>0, <1>1 DEF PairInv, PairTypes
  <2>. QED
    BY <1>0, <2>2, <2>3, <2>4, <2>5, <2>6 DEF PairInv, PairTypes
<1>3. ASSUME NEW i \in Nodes, NEW d \in Conns
      PROVE  /\ stage'[i][d] = IF i = n /\ d = c THEN s ELSE stage[i][d]
             /\ result'[i][d] = IF i = n /\ d = c THEN r ELSE result[i][d]
             /\ d \in up'[i] <=> d \in up[i] /\ ~(i = n /\ d \in x)
  BY <1>0 DEF PairInv, PairTypes
<1>4. ASSUME NEW i \in Nodes
      PROVE  table'[i].conn = IF i = n /\ r = c THEN c ELSE table[i].conn
  BY <1>0 DEF PairInv, PairTypes
<1>5. ASSUME NEW i \in Nodes PROVE EntryAt(i)'
  <2>1. CASE i = n /\ r = c
    BY <1>00, <1>3, <1>4, <2>1 DEF EntryAt, Registered
  <2>2. CASE ~(i = n /\ r = c)
    <3>1. table'[i].conn = table[i].conn /\ EntryAt(i) /\ table[i].conn \in Conns \cup {NoConn}
      BY <1>4, <2>2 DEF PairInv, PairTypes
    <3>2. table[i].conn # NoConn => ~(i = n /\ table[i].conn = c)
      BY <1>1
    <3>. QED
      BY <1>3, <3>1, <3>2, SMTT(30) DEF EntryAt
  <2>. QED
    BY <2>1, <2>2
<1>6. ASSUME NEW i \in Nodes PROVE GateAt(i)'
  <2>1. GateAt(i) /\ gate[i] \in Conns \cup {NoConn}
    BY DEF PairInv, PairTypes
  <2>2. gate'[i] # NoConn => gate'[i] = gate[i]
    BY <1>0 DEF PairInv, PairTypes
  <2>3. gate'[i] # NoConn /\ i = n /\ gate[i] = c => s = "registered"
    <3>1. gate[n] = c /\ gate[n] # NoConn => RegistryOrigin(n, c) = "connect"
      BY RegistryOrigins, SMTT(30) DEF PairInv, GateAt
    <3>. QED
      BY <1>0, <2>2, <3>1 DEF PairInv, PairTypes
  <2>. QED
    BY <1>0, <1>3, <2>1, <2>2, <2>3, SMTT(30) DEF GateAt, Working
<1>7. ASSUME NEW i \in Nodes, NEW d \in Conns PROVE SentAccepted(i, d) => SentAccepted(i, d)'
  BY <1>00, <1>3, <1>7 DEF SentAccepted, Registered
<1>8. ASSUME NEW i \in Nodes, NEW d \in Conns PROVE EndAt(i, d)'
  <2>1. EndAt(i, d) /\ Other(i) \in Nodes
    BY NodeFacts DEF PairInv
  <2>2. SentAccepted(Other(i), d) => SentAccepted(Other(i), d)'
    BY <1>7, <2>1
  <2>3. CASE i = n /\ d = c
    <3>1. stage'[i][d] = s /\ result'[i][d] = r /\ stage[i][d] = "authenticated"
      BY <1>0, <1>3, <2>3
    <3>2. d \in up'[i] => r = c
      BY <1>1, <1>3, <2>3
    <3>. QED
      BY <1>00, <1>0, <1>4, <2>1, <2>2, <2>3, <3>1, <3>2 DEF EndAt, Registered
  <2>4. CASE ~(i = n /\ d = c)
    <3>1. stage'[i][d] = stage[i][d] /\ result'[i][d] = result[i][d] /\ (d \in up'[i] => d \in up[i])
      BY <1>3, <2>4
    <3>2. stage[i][d] \in Registered /\ d \in up'[i] => table'[i].conn = d
      <4> SUFFICES ASSUME stage[i][d] \in Registered, d \in up'[i] PROVE table'[i].conn = d
        OBVIOUS
      <4>1. d \in up[i] /\ table[i].conn = d
        BY <2>1, <3>1 DEF EndAt
      <4>2. ~(i = n /\ r = c)
        <5> SUFFICES ASSUME i = n, r = c PROVE FALSE
          OBVIOUS
        <5>1. Usable(n)
          BY <4>1, NodeFacts DEF Usable
        <5>2. d \in x
          BY <1>1, <4>1, <5>1
        <5>. QED
          BY <1>3, <5>2
      <4>. QED
        BY <1>4, <4>1, <4>2
    <3>. QED
      BY <1>0, <2>1, <2>2, <3>1, <3>2 DEF EndAt
  <2>. QED
    BY <2>3, <2>4
<1>9. ASSUME NEW i \in Nodes, NEW d \in Conns PROVE LockAt(i, d)'
  <2>1. LockAt(i, d)
    BY DEF PairInv
  <2>2. CASE i = n /\ d = c
    BY <1>0, <1>3, <2>1, <2>2, SMTT(30) DEF LockAt, Working
  <2>3. CASE ~(i = n /\ d = c)
    <3>1. stage'[i][d] = stage[i][d]
      BY <1>3, <2>3
    <3>2. gate[i] = d => gate'[i] = d
      BY <1>0, <2>3 DEF PairInv, PairTypes
    <3>. QED
      BY <1>0, <2>1, <3>1, <3>2 DEF LockAt
  <2>. QED
    BY <2>2, <2>3
<1>. QED
  BY <1>2, <1>5, <1>6, <1>8, <1>9 DEF PairInv

LEMMA RestartPair ==
    ASSUME PairInv, NEW n \in Nodes, Restart(n)
    PROVE  PairInv'
<1>0. /\ proc[n] < MaxProcess /\ proc' = [proc EXCEPT ![n] = @ + 1]
      /\ stage' = [stage EXCEPT ![n] = [c \in Conns |-> Fallen(stage[n][c])]]
      /\ result' = [result EXCEPT ![n] = [c \in Conns |-> NoConn]]
      /\ up' = [up EXCEPT ![n] = {}]
      /\ table' = [table EXCEPT ![n] = NoEntry]
      /\ gate' = [gate EXCEPT ![n] = NoConn]
      /\ UNCHANGED <<dialed, route, timeouts, disconnects>>
  BY DEF Restart
<1>1. ASSUME NEW i \in Nodes, NEW d \in Conns
      PROVE  /\ stage'[i][d] = IF i = n THEN Fallen(stage[i][d]) ELSE stage[i][d]
             /\ result'[i][d] = IF i = n THEN NoConn ELSE result[i][d]
             /\ d \in up'[i] <=> d \in up[i] /\ i # n
             /\ table'[i] = IF i = n THEN NoEntry ELSE table[i]
             /\ gate'[i] = IF i = n THEN NoConn ELSE gate[i]
  BY <1>0 DEF PairInv, PairTypes
<1>2. ASSUME NEW i \in Nodes PROVE proc'[i] \in Nat /\ proc[i] \in Nat /\ proc'[i] >= proc[i]
  BY <1>0, NodeFacts, SMTT(30) DEF PairInv, PairTypes
<1>3. PairTypes'
  <2>1. proc' \in [Nodes -> 1..MaxProcess]
    BY <1>0, NodeFacts, SMTT(30) DEF PairInv, PairTypes
  <2>2. NoEntry \in [conn : Conns \cup {NoConn}, retired : Seq(Nat)]
    BY SMTT(30) DEF NoEntry
  <2>3. \A s \in Stages : Fallen(s) \in Stages
    BY DEF Fallen, Stages
  <2>4. stage' \in [Nodes -> [Conns -> Stages]]
    BY <1>0, <2>3 DEF PairInv, PairTypes
  <2>5. result' \in [Nodes -> [Conns -> Conns \cup {NoConn}]]
    BY <1>0 DEF PairInv, PairTypes
  <2>6. up' \in [Nodes -> SUBSET Conns]
    BY <1>0 DEF PairInv, PairTypes
  <2>7. table' \in [Nodes -> [conn : Conns \cup {NoConn}, retired : Seq(Nat)]]
    BY <1>0, <2>2 DEF PairInv, PairTypes
  <2>8. gate' \in [Nodes -> Conns \cup {NoConn}]
    BY <1>0 DEF PairInv, PairTypes
  <2>. QED
    BY <1>0, <2>1, <2>4, <2>5, <2>6, <2>7, <2>8 DEF PairInv, PairTypes
<1>4. ASSUME NEW i \in Nodes PROVE EntryAt(i)' /\ GateAt(i)'
  <2>1. CASE i = n
    BY <1>0, <2>1 DEF PairInv, PairTypes, EntryAt, GateAt, NoEntry
  <2>2. CASE i # n
    <3>1. stage'[i] = stage[i] /\ result'[i] = result[i] /\ table'[i] = table[i] /\ gate'[i] = gate[i]
      BY <1>0, <2>2 DEF PairInv, PairTypes
    <3>. QED
      BY <1>0, <3>1 DEF PairInv, EntryAt, GateAt
  <2>. QED
    BY <2>1, <2>2
<1>5. ASSUME NEW i \in Nodes, NEW d \in Conns PROVE EndAt(i, d)'
  <2>1. EndAt(i, d) /\ Other(i) \in Nodes
    BY NodeFacts DEF PairInv
  <2>2. SentAccepted(Other(i), d) => SentAccepted(Other(i), d)'
    BY <1>1, <2>1 DEF SentAccepted, Fallen
  <2>3. stage[i][d] # "unused" =>
            route[d].initiator \in Nodes /\ \A j \in Nodes : route[d].proc[j] \in 1..proc'[j]
    BY <1>2, <2>1, SMTT(30) DEF EndAt
  <2>4. CASE i = n
    <3>1. /\ stage'[i][d] = Fallen(stage[i][d]) /\ d \notin up'[i]
          /\ stage'[i][d] \in {"unused", "failed", "aborted"}
          /\ stage'[i][d] = "unused" <=> stage[i][d] = "unused"
      BY <1>1, <2>4 DEF Fallen
    <3>. QED
      BY <1>0, <2>1, <2>3, <3>1 DEF EndAt, Registered
  <2>5. CASE i # n
    BY <1>0, <1>1, <2>1, <2>2, <2>3, <2>5, SMTT(30) DEF EndAt
  <2>. QED
    BY <2>4, <2>5
<1>6. ASSUME NEW i \in Nodes, NEW d \in Conns PROVE LockAt(i, d)'
  <2>1. CASE i = n
    BY <1>1, <2>1 DEF LockAt, Fallen, Working
  <2>2. CASE i # n
    BY <1>0, <1>1, <2>2, SMTT(30) DEF PairInv, LockAt
  <2>. QED
    BY <2>1, <2>2
<1>. QED
  BY <1>3, <1>4, <1>5, <1>6 DEF PairInv

LEMMA NextPair == PairInv /\ [Next]_vars => PairInv'
<1> SUFFICES ASSUME PairInv, [Next]_vars PROVE PairInv'
  OBVIOUS
<1>0. timeouts \in Nat /\ disconnects \in Nat
  BY DEF PairInv, PairTypes
<1>1. ASSUME NEW n \in Nodes, NEW relayed \in BOOLEAN, Dial(n, relayed) PROVE PairInv'
  BY <1>1, DialPair
<1>2. ASSUME NEW n \in Nodes, NEW c \in Conns, SendAccepted(n, c) PROVE PairInv'
  <2>1. /\ stage[n][c] = "handshake" /\ stage' = [stage EXCEPT ![n][c] = "confirmed"]
        /\ UNCHANGED <<dialed, route, result, up, table, gate, proc, timeouts, disconnects>>
    BY <1>2 DEF SendAccepted
  <2>. QED
    BY <1>0, <2>1, TaskStep DEF Stages, Working, Registered
<1>3. ASSUME NEW n \in Nodes, NEW c \in Conns, Authenticate(n, c) PROVE PairInv'
  <2>1. /\ stage[n][c] = "confirmed" /\ stage' = [stage EXCEPT ![n][c] = "authenticated"]
        /\ SentAccepted(Other(n), c)
        /\ UNCHANGED <<dialed, route, result, up, table, gate, proc, timeouts, disconnects>>
    BY <1>3 DEF Authenticate
  <2>. QED
    BY <1>0, <2>1, TaskStep DEF Stages, Working, Registered
<1>4. ASSUME NEW n \in Nodes, NEW c \in Conns, GiveUp(n, c), timeouts' \in Nat PROVE PairInv'
  <2>1. /\ stage[n][c] \in {"handshake", "confirmed"}
        /\ stage' = [stage EXCEPT ![n][c] = Fallen(stage[n][c])]
        /\ up' = [up EXCEPT ![n] = @ \ {c}]
        /\ gate' = [gate EXCEPT ![n] = IF @ = c THEN NoConn ELSE @]
        /\ UNCHANGED <<dialed, route, result, table, proc, disconnects>>
    BY <1>4 DEF GiveUp, Release, PairInv, PairTypes
  <2>2. c \notin up'[n]
    BY <2>1 DEF PairInv, PairTypes
  <2>3. /\ stage[n][c] = "handshake" => Fallen(stage[n][c]) = "failed"
        /\ stage[n][c] = "confirmed" => Fallen(stage[n][c]) = "aborted"
    BY DEF Fallen
  <2>. QED
    BY <1>0, <1>4, <2>1, <2>2, <2>3, TaskStep DEF Stages, Working, Registered
<1>5. ASSUME NEW n \in Nodes, NEW c \in Conns, RegisterSession(n, c) PROVE PairInv'
  BY <1>5, RegisterPair
<1>6. ASSUME NEW n \in Nodes, NEW c \in Conns, RememberDialed(n, c) PROVE PairInv'
  <2>1. /\ stage[n][c] = "registered" /\ stage' = [stage EXCEPT ![n][c] = "done"]
        /\ gate' = [gate EXCEPT ![n] = IF @ = c THEN NoConn ELSE @]
        /\ UNCHANGED <<dialed, route, result, up, table, proc, timeouts, disconnects>>
    BY <1>6 DEF RememberDialed, Release
  <2>2. SentAccepted(Other(n), c)
    BY <2>1 DEF PairInv, EndAt, Registered
  <2>. QED
    BY <1>0, <2>1, <2>2, TaskStep DEF Stages, Working, Registered
<1>7. ASSUME NEW n \in Nodes, NEW c \in Conns, PeerCloses(n, c) PROVE PairInv'
  BY <1>0, <1>7, CloseStep, ZenonT(30) DEF PeerCloses
<1>8. ASSUME NEW n \in Nodes, NEW c \in Conns, RelayWatcher(n, c) PROVE PairInv'
  <2>1. up' = [up EXCEPT ![n] = @ \ {}]
    BY <1>8 DEF RelayWatcher, PairInv, PairTypes
  <2>2. /\ table' = [table EXCEPT ![n] = NoEntry] /\ table[n].conn \notin up[n] \ {}
        /\ UNCHANGED <<dialed, route, stage, result, gate, proc, timeouts, disconnects>>
    BY <1>8 DEF RelayWatcher
  <2>3. {} \in SUBSET Conns
    OBVIOUS
  <2>. QED
    BY <1>0, <2>1, <2>2, <2>3, CloseStep, ZenonT(30)
<1>9. ASSUME NEW n \in Nodes, Disconnect(n) PROVE PairInv'
  <2>1. {table[n].conn} \in SUBSET Conns
    BY <1>9 DEF Disconnect, PairInv, PairTypes
  <2>2. /\ table' = [table EXCEPT ![n] = NoEntry]
        /\ table[n].conn \notin up[n] \ {table[n].conn}
        /\ up' = [up EXCEPT ![n] = @ \ {table[n].conn}]
        /\ UNCHANGED <<dialed, route, stage, result, gate, proc, timeouts>>
        /\ disconnects' \in Nat
    BY <1>0, <1>9, SMTT(30) DEF Disconnect
  <2>. QED
    BY <2>1, <2>2, CloseStep, ZenonT(30)
<1>10. ASSUME NEW n \in Nodes, Restart(n) PROVE PairInv'
  BY <1>10, RestartPair
<1>11. CASE UNCHANGED vars
  BY <1>11, SMTT(30) DEF vars, PairInv, PairTypes, EntryAt, GateAt, EndAt, LockAt, SentAccepted
<1>12. ASSUME NEW n \in Nodes, NEW c \in Conns, HandshakeFails(n, c) \/ HandshakeTimesOut(n, c)
       PROVE  PairInv'
  <2>1. GiveUp(n, c) /\ timeouts' \in Nat
    BY <1>0, <1>12, SMTT(30) DEF HandshakeFails, HandshakeTimesOut
  <2>. QED
    BY <1>4, <2>1
<1>. QED
  BY <1>1, <1>2, <1>3, <1>5, <1>6, <1>7, <1>8, <1>9, <1>10, <1>11, <1>12 DEF Next, Task

LEMMA PairInvariant == Spec => []PairInv
  BY InitPair, NextPair, PTL DEF Spec

(* At rest no end uses a connection the other end does not use, and each   *)
(* end uses at most the one in its table, whatever dials, relays, timeouts, *)
(* disconnects and restarts went before and however they interleaved.      *)
THEOREM EndsAgree == Spec => []EndsAgreeAtRest
<1>1. PairInv => EndsAgreeAtRest
  <2> SUFFICES ASSUME PairInv, AtRest
               PROVE  Live(1) = Live(2) /\ \A n \in Nodes : Live(n) \subseteq {table[n].conn}
    BY DEF EndsAgreeAtRest
  <2>1. ASSUME NEW n \in Nodes, NEW c \in Live(n) PROVE c \in Live(Other(n)) /\ c = table[n].conn
    <3>1. c \in Conns /\ c \in up[n] /\ stage[n][c] \in Registered /\ Other(n) \in Nodes
      BY NodeFacts DEF Live, PairInv, PairTypes, Registered
    <3>2. c = table[n].conn /\ SentAccepted(Other(n), c)
      BY <3>1 DEF PairInv, EndAt
    <3>3. c \in up[Other(n)]
      BY <3>1 DEF AtRest, Nodes, Other
    <3>4. stage[Other(n)][c] = "done"
      <4>1. stage[Other(n)][c] \in Stages \ Working
        BY <3>1 DEF AtRest, PairInv, PairTypes
      <4>2. stage[Other(n)][c] \notin {"unused", "failed", "aborted"}
        BY <3>1, <3>3 DEF PairInv, EndAt
      <4>. QED
        BY <4>1, <4>2 DEF Stages, Working
    <3>5. result[Other(n)][c] = c
      BY <3>1, <3>3, <3>4 DEF PairInv, EndAt, Registered
    <3>. QED
      BY <3>2, <3>3, <3>4, <3>5 DEF Live
  <2>2. Live(1) \subseteq Live(2) /\ Live(2) \subseteq Live(1)
    <3>1. 1 \in Nodes /\ 2 \in Nodes /\ Other(1) = 2 /\ Other(2) = 1
      BY SMTT(30) DEF Nodes, Other
    <3>. QED
      BY <2>1, <3>1
  <2>. QED
    BY <2>1, <2>2
<1>. QED
  BY <1>1, PairInvariant, PTL

-----------------------------------------------------------------------------
(* Only direct dials, and nothing to disturb them.                         *)
Calm == Undisturbed /\ Direct

Dialed == 1..dialed

(* The connection both ends will keep: neither has closed it, and every    *)
(* other dial ranks behind it.  So node 1 dials at most once, and node 2   *)
(* not again before node 1 has dialled.                                    *)
Favourite(f) ==
    /\ f \in up[1] /\ f \in up[2]
    /\ \A d \in Dialed \ {f} : route[f].initiator = 1 /\ route[d].initiator = 2

Pending == {"handshake", "confirmed", "authenticated"}

(* A dial of node 2 that a later one follows is over at both ends.         *)
Followed(c) == c \notin up[2] /\ stage[2][c] \notin Working /\ stage[1][c] \notin Pending

(* Why a dial of node 2 closes before node 1 has registered it.            *)
Outranked(c) ==
    (c \notin up[1] \/ c \notin up[2]) /\ stage[1][c] \in Pending =>
        \E j \in Dialed : route[j].initiator = 1 /\ stage[2][j] \in Registered

CalmInv ==
    Calm =>
        /\ \A n \in Nodes : table[n].retired = <<>>
        /\ dialed > 0 => \E f \in Dialed : Favourite(f)
        /\ \A c \in Dialed : route[c].initiator = 2 =>
               /\ Outranked(c)
               /\ \A d \in Dialed : c < d /\ route[d].initiator = 2 => Followed(c)

LEMMA RegistryRanks ==
    ASSUME PairInv, NEW n \in Nodes, NEW c \in Conns, stage[n][c] \in {"authenticated"} \cup Registered
    PROVE  /\ Registry(n)!Initiator(c) = route[c].initiator
           /\ Registry(n)!Relayed(c) <=> route[c].relayed
<1> DEFINE view == SessionView(n)
<1>1. view[c] = [peer |-> Other(n), kind |-> RealtimeInput, origin |-> RegistryOrigin(n, c),
                 instance |-> route[c].proc[Other(n)]]
  BY RegistrySessions DEF SessionView
<1>2. view[c].origin = RegistryOrigin(n, c) /\ view[c].peer = Other(n)
  BY <1>1, SMTT(30)
<1>3. route[c].initiator \in Nodes
  BY DEF PairInv, EndAt, Registered
<1>4. route[c].initiator # n => route[c].initiator = Other(n)
  BY <1>3, SMTT(30) DEF Nodes, Other
<1>. QED
  BY <1>2, <1>4, RegistryOrigins, SMTT(30)
     DEF Registry!Initiator, Registry!Outbound, Registry!Relayed, SessionView

(* In the calm the decision is about the initiators alone.                 *)
LEMMA CalmDecision ==
    ASSUME PairInv, Calm, CalmInv,
           NEW n \in Nodes, NEW c \in Conns, stage[n][c] = "authenticated"
    PROVE  LET old == table[n].conn
               keeps == Usable(n) /\ route[old].initiator < route[c].initiator
           IN  /\ Registry(n)!Returned(c) = IF keeps THEN old ELSE c
               /\ Registry(n)!Closed(c) = IF keeps THEN {c} ELSE IF Usable(n) THEN {old} ELSE {}
               /\ Registry(n)!Retire(c) = <<>>
<1> DEFINE old == table[n].conn
           keeps == Usable(n) /\ route[old].initiator < route[c].initiator
<1>1. table[n].retired = <<>>
  BY DEF CalmInv
<1>2. ~ObsoleteAt(n, c)
  BY <1>1, SMTT(30) DEF ObsoleteAt, Range
<1>3. old # NoConn => old \in Conns /\ stage[n][old] \in Registered
  BY DEF PairInv, PairTypes, EntryAt
<1>4. \A d \in Conns : stage[n][d] # "unused" => Instance(n, d) = 1
  <2> SUFFICES ASSUME NEW d \in Conns, stage[n][d] # "unused" PROVE Instance(n, d) = 1
    OBVIOUS
  <2>1. EndAt(n, d) /\ Other(n) \in Nodes
    BY NodeFacts DEF PairInv
  <2>2. route[d].proc[Other(n)] \in 1..proc[Other(n)] /\ proc[Other(n)] = 1
    BY <2>1 DEF EndAt, Calm, Undisturbed
  <2>. QED
    BY <2>2, SMTT(30) DEF Instance
<1>5. ~RestartedAt(n, c)
  BY <1>3, <1>4 DEF RestartedAt, Registered
<1>6. ~Registry(n)!Obsolete(c) /\ ~Registry(n)!Restarted(c)
      /\ (Registry(n)!Usable(Registry(n)!Key(c)) <=> Usable(n))
      /\ Registry(n)!Current(c) = old /\ Registry(n)!Key(c) = <<Other(n), RealtimeInput>>
  BY <1>2, <1>5, Decision
<1>7. Usable(n) => /\ Registry(n)!Initiator(old) = route[old].initiator /\ ~Registry(n)!Relayed(old)
                   /\ route[old].initiator \in Nodes
  <2> SUFFICES ASSUME Usable(n)
               PROVE  /\ Registry(n)!Initiator(old) = route[old].initiator
                      /\ ~Registry(n)!Relayed(old)
                      /\ route[old].initiator \in Nodes
    OBVIOUS
  <2>1. old \in Conns /\ stage[n][old] \in Registered
    BY <1>3 DEF Usable
  <2>2. EndAt(n, old) /\ ~route[old].relayed
    BY <2>1 DEF PairInv, Calm, Direct
  <2>. QED
    BY <2>1, <2>2, RegistryRanks DEF EndAt, Registered
<1>8. /\ Registry(n)!Initiator(c) = route[c].initiator /\ ~Registry(n)!Relayed(c)
      /\ route[c].initiator \in Nodes
  <2>1. EndAt(n, c) /\ ~route[c].relayed
    BY DEF PairInv, Calm, Direct
  <2>. QED
    BY <2>1, RegistryRanks DEF EndAt
<1>9. Registry(n)!KeepsCurrent(c) <=> keeps
  <2>1. CASE ~Usable(n)
    BY <1>6, <2>1
       DEF Registry!KeepsCurrent
  <2>2. CASE Usable(n)
    <3> DEFINE a == route[old].initiator
               b == route[c].initiator
    <3>1. a \in Nodes /\ b \in Nodes
      BY <1>7, <1>8, <2>2
    <3>2. Registry(n)!SameInitiator(c) <=> a = b
      BY <1>6, <1>7, <1>8, <2>2
         DEF Registry!SameInitiator
    <3>3. ~Registry(n)!KeepDirect(c) /\ ~Registry(n)!PreferDirect(c)
      BY <1>6, <1>7, <1>8, <2>2
         DEF Registry!KeepDirect, Registry!PreferDirect
    <3>4. Registry(n)!KeepsCurrent(c) <=> a # b /\ a <= b
      BY <1>6, <1>7, <1>8, <2>2, <3>2, <3>3
         DEF Registry!KeepsCurrent
    <3>5. (a # b /\ a <= b) <=> a < b
      BY <3>1, SMTT(30) DEF Nodes
    <3>. QED
      BY <2>2, <3>4, <3>5
  <2>. QED
    BY <2>1, <2>2
<1> HIDE DEF keeps
<1>10. Registry(n)!Returned(c) = IF keeps THEN old ELSE c
  BY <1>6, <1>9
     DEF Registry!Returned
<1>11. Registry(n)!Closed(c) = IF keeps THEN {c} ELSE IF Usable(n) THEN {old} ELSE {}
  BY <1>6, <1>9
     DEF Registry!Closed
<1>12. Registry(n)!Retire(c) = <<>>
  BY <1>1, <1>6
     DEF Registry!Retire, SessionView, TableView, PairKey
<1> USE DEF keeps
<1>. QED
  BY <1>10, <1>11, <1>12

(* Nothing un-happens: the calm has been there from the start.             *)
LEMMA CalmBefore ==
    ASSUME PairInv, Next, Calm'
    PROVE  Calm /\ UNCHANGED <<timeouts, disconnects, proc>>
<1>0. timeouts \in Nat /\ disconnects \in Nat /\ proc \in [Nodes -> 1..MaxProcess]
  BY DEF PairInv, PairTypes
<1>1. timeouts' = 0 /\ disconnects' = 0 /\ (\A i \in Nodes : proc'[i] = 1)
      /\ (\A c \in Conns : ~route'[c].relayed)
  BY DEF Calm, Undisturbed, Direct
<1>2. UNCHANGED <<timeouts, disconnects, proc>>
  <2>1. ASSUME NEW n \in Nodes, NEW c \in Conns, HandshakeTimesOut(n, c) PROVE FALSE
    BY <1>0, <1>1, <2>1, SMTT(30) DEF HandshakeTimesOut
  <2>2. ASSUME NEW n \in Nodes, Disconnect(n) PROVE FALSE
    BY <1>0, <1>1, <2>2, SMTT(30) DEF Disconnect
  <2>3. ASSUME NEW n \in Nodes, Restart(n) PROVE FALSE
    <3>1. proc'[n] = proc[n] + 1 /\ proc[n] \in 1..MaxProcess
      BY <1>0, <2>3 DEF Restart
    <3>. QED
      BY <1>1, <3>1, NodeFacts, SMTT(30)
  <2>4. ASSUME NEW n \in Nodes, NEW relayed \in BOOLEAN, Dial(n, relayed)
        PROVE  UNCHANGED <<timeouts, disconnects, proc>>
    BY <2>4 DEF Dial
  <2>5. ASSUME NEW n \in Nodes, NEW c \in Conns, Task(n, c)
        PROVE  UNCHANGED <<timeouts, disconnects, proc>>
    BY <2>5 DEF Task, SendAccepted, Authenticate, HandshakeFails, GiveUp, RegisterSession,
                       RememberDialed, PeerCloses, RelayWatcher
  <2>. QED
    BY <2>1, <2>2, <2>3, <2>4, <2>5 DEF Next
<1>3. \A c \in Conns : ~route[c].relayed
  <2>1. CASE route' = route
    BY <1>1, <2>1
  <2>2. ASSUME NEW n \in Nodes, NEW relayed \in BOOLEAN, Dial(n, relayed)
        PROVE  \A c \in Conns : ~route[c].relayed
    <3> TAKE c \in Conns
    <3>1. CASE c = dialed + 1
      <4>1. c > dialed /\ n \in Nodes
        BY <3>1, NodeFacts, SMTT(30) DEF PairInv, PairTypes
      <4>. QED
        BY <4>1 DEF PairInv, EndAt
    <3>2. CASE c # dialed + 1
      BY <1>1, <2>2, <3>2 DEF Dial, PairInv, PairTypes
    <3>. QED
      BY <3>1, <3>2
  <2>. QED
    BY <2>1, <2>2, SMTT(30) DEF Next, Task, SendAccepted, Authenticate, HandshakeFails, GiveUp,
       RegisterSession, RememberDialed, PeerCloses, RelayWatcher, HandshakeTimesOut, Disconnect,
       Restart
<1>. QED
  BY <1>1, <1>2, <1>3 DEF Calm, Undisturbed, Direct

LEMMA FavouriteFacts ==
    ASSUME PairInv, Calm, NEW f \in Conns, Favourite(f), NEW n \in Nodes
    PROVE  /\ f \in up[n] /\ stage[n][f] \in Working \cup {"done"}
           /\ stage[n][f] \in Registered => table[n].conn = f /\ Usable(n)
           /\ route[f].initiator \in Nodes
           /\ route[f].initiator = n => gate[n] = f \/ Usable(n)
<1>1. f \in up[n] /\ EndAt(n, f) /\ LockAt(n, f) /\ stage[n][f] \in Stages
  BY DEF PairInv, PairTypes, Favourite, Nodes
<1>2. stage[n][f] \in Working \cup {"done"}
  BY <1>1 DEF EndAt, Stages, Working
<1>3. stage[n][f] \in Registered => table[n].conn = f /\ Usable(n)
  BY <1>1, NodeFacts DEF EndAt, Usable
<1>4. route[f].initiator \in Nodes
  BY <1>1, <1>2 DEF EndAt, Working
<1>5. route[f].initiator = n => gate[n] = f \/ Usable(n)
  BY <1>1, <1>2, <1>3 DEF LockAt, Calm, Direct, Registered
<1>. QED
  BY <1>1, <1>2, <1>3, <1>4, <1>5

(* A dial that is in use has been dialled.                                 *)
LEMMA InUseDialed ==
    ASSUME PairInv, NEW n \in Nodes, NEW c \in Conns, stage[n][c] # "unused"
    PROVE  c \in Dialed /\ route[c].initiator \in Nodes
<1>1. EndAt(n, c) /\ dialed \in Nat /\ c \in Nat /\ c >= 1
  BY NodeFacts, SMTT(30) DEF PairInv, PairTypes, Conns
<1>2. ~(c > dialed)
  BY <1>1 DEF EndAt
<1>. QED
  BY <1>1, <1>2, SMTT(30) DEF EndAt, Dialed

LEMMA DialCalm ==
    ASSUME PairInv, CalmInv, Calm, Calm', NEW n \in Nodes, NEW relayed \in BOOLEAN, Dial(n, relayed)
    PROVE  CalmInv'
<1>00. dialed \in Nat /\ dialed + 1 \in Conns
  BY NodeFacts, SMTT(30) DEF Dial, PairInv, PairTypes, Conns
<1>0. PICK c \in Conns :
      /\ dialed \in Nat /\ c = dialed + 1 /\ dialed' = c
      /\ route' = [route EXCEPT ![c] = [initiator |-> n, relayed |-> relayed, proc |-> proc]]
      /\ stage' = [i \in Nodes |-> [stage[i] EXCEPT ![c] = "handshake"]]
      /\ up' = [i \in Nodes |-> up[i] \cup {c}]
      /\ table' = [table EXCEPT ![n] = NoEntry]
      /\ ~Usable(n)
  BY <1>00 DEF Dial
<1>1. gate[n] = NoConn
  <2>1. route'[c].relayed = relayed
    BY <1>0 DEF PairInv, PairTypes
  <2>2. ~relayed
    BY <1>0, <2>1 DEF Calm, Direct
  <2>. QED
    BY <2>2 DEF Dial
<1>2. /\ Dialed' = Dialed \cup {c} /\ c \notin Dialed /\ Dialed \subseteq Conns
      /\ \A d \in Dialed : c > d
  <2>1. dialed \in 0..MaxDials /\ MaxDials \in Nat
    BY NodeFacts DEF PairInv, PairTypes
  <2>2. Dialed' = 1..c
    BY <1>0 DEF Dialed
  <2>3. c = dialed + 1 /\ c \in 1..MaxDials
    BY <1>0 DEF Conns
  <2>4. 1..(dialed + 1) = (1..dialed) \cup {dialed + 1}
    BY <2>1, SMTT(30)
  <2>5. \A d \in 1..dialed : dialed + 1 > d /\ d \in 1..MaxDials
    BY <2>1, SMTT(30)
  <2>6. Dialed = 1..dialed /\ Conns = 1..MaxDials
    BY DEF Dialed, Conns
  <2>7. Dialed' = Dialed \cup {c}
    BY <2>2, <2>3, <2>4, <2>6
  <2>8. (\A d \in Dialed : c > d) /\ Dialed \subseteq Conns
    BY <2>3, <2>5, <2>6
  <2>9. c \notin Dialed
    BY <2>1, <2>3, <2>6, SMTT(30)
  <2>. QED
    BY <2>7, <2>8, <2>9
<1>3. ASSUME NEW d \in Conns
      PROVE  /\ d = c => route'[d].initiator = n
             /\ d # c => route'[d] = route[d]
             /\ \A i \in Nodes : /\ d = c => stage'[i][d] = "handshake"
                                 /\ d # c => stage'[i][d] = stage[i][d]
                                 /\ d \in up'[i] <=> d \in up[i] \/ d = c
  BY <1>0 DEF PairInv, PairTypes
<1>4. \A i \in Nodes : table'[i].retired = <<>>
  BY <1>0 DEF CalmInv, PairInv, PairTypes, NoEntry
<1>5. 1 \in Nodes /\ 2 \in Nodes /\ \A i \in Nodes : i = 1 \/ i = 2
  BY DEF Nodes
(* The initiator of the favourite has it or is still dialling it.          *)
<1>6. ASSUME NEW f \in Dialed, Favourite(f) PROVE route[f].initiator = 3 - n
  <2>1. f \in Conns
    BY <1>2
  <2>2. route[f].initiator # n
    BY <1>0, <1>1, <1>6, <2>1, FavouriteFacts, NodeFacts
  <2>3. route[f].initiator \in Nodes
    BY <1>6, <2>1, FavouriteFacts
  <2>. QED
    BY <2>2, <2>3, SMTT(30) DEF Nodes
<1>7. \E f \in Dialed' : Favourite(f)'
  <2>1. CASE Dialed = {}
    <3>1. Favourite(c)'
      BY <1>0, <1>2, <1>3, <1>5, <2>1 DEF Favourite
    <3>. QED
      BY <1>2, <3>1
  <2>2. CASE Dialed # {}
    <3>1. dialed > 0
      BY <1>0, <2>2, SMTT(30) DEF Dialed
    <3>2. PICK f \in Dialed : Favourite(f)
      BY <3>1 DEF CalmInv
    <3>3. route[f].initiator = 3 - n /\ f \in Conns /\ f # c
      BY <1>2, <1>6, <3>2
    <3>4. CASE n = 1
      <4>1. \A d \in Dialed : d = f
        BY <3>2, <3>3, <3>4, SMTT(30) DEF Favourite
      <4>2. route'[c].initiator = 1 /\ route'[f].initiator = 2
        BY <1>0, <1>3, <3>3, <3>4, SMTT(30)
      <4>3. c \in up'[1] /\ c \in up'[2]
        BY <1>0, <1>3, <1>5
      <4>4. Favourite(c)'
        BY <1>2, <4>1, <4>2, <4>3 DEF Favourite
      <4>. QED
        BY <1>2, <4>4
    <3>5. CASE n = 2
      <4>1. f \in up'[1] /\ f \in up'[2] /\ route'[f].initiator = 1
        BY <1>3, <1>5, <3>2, <3>3, <3>5, SMTT(30) DEF Favourite
      <4>2. \A d \in Dialed' \ {f} : route'[d].initiator = 2
        BY <1>0, <1>2, <1>3, <3>2, <3>5, SMTT(30) DEF Favourite
      <4>3. Favourite(f)'
        BY <4>1, <4>2 DEF Favourite
      <4>. QED
        BY <1>2, <4>3
    <3>. QED
      BY <1>5, <3>4, <3>5
  <2>. QED
    BY <2>1, <2>2
(* Node 2 dials again only once its earlier dials have lost everywhere.    *)
<1>8. ASSUME NEW d \in Dialed, route[d].initiator = 2, n = 2 PROVE Followed(d)
  <2>1. d \in Conns /\ EndAt(2, d) /\ LockAt(2, d) /\ stage[2][d] \in Stages
    BY <1>2, <1>5, SMTT(30) DEF PairInv, PairTypes
  <2>2. stage[2][d] \notin Working
    <3>1. gate[2] # d
      BY <1>1, <1>8, <2>1, NodeFacts
    <3>. QED
      BY <1>8, <2>1, <3>1 DEF LockAt, Calm, Direct
  <2>3. d \notin up[2]
    <3> SUFFICES ASSUME d \in up[2] PROVE FALSE
      OBVIOUS
    <3>1. stage[2][d] = "done"
      BY <2>1, <2>2 DEF EndAt, Stages, Working
    <3>2. table[2].conn = d
      BY <2>1, <3>1 DEF EndAt, Registered
    <3>. QED
      BY <1>0, <1>8, <2>1, <3>2, NodeFacts DEF Usable
  <2>4. stage[1][d] \notin Pending
    <3> SUFFICES ASSUME stage[1][d] \in Pending PROVE FALSE
      OBVIOUS
    <3>1. PICK j \in Dialed : route[j].initiator = 1 /\ stage[2][j] \in Registered
      BY <1>8, <2>3 DEF CalmInv, Outranked
    <3>2. dialed > 0
      BY <1>0, SMTT(30) DEF Dialed
    <3>3. PICK f \in Dialed : Favourite(f)
      BY <3>2 DEF CalmInv
    <3>4. j = f
      BY <3>1, <3>3, SMTT(30) DEF Favourite
    <3>5. j \in Conns
      BY <1>2
    <3>. QED
      BY <1>0, <1>5, <1>8, <3>1, <3>3, <3>4, <3>5, FavouriteFacts
  <2>. QED
    BY <2>2, <2>3, <2>4 DEF Followed
<1>9. ASSUME NEW d \in Dialed', route'[d].initiator = 2
      PROVE  /\ Outranked(d)'
             /\ \A e \in Dialed' : d < e /\ route'[e].initiator = 2 => Followed(d)'
  <2>1. CASE d = c
    <3>1. d \in up'[1] /\ d \in up'[2]
      BY <1>0, <1>3, <1>5, <2>1
    <3>2. \A e \in Dialed' : ~(d < e)
      BY <1>0, <1>2, <2>1, NodeFacts, SMTT(30)
    <3>. QED
      BY <3>1, <3>2 DEF Outranked
  <2>2. CASE d # c
    <3>1. d \in Dialed /\ d \in Conns /\ route[d].initiator = 2
      BY <1>2, <1>3, <1>9, <2>2
    <3>2. Outranked(d)'
      BY <1>2, <1>3, <1>5, <2>2, <3>1 DEF CalmInv, Outranked, Registered
    <3>3. ASSUME NEW e \in Dialed', d < e, route'[e].initiator = 2 PROVE Followed(d)'
      <4>1. Followed(d)
        <5>1. CASE e = c
          BY <1>0, <1>3, <1>8, <3>1, <3>3, <5>1
        <5>2. CASE e # c
          <6>1. e \in Dialed /\ route[e].initiator = 2
            BY <1>2, <1>3, <3>3, <5>2
          <6>. QED
            BY <3>1, <3>3, <6>1 DEF CalmInv
        <5>. QED
          BY <5>1, <5>2
      <4>. QED
        BY <1>3, <1>5, <2>2, <3>1, <4>1 DEF Followed
    <3>. QED
      BY <3>2, <3>3
  <2>. QED
    BY <2>1, <2>2
<1>. QED
  BY <1>4, <1>7, <1>9 DEF CalmInv

(* A step that decides nothing: tasks go on, a close reaches the other end. *)
LEMMA QuietStep ==
    ASSUME PairInv, CalmInv, Calm,
           UNCHANGED <<dialed, route, table>>,
           \A i \in Nodes, d \in Conns :
               /\ d \in up'[i] => d \in up[i]
               /\ d \in up[i] /\ d \in up[Other(i)] => d \in up'[i]
               /\ stage[i][d] \notin Working => stage'[i][d] \notin Working
               /\ stage[i][d] \notin Pending => stage'[i][d] \notin Pending
               /\ stage[i][d] \in Registered => stage'[i][d] \in Registered
    PROVE  CalmInv'
<1>1. Dialed' = Dialed /\ Dialed \subseteq Conns
  <2>1. dialed \in 0..MaxDials
    BY DEF PairInv, PairTypes
  <2>2. Dialed' = Dialed
    BY DEF Dialed
  <2>3. Dialed \subseteq Conns
    BY ONLY <2>1, NodeFacts DEF Dialed, Conns
  <2>. QED
    BY <2>2, <2>3
<1>2. 1 \in Nodes /\ 2 \in Nodes /\ Other(1) = 2 /\ Other(2) = 1
  BY SMTT(30) DEF Nodes, Other
<1>3. ASSUME NEW f \in Dialed, Favourite(f) PROVE Favourite(f)'
  BY <1>1, <1>2, <1>3 DEF Favourite
<1>4. dialed' > 0 => \E f \in Dialed' : Favourite(f)'
  BY <1>1, <1>3 DEF CalmInv
<1>5. ASSUME NEW d \in Dialed, Outranked(d) PROVE Outranked(d)'
  BY <1>1, <1>2, <1>5 DEF Outranked
<1>6. ASSUME NEW d \in Dialed, Followed(d) PROVE Followed(d)'
  BY <1>1, <1>2, <1>6 DEF Followed
<1>. QED
  BY <1>1, <1>4, <1>5, <1>6 DEF CalmInv

LEMMA RegisterCalm ==
    ASSUME PairInv, CalmInv, Calm, NEW n \in Nodes, NEW c \in Conns, RegisterSession(n, c)
    PROVE  CalmInv'
<1> DEFINE old == table[n].conn
           keeps == Usable(n) /\ route[old].initiator < route[c].initiator
           x == IF keeps THEN {c} ELSE IF Usable(n) THEN {old} ELSE {}
<1>0. /\ stage[n][c] = "authenticated"
      /\ \E s \in Registered : stage' = [stage EXCEPT ![n][c] = s]
      /\ \/ table' = table
         \/ table' = [table EXCEPT ![n] = [conn |-> c, retired |-> <<>>]]
      /\ up' = [up EXCEPT ![n] = @ \ x]
      /\ UNCHANGED <<dialed, route>>
  <2>1. stage[n][c] = "authenticated"
    BY DEF RegisterSession
  <2>2. Registry(n)!Closed(c) = x /\ Registry(n)!Retire(c) = <<>>
    BY <2>1, CalmDecision
  <2> HIDE DEF x
  <2>. QED
    BY <2>1, <2>2 DEF RegisterSession, Registered
<1>1. Dialed' = Dialed /\ Dialed \subseteq Conns /\ c \in Dialed
      /\ route[c].initiator \in Nodes
  <2>1. c \in Dialed /\ route[c].initiator \in Nodes
    BY <1>0, InUseDialed
  <2>2. dialed \in 0..MaxDials
    BY DEF PairInv, PairTypes
  <2>3. Dialed' = Dialed
    BY <1>0 DEF Dialed
  <2>4. Dialed \subseteq Conns
    BY ONLY <2>2, NodeFacts DEF Dialed, Conns
  <2>. QED
    BY <2>1, <2>3, <2>4
<1>2. Usable(n) => old \in Dialed /\ old # c /\ stage[n][old] \in Registered /\ old \in up[n]
                   /\ route[old].initiator \in Nodes
  <2>1. Usable(n) => old \in Conns /\ stage[n][old] \in Registered /\ old \in up[n]
    BY DEF Usable, PairInv, PairTypes, EntryAt
  <2>. QED
    BY <1>0, <2>1, InUseDialed DEF Registered
<1>3. 1 \in Nodes /\ 2 \in Nodes /\ Other(1) = 2 /\ Other(2) = 1 /\ (n = 1 \/ n = 2)
  BY SMTT(30) DEF Nodes, Other
<1>4. ASSUME NEW i \in Nodes, NEW d \in Conns
      PROVE  /\ d \in up'[i] <=> d \in up[i] /\ ~(i = n /\ d \in x)
             /\ i = n /\ d = c => stage'[i][d] \in Registered
             /\ ~(i = n /\ d = c) => stage'[i][d] = stage[i][d]
  <2> HIDE DEF x
  <2>1. up \in [Nodes -> SUBSET Conns] /\ stage \in [Nodes -> [Conns -> Stages]]
    BY DEF PairInv, PairTypes
  <2>2. up' = [up EXCEPT ![n] = @ \ x]
    BY <1>0
  <2>3. PICK s \in Registered : stage' = [stage EXCEPT ![n][c] = s]
    BY <1>0
  <2>4. d \in up'[i] <=> d \in up[i] /\ ~(i = n /\ d \in x)
    BY <2>1, <2>2
  <2>. QED
    BY <2>1, <2>3, <2>4
<1>5. \A i \in Nodes : table'[i].retired = <<>>
  <2>1. \A i \in Nodes : table[i].retired = <<>>
    BY DEF CalmInv
  <2>2. \/ table' = table
        \/ table' = [table EXCEPT ![n] = [conn |-> c, retired |-> <<>>]]
    BY <1>0
  <2>3. ASSUME NEW i \in Nodes
        PROVE  table'[i] = table[i] \/ table'[i] = [conn |-> c, retired |-> <<>>]
    BY <2>2 DEF PairInv, PairTypes
  <2>4. [conn |-> c, retired |-> <<>>].retired = <<>>
    OBVIOUS
  <2>. QED
    BY <2>1, <2>3, <2>4
(* The favourite neither loses nor is replaced.                            *)
<1>6. ASSUME NEW f \in Dialed, Favourite(f) PROVE f \notin x
  <2>1. CASE f = c
    <3>1. Usable(n) => route[old].initiator = 2 /\ route[f].initiator = 1
      BY <1>2, <1>6, <2>1 DEF Favourite
    <3>2. ~keeps
      BY <2>1, <3>1, SMTT(30)
    <3>. QED
      BY <1>2, <2>1, <3>2
  <2>2. CASE f # c
    <3>1. route[f].initiator = 1 /\ route[c].initiator = 2
      BY <1>1, <1>6, <2>2 DEF Favourite
    <3>2. Usable(n) /\ f = old => keeps
      BY <3>1, SMTT(30)
    <3>. QED
      BY <2>2, <3>2
  <2>. QED
    BY <2>1, <2>2
<1>7. dialed' > 0 => \E f \in Dialed' : Favourite(f)'
  <2>1. ASSUME NEW f \in Dialed, Favourite(f) PROVE Favourite(f)'
    BY <1>0, <1>1, <1>3, <1>4, <1>6, <2>1 DEF Favourite
  <2>. QED
    BY <1>0, <1>1, <2>1 DEF CalmInv
<1>8. ASSUME NEW d \in Dialed, Followed(d) PROVE Followed(d)'
  <2>1. stage[1][d] \notin Pending /\ stage[2][d] \notin Working /\ d \notin up[2] /\ d \in Conns
    BY <1>1, <1>8 DEF Followed
  <2>2. stage[n][c] \in Pending /\ stage[n][c] \in Working
    BY <1>0 DEF Pending, Working
  <2>3. stage'[1][d] = stage[1][d] /\ stage'[2][d] = stage[2][d]
    BY <1>3, <1>4, <2>1, <2>2
  <2>4. d \notin up'[2]
    BY <1>3, <1>4, <2>1
  <2>. QED
    BY <2>1, <2>3, <2>4 DEF Followed
<1>9. ASSUME NEW d \in Dialed, route[d].initiator = 2 PROVE Outranked(d)'
  <2> SUFFICES ASSUME d \notin up'[1] \/ d \notin up'[2], stage'[1][d] \in Pending
               PROVE  \E j \in Dialed : route[j].initiator = 1 /\ stage'[2][j] \in Registered
    BY <1>0, <1>1 DEF Outranked
  <2>1. d \in Conns /\ Outranked(d)
    BY <1>1, <1>9 DEF CalmInv
  <2>2. ~(n = 1 /\ d = c) /\ stage[1][d] \in Pending
    BY <1>3, <1>4, <2>1 DEF Registered, Pending
  <2>3. CASE d \notin up[1] \/ d \notin up[2]
    <3>1. PICK j \in Dialed : route[j].initiator = 1 /\ stage[2][j] \in Registered
      BY <2>1, <2>2, <2>3 DEF Outranked
    <3>2. stage'[2][j] \in Registered
      BY <1>1, <1>3, <1>4, <3>1
    <3>. QED
      BY <3>1, <3>2
  <2>4. CASE d \in up[1] /\ d \in up[2]
    <3>1. d \in x
      BY <1>3, <1>4, <2>1, <2>4
    <3>2. n = 2
      <4> SUFFICES ASSUME n = 1 PROVE FALSE
        BY <1>3
      <4>1. d = old /\ Usable(n)
        BY <2>2, <3>1
      <4>. QED
        BY <1>2, <2>2, <4>1 DEF Registered, Pending
    <3>3. CASE keeps
      <4>1. route[old].initiator = 1
        BY <1>2, <1>9, <3>1, <3>3, SMTT(30) DEF Nodes
      <4>2. stage'[2][old] \in Registered
        BY <1>1, <1>2, <1>3, <1>4, <3>2, <3>3
      <4>. QED
        BY <1>2, <3>3, <4>1, <4>2
    <3>4. CASE ~keeps
      <4>1. d = old /\ Usable(n) /\ d # c
        BY <1>2, <3>1, <3>4
      <4>2. route[c].initiator = 1
        <5> SUFFICES ASSUME route[c].initiator = 2 PROVE FALSE
          BY <1>1 DEF Nodes
        <5>1. d \in Nat /\ c \in Nat
          BY <2>1, NodeFacts
        <5>2. CASE d < c
          BY <1>1, <1>9, <2>4, <5>2 DEF CalmInv, Followed
        <5>3. CASE c < d
          <6>1. Followed(c)
            BY <1>1, <1>9, <5>3 DEF CalmInv
          <6>. QED
            BY <1>0, <3>2, <6>1 DEF Followed, Working
        <5>. QED
          BY <4>1, <5>1, <5>2, <5>3, SMTT(30)
      <4>3. stage'[2][c] \in Registered
        BY <1>4, <3>2
      <4>. QED
        BY <1>1, <4>2, <4>3
    <3>. QED
      BY <3>3, <3>4
  <2>. QED
    BY <2>3, <2>4
<1>. QED
  BY <1>0, <1>1, <1>5, <1>7, <1>8, <1>9 DEF CalmInv

LEMMA InitCalm == Init => CalmInv
<1> SUFFICES ASSUME Init PROVE CalmInv
  OBVIOUS
<1>1. Dialed = {} /\ dialed = 0
  BY SMTT(30) DEF Init, Dialed
<1>. QED
  BY <1>1, SMTT(30) DEF Init, CalmInv, NoEntry

LEMMA NextCalm == PairInv /\ CalmInv /\ [Next]_vars => CalmInv'
<1> SUFFICES ASSUME PairInv, CalmInv, [Next]_vars, Calm' PROVE CalmInv'
  BY DEF CalmInv
<1>1. CASE UNCHANGED vars
  BY <1>1 DEF vars, CalmInv, Calm, Undisturbed, Direct, Favourite, Outranked, Followed, Dialed
<1>2. CASE Next
  <2>0. Calm /\ UNCHANGED <<timeouts, disconnects, proc>>
    BY <1>2, CalmBefore
  <2>1. ASSUME NEW n \in Nodes, NEW relayed \in BOOLEAN, Dial(n, relayed) PROVE CalmInv'
    BY <2>0, <2>1, DialCalm
  <2>2. ASSUME NEW n \in Nodes, NEW c \in Conns, RegisterSession(n, c) PROVE CalmInv'
    BY <2>0, <2>2, RegisterCalm
  <2>3. ASSUME NEW n \in Nodes, NEW c \in Conns, NEW s \in Stages,
               UNCHANGED <<dialed, route, table, up>>,
               stage' = [stage EXCEPT ![n][c] = s],
               stage[n][c] \notin Working => s \notin Working,
               stage[n][c] \notin Pending => s \notin Pending,
               stage[n][c] \in Registered => s \in Registered
        PROVE  CalmInv'
    <3>1. \A i \in Nodes, d \in Conns :
               stage'[i][d] = IF i = n /\ d = c THEN s ELSE stage[i][d]
      BY <2>3 DEF PairInv, PairTypes
    <3>. QED
      BY <2>0, <2>3, <3>1, QuietStep, SMTT(30)
  <2>4. ASSUME NEW n \in Nodes, NEW c \in Conns, SendAccepted(n, c) PROVE CalmInv'
    BY <2>3, <2>4 DEF SendAccepted, Stages, Working, Pending, Registered
  <2>5. ASSUME NEW n \in Nodes, NEW c \in Conns, Authenticate(n, c) PROVE CalmInv'
    BY <2>3, <2>5 DEF Authenticate, Stages, Working, Pending, Registered
  <2>6. ASSUME NEW n \in Nodes, NEW c \in Conns, HandshakeFails(n, c) PROVE CalmInv'
    <3>1. /\ c \notin up[n] /\ stage[n][c] \in {"handshake", "confirmed"}
          /\ UNCHANGED <<dialed, route, table>>
          /\ stage' = [stage EXCEPT ![n][c] = Fallen(stage[n][c])]
          /\ up' = [up EXCEPT ![n] = @ \ {c}]
      BY <2>6 DEF HandshakeFails, GiveUp, PairInv, PairTypes
    <3>2. up' = up
      BY <3>1, SMTT(30) DEF PairInv, PairTypes
    <3>3. Fallen(stage[n][c]) \in {"failed", "aborted"}
      BY <3>1 DEF Fallen
    <3>. QED
      BY <2>3, <3>1, <3>2, <3>3 DEF Stages, Working, Pending, Registered
  <2>7. ASSUME NEW n \in Nodes, NEW c \in Conns, RememberDialed(n, c) PROVE CalmInv'
    BY <2>3, <2>7 DEF RememberDialed, Stages, Working, Pending, Registered
  <2>8. ASSUME NEW n \in Nodes, NEW c \in Conns, PeerCloses(n, c) PROVE CalmInv'
    <3>1. /\ UNCHANGED <<dialed, route, table, stage>> /\ c \notin up[Other(n)]
          /\ up' = [up EXCEPT ![n] = @ \ {c}]
      BY <2>8 DEF PeerCloses
    <3>2. \A i \in Nodes, d \in Conns :
               /\ d \in up'[i] => d \in up[i]
               /\ d \in up[i] /\ d \in up[Other(i)] => d \in up'[i]
      BY <3>1 DEF PairInv, PairTypes
    <3>. QED
      BY <2>0, <3>1, <3>2, QuietStep
  <2>9. ASSUME NEW n \in Nodes, NEW c \in Conns, RelayWatcher(n, c) PROVE CalmInv'
    BY <2>0, <2>9 DEF RelayWatcher, Calm, Direct
  <2>10. ASSUME NEW n \in Nodes, NEW c \in Conns, HandshakeTimesOut(n, c) PROVE CalmInv'
    BY <2>0, <2>10, SMTT(30) DEF HandshakeTimesOut, PairInv, PairTypes
  <2>11. ASSUME NEW n \in Nodes, Disconnect(n) PROVE CalmInv'
    BY <2>0, <2>11, SMTT(30) DEF Disconnect, PairInv, PairTypes
  <2>12. ASSUME NEW n \in Nodes, Restart(n) PROVE CalmInv'
    <3>1. proc'[n] = proc[n] + 1 /\ proc[n] \in Nat /\ proc'[n] = proc[n]
      BY <2>0, <2>12, NodeFacts, SMTT(30) DEF Restart, PairInv, PairTypes
    <3>. QED
      BY <3>1, SMTT(30)
  <2>. QED
    BY <1>2, <2>1, <2>2, <2>4, <2>5, <2>6, <2>7, <2>8, <2>9, <2>10, <2>11, <2>12 DEF Next, Task
<1>. QED
  BY <1>1, <1>2

LEMMA CalmInvariant == Spec => []CalmInv
  BY InitPair, NextPair, InitCalm, NextCalm, PTL DEF Spec

(* Opposing dials converge: when nothing but direct dialling happens, the  *)
(* favourite is never closed by either register_session, so once both      *)
(* nodes are at rest they use it, for any number of dials of either node.  *)
THEOREM DialsConverge == Spec => []OpposingDialsConverge
<1>1. PairInv /\ CalmInv /\ EndsAgreeAtRest => OpposingDialsConverge
  <2> SUFFICES ASSUME PairInv, CalmInv, AtRest, Undisturbed, Direct, dialed > 0
               PROVE  Live(1) # {}
    BY DEF OpposingDialsConverge, EndsAgreeAtRest
  <2>1. Calm /\ Dialed \subseteq Conns
    BY NodeFacts, SMTT(30) DEF Calm, Dialed, Conns, PairInv, PairTypes
  <2>2. PICK f \in Dialed : Favourite(f)
    BY <2>1 DEF CalmInv
  <2>3. f \in Conns /\ 1 \in Nodes
    BY <2>1 DEF Nodes
  <2>4. f \in up[1] /\ stage[1][f] = "done"
    BY <2>1, <2>2, <2>3, FavouriteFacts DEF AtRest
  <2>5. result[1][f] = f
    BY <2>3, <2>4 DEF PairInv, EndAt, Registered
  <2>6. f \in Live(1)
    BY <2>4, <2>5 DEF Live
  <2>. QED
    BY <2>6
<1>. QED
  BY <1>1, PairInvariant, CalmInvariant, EndsAgree, PTL

(* The direct dials of a node follow each other: when it dials, it has     *)
(* closed its end of every direct connection it dialled before.            *)
Redialed(i, c) ==
    \E d \in Conns : /\ c < d /\ d <= dialed
                    /\ route[d].initiator = i /\ ~route[d].relayed

SuccessionInv ==
    \A i \in Nodes, c \in Conns :
        route[c].initiator = i /\ ~route[c].relayed /\ Redialed(i, c) => c \notin up[i]

LEMMA InitSuccession == Init => SuccessionInv
  BY NodeFacts, SMTT(30) DEF Init, SuccessionInv, Redialed, NoRoute, Nodes

LEMMA DialSuccession ==
    ASSUME PairInv, SuccessionInv, NEW n \in Nodes, NEW relayed \in BOOLEAN, Dial(n, relayed)
    PROVE  SuccessionInv'
<1> DEFINE k == dialed + 1
<1>1. /\ k \in Conns /\ dialed' = k /\ dialed \in Nat /\ Conns \subseteq Nat
      /\ ~relayed => gate[n] = NoConn
      /\ ~Usable(n)
  BY NodeFacts, SMTT(30) DEF Dial, PairInv, PairTypes, Conns
<1>2. /\ route'[k].initiator = n /\ route'[k].relayed = relayed
      /\ \A c \in Conns : c # k => route'[c] = route[c]
      /\ \A i \in Nodes, c \in Conns : c # k => (c \in up'[i] <=> c \in up[i])
  BY <1>1, SMTT(30) DEF Dial, PairInv, PairTypes
<1> SUFFICES ASSUME NEW i \in Nodes, NEW c \in Conns, NEW d \in Conns, c < d, d <= dialed',
                    route'[c].initiator = i, ~route'[c].relayed,
                    route'[d].initiator = i, ~route'[d].relayed
             PROVE  c \notin up'[i]
  BY DEF SuccessionInv, Redialed
<1>3. c # k /\ (d # k => d <= dialed)
  BY <1>1, SMTT(30)
<1>4. route'[c] = route[c]
  BY <1>2, <1>3
<1>5. CASE d # k
  <2>1. Redialed(i, c)
    BY <1>2, <1>3, <1>5 DEF Redialed
  <2>. QED
    BY <1>2, <1>3, <1>4, <2>1 DEF SuccessionInv
<1>6. CASE d = k
  <2>1. i = n /\ route[c].initiator = n /\ ~route[c].relayed /\ gate[n] = NoConn
    BY <1>1, <1>2, <1>4, <1>6
  <2>2. stage[n][c] \notin Working
    BY <2>1, NodeFacts DEF PairInv, LockAt
  <2>3. c \notin up[n]
    <3>1. stage[n][c] \in Stages /\ EndAt(n, c)
      BY DEF PairInv, PairTypes
    <3>. QED
      BY <1>1, <2>2, <3>1, NodeFacts DEF EndAt, Stages, Working, Registered, Usable
  <2>. QED
    BY <1>2, <1>3, <2>1, <2>3
<1>. QED
  BY <1>5, <1>6

LEMMA NextSuccession == PairInv /\ SuccessionInv /\ [Next]_vars => SuccessionInv'
<1> SUFFICES ASSUME PairInv, SuccessionInv, [Next]_vars PROVE SuccessionInv'
  OBVIOUS
<1>1. ASSUME NEW n \in Nodes, NEW relayed \in BOOLEAN, Dial(n, relayed) PROVE SuccessionInv'
  BY <1>1, DialSuccession
<1>2. ASSUME UNCHANGED <<dialed, route>>, \A i \in Nodes : up'[i] \subseteq up[i]
      PROVE  SuccessionInv'
  <2>1. \A i \in Nodes, c \in Conns : Redialed(i, c)' => Redialed(i, c)
    BY <1>2 DEF Redialed
  <2>. QED
    BY <1>2, <2>1 DEF SuccessionInv
<1>3. ASSUME NEW n \in Nodes, NEW x, up' = [up EXCEPT ![n] = @ \ x]
      PROVE  \A i \in Nodes : up'[i] \subseteq up[i]
  BY <1>3 DEF PairInv, PairTypes
<1>4. ASSUME NEW n \in Nodes, NEW c \in Conns, Task(n, c) \/ HandshakeTimesOut(n, c)
      PROVE  SuccessionInv'
  <2>1. /\ UNCHANGED <<dialed, route>>
        /\ \/ UNCHANGED up
           \/ up' = [up EXCEPT ![n] = @ \ {c}]
           \/ up' = [up EXCEPT ![n] = @ \ Registry(n)!Closed(c)]
    BY <1>4 DEF Task, HandshakeTimesOut, HandshakeFails, GiveUp, SendAccepted, Authenticate,
                RegisterSession, RememberDialed, PeerCloses, RelayWatcher
  <2>. QED
    BY <1>2, <1>3, <2>1
<1>5. ASSUME NEW n \in Nodes, Disconnect(n) PROVE SuccessionInv'
  BY <1>2, <1>3, <1>5 DEF Disconnect
<1>6. ASSUME NEW n \in Nodes, Restart(n) PROVE SuccessionInv'
  <2>1. UNCHANGED <<dialed, route>> /\ up' = [up EXCEPT ![n] = {}]
    BY <1>6 DEF Restart
  <2>2. \A i \in Nodes : up'[i] \subseteq up[i]
    BY <2>1 DEF PairInv, PairTypes
  <2>. QED
    BY <1>2, <2>1, <2>2
<1>7. CASE UNCHANGED vars
  BY <1>2, <1>7 DEF vars
<1>. QED
  BY <1>1, <1>4, <1>5, <1>6, <1>7 DEF Next

(* register_session may take a fresh session of the same initiator for a   *)
(* reconnect: connect dials under the dial lock and only without a usable  *)
(* session, so whichever session displaces a live one of its own initiator *)
(* and is still open at its dialler is the later dial, whatever restarts,  *)
(* timeouts and disconnects went before.                                   *)
THEOREM SameInitiatorReconnects == Spec => SameInitiatorIsReconnect
<1>1. ASSUME PairInv, SuccessionInv, NEW n \in Nodes, NEW c \in Conns,
             RegisterSession(n, c), Usable(n),
             route[table[n].conn].initiator = route[c].initiator,
             ~route[c].relayed, ~route[table[n].conn].relayed,
             c \in up[route[c].initiator]
      PROVE  table[n].conn < c
  <2> DEFINE d == table[n].conn
  <2>1. stage[n][c] = "authenticated"
    BY <1>1 DEF RegisterSession
  <2>2. d \in Conns /\ stage[n][d] \in Registered /\ d # c
    BY <1>1, <2>1 DEF Usable, PairInv, PairTypes, EntryAt, Registered
  <2>3. d \in Dialed /\ route[c].initiator \in Nodes
    BY <1>1, <2>1, <2>2, InUseDialed DEF Registered
  <2>4. ~(c < d)
    <3> SUFFICES ASSUME c < d PROVE FALSE
      OBVIOUS
    <3>1. d <= dialed
      BY <1>1, <2>3, SMTT(30) DEF Dialed, PairInv, PairTypes
    <3>2. Redialed(route[c].initiator, c)
      BY <1>1, <2>2, <3>1 DEF Redialed
    <3>. QED
      BY <1>1, <2>3, <3>2 DEF SuccessionInv
  <2>5. c \in Nat /\ d \in Nat
    BY <2>2, NodeFacts
  <2>. QED
    BY <2>2, <2>4, <2>5, SMTT(30)
<1>2. PairInv /\ SuccessionInv /\ [Next]_vars =>
          [\A n \in Nodes, c \in Conns :
               LET d == table[n].conn IN
               /\ Usable(n)
               /\ RegisterSession(n, c)
               /\ route[d].initiator = route[c].initiator
               /\ ~route[c].relayed /\ ~route[d].relayed
               /\ c \in up[route[c].initiator]
               /\ table'[n].conn = c
               => d < c]_vars
  BY <1>1
<1>. QED
  BY <1>2, PairInvariant, InitPair, NextPair, InitSuccession, NextSuccession, PTL
     DEF Spec, SameInitiatorIsReconnect
===============================================================================
