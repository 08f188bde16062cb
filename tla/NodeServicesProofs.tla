-------------------------- MODULE NodeServicesProofs --------------------------
(***************************************************************************)
(* Proofs about the small services of a node: the identity files, the LAN  *)
(* scan, the web gateway's record, the probe rate and the feature streams, *)
(* each for any number of processes, calls, hosts, threads, sources and    *)
(* streams.                                                                *)
(***************************************************************************)
EXTENDS MCNodeServices, TLAPS

(* The provers of a leaf that names none, and their seconds. A leaf that   *)
(* needs arithmetic, functions or records names SMT.                       *)
USE ZenonT(30), SMTT(30)

-----------------------------------------------------------------------------
HasRoot == {"sync_root", "tls", "rename_cert", "sync_cert", "rename_key", "sync_key",
            "configure", "running"}
HasPair == {"rename_cert", "sync_cert", "rename_key", "sync_key"}
KeyMissing == {"rename_cert", "sync_cert", "rename_key"}

(* The process works on what the directory holds: the root key it uses is  *)
(* the stored one, a pair it generates is one generation.                  *)
HeldOK ==
    /\ load # "down" => starts > 0
    /\ load = "rename_root" => held["root"] # Identity!NoFile /\ visible["root"] = Identity!NoFile
    /\ load \in HasRoot => held["root"] = visible["root"] /\ held["root"] # Identity!NoFile
    /\ load \in HasPair => held["cert"] = held["key"] /\ held["cert"] # Identity!NoFile
    /\ load \in KeyMissing => visible["key"] = Identity!NoFile
    /\ load \in {"sync_cert", "rename_key", "sync_key"} => visible["cert"] = held["cert"]
    /\ load = "sync_key" => visible["key"] = held["key"]
    /\ load = "rename_key" => durable["cert"] = visible["cert"]
    /\ load = "configure" => visible["key"] # Identity!NoFile

(* The order of the writes: a key on disk means that its certificate and   *)
(* the root key were synced before it, so no power loss can take them; and *)
(* a root key some process has run with is such a root key.                *)
OrderOK ==
    /\ \A f \in {"root", "key"} : durable[f] \in {Identity!NoFile, visible[f]}
    /\ visible["key"] # Identity!NoFile =>
           visible["cert"] = visible["key"] /\ durable["cert"] = visible["key"]
    /\ visible["key"] # Identity!NoFile \/ load \in {"rename_key", "sync_key"} =>
           durable["root"] = visible["root"] /\ visible["root"] # Identity!NoFile
    /\ \A r \in identities :
           r = visible["root"] /\ r = durable["root"] /\ r # Identity!NoFile

IdentityInv == Identity!TypeOK /\ HeldOK /\ OrderOK

(* Nothing is stored and nothing runs.                                     *)
LEMMA InitIdentity == Identity!Init => IdentityInv
  BY SMTT(30) DEF Identity!Init, IdentityInv, Identity!TypeOK, HeldOK, OrderOK, Identity!NoFiles,
         Identity!NoFile, Identity!Files, Identity!Steps, HasRoot, HasPair, KeyMissing

(* private_write of one file, by the file.                                 *)
LEMMA RenameIdentity ==
    ASSUME IdentityInv, NEW f \in Identity!Files, Identity!Rename(f) PROVE IdentityInv'
<1> USE DEF IdentityInv, Identity!TypeOK, HeldOK, OrderOK, Identity!NoFile, Identity!Files,
            Identity!Steps, HasRoot, HasPair, KeyMissing
<1>1. CASE f = "root"
  BY <1>1 DEF Identity!Rename, Identity!Renaming, Identity!Syncing
<1>2. CASE f = "cert"
  BY <1>2 DEF Identity!Rename, Identity!Renaming, Identity!Syncing
<1>3. CASE f = "key"
  BY <1>3 DEF Identity!Rename, Identity!Renaming, Identity!Syncing
<1>. QED
  BY <1>1, <1>2, <1>3

LEMMA SyncIdentity ==
    ASSUME IdentityInv, NEW f \in Identity!Files, Identity!Sync(f) PROVE IdentityInv'
<1> USE DEF IdentityInv, Identity!TypeOK, HeldOK, OrderOK, Identity!NoFile, Identity!Files,
            Identity!Steps, HasRoot, HasPair, KeyMissing
<1>1. CASE f = "root"
  BY <1>1 DEF Identity!Sync, Identity!Syncing, Identity!After
<1>2. CASE f = "cert"
  BY <1>2 DEF Identity!Sync, Identity!Syncing, Identity!After
<1>3. CASE f = "key"
  BY <1>3 DEF Identity!Sync, Identity!Syncing, Identity!After
<1>. QED
  BY <1>1, <1>2, <1>3

(* Every step keeps the order of the writes.                               *)
LEMMA NextIdentity == IdentityInv /\ [Identity!Next]_(Identity!vars) => IdentityInv'
<1> SUFFICES ASSUME IdentityInv, [Identity!Next]_(Identity!vars) PROVE IdentityInv'
  OBVIOUS
<1>1. CASE Identity!Start
  BY <1>1, SMTT(30)
     DEF Identity!Start, IdentityInv, Identity!TypeOK, HeldOK, OrderOK, Identity!NoFile,
         Identity!Files, Identity!Steps, HasRoot, HasPair, KeyMissing
<1>2. CASE Identity!LoadRoot
  BY <1>2, SMTT(30)
     DEF Identity!LoadRoot, IdentityInv, Identity!TypeOK, HeldOK, OrderOK, Identity!NoFile,
         Identity!Files, Identity!Steps, HasRoot, HasPair, KeyMissing
<1>3. CASE Identity!LoadTls
  BY <1>3, SMTT(30)
     DEF Identity!LoadTls, IdentityInv, Identity!TypeOK, HeldOK, OrderOK, Identity!NoFile,
         Identity!Files, Identity!Steps, HasRoot, HasPair, KeyMissing
<1>4. CASE Identity!Configure
  BY <1>4
     DEF Identity!Configure, IdentityInv, Identity!TypeOK, HeldOK, OrderOK, Identity!NoFile,
         Identity!Files, Identity!Steps, HasRoot, HasPair, KeyMissing
<1>5. CASE Identity!End
  BY <1>5
     DEF Identity!End, IdentityInv, Identity!TypeOK, HeldOK, OrderOK, Identity!NoFile,
         Identity!Files, Identity!Steps, HasRoot, HasPair, KeyMissing
<1>6. CASE Identity!PowerLoss
  BY <1>6
     DEF Identity!PowerLoss, IdentityInv, Identity!TypeOK, HeldOK, OrderOK, Identity!NoFile,
         Identity!Files, Identity!Steps, HasRoot, HasPair, KeyMissing
<1>7. CASE UNCHANGED Identity!vars
  BY <1>7 DEF Identity!vars, IdentityInv, Identity!TypeOK, HeldOK, OrderOK
<1>. QED
  BY <1>1, <1>2, <1>3, <1>4, <1>5, <1>6, <1>7, RenameIdentity, SyncIdentity DEF Identity!Next

(* The order of the writes holds always.                                   *)
THEOREM WritesInOrder == Identity!Spec => []IdentityInv
  BY InitIdentity, NextIdentity, PTL DEF Identity!Spec

LEMMA IdentityFollows == IdentityInv => IdentitySurvivesFaults
  BY DEF IdentityInv, OrderOK, IdentitySurvivesFaults, Identity!RootNeverRotates,
         Identity!StoredPairMatches

(* The Ed25519 root key and its DeviceId do not rotate: load_or_create     *)
(* gives every process the same root key, whatever crashes, failed writes  *)
(* and power losses came before; and none of them leaves a certificate     *)
(* beside the key of another pair, which server_config would refuse at     *)
(* every later start.                                                      *)
THEOREM IdentityForever == Identity!Spec => []IdentitySurvivesFaults
  BY WritesInOrder, IdentityFollows, PTL

-----------------------------------------------------------------------------
ScanSteps == Scan!Loop \cup {"new", "reset", "interfaces", "drain", "done"}

ScanTypes ==
    /\ cooling \in BOOLEAN /\ cancelled \in BOOLEAN
    /\ at \in [Scans -> ScanSteps]
    /\ attempted \in [Scans -> 0..Hosts]
    /\ probing \in [Scans -> Nat] /\ ended \in [Scans -> Nat]

(* A call at the spawn has a host left, and the JoinSet holds no more than *)
(* its slots.                                                              *)
ScanSlots(s) ==
    /\ at[s] = "slot" => attempted[s] < Hosts
    /\ probing[s] + ended[s] <= Concurrency

(* As long as the flag of a cancelled call is set, the call spawns only    *)
(* the probe it had passed the check for.                                  *)
CancelOK(s) ==
    \/ late[s] = NotCancelled
    \/ /\ cancelled
       /\ late[s] \in {0, 1}
       /\ at[s] = "slot" => late[s] = 0
       /\ late[s] <= attempted[s]

ScanInv ==
    /\ ScanTypes
    /\ late = [s \in Scans |-> late[s]]
    /\ \A s \in Scans : ScanSlots(s) /\ CancelOK(s)

LEMMA InitScan == ASSUME Scan!Init PROVE ScanInv
<1>1. ScanTypes
  <2>1. 0 \in 0..Hosts /\ 0 \in Nat /\ "new" \in ScanSteps
    BY ServiceConstants, SMTT(30) DEF ScanSteps
  <2>. QED
    BY <2>1 DEF Scan!Init, ScanTypes
<1>2. ASSUME NEW s \in Scans PROVE ScanSlots(s) /\ CancelOK(s)
  <2>1. at[s] = "new" /\ probing[s] = 0 /\ ended[s] = 0 /\ late[s] = NotCancelled
    BY <1>2 DEF Scan!Init
  <2>. QED
    BY <2>1, ServiceConstants, SMTT(30) DEF ScanSlots, CancelOK
<1>3. late = [s \in Scans |-> late[s]]
  BY DEF Scan!Init
<1>. QED
  BY <1>1, <1>2, <1>3 DEF ScanInv

(* A step of one call leaves what holds of the others.                     *)
LEMMA OneScan ==
    ASSUME NEW s \in Scans, ScanInv, ScanTypes', ScanSlots(s)', CancelOK(s)',
           late' = [r \in Scans |-> late'[r]], cancelled' = cancelled,
           \A r \in Scans \ {s} : /\ at'[r] = at[r] /\ attempted'[r] = attempted[r]
                                 /\ probing'[r] = probing[r] /\ ended'[r] = ended[r]
                                 /\ late'[r] = late[r]
    PROVE  ScanInv'
<1>1. ASSUME NEW r \in Scans PROVE ScanSlots(r)' /\ CancelOK(r)'
  <2>1. CASE r = s
    BY <2>1
  <2>2. CASE r # s
    BY <1>1, <2>2 DEF ScanInv, ScanSlots, CancelOK
  <2>. QED
    BY <2>1, <2>2
<1>. QED
  BY <1>1 DEF ScanInv

(* A call moves on and spawns nothing.                                     *)
LEMMA MoveScan ==
    ASSUME ScanInv, NEW s \in Scans, NEW step \in ScanSteps,
           at' = [at EXCEPT ![s] = step], cooling' \in BOOLEAN,
           UNCHANGED <<cancelled, attempted, probing, ended, late>>,
           step = "slot" => attempted[s] # Hosts /\ ~cancelled
    PROVE  ScanInv'
<1>1. ScanTypes'
  BY DEF ScanInv, ScanTypes
<1>2. ScanSlots(s) /\ CancelOK(s) /\ attempted[s] \in 0..Hosts /\ at'[s] = step
  BY DEF ScanInv, ScanTypes
<1>3. ScanSlots(s)' /\ CancelOK(s)'
  BY <1>2, ServiceConstants, SMTT(30) DEF ScanSlots, CancelOK
<1>4. \A r \in Scans \ {s} : at'[r] = at[r]
  BY DEF ScanInv, ScanTypes
<1>. QED
  BY <1>1, <1>3, <1>4, OneScan DEF ScanInv

LEMMA SpawnScan == ASSUME ScanInv, NEW s \in Scans, Scan!Spawn(s) PROVE ScanInv'
<1>1. /\ ScanSlots(s) /\ CancelOK(s)
      /\ attempted[s] \in 0..Hosts /\ probing[s] \in Nat /\ ended[s] \in Nat
  BY DEF ScanInv, ScanTypes
<1>2. /\ at[s] = "slot" /\ probing[s] + ended[s] < Concurrency
      /\ at'[s] = "sleep" /\ attempted'[s] = attempted[s] + 1 /\ probing'[s] = probing[s] + 1
      /\ ended' = ended /\ cancelled' = cancelled /\ cooling' = cooling
      /\ late'[s] = IF late[s] = NotCancelled THEN NotCancelled ELSE late[s] + 1
  BY DEF ScanInv, ScanTypes, Scan!Spawn, Scan!Goto
<1>3. attempted[s] + 1 \in 0..Hosts /\ probing[s] + 1 \in Nat
  BY <1>1, <1>2, ServiceConstants, SMTT(30) DEF ScanSlots
<1>4. ScanTypes'
  <2>1. attempted' \in [Scans -> 0..Hosts] /\ probing' \in [Scans -> Nat]
    BY <1>3 DEF ScanInv, ScanTypes, Scan!Spawn
  <2>2. at' \in [Scans -> ScanSteps]
    BY DEF ScanInv, ScanTypes, Scan!Spawn, Scan!Goto, ScanSteps, Scan!Loop
  <2>. QED
    BY <1>2, <2>1, <2>2 DEF ScanInv, ScanTypes
<1>5. ScanSlots(s)' /\ CancelOK(s)'
  BY <1>1, <1>2, ServiceConstants, SMTT(30) DEF ScanSlots, CancelOK
<1>6. \A r \in Scans \ {s} : /\ at'[r] = at[r] /\ attempted'[r] = attempted[r]
                            /\ probing'[r] = probing[r] /\ late'[r] = late[r]
  BY DEF ScanInv, ScanTypes, Scan!Spawn, Scan!Goto
<1>7. late' = [r \in Scans |-> late'[r]]
  BY DEF ScanInv, Scan!Spawn
<1>. QED
  BY <1>2, <1>4, <1>5, <1>6, <1>7, OneScan

(* A probe ends, is joined, or is aborted with its call.                   *)
LEMMA ProbeScan ==
    ASSUME ScanInv, NEW s \in Scans, Scan!Join(s) \/ Scan!ProbeEnds(s) \/ Scan!DropCall(s)
    PROVE  ScanInv'
<1>1. ScanSlots(s) /\ CancelOK(s) /\ probing[s] \in Nat /\ ended[s] \in Nat
  BY DEF ScanInv, ScanTypes
<1>2. /\ at'[s] \in {at[s], "done"} /\ probing'[s] \in Nat /\ ended'[s] \in Nat
      /\ probing'[s] + ended'[s] <= probing[s] + ended[s]
      /\ UNCHANGED <<cooling, cancelled, attempted, late>>
  BY <1>1, SMTT(30) DEF ScanInv, ScanTypes, Scan!Join, Scan!ProbeEnds, Scan!DropCall, Scan!Goto
<1>3. ScanTypes'
  <2>1. at' \in [Scans -> ScanSteps]
    BY DEF ScanInv, ScanTypes, Scan!Join, Scan!ProbeEnds, Scan!DropCall, Scan!Goto, ScanSteps
  <2>2. probing' \in [Scans -> Nat] /\ ended' \in [Scans -> Nat]
    BY SMTT(30) DEF ScanInv, ScanTypes, Scan!Join, Scan!ProbeEnds, Scan!DropCall
  <2>. QED
    BY <1>2, <2>1, <2>2 DEF ScanInv, ScanTypes
<1>4. ScanSlots(s)' /\ CancelOK(s)'
  BY <1>1, <1>2, ServiceConstants, SMTT(30) DEF ScanSlots, CancelOK
<1>5. \A r \in Scans \ {s} :
          at'[r] = at[r] /\ probing'[r] = probing[r] /\ ended'[r] = ended[r]
  BY DEF ScanInv, ScanTypes, Scan!Join, Scan!ProbeEnds, Scan!DropCall, Scan!Goto
<1>. QED
  BY <1>2, <1>3, <1>4, <1>5, OneScan DEF ScanInv

(* The two steps on the flag the calls share.                              *)
LEMMA ResetScan == ASSUME ScanInv, NEW s \in Scans, Scan!Reset(s) PROVE ScanInv'
<1>1. ScanTypes'
  BY DEF ScanInv, ScanTypes, Scan!Reset, Scan!Goto, ScanSteps
<1>2. \A r \in Scans : late'[r] = NotCancelled /\ at'[r] = IF r = s THEN "interfaces" ELSE at[r]
  BY DEF ScanInv, ScanTypes, Scan!Reset, Scan!Goto
<1>3. \A r \in Scans : ScanSlots(r)' /\ CancelOK(r)'
  BY <1>2 DEF ScanInv, ScanSlots, CancelOK, Scan!Reset
<1>4. late' = [r \in Scans |-> late'[r]]
  BY DEF Scan!Reset
<1>. QED
  BY <1>1, <1>3, <1>4 DEF ScanInv

LEMMA CancelScan == ASSUME ScanInv, Scan!Cancel PROVE ScanInv'
<1>1. ScanTypes'
  BY DEF ScanInv, ScanTypes, Scan!Cancel
<1>2. ASSUME NEW s \in Scans PROVE ScanSlots(s)' /\ CancelOK(s)'
  <2>1. ScanSlots(s) /\ CancelOK(s) /\ attempted[s] \in 0..Hosts
    BY <1>2 DEF ScanInv, ScanTypes
  <2>2. late'[s] = IF at[s] \in Scan!Loop THEN 0 ELSE late[s]
    BY <1>2 DEF Scan!Cancel
  <2>. QED
    BY <2>1, <2>2, ServiceConstants, SMTT(30) DEF Scan!Cancel, ScanSlots, CancelOK
<1>3. late' = [r \in Scans |-> late'[r]]
  BY DEF Scan!Cancel
<1>. QED
  BY <1>1, <1>2, <1>3 DEF ScanInv

LEMMA FlagScan ==
    ASSUME ScanInv, cooling' \in BOOLEAN,
           UNCHANGED <<cancelled, at, attempted, probing, ended, late>>
    PROVE  ScanInv'
<1>1. ScanTypes'
  BY DEF ScanInv, ScanTypes
<1>2. \A s \in Scans : ScanSlots(s)' /\ CancelOK(s)'
  BY DEF ScanInv, ScanSlots, CancelOK
<1>3. late' = [s \in Scans |-> late'[s]]
  BY DEF ScanInv
<1>. QED
  BY <1>1, <1>2, <1>3 DEF ScanInv

LEMMA NextScan == ASSUME ScanInv, [Scan!Next]_(Scan!vars) PROVE ScanInv'
<1>1. ASSUME NEW s \in Scans, Scan!Start(s) PROVE ScanInv'
  BY <1>1, MoveScan, ZenonT(60) DEF Scan!Start, Scan!Goto, ScanSteps
<1>2. ASSUME NEW s \in Scans, Scan!Interfaces(s) PROVE ScanInv'
  BY <1>2, MoveScan DEF Scan!Interfaces, Scan!Goto, ScanSteps, Scan!Loop, ScanInv, ScanTypes
<1>3. ASSUME NEW s \in Scans, Scan!Check(s) PROVE ScanInv'
  BY <1>3, MoveScan DEF Scan!Check, Scan!Goto, ScanSteps, Scan!Loop, ScanInv, ScanTypes
<1>4. ASSUME NEW s \in Scans, Scan!Slept(s) \/ Scan!Drained(s) PROVE ScanInv'
  BY <1>4, MoveScan
     DEF Scan!Slept, Scan!Drained, Scan!Goto, ScanSteps, Scan!Loop, ScanInv, ScanTypes
<1>5. CASE Scan!CooldownEnds
  BY <1>5, FlagScan DEF Scan!CooldownEnds
<1>6. CASE UNCHANGED Scan!vars
  BY <1>6, FlagScan DEF Scan!vars, ScanInv, ScanTypes
<1>. QED
  BY <1>1, <1>2, <1>3, <1>4, <1>5, <1>6, ResetScan, SpawnScan, ProbeScan, CancelScan
     DEF Scan!Next, Scan!Step

LEMMA ScanFollows == ASSUME ScanInv PROVE Scan!CancelStopsTheScan /\ Scan!TypeOK
<1>1. Scan!CancelStopsTheScan
  <2>1. ASSUME NEW s \in Scans PROVE late[s] = NotCancelled \/ late[s] <= 1
    BY <2>1, SMTT(30) DEF ScanInv, CancelOK
  <2>. QED
    BY <2>1 DEF Scan!CancelStopsTheScan
<1>2. ASSUME NEW s \in Scans PROVE probing[s] + ended[s] \in 0..Concurrency
  <2>1. probing[s] \in Nat /\ ended[s] \in Nat /\ probing[s] + ended[s] <= Concurrency
    BY <1>2 DEF ScanInv, ScanTypes, ScanSlots
  <2>. QED
    BY <2>1, ServiceConstants, SMTT(30)
<1>3. late \in [Scans -> 0..Hosts \cup {NotCancelled}]
  <2>1. ASSUME NEW s \in Scans PROVE late[s] \in 0..Hosts \cup {NotCancelled}
    <3>1. CancelOK(s) /\ attempted[s] \in 0..Hosts
      BY <2>1 DEF ScanInv, ScanTypes
    <3>. QED
      BY <3>1, ServiceConstants, SMTT(30) DEF CancelOK
  <2>. QED
    BY <2>1 DEF ScanInv
<1>. QED
  BY <1>1, <1>2, <1>3 DEF ScanInv, ScanTypes, Scan!TypeOK, ScanSteps

LEMMA ScanInvariant == Scan!Spec => []ScanInv
<1>1. Scan!Init => ScanInv
  BY InitScan
<1>2. ScanInv /\ [Scan!Next]_(Scan!vars) => ScanInv'
  BY NextScan
<1>. QED
  BY <1>1, <1>2, PTL DEF Scan!Spec

(* cancel_lan_scan stops every scan it finds in its loop after at most one *)
(* probe, however many scans share the flag and however large the network  *)
(* is.                                                                     *)
THEOREM CancelIsPrompt == Scan!Spec => []CancelStopsTheScan
<1>1. ScanInv => CancelStopsTheScan
  BY ScanFollows DEF CancelStopsTheScan
<1>. QED
  BY <1>1, ScanInvariant, PTL

(* No scan has more than SCAN_CONCURRENCY probes under way or probes a     *)
(* host beyond its list.                                                   *)
THEOREM ScanStaysBounded == Scan!Spec => []Scan!TypeOK
<1>1. ScanInv => Scan!TypeOK
  BY ScanFollows
<1>. QED
  BY <1>1, ScanInvariant, PTL

-----------------------------------------------------------------------------
(* Threads at the steps of publish_web_gateway; the record itself needs no *)
(* more than the property says of it.                                      *)
GatewayInv == gateway \in [Callers -> {"idle", "register", "store"}] /\ GatewayWithdrawable

LEMMA InitGateway == Gateway!Init => GatewayInv
  BY DEF Gateway!Init, GatewayInv, GatewayWithdrawable, Gateway!GatewayWithdrawable

LEMMA NextGateway == ASSUME GatewayInv, [Gateway!Next]_(Gateway!vars) PROVE GatewayInv'
<1> USE DEF GatewayInv, GatewayWithdrawable, Gateway!GatewayWithdrawable
<1>1. ASSUME NEW t \in Callers, NEW next \in {"idle", "register"}, Gateway!Unpublish(t, next)
      PROVE  GatewayInv'
  BY <1>1, SMTT(30) DEF Gateway!Unpublish, Gateway!Goto
<1>2. ASSUME NEW t \in Callers, Gateway!Register(t) PROVE GatewayInv'
  BY <1>2 DEF Gateway!Register, Gateway!Goto
<1>3. ASSUME NEW t \in Callers, Gateway!RegisterFails(t) PROVE GatewayInv'
  BY <1>3 DEF Gateway!RegisterFails, Gateway!Goto
<1>4. ASSUME NEW t \in Callers, Gateway!StoreName(t) PROVE GatewayInv'
  BY <1>4 DEF Gateway!StoreName, Gateway!Goto
<1>5. CASE Gateway!Drop
  BY <1>5 DEF Gateway!Drop
<1>6. CASE UNCHANGED Gateway!vars
  BY <1>6 DEF Gateway!vars
<1>. QED
  BY <1>1, <1>2, <1>3, <1>4, <1>5, <1>6 DEF Gateway!Next

(* A gateway the daemon announces can be withdrawn, whatever calls of      *)
(* publish_web_gateway and unpublish_web_gateway overlap: its name is      *)
(* stored or about to be, unless the daemon refused to withdraw it.        *)
THEOREM GatewayNeverLost == Gateway!Spec => []GatewayWithdrawable
<1>1. GatewayInv /\ [Gateway!Next]_(Gateway!vars) => GatewayInv'
  BY NextGateway
<1>2. GatewayInv => GatewayWithdrawable
  BY DEF GatewayInv
<1>. QED
  BY <1>1, <1>2, InitGateway, PTL DEF Gateway!Spec

-----------------------------------------------------------------------------
(* The rate limit of probes.                                               *)
Entries == [age : 0..Keep, attempts : 1..MaxAttempts]

Logs == [Rate!Latest -> 0..Window]

(* What the entry of a source tells of its latest probes: the window began *)
(* with the first of its attempts, and whatever was admitted MAX_ATTEMPTS  *)
(* probes before that is older than a window.  A source without an entry   *)
(* has no such probe left.                                                 *)
LogOK(log, rate) ==
    /\ \A i, j \in Rate!Latest : i <= j => log[i] <= log[j]
    /\ rate = Rate!NoRate => \A j \in Rate!Latest : j >= MaxAttempts => log[j] = Window
    /\ rate # Rate!NoRate =>
           /\ log[rate.attempts] = IF rate.age < Window THEN rate.age ELSE Window
           /\ \A j \in Rate!Latest : j >= rate.attempts + MaxAttempts => log[j] = Window

RateInv ==
    /\ rates \in [Sources -> Entries \cup {Rate!NoRate}]
    /\ admitted \in [Sources -> Logs]
    /\ refused \in [Sources -> BOOLEAN]
    /\ \A s \in Sources : LogOK(admitted[s], rates[s])
    /\ \A s \in Sources : refused[s] => admitted[s][MaxAttempts] < Window

LEMMA RateFacts ==
    /\ MaxAttempts \in Nat \ {0} /\ Window \in Nat \ {0} /\ Keep \in Nat /\ Keep >= Window
    /\ Rate!NoRate \notin Entries
    /\ \A r \in Entries : /\ r.age \in 0..Keep /\ r.attempts \in 1..MaxAttempts
                          /\ r.attempts \in Rate!Latest
    /\ Rate!Latest = 1..2 * MaxAttempts
<1>1. MaxAttempts \in Nat \ {0} /\ Window \in Nat \ {0} /\ Keep \in Nat /\ Keep >= Window
  BY ServiceConstants
<1>2. Rate!NoRate.attempts = MaxAttempts + 1
  BY DEF Rate!NoRate
<1>3. \A r \in Entries : r.age \in 0..Keep /\ r.attempts \in 1..MaxAttempts
  BY DEF Entries
<1>4. Rate!NoRate \notin Entries
  BY <1>1, <1>2, <1>3, SMTT(30)
<1>5. Rate!Latest = 1..2 * MaxAttempts
  BY DEF Rate!Latest
<1>6. 1..MaxAttempts \subseteq 1..2 * MaxAttempts
  BY <1>1, SMTT(30)
<1>. QED
  BY <1>1, <1>3, <1>4, <1>5, <1>6

(* A window that is over counts for nothing, so its entry may be dropped   *)
(* or restarted.                                                           *)
LEMMA WindowOver ==
    ASSUME NEW log \in Logs, NEW rate \in Entries, LogOK(log, rate), rate.age >= Window
    PROVE  \A j \in Rate!Latest : j >= MaxAttempts => log[j] = Window
<1>1. rate.age \in Nat /\ rate.attempts \in 1..MaxAttempts /\ rate.attempts \in Rate!Latest
      /\ rate # Rate!NoRate /\ Window \in Nat /\ MaxAttempts \in Nat
      /\ Rate!Latest = 1..2 * MaxAttempts
  BY RateFacts, SMTT(30)
<1>2. log[rate.attempts] = Window
  BY <1>1, SMTT(30) DEF LogOK
<1>3. ASSUME NEW j \in Rate!Latest, j >= MaxAttempts PROVE log[j] = Window
  <2>1. rate.attempts <= j
    BY <1>1, <1>3, SMTT(30)
  <2>2. log[rate.attempts] <= log[j]
    BY <1>1, <2>1 DEF LogOK
  <2>3. log[j] \in 0..Window
    BY DEF Logs
  <2>. QED
    BY <1>1, <1>2, <2>2, <2>3, SMTT(30)
<1>. QED
  BY <1>3

(* rates.retain drops only entries whose window is over.                   *)
LEMMA PrunedRates ==
    ASSUME RateInv
    PROVE  /\ Rate!Pruned \in [Sources -> Entries \cup {Rate!NoRate}]
           /\ \A s \in Sources : LogOK(admitted[s], Rate!Pruned[s])
<1>1. CASE Cardinality(Rate!Known) > TableSize
  <2>1. Rate!Pruned = [s \in Sources |-> IF rates[s].age < Keep THEN rates[s] ELSE Rate!NoRate]
    BY <1>1 DEF Rate!Pruned, Rate!Cardinality, Cardinality
  <2>2. ASSUME NEW s \in Sources, Rate!Pruned[s] = Rate!NoRate, rates[s] # Rate!NoRate
        PROVE  LogOK(admitted[s], Rate!NoRate)
    <3>1. rates[s] \in Entries /\ admitted[s] \in Logs /\ LogOK(admitted[s], rates[s])
      BY <2>2 DEF RateInv
    <3>2. ~(rates[s].age < Keep)
      BY <2>1, <2>2
    <3>3. rates[s].age >= Window
      BY <3>1, <3>2, RateFacts, SMTT(30)
    <3>. QED
      BY <3>1, <3>3, WindowOver DEF LogOK
  <2>. QED
    BY <2>1, <2>2 DEF RateInv
<1>2. CASE ~(Cardinality(Rate!Known) > TableSize)
  <2>1. Rate!Pruned = rates
    BY <1>2 DEF Rate!Pruned, Rate!Cardinality, Cardinality
  <2>. QED
    BY <2>1 DEF RateInv
<1>. QED
  BY <1>1, <1>2

(* The entry from which an attempt is counted.                             *)
Restarted(rate) ==
    IF rate = Rate!NoRate \/ rate.age >= Window THEN [age |-> 0, attempts |-> 0] ELSE rate

Shifted(log) == [i \in Rate!Latest |-> IF i = 1 THEN 0 ELSE log[i - 1]]

LEMMA AdmitOne ==
    ASSUME NEW log \in Logs, NEW rate \in Entries \cup {Rate!NoRate}, LogOK(log, rate),
           Restarted(rate).attempts < MaxAttempts
    PROVE  /\ [Restarted(rate) EXCEPT !.attempts = @ + 1] \in Entries
           /\ Shifted(log) \in Logs
           /\ LogOK(Shifted(log), [Restarted(rate) EXCEPT !.attempts = @ + 1])
<1> DEFINE first == rate = Rate!NoRate \/ rate.age >= Window
           k == IF first THEN 0 ELSE rate.attempts
           a == IF first THEN 0 ELSE rate.age
           new == [age |-> a, attempts |-> k + 1]
<1>1. /\ MaxAttempts \in Nat \ {0} /\ Window \in Nat \ {0} /\ Keep \in Nat /\ Keep >= Window
      /\ Rate!NoRate \notin Entries /\ Rate!Latest = 1..2 * MaxAttempts
  BY RateFacts
<1>2. ~first => rate \in Entries /\ rate # Rate!NoRate /\ rate.age \in 0..Keep
                /\ rate.attempts \in 1..MaxAttempts /\ rate.age < Window
  BY RateFacts, SMTT(30)
<1>3. [Restarted(rate) EXCEPT !.attempts = @ + 1] = new /\ k < MaxAttempts
  BY <1>2, SMTT(30) DEF Restarted, Entries
<1>4. k \in Nat /\ a \in 0..Keep /\ a < Window
  BY <1>1, <1>2, SMTT(30)
<1>5. first => \A j \in Rate!Latest : j >= MaxAttempts => log[j] = Window
  BY WindowOver DEF LogOK
<1>6. ~first => log[k] = a /\ \A j \in Rate!Latest : j >= k + MaxAttempts => log[j] = Window
  BY <1>2 DEF LogOK
<1>7. /\ \A j \in Rate!Latest : j >= k + MaxAttempts => log[j] = Window
      /\ k # 0 => log[k] = a
      /\ k = 0 => a = 0
  BY <1>1, <1>2, <1>5, <1>6, SMTT(30)
<1>8. /\ \A i \in Rate!Latest : log[i] \in 0..Window
      /\ \A i, j \in Rate!Latest : i <= j => log[i] <= log[j]
  BY DEF Logs, LogOK
<1> HIDE DEF first, k, a
<1>9. new \in Entries /\ new # Rate!NoRate
  BY <1>1, <1>3, <1>4, SMTT(30) DEF Entries
<1>10. ASSUME NEW i \in Rate!Latest, i # 1 PROVE i - 1 \in Rate!Latest
  BY <1>1, <1>10, SMTT(30)
<1>11. Shifted(log) \in Logs
  BY <1>1, <1>8, <1>10, SMTT(30) DEF Shifted, Logs
<1>12. ASSUME NEW i \in Rate!Latest, NEW j \in Rate!Latest, i <= j
       PROVE  Shifted(log)[i] <= Shifted(log)[j]
  <2>1. CASE i = 1
    BY <1>1, <1>11, <2>1, SMTT(30) DEF Shifted, Logs
  <2>2. CASE i # 1
    <3>1. j # 1 /\ i - 1 <= j - 1
      BY <1>1, <1>12, <2>2, SMTT(30)
    <3>2. log[i - 1] <= log[j - 1]
      BY <1>8, <1>10, <2>2, <3>1
    <3>. QED
      BY <2>2, <3>1, <3>2 DEF Shifted
  <2>. QED
    BY <2>1, <2>2
<1>13. Shifted(log)[k + 1] = a
  <2>1. k + 1 \in Rate!Latest /\ (k = 0 <=> k + 1 = 1) /\ (k + 1) - 1 = k
    BY <1>1, <1>3, <1>4, SMTT(30)
  <2>. QED
    BY <1>7, <2>1 DEF Shifted
<1>14. ASSUME NEW j \in Rate!Latest, j >= (k + 1) + MaxAttempts PROVE Shifted(log)[j] = Window
  <2>1. j # 1 /\ j - 1 >= k + MaxAttempts
    BY <1>1, <1>4, <1>14, SMTT(30)
  <2>2. log[j - 1] = Window
    BY <1>7, <1>10, <2>1
  <2>. QED
    BY <2>1, <2>2 DEF Shifted
<1>15. new.age = a /\ new.attempts = k + 1
  OBVIOUS
<1> HIDE DEF new
<1>16. LogOK(Shifted(log), new)
  BY <1>4, <1>9, <1>12, <1>13, <1>14, <1>15 DEF LogOK
<1>. QED
  BY <1>3, <1>9, <1>11, <1>16

LEMMA AdmitRate == ASSUME RateInv, NEW s \in Sources, Rate!Admit(s) PROVE RateInv'
<1> DEFINE p == Rate!Pruned
           new == [Restarted(p[s]) EXCEPT !.attempts = @ + 1]
<1>1. /\ p \in [Sources -> Entries \cup {Rate!NoRate}]
      /\ \A u \in Sources : LogOK(admitted[u], p[u])
  BY PrunedRates
<1>2. Rate!Rate(s) = Restarted(p[s])
  BY DEF Rate!Rate, Restarted
<1>3. /\ Restarted(p[s]).attempts < MaxAttempts
      /\ rates' = [p EXCEPT ![s] = new]
      /\ admitted' = [admitted EXCEPT ![s] = Shifted(admitted[s])]
      /\ refused' = refused
  BY <1>2 DEF Rate!Admit, Shifted
<1> HIDE DEF p
<1>4. /\ admitted \in [Sources -> Logs] /\ refused \in [Sources -> BOOLEAN]
      /\ \A u \in Sources : refused[u] => admitted[u][MaxAttempts] < Window
  BY DEF RateInv
<1>5. new \in Entries /\ Shifted(admitted[s]) \in Logs /\ LogOK(Shifted(admitted[s]), new)
  BY <1>1, <1>3, <1>4, AdmitOne
<1> HIDE DEF new
<1>6. /\ rates' \in [Sources -> Entries \cup {Rate!NoRate}] /\ admitted' \in [Sources -> Logs]
      /\ rates'[s] = new /\ admitted'[s] = Shifted(admitted[s])
      /\ \A u \in Sources \ {s} : rates'[u] = p[u] /\ admitted'[u] = admitted[u]
  BY <1>1, <1>3, <1>4, <1>5
<1>7. ASSUME NEW u \in Sources PROVE LogOK(admitted'[u], rates'[u])
  BY <1>1, <1>5, <1>6
<1>8. ASSUME refused[s] PROVE Shifted(admitted[s])[MaxAttempts] < Window
  <2>1. /\ admitted[s] \in Logs /\ admitted[s][MaxAttempts] < Window
        /\ \A i, j \in Rate!Latest : i <= j => admitted[s][i] <= admitted[s][j]
    BY <1>4, <1>8 DEF RateInv, LogOK
  <2>2. /\ MaxAttempts \in Nat \ {0} /\ Window \in Nat \ {0} /\ Rate!Latest = 1..2 * MaxAttempts
    BY RateFacts
  <2>3. MaxAttempts \in Rate!Latest
    BY <2>2, SMTT(30)
  <2>4. CASE MaxAttempts = 1
    BY <2>2, <2>3, <2>4, SMTT(30) DEF Shifted
  <2>5. CASE MaxAttempts # 1
    <3>1. MaxAttempts - 1 \in Rate!Latest
      BY <2>2, <2>5, SMTT(30)
    <3>2. admitted[s][MaxAttempts - 1] <= admitted[s][MaxAttempts]
      BY <2>1, <2>2, <2>3, <3>1, SMTT(30)
    <3>3. admitted[s][MaxAttempts - 1] \in 0..Window /\ admitted[s][MaxAttempts] \in 0..Window
      BY <2>1, <2>3, <3>1 DEF Logs
    <3>4. Shifted(admitted[s])[MaxAttempts] = admitted[s][MaxAttempts - 1]
      BY <2>3, <2>5 DEF Shifted
    <3>. QED
      BY <2>1, <2>2, <3>2, <3>3, <3>4, SMTT(30)
  <2>. QED
    BY <2>4, <2>5
<1>9. \A u \in Sources : refused'[u] => admitted'[u][MaxAttempts] < Window
  BY <1>3, <1>4, <1>6, <1>8
<1>. QED
  BY <1>3, <1>4, <1>6, <1>7, <1>9 DEF RateInv

LEMMA RefuseRate == ASSUME RateInv, NEW s \in Sources, Rate!Refuse(s) PROVE RateInv'
<1> DEFINE p == Rate!Pruned
<1>1. /\ p \in [Sources -> Entries \cup {Rate!NoRate}]
      /\ \A u \in Sources : LogOK(admitted[u], p[u])
  BY PrunedRates
<1>2. Rate!Rate(s) = Restarted(p[s])
  BY DEF Rate!Rate, Restarted
<1>3. /\ Restarted(p[s]).attempts >= MaxAttempts
      /\ rates' = [p EXCEPT ![s] = Restarted(p[s])]
      /\ admitted' = admitted
      /\ refused' = [refused EXCEPT ![s] = TRUE]
  BY <1>2 DEF Rate!Refuse
<1> HIDE DEF p
<1>4. /\ admitted \in [Sources -> Logs] /\ refused \in [Sources -> BOOLEAN]
      /\ \A u \in Sources : refused[u] => admitted[u][MaxAttempts] < Window
  BY DEF RateInv
<1>5. Restarted(p[s]) = p[s] /\ p[s] # Rate!NoRate /\ ~(p[s].age >= Window)
  BY <1>3, RateFacts, SMTT(30) DEF Restarted
<1>6. p[s] \in Entries
  BY <1>1, <1>5
<1>7. p[s].age \in Nat /\ p[s].age < Window /\ p[s].attempts = MaxAttempts
  BY <1>3, <1>5, <1>6, RateFacts, SMTT(30)
<1>8. admitted[s][MaxAttempts] < Window
  BY <1>1, <1>5, <1>7 DEF LogOK
<1>9. rates' = p
  BY <1>1, <1>3, <1>5
<1>10. /\ refused' \in [Sources -> BOOLEAN]
       /\ \A u \in Sources : refused'[u] => admitted[u][MaxAttempts] < Window
  BY <1>3, <1>4, <1>8
<1>. QED
  BY <1>1, <1>3, <1>4, <1>9, <1>10 DEF RateInv

LEMMA TickRate == ASSUME RateInv, Rate!Tick PROVE RateInv'
<1> DEFINE aged(x) == IF x < Window THEN x + 1 ELSE Window
<1>1. /\ MaxAttempts \in Nat \ {0} /\ Window \in Nat \ {0} /\ Keep \in Nat /\ Keep >= Window
      /\ Rate!NoRate \notin Entries /\ Rate!Latest = 1..2 * MaxAttempts
  BY RateFacts
<1>2. /\ rates' = [s \in Sources |->
             IF rates[s] # Rate!NoRate /\ rates[s].age < Keep
             THEN [rates[s] EXCEPT !.age = @ + 1] ELSE rates[s]]
      /\ admitted' = [s \in Sources |-> [i \in Rate!Latest |-> aged(admitted[s][i])]]
      /\ refused' = [s \in Sources |-> FALSE]
  BY DEF Rate!Tick
<1>3. ASSUME NEW s \in Sources
      PROVE  /\ rates'[s] \in Entries \cup {Rate!NoRate} /\ admitted'[s] \in Logs
             /\ LogOK(admitted'[s], rates'[s])
  <2>1. /\ rates[s] \in Entries \cup {Rate!NoRate} /\ LogOK(admitted[s], rates[s])
        /\ \A i \in Rate!Latest : admitted[s][i] \in 0..Window
    BY DEF RateInv, Logs
  <2>2. \A i \in Rate!Latest : admitted'[s][i] = aged(admitted[s][i])
    BY <1>2
  <2>3. admitted'[s] \in Logs
    BY <1>1, <1>2, <2>1, SMTT(30) DEF Logs
  <2>4. \A x, y \in 0..Window : x <= y => aged(x) <= aged(y)
    BY <1>1, SMTT(30)
  <2>5. aged(Window) = Window
    BY <1>1, SMTT(30)
  <2> HIDE DEF aged
  <2>6. \A i, j \in Rate!Latest : i <= j => admitted'[s][i] <= admitted'[s][j]
    BY <2>1, <2>2, <2>4 DEF LogOK
  <2>7. CASE rates[s] = Rate!NoRate
    <3>1. rates'[s] = Rate!NoRate
      BY <1>2, <2>7
    <3>2. \A j \in Rate!Latest : j >= MaxAttempts => admitted'[s][j] = Window
      BY <2>1, <2>2, <2>5, <2>7 DEF LogOK
    <3>. QED
      BY <2>3, <2>6, <3>1, <3>2 DEF LogOK
  <2>8. CASE rates[s] # Rate!NoRate
    <3> DEFINE a == rates[s].age
               k == rates[s].attempts
               b == IF a < Keep THEN a + 1 ELSE a
    <3>1. rates[s] \in Entries /\ a \in 0..Keep /\ k \in 1..MaxAttempts /\ k \in Rate!Latest
      BY <2>1, <2>8, RateFacts
    <3>2. rates'[s] = [age |-> b, attempts |-> k]
      BY <1>2, <2>8, <3>1 DEF Entries
    <3>3. b \in 0..Keep
      BY <1>1, <3>1, SMTT(30)
    <3>4. rates'[s] \in Entries /\ rates'[s] # Rate!NoRate /\ rates'[s].age = b /\ rates'[s].attempts = k
      BY <1>1, <3>1, <3>2, <3>3, SMTT(30) DEF Entries
    <3>5. /\ admitted[s][k] = IF a < Window THEN a ELSE Window
          /\ \A j \in Rate!Latest : j >= k + MaxAttempts => admitted[s][j] = Window
      BY <2>1, <2>8 DEF LogOK
    <3>6. aged(IF a < Window THEN a ELSE Window) = IF b < Window THEN b ELSE Window
      BY <1>1, <3>1, SMTT(30) DEF aged
    <3> HIDE DEF a, k, b
    <3>7. admitted'[s][k] = IF b < Window THEN b ELSE Window
      BY <2>2, <3>1, <3>5, <3>6
    <3>8. \A j \in Rate!Latest : j >= k + MaxAttempts => admitted'[s][j] = Window
      BY <2>2, <2>5, <3>5
    <3>. QED
      BY <2>3, <2>6, <3>4, <3>7, <3>8 DEF LogOK
  <2>. QED
    BY <2>7, <2>8
<1>4. /\ rates' \in [Sources -> Entries \cup {Rate!NoRate}] /\ admitted' \in [Sources -> Logs]
      /\ refused' \in [Sources -> BOOLEAN] /\ \A s \in Sources : ~refused'[s]
  <2>1. DOMAIN rates' = Sources /\ rates' = [s \in Sources |-> rates'[s]]
    BY <1>2
  <2>2. admitted' = [s \in Sources |-> admitted'[s]]
    BY <1>2
  <2>. QED
    BY <1>2, <1>3, <2>1, <2>2
<1>. QED
  BY <1>3, <1>4 DEF RateInv

LEMMA InitRate == ASSUME Rate!Init PROVE RateInv
<1>1. /\ MaxAttempts \in Nat \ {0} /\ Window \in Nat \ {0}
      /\ Rate!Latest = 1..2 * MaxAttempts
  BY RateFacts
<1>2. \A s \in Sources : \A i \in Rate!Latest : admitted[s][i] = Window
  BY DEF Rate!Init
<1>3. \A s \in Sources : LogOK(admitted[s], rates[s])
  BY <1>1, <1>2, SMTT(30) DEF Rate!Init, LogOK
<1>. QED
  BY <1>1, <1>3, SMTT(30) DEF Rate!Init, RateInv, Logs

LEMMA NextRate == ASSUME RateInv, [Rate!Next]_(Rate!vars) PROVE RateInv'
<1>1. CASE UNCHANGED Rate!vars
  BY <1>1 DEF Rate!vars, RateInv
<1>. QED
  BY <1>1, AdmitRate, RefuseRate, TickRate DEF Rate!Next

LEMMA RateFollows == ASSUME RateInv PROVE RateLimitHolds
<1>1. /\ MaxAttempts \in Nat \ {0} /\ Window \in Nat \ {0} /\ Rate!Latest = 1..2 * MaxAttempts
  BY RateFacts
<1>2. 2 * MaxAttempts \in Rate!Latest /\ 2 * MaxAttempts >= MaxAttempts
  BY <1>1, SMTT(30)
<1>3. ASSUME NEW s \in Sources PROVE admitted[s][2 * MaxAttempts] = Window
  <2>1. rates[s] \in Entries \cup {Rate!NoRate} /\ LogOK(admitted[s], rates[s])
    BY DEF RateInv
  <2>2. CASE rates[s] = Rate!NoRate
    BY <1>2, <2>1, <2>2 DEF LogOK
  <2>3. CASE rates[s] # Rate!NoRate
    <3>1. rates[s].attempts \in 1..MaxAttempts
      BY <2>1, <2>3, RateFacts
    <3>2. 2 * MaxAttempts >= rates[s].attempts + MaxAttempts
      BY <1>1, <3>1, SMTT(30)
    <3>. QED
      BY <1>2, <2>1, <2>3, <3>2 DEF LogOK
  <2>. QED
    BY <2>2, <2>3
<1>. QED
  BY <1>3 DEF RateInv, RateLimitHolds, Rate!RateBounded, Rate!RefusedForCause

(* The limit of admit_discovery_probe is exact, for any sources, window,   *)
(* number of attempts and table size: no window of time, wherever it       *)
(* begins, admits twice MAX_ATTEMPTS probes of a source, and a source is   *)
(* refused only after MAX_ATTEMPTS of its own within one.  It needs only   *)
(* that an entry is kept for a window at least.                            *)
THEOREM RateLimited == Rate!Spec => []RateLimitHolds
<1>1. Rate!Init => RateInv
  BY InitRate
<1>2. RateInv /\ [Rate!Next]_(Rate!vars) => RateInv'
  BY NextRate
<1>3. RateInv => RateLimitHolds
  BY RateFollows
<1>. QED
  BY <1>1, <1>2, <1>3, PTL DEF Rate!Spec

-----------------------------------------------------------------------------
(* The bounded services: what they hold is counted.                        *)
INSTANCE FiniteSetTheorems

Places == {"unopened", "queued", "reading", "parsed", "rejected", "delivered", "refused"}

StreamTypes ==
    /\ header \in [Streams -> {"nothing", "valid", "invalid"}]
    /\ stream \in [Streams -> Places]
    /\ unready \subseteq Streams

(* A stream that a slot holds without a header is late; one that has been  *)
(* rejected was late or has an invalid header.                             *)
StreamOK(s) ==
    /\ stream[s] = "reading" /\ header[s] = "nothing" => s \in unready
    /\ stream[s] = "parsed" => header[s] = "valid"
    /\ stream[s] \in {"rejected", "refused"} => header[s] = "invalid" \/ s \in unready

(* Streams whose header is being read or waits to be joined have a slot.   *)
SlotsBounded == Cardinality(Features!Pending) <= Slots

StreamInv == StreamTypes /\ SlotsBounded /\ \A s \in Streams : StreamOK(s)

Waiting == {"reading", "parsed", "rejected"}

LEMMA InitStreams == ASSUME Features!Init PROVE StreamInv
<1>1. StreamTypes /\ \A s \in Streams : StreamOK(s)
  BY DEF Features!Init, StreamTypes, StreamOK, Places
<1>2. Features!Pending = {}
  BY DEF Features!Init, Features!Pending
<1>3. Cardinality(Features!Pending) = 0
  BY <1>2, FS_EmptySet
<1>. QED
  BY <1>1, <1>3, ServiceConstants, SMTT(30) DEF StreamInv, SlotsBounded

LEMMA PendingFinite ==
    IsFiniteSet(Features!Pending) /\ Cardinality(Features!Pending) \in Nat
  BY FS_Subset, FS_CardinalityType, ServiceConstants DEF Features!Pending

(* A stream that moves on takes a slot only when one is free.              *)
LEMMA MoveSlots ==
    ASSUME StreamInv, NEW s \in Streams, NEW p \in Places, Features!Move(s, p),
           p \in Waiting /\ stream[s] \notin Waiting => Cardinality(Features!Pending) < Slots
    PROVE  /\ SlotsBounded' /\ stream' \in [Streams -> Places]
           /\ \A r \in Streams : stream'[r] = IF r = s THEN p ELSE stream[r]
<1>1. \A r \in Streams : stream'[r] = IF r = s THEN p ELSE stream[r]
  BY DEF Features!Move, StreamInv, StreamTypes
<1>2. stream' \in [Streams -> Places]
  BY DEF Features!Move, StreamInv, StreamTypes
<1>3. /\ IsFiniteSet(Features!Pending) /\ Cardinality(Features!Pending) \in Nat
      /\ Cardinality(Features!Pending) <= Slots
  BY PendingFinite DEF StreamInv, SlotsBounded
<1>4. CASE p \in Waiting /\ stream[s] \notin Waiting
  <2>1. Features!Pending' = Features!Pending \cup {s} /\ s \notin Features!Pending
    BY <1>1, <1>4 DEF Features!Pending, Waiting
  <2>2. Cardinality(Features!Pending') = Cardinality(Features!Pending) + 1
    BY <1>3, <2>1, FS_AddElement
  <2>3. Cardinality(Features!Pending) < Slots
    BY <1>4
  <2>4. Cardinality(Features!Pending') <= Slots
    BY <1>3, <2>2, <2>3, ServiceConstants, SMTT(30)
  <2>. QED
    BY <1>1, <1>2, <2>4 DEF SlotsBounded
<1>5. CASE ~(p \in Waiting /\ stream[s] \notin Waiting)
  <2>1. Features!Pending' \subseteq Features!Pending
    BY <1>1, <1>5 DEF Features!Pending, Waiting
  <2>2. /\ Cardinality(Features!Pending') <= Cardinality(Features!Pending)
        /\ Cardinality(Features!Pending') \in Nat
    BY <1>3, <2>1, FS_Subset, FS_CardinalityType
  <2>3. Cardinality(Features!Pending') <= Slots
    BY <1>3, <2>2, ServiceConstants, SMTT(30)
  <2>. QED
    BY <1>1, <1>2, <2>3 DEF SlotsBounded
<1>. QED
  BY <1>4, <1>5

(* A step of one stream.                                                   *)
LEMMA OneStream ==
    ASSUME StreamInv, NEW s \in Streams, NEW p \in Places, Features!Move(s, p),
           UNCHANGED <<header, unready>>, p # "reading", stream[s] \in Waiting \/ p \notin Waiting,
           p = "parsed" => header[s] = "valid",
           p \in {"rejected", "refused"} => header[s] = "invalid" \/ s \in unready
    PROVE  StreamInv'
<1>1. /\ SlotsBounded' /\ stream' \in [Streams -> Places]
      /\ \A r \in Streams : stream'[r] = IF r = s THEN p ELSE stream[r]
  BY MoveSlots
<1>2. \A r \in Streams : StreamOK(r)'
  BY <1>1 DEF StreamInv, StreamOK
<1>. QED
  BY <1>1, <1>2 DEF StreamInv, StreamTypes

LEMMA AcceptStreams ==
    ASSUME StreamInv, NEW t \in Callers, NEW s \in Streams, Features!Accept(t, s)
    PROVE  StreamInv'
<1>1. /\ Features!Move(s, "reading") /\ stream[s] = "queued"
      /\ Cardinality(Features!Pending) < Slots
      /\ unready' = IF header[s] = "nothing" THEN unready \cup {s} ELSE unready
      /\ header' = header
  BY DEF Features!Accept, Features!Cardinality, Cardinality
<1>2. /\ SlotsBounded' /\ stream' \in [Streams -> Places]
      /\ \A r \in Streams : stream'[r] = IF r = s THEN "reading" ELSE stream[r]
  BY <1>1, MoveSlots DEF Places
<1>3. \A r \in Streams : StreamOK(r)'
  BY <1>1, <1>2 DEF StreamInv, StreamOK
<1>. QED
  BY <1>1, <1>2, <1>3 DEF StreamInv, StreamTypes

LEMMA SendHeaderStreams ==
    ASSUME StreamInv, NEW s \in Streams, NEW h \in {"valid", "invalid"}, Features!SendHeader(s, h)
    PROVE  StreamInv'
<1>1. header' \in [Streams -> {"nothing", "valid", "invalid"}]
  BY DEF Features!SendHeader, StreamInv, StreamTypes
<1>2. \A r \in Streams : header'[r] = IF r = s THEN h ELSE header[r]
  BY DEF Features!SendHeader, StreamInv, StreamTypes
<1>3. SlotsBounded' /\ StreamTypes'
  BY <1>1 DEF Features!SendHeader, StreamInv, StreamTypes, SlotsBounded, Features!Pending
<1>4. \A r \in Streams : StreamOK(r)'
  BY <1>2 DEF Features!SendHeader, StreamInv, StreamOK
<1>. QED
  BY <1>3, <1>4 DEF StreamInv

LEMMA UntouchedStreams == ASSUME StreamInv, UNCHANGED <<header, stream, unready>> PROVE StreamInv'
  BY DEF StreamInv, StreamTypes, SlotsBounded, Features!Pending, StreamOK

LEMMA NextStreams == ASSUME StreamInv, [Features!Next]_(Features!vars) PROVE StreamInv'
<1>1. ASSUME NEW s \in Streams, Features!Open(s) PROVE StreamInv'
  BY <1>1, OneStream DEF Features!Open, Places, Waiting
<1>2. ASSUME NEW s \in Streams, Features!Parse(s) PROVE StreamInv'
  <2>1. header[s] \in {"valid", "invalid"}
    BY <1>2 DEF Features!Parse, StreamInv, StreamTypes
  <2>. QED
    BY <1>2, <2>1, OneStream DEF Features!Parse, Places, Waiting
<1>3. ASSUME NEW s \in Streams, Features!GiveUp(s) PROVE StreamInv'
  BY <1>3, OneStream DEF Features!GiveUp, Places, Waiting, StreamInv, StreamOK
<1>4. ASSUME NEW t \in Callers, NEW s \in Streams, Features!Join(t, s) PROVE StreamInv'
  BY <1>4, OneStream DEF Features!Join, Features!Joinable, Places, Waiting, StreamInv, StreamOK
<1>5. CASE Features!Close \/ UNCHANGED Features!vars
  BY <1>5, UntouchedStreams DEF Features!Close, Features!vars
<1>6. ASSUME NEW t \in Callers,
             Features!Call(t) \/ Features!Lock(t) \/ Features!ReturnClosed(t) \/ Features!DropCaller(t)
      PROVE  StreamInv'
  BY <1>6, UntouchedStreams
     DEF Features!Call, Features!Lock, Features!ReturnClosed, Features!DropCaller
<1>. QED
  BY <1>1, <1>2, <1>3, <1>4, <1>5, <1>6, AcceptStreams, SendHeaderStreams
     DEF Features!Next, Features!Select

LEMMA StreamInvariant == Features!Spec => []StreamInv
<1>1. Features!Init => StreamInv
  BY InitStreams
<1>2. StreamInv /\ [Features!Next]_(Features!vars) => StreamInv'
  BY NextStreams
<1>. QED
  BY <1>1, <1>2, PTL DEF Features!Spec

LEMMA StreamsFollow == StreamInv => StreamsRefusedForCause
  BY DEF StreamInv, StreamOK, StreamsRefusedForCause, Features!StreamsRefusedForCause

(* However many callers of accept_feature_stream come, go and are dropped, *)
(* a stream is refused only for its own header.                            *)
THEOREM NoStreamLost == Features!Spec => []StreamsRefusedForCause
  BY StreamsFollow, StreamInvariant, PTL

(* The callers share the slots: the session never parses more headers than *)
(* it has slots for.                                                       *)
THEOREM HeaderSlotsBounded == Features!Spec => []SlotsBounded
<1>1. StreamInv => SlotsBounded
  BY DEF StreamInv
<1>. QED
  BY <1>1, StreamInvariant, PTL

-----------------------------------------------------------------------------
(* Whichever service a behaviour exercises, it takes the steps of each.    *)
LEMMA ServiceSteps ==
    ASSUME [MCNext]_allVars
    PROVE  /\ [Identity!Next]_(Identity!vars)
           /\ [Scan!Next]_(Scan!vars)
           /\ [Features!Next]_(Features!vars)
           /\ [Gateway!Next]_(Gateway!vars)
           /\ [Rate!Next]_(Rate!vars)
  BY DEF MCNext, allVars, identityVars, visibleVars, gatewayVars, scanVars, rateVars,
         featureVars, Identity!vars, Scan!vars, Features!vars, Gateway!vars, Rate!vars

(* So the services together keep what each promises by itself.             *)
THEOREM ServicesCorrect ==
    MCSpec => [](/\ IdentitySurvivesFaults /\ CancelStopsTheScan
                 /\ StreamsRefusedForCause /\ GatewayWithdrawable /\ RateLimitHolds)
<1> DEFINE Inv == IdentityInv /\ ScanInv /\ StreamInv /\ GatewayInv /\ RateInv
<1>1. MCInit => Inv
  BY InitIdentity, InitScan, InitStreams, InitGateway, InitRate DEF MCInit
<1>2. Inv /\ [MCNext]_allVars => Inv'
  BY ServiceSteps, NextIdentity, NextScan, NextStreams, NextGateway, NextRate
<1>3. Inv => /\ IdentitySurvivesFaults /\ CancelStopsTheScan
             /\ StreamsRefusedForCause /\ GatewayWithdrawable /\ RateLimitHolds
  BY IdentityFollows, ScanFollows, StreamsFollow, RateFollows DEF GatewayInv, CancelStopsTheScan
<1> HIDE DEF Inv
<1>. QED
  BY <1>1, <1>2, <1>3, PTL DEF MCSpec

(* Visibility and the relay tunnels take part in the run by their own       *)
(* specifications, of which ReachProofs proves what they promise.           *)
THEOREM ReachTakesPart == MCSpec => VisibleSpec /\ Init /\ [][Next]_vars
<1>1. MCInit => VisibleInit /\ Init
  BY DEF MCInit
<1>2. [MCNext]_allVars => [VisibleNext]_visibleVars
  BY DEF MCNext, allVars, visibleVars
<1>3. [MCNext]_allVars => [Next]_vars
  BY DEF MCNext, allVars
<1>. QED
  BY <1>1, <1>2, <1>3, PTL DEF MCSpec, VisibleSpec
=============================================================================
