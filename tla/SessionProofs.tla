----------------------------- MODULE SessionProofs -----------------------------
(***************************************************************************)
(* Proofs about how a node comes to a session and which one it keeps: the  *)
(* session table, for any peers, kinds, connections, processes and bound   *)
(* on the retired list, and one call of race_endpoints, for any number of  *)
(* candidates and any capacity.                                            *)
(***************************************************************************)
EXTENDS SessionRegistry, MCDialRace, TLAPS

(* The provers of a leaf that names none, and their seconds. A leaf that   *)
(* needs arithmetic, functions or records names SMT.                       *)
USE ZenonT(30), SMTT(30)

(* The four state invariants of SessionRegistry are inductive together:    *)
(* the type of an entry needs EntriesAdmitted, and RetiredHistory needs    *)
(* both.                                                                   *)
IInv == TypeOK /\ EntriesAdmitted /\ RetiredHistory /\ HeldSessionIsInTable

(* A list without repetitions.                                             *)
Distinct(s) == \A i, j \in DOMAIN s : i # j => s[i] # s[j]

(* Appending a new instance and dropping the oldest beyond the bound keeps *)
(* the list bounded and free of repetitions, and adds nothing else.        *)
LEMMA RetireOne ==
    ASSUME NEW s \in Seq(Nat), NEW x \in Nat, NEW max \in Nat \ {0},
           Len(s) <= max, Distinct(s), x \notin Range(s),
           NEW r, r = IF Len(Append(s, x)) > max THEN Tail(Append(s, x)) ELSE Append(s, x)
    PROVE  /\ r \in Seq(Nat)
           /\ Len(r) <= max
           /\ Distinct(r)
           /\ Range(r) \subseteq Range(s) \cup {x}
<1> DEFINE l == Append(s, x)
<1>0. Len(s) \in Nat
  BY SMTT(30)
<1>1. /\ l \in Seq(Nat)
      /\ Len(l) = Len(s) + 1
      /\ \A i \in 1..Len(s) : l[i] = s[i]
      /\ l[Len(s) + 1] = x
      /\ DOMAIN l = 1..Len(s) + 1
      /\ DOMAIN s = 1..Len(s)
      /\ r = IF Len(l) > max THEN Tail(l) ELSE l
  BY SMTT(30)
<1> HIDE DEF l
<1>2. \A i \in 1..Len(s) : l[i] \in Range(s)
  BY <1>1 DEF Range
<1>3. Distinct(l)
  <2>1. SUFFICES ASSUME NEW i \in 1..Len(s) + 1, NEW j \in 1..Len(s) + 1, i < j
                 PROVE  l[i] # l[j]
    BY <1>0, <1>1, SMT DEF Distinct
  <2>2. i \in 1..Len(s) /\ i # j
    BY <1>0, <2>1, SMT
  <2>3. CASE j \in 1..Len(s)
    <3>1. s[i] # s[j]
      BY <1>1, <2>2, <2>3 DEF Distinct
    <3>. QED
      BY <1>1, <2>2, <2>3, <3>1
  <2>4. CASE j = Len(s) + 1
    BY <1>1, <1>2, <2>2, <2>4
  <2>. QED
    BY <1>0, <2>3, <2>4, SMT
<1>4. Range(l) \subseteq Range(s) \cup {x}
  <2>1. SUFFICES ASSUME NEW i \in 1..Len(s) + 1
                 PROVE  l[i] \in Range(s) \cup {x}
    BY <1>1 DEF Range
  <2>2. i \in 1..Len(s) \/ i = Len(s) + 1
    BY <1>0, <1>1, SMTT(30)
  <2>. QED
    BY <1>1, <1>2, <2>2
<1>5. CASE Len(l) > max
  <2>1. /\ Tail(l) \in Seq(Nat)
        /\ Len(Tail(l)) = Len(s)
        /\ DOMAIN Tail(l) = 1..Len(s)
        /\ \A i \in 1..Len(s) : Tail(l)[i] = l[i + 1]
    BY <1>0, <1>1, SMTT(30)
  <2>2. Distinct(Tail(l))
    <3>1. SUFFICES ASSUME NEW i \in 1..Len(s), NEW j \in 1..Len(s), i # j
                   PROVE  Tail(l)[i] # Tail(l)[j]
      BY <2>1 DEF Distinct
    <3>2. /\ i + 1 \in 1..Len(s) + 1
          /\ j + 1 \in 1..Len(s) + 1
          /\ i + 1 # j + 1
      BY <1>0, <3>1, SMTT(30)
    <3>3. l[i + 1] # l[j + 1]
      BY <1>1, <1>3, <3>2 DEF Distinct
    <3>. QED
      BY <2>1, <3>3
  <2>3. Range(Tail(l)) \subseteq Range(l)
    <3>1. SUFFICES ASSUME NEW i \in 1..Len(s)
                   PROVE  Tail(l)[i] \in Range(l)
      BY <2>1 DEF Range
    <3>2. i + 1 \in 1..Len(s) + 1
      BY <1>0, SMTT(30)
    <3>. QED
      BY <1>1, <2>1, <3>2 DEF Range
  <2>4. r = Tail(l)
    BY <1>1, <1>5
  <2>5. Len(Tail(l)) <= max
    BY <1>0, <1>1, <2>1
  <2>. QED
    BY <2>1, <2>2, <2>3, <2>4, <2>5, <1>4
<1>6. CASE ~(Len(l) > max)
  <2>1. r = l
    BY <1>1, <1>6
  <2>2. Len(l) <= max
    BY <1>0, <1>1, <1>6, SMTT(30)
  <2>. QED
    BY <2>1, <2>2, <1>1, <1>3, <1>4
<1>. QED
  BY <1>5, <1>6

(* Closing what nothing anchors only shrinks the set of open connections.  *)
LEMMA CloseShrinks == ASSUME NEW o, CloseExcept(o) PROVE open' \subseteq o
  BY DEF CloseExcept

(* A runtime that has just been built has no task, entry or open           *)
(* connection.                                                             *)
LEMMA InitIInv == Init => IInv
<1> SUFFICES ASSUME Init PROVE IInv
  OBVIOUS
<1> USE ConstantsOK DEF Init
<1>1. TypeOK
  BY SMTT(30) DEF TypeOK, Stages, Entry, NoEntry
<1>2. EntriesAdmitted
  BY DEF EntriesAdmitted, NoEntry
<1>3. RetiredHistory
  BY SMTT(30) DEF RetiredHistory, NoEntry, Range
<1>4. HeldSessionIsInTable
  BY DEF HeldSessionIsInTable
<1>. QED
  BY <1>1, <1>2, <1>3, <1>4 DEF IInv

(* A session that starts or ends its dial is not in the table, so neither  *)
(* the admitted entries nor the live ones change.                          *)
LEMMA StartConnectIInv ==
    ASSUME IInv, NEW c \in Conns, NEW p \in Peers, NEW kind \in Kinds, StartConnect(c, p, kind)
    PROVE  IInv'
<1> USE ConstantsOK DEF IInv, StartConnect
<1>0. open' \subseteq open
  BY CloseShrinks
<1>1. TypeOK'
  BY <1>0, SMTT(30) DEF TypeOK, Stages, Entry, NoEntry, Info, Origins, Keys, NoInstance
<1>2. EntriesAdmitted'
  BY DEF EntriesAdmitted, TypeOK, Key, NoEntry, Keys, Entry
<1>3. RetiredHistory'
  BY SMTT(30) DEF RetiredHistory, EntriesAdmitted, TypeOK, NoEntry, Keys, Entry, Range
<1>4. HeldSessionIsInTable'
  BY <1>0, SMTT(30) DEF HeldSessionIsInTable, TypeOK, Key, NoEntry, Keys, Entry, Usable, Info
<1>. QED
  BY <1>1, <1>2, <1>3, <1>4 DEF IInv

(* connect_input_relay removes the same kind of dead entry.                *)
LEMMA StartRelayConnectIInv ==
    ASSUME IInv, NEW c \in Conns, NEW p \in Peers, StartRelayConnect(c, p)
    PROVE  IInv'
<1> USE ConstantsOK DEF IInv, StartRelayConnect
<1>0. open' \subseteq open
  BY CloseShrinks
<1>1. TypeOK'
  BY <1>0, SMTT(30) DEF TypeOK, Stages, Entry, NoEntry, Info, Origins, Keys, NoInstance
<1>2. EntriesAdmitted'
  BY DEF EntriesAdmitted, TypeOK, Key, NoEntry, Keys, Entry
<1>3. RetiredHistory'
  BY SMTT(30) DEF RetiredHistory, EntriesAdmitted, TypeOK, NoEntry, Keys, Entry, Range
<1>4. HeldSessionIsInTable'
  BY <1>0, SMTT(30) DEF HeldSessionIsInTable, TypeOK, Key, NoEntry, Keys, Entry, Usable, Info
<1>. QED
  BY <1>1, <1>2, <1>3, <1>4 DEF IInv

(* A failed dial never reached the table.                                  *)
LEMMA DialFailsIInv ==
    ASSUME IInv, NEW c \in Conns, DialFails(c)
    PROVE  IInv'
<1> USE ConstantsOK DEF IInv, DialFails, Release
<1>1. TypeOK'
  BY DEF TypeOK, Stages, Entry, NoEntry, Info, Origins, Keys, NoInstance
<1>2. EntriesAdmitted'
  BY DEF EntriesAdmitted, TypeOK, Key, NoEntry, Keys, Entry
<1>3. RetiredHistory'
  <2>1. \A k \in Keys : table[k].conn # NoConn =>
            session'[table[k].conn] = session[table[k].conn]
    BY DEF EntriesAdmitted, TypeOK, Keys, Entry
  <2>. QED
    BY <2>1, SMTT(30) DEF RetiredHistory
<1>4. HeldSessionIsInTable'
  BY DEF HeldSessionIsInTable, TypeOK, Key, NoEntry, Keys, Entry, Usable, Info
<1>. QED
  BY <1>1, <1>2, <1>3, <1>4 DEF IInv

(* An authenticated connection is open and held but not yet registered.    *)
LEMMA AuthenticateOutboundIInv ==
    ASSUME IInv, NEW c \in Conns, NEW process \in 1..MaxProcess, AuthenticateOutbound(c, process)
    PROVE  IInv'
<1> USE ConstantsOK DEF IInv, AuthenticateOutbound
<1>1. TypeOK'
  <2>1. InstanceOf(process) \in Nat
    BY SMTT(30) DEF InstanceOf, TypeOK, Stages, Entry, NoEntry, Info, Origins, Keys, NoInstance
  <2>2. session'[c] \in Info
    BY <2>1 DEF TypeOK, Info
  <2>. QED
    BY <2>2, SMTT(30) DEF TypeOK, Stages
<1>2. EntriesAdmitted'
  BY DEF EntriesAdmitted, TypeOK, Key, NoEntry, Keys, Entry
<1>3. RetiredHistory'
  <2>1. \A k \in Keys : table[k].conn # NoConn =>
            session'[table[k].conn] = session[table[k].conn]
    BY DEF EntriesAdmitted, TypeOK, Keys, Entry
  <2>2. table' = table
    OBVIOUS
  <2> HIDE DEF AuthenticateOutbound
  <2>. QED
    BY <2>1, <2>2, SMTT(30) DEF RetiredHistory
<1>4. HeldSessionIsInTable'
  BY DEF HeldSessionIsInTable, TypeOK, Key, NoEntry, Keys, Entry, Usable, Info
<1>. QED
  BY <1>1, <1>2, <1>3, <1>4 DEF IInv

(* The same for an accepted connection.                                    *)
LEMMA AuthenticateInboundIInv ==
    ASSUME IInv, NEW c \in Conns, NEW p \in Peers, NEW kind \in Kinds,
           NEW origin \in Origins, NEW process \in 1..MaxProcess,
           AuthenticateInbound(c, p, kind, origin, process)
    PROVE  IInv'
<1> USE ConstantsOK DEF IInv, AuthenticateInbound, InstanceOf
<1>1. TypeOK'
  BY SMTT(30) DEF TypeOK, Stages, Entry, NoEntry, Info, Origins, Keys, NoInstance
<1>2. EntriesAdmitted'
  BY DEF EntriesAdmitted, TypeOK, Key, NoEntry, Keys, Entry
<1>3. RetiredHistory'
  <2>1. \A k \in Keys : table[k].conn # NoConn =>
            session'[table[k].conn] = session[table[k].conn]
    BY DEF EntriesAdmitted, TypeOK, Keys, Entry
  <2>. QED
    BY <2>1, SMTT(30) DEF RetiredHistory
<1>4. HeldSessionIsInTable'
  BY DEF HeldSessionIsInTable, TypeOK, Key, NoEntry, Keys, Entry, Usable, Info
<1>. QED
  BY <1>1, <1>2, <1>3, <1>4 DEF IInv

(* Remembering an address touches neither the table nor a connection.      *)
LEMMA RememberDialedIInv ==
    ASSUME IInv, NEW c \in Conns, RememberDialed(c)
    PROVE  IInv'
<1> USE ConstantsOK DEF IInv, RememberDialed, Release
<1>1. TypeOK'
  BY DEF TypeOK, Stages, Entry, NoEntry, Info, Origins, Keys, NoInstance
<1>2. EntriesAdmitted'
  BY DEF EntriesAdmitted, TypeOK, Key, NoEntry, Keys, Entry
<1>3. RetiredHistory'
  BY SMTT(30) DEF RetiredHistory, EntriesAdmitted, TypeOK, NoEntry, Keys, Entry, Range
<1>4. HeldSessionIsInTable'
  BY DEF HeldSessionIsInTable, TypeOK, Key, NoEntry, Keys, Entry, Usable, Info
<1>. QED
  BY <1>1, <1>2, <1>3, <1>4 DEF IInv

(* disconnect closes the connection of every entry it removes.             *)
LEMMA DisconnectIInv ==
    ASSUME IInv, NEW p \in Peers, Disconnect(p)
    PROVE  IInv'
<1> USE ConstantsOK DEF IInv, Disconnect
<1>0. open' \subseteq open \ {table[k].conn : k \in {p} \X Kinds}
  BY CloseShrinks
<1>1. TypeOK'
  BY <1>0, SMTT(30) DEF TypeOK, Stages, Entry, NoEntry, Info, Origins, Keys, NoInstance
<1>2. EntriesAdmitted'
  BY DEF EntriesAdmitted, TypeOK, Key, NoEntry, Keys, Entry
<1>3. RetiredHistory'
  BY SMTT(30) DEF RetiredHistory, EntriesAdmitted, TypeOK, NoEntry, Keys, Entry, Range
<1>4. HeldSessionIsInTable'
  BY <1>0, SMTT(30) DEF HeldSessionIsInTable, TypeOK, Key, NoEntry, Keys, Entry, Usable, Info
<1>. QED
  BY <1>1, <1>2, <1>3, <1>4 DEF IInv

(* grant closes the realtime input connection it removes.                  *)
LEMMA GrantInjectIInv ==
    ASSUME IInv, NEW p \in Peers, GrantInject(p)
    PROVE  IInv'
<1> USE ConstantsOK DEF IInv, GrantInject
<1>0. open' \subseteq open \ {table[<<p, RealtimeInput>>].conn}
  BY CloseShrinks
<1>1. TypeOK'
  BY <1>0, SMTT(30) DEF TypeOK, Stages, Entry, NoEntry, Info, Origins, Keys, NoInstance
<1>2. EntriesAdmitted'
  BY DEF EntriesAdmitted, TypeOK, Key, NoEntry, Keys, Entry
<1>3. RetiredHistory'
  BY SMTT(30) DEF RetiredHistory, EntriesAdmitted, TypeOK, NoEntry, Keys, Entry, Range
<1>4. HeldSessionIsInTable'
  BY <1>0 DEF HeldSessionIsInTable, TypeOK, Key, NoEntry, Keys, Entry, Usable, Info
<1>. QED
  BY <1>1, <1>2, <1>3, <1>4 DEF IInv

(* A close from outside removes nothing from the table.                    *)
LEMMA TransportClosesIInv ==
    ASSUME IInv, NEW c \in Conns, TransportCloses(c)
    PROVE  IInv'
<1> USE ConstantsOK DEF IInv, TransportCloses
<1>1. TypeOK'
  BY DEF TypeOK, Stages, Entry, NoEntry, Info, Origins, Keys, NoInstance
<1>2. EntriesAdmitted'
  BY DEF EntriesAdmitted, TypeOK, Key, NoEntry, Keys, Entry
<1>3. RetiredHistory'
  BY SMTT(30) DEF RetiredHistory, EntriesAdmitted, TypeOK, NoEntry, Keys, Entry, Range
<1>4. HeldSessionIsInTable'
  BY DEF HeldSessionIsInTable, TypeOK, Key, NoEntry, Keys, Entry, Usable, Info
<1>. QED
  BY <1>1, <1>2, <1>3, <1>4 DEF IInv

(* The relay watcher removes only an entry whose connection has closed.    *)
LEMMA RelayWatcherIInv ==
    ASSUME IInv, NEW c \in Conns, RelayWatcher(c)
    PROVE  IInv'
<1> USE ConstantsOK DEF IInv, RelayWatcher, Current
<1>1. TypeOK'
  <2>1. NoEntry \in Entry
    BY SMTT(30) DEF Entry, NoEntry
  <2>2. table' \in [Keys -> Entry]
    BY <2>1 DEF TypeOK
  <2>. QED
    BY <2>2 DEF TypeOK
<1>2. EntriesAdmitted'
  BY DEF EntriesAdmitted, TypeOK, Key, NoEntry, Keys, Entry
<1>3. RetiredHistory'
  BY SMTT(30) DEF RetiredHistory, EntriesAdmitted, TypeOK, NoEntry, Keys, Entry, Range
<1>4. HeldSessionIsInTable'
  BY DEF HeldSessionIsInTable, TypeOK, Key, NoEntry, Keys, Entry, Usable, Info
<1>. QED
  BY <1>1, <1>2, <1>3, <1>4 DEF IInv

(* Streams do not enter the table.                                         *)
LEMMA OpenStreamIInv ==
    ASSUME IInv, NEW c \in Conns, OpenStream(c)
    PROVE  IInv'
<1> USE ConstantsOK DEF IInv, OpenStream
<1>1. TypeOK'
  BY DEF TypeOK, Stages, Entry, NoEntry, Info, Origins, Keys, NoInstance
<1>2. EntriesAdmitted'
  BY DEF EntriesAdmitted, TypeOK, Key, NoEntry, Keys, Entry
<1>3. RetiredHistory'
  BY SMTT(30) DEF RetiredHistory, EntriesAdmitted, TypeOK, NoEntry, Keys, Entry, Range
<1>4. HeldSessionIsInTable'
  BY DEF HeldSessionIsInTable, TypeOK, Key, NoEntry, Keys, Entry, Usable, Info
<1>. QED
  BY <1>1, <1>2, <1>3, <1>4 DEF IInv

(* Dropping the last Arc<Session> can only make a session unreachable.     *)
LEMMA DropHandleIInv ==
    ASSUME IInv, NEW c \in Conns, DropHandle(c)
    PROVE  IInv'
<1> USE ConstantsOK DEF IInv, DropHandle
<1>0. open' \subseteq open
  BY CloseShrinks
<1>1. TypeOK'
  BY <1>0 DEF TypeOK, Stages, Entry, NoEntry, Info, Origins, Keys, NoInstance
<1>2. EntriesAdmitted'
  BY DEF EntriesAdmitted, TypeOK, Key, NoEntry, Keys, Entry
<1>3. RetiredHistory'
  BY SMTT(30) DEF RetiredHistory, EntriesAdmitted, TypeOK, NoEntry, Keys, Entry, Range
<1>4. HeldSessionIsInTable'
  BY <1>0 DEF HeldSessionIsInTable, TypeOK, Key, NoEntry, Keys, Entry, Usable, Info
<1>. QED
  BY <1>1, <1>2, <1>3, <1>4 DEF IInv

(* Dropping streams can only close connections.                            *)
LEMMA DropStreamsIInv ==
    ASSUME IInv, NEW c \in Conns, DropStreams(c)
    PROVE  IInv'
<1> USE ConstantsOK DEF IInv, DropStreams
<1>0. open' \subseteq open
  BY CloseShrinks
<1>1. TypeOK'
  BY <1>0 DEF TypeOK, Stages, Entry, NoEntry, Info, Origins, Keys, NoInstance
<1>2. EntriesAdmitted'
  BY DEF EntriesAdmitted, TypeOK, Key, NoEntry, Keys, Entry
<1>3. RetiredHistory'
  BY SMTT(30) DEF RetiredHistory, EntriesAdmitted, TypeOK, NoEntry, Keys, Entry, Range
<1>4. HeldSessionIsInTable'
  BY <1>0 DEF HeldSessionIsInTable, TypeOK, Key, NoEntry, Keys, Entry, Usable, Info
<1>. QED
  BY <1>1, <1>2, <1>3, <1>4 DEF IInv

(* A restart of the peer changes nothing here until its handshakes arrive. *)
LEMMA RestartIInv ==
    ASSUME IInv, NEW p \in Peers, Restart(p)
    PROVE  IInv'
<1> USE ConstantsOK DEF IInv, Restart
<1>1. TypeOK'
  BY SMTT(30) DEF TypeOK, Stages, Entry, NoEntry, Info, Origins, Keys, NoInstance
<1>2. EntriesAdmitted'
  BY DEF EntriesAdmitted, TypeOK, Key, NoEntry, Keys, Entry
<1>3. RetiredHistory'
  BY SMTT(30) DEF RetiredHistory, EntriesAdmitted, TypeOK, NoEntry, Keys, Entry, Range
<1>4. HeldSessionIsInTable'
  BY DEF HeldSessionIsInTable, TypeOK, Key, NoEntry, Keys, Entry, Usable, Info
<1>. QED
  BY <1>1, <1>2, <1>3, <1>4 DEF IInv

(* A recycled connection id is in no entry.                                *)
LEMMA RecycleIInv ==
    ASSUME IInv, NEW c \in Conns, Recycle(c)
    PROVE  IInv'
<1> USE ConstantsOK DEF IInv, Recycle, Current
<1>1. TypeOK'
  BY DEF TypeOK, Stages, Entry, NoEntry, Info, Origins, Keys, NoInstance
<1>2. EntriesAdmitted'
  <2>1. \A k \in Keys : table[k].conn # c
    BY DEF EntriesAdmitted, Key
  <2>. QED
    BY <2>1 DEF EntriesAdmitted, TypeOK, Key, NoEntry, Keys, Entry
<1>3. RetiredHistory'
  <2>1. \A k \in Keys : table[k].conn # NoConn =>
            session'[table[k].conn] = session[table[k].conn]
    BY DEF EntriesAdmitted, TypeOK, Keys, Entry
  <2>. QED
    BY <2>1, SMTT(30) DEF RetiredHistory
<1>4. HeldSessionIsInTable'
  BY DEF HeldSessionIsInTable, TypeOK, Key, NoEntry, Keys, Entry, Usable, Info
<1>. QED
  BY <1>1, <1>2, <1>3, <1>4 DEF IInv

(* register_session.  The loser is closed and leaves the table as it is;   *)
(* the winner takes the slot and whatever usable session was there is      *)
(* closed.                                                                 *)
LEMMA RegisterSessionIInv ==
    ASSUME IInv, NEW c \in Conns, RegisterSession(c)
    PROVE  IInv'
<1> USE ConstantsOK DEF IInv
<1> DEFINE k == Key(c)
<1>1. /\ session[c] \in Info
      /\ k \in Keys
      /\ table[k] \in Entry
      /\ Current(c) = table[k].conn
  BY DEF RegisterSession, TypeOK, Key, Keys, Info, Current
<1>2. \A j \in Keys : table[j].conn # c
  BY DEF RegisterSession, EntriesAdmitted
<1>3. /\ Current(c) \in Conns \cup {NoConn}
      /\ Current(c) # c
  BY <1>1, <1>2 DEF Entry
<1>4. Returned(c) \in {NoConn, c, Current(c)}
  BY DEF Returned
<1>5. open' \subseteq open \ Closed(c)
  BY CloseShrinks DEF RegisterSession
<1>6. CASE Returned(c) # c
  <2>1. /\ table' = table
        /\ session' = session
        /\ handle' = handle \ {c}
    BY <1>6 DEF RegisterSession
  <2>2. TypeOK'
    <3>1. gate' \in [Keys -> Conns \cup {NoConn}]
      BY SMTT(30) DEF RegisterSession, Release, TypeOK
    <3>2. stage' \in [Conns -> Stages] /\ stage'[c] \in {"registered", "done"}
      BY DEF RegisterSession, TypeOK, Stages
    <3>3. result' \in [Conns -> Conns \cup {NoConn}]
      BY <1>3, <1>4 DEF RegisterSession, TypeOK
    <3>. QED
      BY <1>5, <2>1, <3>1, <3>2, <3>3, SMTT(30) DEF RegisterSession, TypeOK
  <2>3. EntriesAdmitted'
    BY <1>2, <2>1 DEF RegisterSession, EntriesAdmitted, TypeOK, Key, Entry
  <2>4. RetiredHistory'
    BY <2>1, SMTT(30) DEF RetiredHistory
  <2>5. HeldSessionIsInTable'
    BY <1>5, <2>1 DEF RegisterSession, HeldSessionIsInTable, TypeOK, Key
  <2>. QED
    BY <2>2, <2>3, <2>4, <2>5
<1>7. CASE Returned(c) = c
  <2>1. ~Obsolete(c) /\ ~KeepsCurrent(c)
    BY <1>3, <1>7 DEF Returned
  <2>2. /\ table' = [table EXCEPT ![k] = [conn |-> c, retired |-> Retire(c)]]
        /\ session' = session
        /\ handle' = handle
    BY <1>7 DEF RegisterSession
  <2>3. /\ Retire(c) \in Seq(Nat)
        /\ Len(Retire(c)) <= MaxRetired
        /\ Distinct(Retire(c))
        /\ NoInstance \notin Range(Retire(c))
        /\ session[c].instance \notin Range(Retire(c))
    <3> DEFINE past == table[k].retired
               x == session[Current(c)].instance
    <3>1. /\ past \in Seq(Nat)
          /\ Len(past) <= MaxRetired
          /\ Distinct(past)
          /\ NoInstance \notin Range(past)
      BY <1>1 DEF RetiredHistory, Distinct, Entry
    <3>2. session[c].instance \notin Range(past)
      BY <2>1, <3>1 DEF Obsolete
    <3>3. CASE ~Restarted(c)
      BY <3>1, <3>2, <3>3 DEF Retire
    <3>4. CASE Restarted(c)
      <4>1. /\ x \in Nat
            /\ x # NoInstance
            /\ x # session[c].instance
            /\ x \notin Range(past)
        BY <1>1, <1>3, <3>4 DEF Restarted, RetiredHistory, EntriesAdmitted, TypeOK, Info
      <4>2. Retire(c) = IF Len(Append(past, x)) > MaxRetired
                        THEN Tail(Append(past, x)) ELSE Append(past, x)
        BY <3>4 DEF Retire
      <4>3. /\ Retire(c) \in Seq(Nat)
            /\ Len(Retire(c)) <= MaxRetired
            /\ Distinct(Retire(c))
            /\ Range(Retire(c)) \subseteq Range(past) \cup {x}
        <5>1. MaxRetired \in Nat \ {0}
          BY DEF ConstantsOK
        <5> DEFINE r == Retire(c)
        <5>2. r = IF Len(Append(past, x)) > MaxRetired
                  THEN Tail(Append(past, x)) ELSE Append(past, x)
          BY <4>2
        <5> HIDE DEF past, x, r
        <5>3. /\ r \in Seq(Nat)
              /\ Len(r) <= MaxRetired
              /\ Distinct(r)
              /\ Range(r) \subseteq Range(past) \cup {x}
          BY ONLY <3>1, <4>1, <5>1, <5>2, RetireOne
        <5>. QED
          BY <5>3 DEF r
      <4>. QED
        BY <3>1, <3>2, <4>1, <4>3
    <3>. QED
      BY <3>3, <3>4
  <2>4. TypeOK'
    <3>1. gate' \in [Keys -> Conns \cup {NoConn}]
      BY SMTT(30) DEF RegisterSession, Release, TypeOK
    <3>2. stage' \in [Conns -> Stages] /\ stage'[c] \in {"registered", "done"}
      BY DEF RegisterSession, TypeOK, Stages
    <3>3. result' \in [Conns -> Conns \cup {NoConn}]
      BY <1>3, <1>4 DEF RegisterSession, TypeOK
    <3>4. table' \in [Keys -> Entry]
      BY <2>2, <2>3 DEF TypeOK, Entry
    <3>5. stage[c] = "authenticated" /\ \A d \in Conns \ {c} : stage'[d] = stage[d]
      BY DEF RegisterSession, TypeOK
    <3>6. /\ session' \in [Conns -> Info \cup {NoSession}]
          /\ \A d \in Conns : stage'[d] # "unused" => session'[d] \in Info
      BY <1>1, <2>2, <3>5 DEF TypeOK
    <3>7. /\ open' \subseteq {d \in Conns : stage'[d] \in {"authenticated", "registered", "done"}}
          /\ handle' \subseteq {d \in Conns : stage'[d] \in {"authenticated", "registered", "done"}}
      BY <1>5, <2>2, <3>2, <3>5 DEF TypeOK
    <3>8. /\ \A d \in Conns : stage'[d] = "authenticated" => d \in handle'
          /\ streams' \subseteq {d \in Conns : stage'[d] \in {"registered", "done"}}
      BY <2>2, <3>2, <3>5 DEF RegisterSession, TypeOK
    <3>9. running' \in [Peers -> 1..MaxProcess]
      BY DEF RegisterSession, TypeOK
    <3>. QED
      BY <3>1, <3>2, <3>3, <3>4, <3>6, <3>7, <3>8, <3>9 DEF TypeOK
  <2>5. EntriesAdmitted'
    <3>1. stage'[c] \in {"registered", "done"} /\ result'[c] = c /\ Key(c) = k
      BY <1>7 DEF RegisterSession, TypeOK
    <3>2. \A d \in Conns \ {c} : stage'[d] = stage[d] /\ result'[d] = result[d]
      BY DEF RegisterSession, TypeOK
    <3>3. table'[k].conn = c /\ \A j \in Keys \ {k} : table'[j] = table[j]
      BY <1>1, <2>2 DEF TypeOK
    <3>4. \A j \in Keys : table[j].conn \in Conns \cup {NoConn}
      BY DEF TypeOK, Entry
    <3>5. ASSUME NEW j \in Keys, table'[j].conn # NoConn
          PROVE  /\ stage'[table'[j].conn] \in {"registered", "done"}
                 /\ result'[table'[j].conn] = table'[j].conn
                 /\ Key(table'[j].conn) = j
      <4>1. CASE j = k
        BY <3>1, <3>3, <4>1
      <4>2. CASE j # k
        <5>1. table'[j].conn = table[j].conn /\ table[j].conn \in Conns \ {c}
          BY <1>2, <3>3, <3>4, <3>5, <4>2
        <5>2. /\ stage[table[j].conn] \in {"registered", "done"}
              /\ result[table[j].conn] = table[j].conn
              /\ Key(table[j].conn) = j
          BY <3>5, <5>1 DEF EntriesAdmitted
        <5>. QED
          BY <3>2, <5>1, <5>2
      <4>. QED
        BY <4>1, <4>2
    <3>. QED
      BY <2>2, <3>5 DEF EntriesAdmitted, Key
  <2>6. RetiredHistory'
    BY <1>1, <1>2, <2>2, <2>3, SMTT(30) DEF RetiredHistory, TypeOK, Distinct
  <2>7. HeldSessionIsInTable'
    BY <1>1, <1>5, <2>1, <2>2, SMTT(30) DEF RegisterSession, HeldSessionIsInTable, TypeOK, Key, Usable, Closed, Current
  <2>. QED
    BY <2>4, <2>5, <2>6, <2>7
<1>. QED
  BY <1>6, <1>7

(* Every step preserves the invariant.                                     *)
LEMMA NextIInv == IInv /\ [Next]_vars => IInv'
<1> SUFFICES ASSUME IInv, [Next]_vars PROVE IInv'
  OBVIOUS
<1>1. CASE Next
  BY <1>1, StartConnectIInv, StartRelayConnectIInv, DialFailsIInv, AuthenticateOutboundIInv,
     AuthenticateInboundIInv, RegisterSessionIInv, RememberDialedIInv, DisconnectIInv,
     GrantInjectIInv, TransportClosesIInv, RelayWatcherIInv, OpenStreamIInv, DropHandleIInv,
     DropStreamsIInv, RestartIInv, RecycleIInv DEF Next
<1>2. CASE UNCHANGED vars
  <2>1. TypeOK'
    BY <1>2 DEF vars, IInv, TypeOK
  <2>2. EntriesAdmitted'
    BY <1>2 DEF vars, IInv, EntriesAdmitted, Key
  <2>3. RetiredHistory'
    BY <1>2 DEF vars, IInv, RetiredHistory
  <2>4. HeldSessionIsInTable'
    BY <1>2 DEF vars, IInv, HeldSessionIsInTable, Key, Current, Closed, Usable
  <2>. QED
    BY <2>1, <2>2, <2>3, <2>4 DEF IInv
<1>. QED
  BY <1>1, <1>2

(* The inductive invariant holds in every state of NetworkRuntime's        *)
(* session table, whatever the interleaving of its tasks.                  *)
THEOREM Invariance == Spec => []IInv
<1>1. IInv /\ [Next]_vars => IInv'
  BY NextIInv
<1>. QED
  BY InitIInv, <1>1, PTL DEF Spec

(* The variables and the stages of the tasks keep their types.             *)
THEOREM TypeCorrect == Spec => []TypeOK
  BY Invariance, PTL DEF IInv

(* Whatever is in the table was admitted by register_session under exactly *)
(* that (peer, kind) key.                                                  *)
THEOREM TableHoldsAdmitted == Spec => []EntriesAdmitted
  BY Invariance, PTL DEF IInv

(* However many processes a peer goes through, its retired list is bounded, *)
(* has no repetition and never names the session it belongs to.            *)
THEOREM RetiredListSound == Spec => []RetiredHistory
  BY Invariance, PTL DEF IInv

(* A live session that the application holds is always the one disconnect, *)
(* grant, revoke and forget find in the table.                             *)
THEOREM NoStrandedSession == Spec => []HeldSessionIsInTable
  BY Invariance, PTL DEF IInv

(* One key never has two live sessions that the application holds.         *)
THEOREM OneLiveSessionPerKey ==
    ASSUME IInv, NEW c \in Conns, NEW d \in Conns,
           stage[c] \in {"registered", "done"}, c \in open \cap handle,
           stage[d] \in {"registered", "done"}, d \in open \cap handle,
           Key(c) = Key(d)
    PROVE  c = d
  BY DEF IInv, HeldSessionIsInTable

(* A process that an entry has retired does not get the slot back while    *)
(* the entry lives: the retired check of register_session, for every order *)
(* of delayed registrations.                                               *)
THEOREM RetiredStaysOut == Spec => RetiredNeverReturns
<1> DEFINE A == \A k \in Keys :
                   table[k].conn # NoConn /\ table'[k].conn # NoConn
                       => session'[table'[k].conn].instance \notin Range(table[k].retired)
<1>1. IInv /\ IInv' /\ [Next]_vars => [A]_vars
  <2> SUFFICES ASSUME IInv, IInv', Next, NEW k \in Keys,
                      table[k].conn # NoConn, table'[k].conn # NoConn
               PROVE  session'[table'[k].conn].instance \notin Range(table[k].retired)
    OBVIOUS
  <2>1. session[table[k].conn].instance \notin Range(table[k].retired)
    BY DEF IInv, RetiredHistory
  <2>2. CASE \E c \in Conns : RegisterSession(c)
    <3>1. PICK c \in Conns : RegisterSession(c)
      BY <2>2
    <3>2. CASE table'[k] = table[k]
      BY <2>1, <3>1, <3>2 DEF RegisterSession
    <3>3. CASE table'[k] # table[k]
      <4>1. Returned(c) = c /\ k = Key(c) /\ table'[k].conn = c
        BY <3>1, <3>3 DEF RegisterSession, IInv, TypeOK, Entry
      <4>2. ~Obsolete(c)
        BY <3>1, <4>1, ConstantsOK DEF Returned, RegisterSession, Current, IInv, EntriesAdmitted
      <4>3. session' = session
        BY <3>1 DEF RegisterSession
      <4>4. NoInstance \notin Range(table[k].retired)
        BY DEF IInv, RetiredHistory
      <4>. QED
        BY <4>1, <4>2, <4>3, <4>4 DEF Obsolete
    <3>. QED
      BY <3>2, <3>3
  <2>3. CASE ~\E c \in Conns : RegisterSession(c)
    <3>1. /\ stage[table[k].conn] \in {"registered", "done"}
          /\ Key(table[k].conn) = k
          /\ table[k].conn \in Conns
      BY DEF IInv, EntriesAdmitted, TypeOK, Entry
    <3> DEFINE Same == /\ table'[k] = table[k]
                       /\ session'[table[k].conn] = session[table[k].conn]
    <3>2. ASSUME NEW c \in Conns, NEW p \in Peers, NEW kind \in Kinds,
                 StartConnect(c, p, kind)
          PROVE  Same
      BY <3>1, <3>2 DEF StartConnect, NoEntry, IInv, TypeOK
    <3>3. ASSUME NEW c \in Conns, NEW p \in Peers,
                 StartRelayConnect(c, p)
          PROVE  Same
      BY <3>1, <3>3 DEF StartRelayConnect, NoEntry, IInv, TypeOK
    <3>4. ASSUME NEW c \in Conns,
                 DialFails(c)
          PROVE  Same
      BY <3>1, <3>4 DEF DialFails, IInv, TypeOK
    <3>5. ASSUME NEW c \in Conns, NEW process \in 1..MaxProcess,
                 AuthenticateOutbound(c, process)
          PROVE  Same
      BY <3>1, <3>5 DEF AuthenticateOutbound, IInv, TypeOK
    <3>6. ASSUME NEW c \in Conns, NEW p \in Peers, NEW kind \in Kinds, NEW origin \in Origins,
                 NEW process \in 1..MaxProcess, AuthenticateInbound(c, p, kind, origin, process)
          PROVE  Same
      BY <3>1, <3>6 DEF AuthenticateInbound, IInv, TypeOK
    <3>7. ASSUME NEW p \in Peers,
                 Disconnect(p)
          PROVE  Same
      BY <3>1, <3>7 DEF Disconnect, NoEntry, IInv, TypeOK
    <3>8. ASSUME NEW p \in Peers,
                 GrantInject(p)
          PROVE  Same
      BY <3>1, <3>8 DEF GrantInject, NoEntry, IInv, TypeOK
    <3>9. ASSUME NEW c \in Conns,
                 RelayWatcher(c)
          PROVE  Same
      BY <3>1, <3>9 DEF RelayWatcher, NoEntry, IInv, TypeOK
    <3>10. ASSUME NEW c \in Conns,
                 Recycle(c)
          PROVE  Same
      BY <3>1, <3>10, SMTT(30) DEF Recycle, Current, IInv, TypeOK
    <3>11. ASSUME NEW c \in Conns,
                 \/ RememberDialed(c) \/ TransportCloses(c) \/ OpenStream(c)
                 \/ DropHandle(c) \/ DropStreams(c)
          PROVE  Same
      BY <3>11 DEF RememberDialed, TransportCloses, OpenStream, DropHandle, DropStreams
    <3>12. ASSUME NEW p \in Peers, Restart(p)
          PROVE  Same
      BY <3>12 DEF Restart
    <3>13. Same
      BY <2>3, <3>2, <3>3, <3>4, <3>5, <3>6, <3>7, <3>8, <3>9, <3>10, <3>11, <3>12 DEF Next
    <3>. QED
      BY <2>1, <3>13
  <2>. QED
    BY <2>2, <2>3
<1>. QED
  BY Invariance, <1>1, PTL DEF Spec, RetiredNeverReturns

(* Registering an open connection never leaves a key without a usable      *)
(* session if it had one: either the usable session stays, or the          *)
(* newcomer, held by its own task, takes the slot.                         *)
THEOREM ArbitrationSafe == Spec => ArbitrationKeepsASession
<1> DEFINE A == \A c \in Conns :
                   RegisterSession(c) /\ c \in open /\ Usable(Key(c)) => Usable(Key(c))'
<1>1. IInv /\ [Next]_vars => [A]_vars
  <2> SUFFICES ASSUME IInv, NEW c \in Conns, RegisterSession(c),
                      c \in open, Usable(Key(c))
               PROVE  Usable(Key(c))'
    OBVIOUS
  <2>1. session' = session /\ Key(c)' = Key(c)
    BY DEF RegisterSession, Key
  <2>2. /\ Key(c) \in Keys
        /\ c \in handle
        /\ Current(c) \in handle \cap open
        /\ Current(c) \in Conns
    BY DEF IInv, TypeOK, RegisterSession, Key, Keys, Info, Current, Usable
  <2>3. Current(c) # c
    BY <2>2, ConstantsOK DEF IInv, EntriesAdmitted, RegisterSession, Current
  <2>4. \A d \in open \ Closed(c) : d \in handle' => d \in open'
    BY DEF RegisterSession, CloseExcept, Anchored
  <2>5. CASE Returned(c) = c
    <3>1. ~Obsolete(c) /\ ~KeepsCurrent(c)
      BY <2>3, <2>5, ConstantsOK DEF Returned
    <3>2. c \notin Closed(c)
      BY <2>3, <3>1 DEF Closed
    <3>3. handle' = handle /\ table'[Key(c)].conn = c
      BY <2>2, <2>5 DEF RegisterSession, IInv, TypeOK
    <3>. QED
      BY <2>1, <2>2, <2>4, <3>2, <3>3 DEF Usable
  <2>6. CASE Returned(c) # c
    <3>1. Closed(c) = {c}
      BY <2>6 DEF Returned, Closed
    <3>2. handle' = handle \ {c} /\ table' = table
      BY <2>6 DEF RegisterSession
    <3>. QED
      BY <2>1, <2>2, <2>3, <2>4, <3>1, <3>2 DEF Usable, Current
  <2>. QED
    BY <2>5, <2>6
<1>. QED
  BY Invariance, <1>1, PTL DEF Spec, ArbitrationKeepsASession

-----------------------------------------------------------------------------
LEMMA NoneOK == None \notin Race!Connections
  BY RaceConstantsOK

Phases == Race!Active \cup Race!Failed \cup {"finished", "joined", "cancelled"}

Races == Race!Over \cup {"racing", "cancelling", "creating"}

RaceTypes ==
    /\ attempt \in Race!Attempts
    /\ phase \in [Race!Candidates -> Phases]
    /\ alive \subseteq Race!Connections /\ sent \subseteq Race!Connections
    /\ \A x \in alive \cup sent : x[1] = attempt
    /\ joined \subseteq Race!Candidates
    /\ race \in Races

(* What the phase of a candidate tells of its connection, of the selection *)
(* permit and of the loop.                                                 *)
CandidateOK(c) ==
    /\ Race!Conn(c) \in alive => phase[c] \in Race!Authenticating \cup {"finished", "joined"}
    /\ Race!Conn(c) \in sent => phase[c] \in {"confirming", "finished", "joined", "failed_auth", "cancelled"}
    /\ phase[c] \in {"confirming", "finished"} => selection = Race!Conn(c)
    /\ phase[c] = "joined" /\ Race!Conn(c) \in alive => winner = Race!Conn(c)
    /\ c \in joined => phase[c] \in Race!Failed /\ (phase[c] = "failed_auth" => authFailed)
    /\ race = "racing" => phase[c] \notin {"joined", "cancelled"}
    /\ race \in {"returned", "failed"} => phase[c] \notin Race!Active \cup {"finished"}
    /\ race = "creating" => phase[c] \in Race!Failed \ {"failed_auth"}
    /\ winner # None /\ Race!Conn(c) \in sent \ {winner} => phase[c] = "failed_auth"

(* The winner holds the selection permit and has been taken by the loop.   *)
WinnerOK ==
    winner # None =>
        /\ race \in {"cancelling", "returned"} /\ selection = winner
        /\ \E c \in Race!Candidates : winner = Race!Conn(c) /\ phase[c] = "joined"

(* What shutdown has closed by now.                                        *)
HaltOK ==
    /\ race = "creating" => attempt = 1 /\ halt # "down"
    /\ attempt = 1 /\ halt \in {"listener", "down"} => alive = {}
    /\ recoveryClosed => attempt = 2 /\ alive = {}
    /\ attempt = 2 /\ halt = "down" => recoveryClosed \/ race \in {"failed", "dropped"}

RaceInv == RaceTypes /\ WinnerOK /\ HaltOK /\ \A c \in Race!Candidates : CandidateOK(c)

LEMMA InitRace == Race!Init => RaceInv
<1> SUFFICES ASSUME Race!Init PROVE RaceInv
  OBVIOUS
<1>1. RaceTypes
  BY DEF Race!Init, RaceTypes, Race!Asleep, Race!Attempts, Phases, Race!Active, Races
<1>2. WinnerOK /\ HaltOK
  BY DEF Race!Init, WinnerOK, HaltOK
<1>3. \A c \in Race!Candidates : CandidateOK(c)
  BY DEF Race!Init, CandidateOK, Race!Asleep
<1>. QED
  BY <1>1, <1>2, <1>3 DEF RaceInv

LEMMA ConnInjective ==
    ASSUME NEW c \in Race!Candidates, NEW d \in Race!Candidates, Race!Conn(c) = Race!Conn(d) PROVE c = d
  BY DEF Race!Conn

LEMMA ConnType == ASSUME RaceTypes, NEW c \in Race!Candidates PROVE Race!Conn(c) \in Race!Connections
  BY DEF RaceTypes, Race!Conn, Race!Connections

(* A step of one candidate's task: it may close or open its own connection *)
(* and take or return the permit, and it leaves the loop alone.            *)
LEMMA OneCandidate ==
    ASSUME RaceInv, NEW c \in Race!Candidates, NEW q \in Phases,
           phase' = [phase EXCEPT ![c] = q], phase[c] # "joined",
           UNCHANGED <<attempt, joined, authFailed, race, winner, halt, recoveryClosed>>,
           alive' \subseteq alive \cup {Race!Conn(c)}, sent' \subseteq sent \cup {Race!Conn(c)},
           Race!Conn(c) \in alive' \ alive => ~Race!EndpointClosed,
           \/ selection' = selection
           \/ selection \in {None, Race!Conn(c)} /\ selection' \in {None, Race!Conn(c)},
           CandidateOK(c)'
    PROVE  RaceInv'
<1>1. RaceTypes /\ WinnerOK /\ HaltOK /\ Race!Conn(c) \in Race!Connections /\ Race!Conn(c)[1] = attempt
  BY ConnType DEF RaceInv, Race!Conn
<1>2. RaceTypes'
  BY <1>1 DEF RaceTypes
<1>3. winner # Race!Conn(c)
  BY <1>1, ConnInjective, ConnType, NoneOK DEF WinnerOK
<1>4. WinnerOK'
  <2>1. winner # None => selection' = winner
    BY <1>1, <1>3 DEF WinnerOK
  <2>2. \A d \in Race!Candidates : phase[d] = "joined" => phase'[d] = "joined" /\ Race!Conn(d)' = Race!Conn(d)
    BY <1>1 DEF RaceTypes, Race!Conn
  <2>. QED
    BY <1>1, <2>1, <2>2 DEF WinnerOK
<1>5. HaltOK'
  BY <1>1, SMTT(30) DEF HaltOK, Race!EndpointClosed, RaceTypes, Race!Attempts
<1>6. ASSUME NEW d \in Race!Candidates PROVE CandidateOK(d)'
  <2>1. CASE d = c
    BY <2>1
  <2>2. CASE d # c
    <3>1. CandidateOK(d) /\ phase'[d] = phase[d] /\ Race!Conn(d)' = Race!Conn(d) /\ Race!Conn(d) # Race!Conn(c)
      BY <1>1, <1>6, <2>2, ConnInjective DEF RaceInv, RaceTypes, Race!Conn
    <3>2. Race!Conn(d) \in Race!Connections /\ Race!Conn(d) # None
      BY <1>1, ConnType, NoneOK
    <3>3. selection = Race!Conn(d) => selection' = Race!Conn(d)
      BY <3>1, <3>2
    <3>. QED
      BY <3>1, <3>3 DEF CandidateOK
  <2>. QED
    BY <2>1, <2>2
<1>. QED
  BY <1>2, <1>4, <1>5, <1>6 DEF RaceInv

(* The steps of a task towards its end.                                    *)
LEMMA TaskMovesRace ==
    ASSUME RaceInv, NEW c \in Race!Candidates,
           \/ Race!Wake(c) \/ Race!AcquireCapacity(c) \/ Race!AcquireGlobal(c) \/ Race!Connected(c)
           \/ Race!Verify(c) \/ Race!Confirm(c) \/ Race!Finish(c)
    PROVE  RaceInv'
<1>1. CandidateOK(c) /\ WinnerOK
  BY DEF RaceInv
<1>2. PICK p, q \in Race!Active \cup {"finished"} :
          phase[c] = p /\ phase' = [phase EXCEPT ![c] = q] /\ p \in Race!Active
  BY DEF Race!Wake, Race!AcquireCapacity, Race!AcquireGlobal, Race!Connected, Race!Verify,
     Race!Confirm, Race!Finish, Race!Move, Race!Active
<1>3. phase'[c] = q
  BY <1>2 DEF RaceInv, RaceTypes
<1>4. UNCHANGED <<attempt, joined, authFailed, race, winner, halt, recoveryClosed>>
  BY DEF Race!Wake, Race!AcquireCapacity, Race!AcquireGlobal, Race!Connected, Race!Verify,
     Race!Confirm, Race!Finish, Race!halt_vars
<1>5. Race!Conn(c)' = Race!Conn(c)
  BY <1>4 DEF Race!Conn
<1>6. /\ alive' \subseteq alive \cup {Race!Conn(c)} /\ sent' \subseteq sent \cup {Race!Conn(c)}
      /\ Race!Conn(c) \in alive' \ alive => ~Race!EndpointClosed
      /\ \/ selection' = selection
         \/ selection = None /\ selection' = Race!Conn(c)
  BY DEF Race!Wake, Race!AcquireCapacity, Race!AcquireGlobal, Race!Connected, Race!Verify,
     Race!Confirm, Race!Finish
<1>7. /\ Race!Conn(c) \in alive' => q \in Race!Authenticating \cup {"finished"}
      /\ Race!Conn(c) \in sent' => q \in {"confirming", "finished"}
      /\ q \in {"confirming", "finished"} => selection' = Race!Conn(c)
      /\ winner # None => Race!Conn(c) \notin sent'
  <2>1. CASE Race!Wake(c) \/ Race!AcquireCapacity(c) \/ Race!AcquireGlobal(c)
    BY <1>1, <1>3, <2>1 DEF Race!Wake, Race!AcquireCapacity, Race!AcquireGlobal, Race!Move,
       CandidateOK, RaceInv, RaceTypes,
       Race!Authenticating
  <2>2. CASE Race!Connected(c) \/ Race!Verify(c)
    BY <1>1, <1>3, <2>2 DEF Race!Connected, Race!Verify, Race!Move, CandidateOK, RaceInv,
       RaceTypes, Race!Authenticating
  <2>3. CASE Race!Confirm(c)
    BY <1>1, <1>3, <2>3 DEF Race!Confirm, Race!Move, CandidateOK, WinnerOK, RaceInv, RaceTypes,
       Race!Authenticating
  <2>4. CASE Race!Finish(c)
    <3>1. winner # None => winner # Race!Conn(c)
      BY <1>1, <1>2, ConnInjective DEF WinnerOK, Race!Active
    <3>. QED
      BY <1>1, <1>3, <2>4, <3>1 DEF Race!Finish, Race!Move, CandidateOK, WinnerOK, RaceInv,
         RaceTypes, Race!Authenticating
  <2>. QED
    BY <2>1, <2>2, <2>3, <2>4
<1>8. phase[c] \notin Race!Failed
  BY <1>2 DEF Race!Active, Race!Failed
<1>9. CandidateOK(c)'
  BY <1>1, <1>2, <1>3, <1>4, <1>5, <1>7, <1>8 DEF CandidateOK, Race!Active, Race!Failed
<1>. QED
  BY <1>2, <1>4, <1>6, <1>9, OneCandidate DEF Race!Active, Phases

LEMMA FailuresOf ==
    ASSUME NEW p \in Phases, NEW how \in Race!Failures(p)
    PROVE  /\ p \in Race!Active /\ how \in Race!Failed
           /\ p = "confirming" => how = "failed_auth"
<1>1. CASE p \in {"capacity", "global"}
  BY <1>1 DEF Race!Failures, Race!Active, Race!Failed
<1>2. CASE p = "quic"
  BY <1>2 DEF Race!Failures, Race!Active, Race!Failed
<1>3. CASE p \in Race!Authenticating
  BY <1>3 DEF Race!Failures, Race!Active, Race!Failed, Race!Authenticating
<1>4. CASE p \notin {"capacity", "global", "quic"} \cup Race!Authenticating
  BY <1>4 DEF Race!Failures, Race!Authenticating
<1>. QED
  BY <1>1, <1>2, <1>3, <1>4 DEF Race!Authenticating

(* A task ends with nothing to show: its guard closes the connection and   *)
(* the permit, if it had it, is free again.                                *)
LEMMA TaskEndsRace ==
    ASSUME RaceInv, NEW c \in Race!Candidates,
           (\E how \in Race!Failed : Race!Fail(c, how)) \/ Race!Cancel(c)
    PROVE  RaceInv'
<1>1. CandidateOK(c) /\ WinnerOK /\ phase[c] \in Phases
  BY DEF RaceInv, RaceTypes
<1>2. PICK q \in Race!Failed \cup {"cancelled"} :
          /\ phase' = [phase EXCEPT ![c] = q]
          /\ q # "cancelled" => q \in Race!Failures(phase[c])
          /\ q = "cancelled" => /\ race \in {"cancelling", "dropped"}
                               /\ phase[c] \in Race!Active \cup {"finished"}
  BY DEF Race!Fail, Race!Cancel, Race!Failed
<1>3. /\ phase[c] \in Race!Active \cup {"finished"}
      /\ q # "cancelled" => phase[c] \in Race!Active
      /\ q # "cancelled" /\ phase[c] = "confirming" => q = "failed_auth"
  BY <1>1, <1>2, FailuresOf
<1>4. /\ UNCHANGED <<attempt, joined, authFailed, race, winner, halt, recoveryClosed, sent>>
      /\ alive' = alive \ {Race!Conn(c)}
      /\ selection' = IF selection = Race!Conn(c) THEN None ELSE selection
  BY DEF Race!Fail, Race!Cancel, Race!Unselect, Race!halt_vars
<1>5. phase'[c] = q /\ Race!Conn(c)' = Race!Conn(c)
  BY <1>2, <1>4 DEF RaceInv, RaceTypes, Race!Conn
<1>6. phase[c] \notin Race!Failed \cup {"joined", "cancelled"}
  BY <1>3 DEF Race!Active, Race!Failed
<1>7. Race!Conn(c) \in sent => q \in {"failed_auth", "cancelled"}
  <2>1. Race!Conn(c) \in sent => phase[c] \in {"confirming", "finished"}
    BY <1>1, <1>6 DEF CandidateOK, Race!Failed
  <2>2. "finished" \notin Race!Active
    BY DEF Race!Active
  <2>. QED
    BY <1>3, <2>1, <2>2
<1>8. winner # None => Race!Conn(c) \notin sent \ {winner}
  BY <1>1, <1>6 DEF CandidateOK, Race!Failed
<1>9. winner # Race!Conn(c)
  BY <1>1, <1>6, ConnInjective, ConnType, NoneOK DEF WinnerOK, RaceInv
<1>10. CandidateOK(c)'
  BY <1>1, <1>2, <1>3, <1>4, <1>5, <1>6, <1>7, <1>8, <1>9 DEF CandidateOK, Race!Active, Race!Failed
<1>. QED
  BY <1>2, <1>4, <1>6, <1>10, OneCandidate DEF Phases

LEMMA JoinFailedRace == ASSUME RaceInv, NEW c \in Race!Candidates, Race!JoinFailed(c) PROVE RaceInv'
<1>1. /\ UNCHANGED <<attempt, phase, alive, selection, sent, race, winner, halt, recoveryClosed>>
      /\ joined' = joined \cup {c} /\ phase[c] \in Race!Failed
      /\ authFailed' = (authFailed \/ phase[c] = "failed_auth")
  BY DEF Race!JoinFailed, Race!halt_vars
<1>2. RaceTypes' /\ WinnerOK' /\ HaltOK'
  BY <1>1 DEF RaceInv, RaceTypes, WinnerOK, HaltOK, Race!Conn
<1>3. ASSUME NEW d \in Race!Candidates PROVE CandidateOK(d)'
  <2>1. CandidateOK(d) /\ Race!Conn(d)' = Race!Conn(d)
    BY <1>1, <1>3 DEF RaceInv, Race!Conn
  <2>. QED
    BY <1>1, <2>1, ZenonT(60) DEF CandidateOK
<1>. QED
  BY <1>2, <1>3 DEF RaceInv

(* The candidate that the loop takes holds the permit, so every other one  *)
(* that had confirmed itself has failed.                                   *)
LEMMA JoinWinnerRace == ASSUME RaceInv, NEW c \in Race!Candidates, Race!JoinWinner(c) PROVE RaceInv'
<1>1. /\ race = "racing" /\ phase[c] = "finished" /\ race' = "cancelling"
      /\ winner' = Race!Conn(c) /\ phase' = [phase EXCEPT ![c] = "joined"]
      /\ UNCHANGED <<attempt, alive, selection, sent, joined, authFailed, halt, recoveryClosed>>
  BY DEF Race!JoinWinner, Race!halt_vars
<1>2. CandidateOK(c) /\ selection = Race!Conn(c) /\ Race!Conn(c) # None
  BY <1>1, ConnType, NoneOK DEF RaceInv, CandidateOK
<1>3. RaceTypes'
  BY <1>1 DEF RaceInv, RaceTypes, Phases, Races
<1>4. \A d \in Race!Candidates : /\ phase'[d] = IF d = c THEN "joined" ELSE phase[d]
                            /\ Race!Conn(d)' = Race!Conn(d)
  BY <1>1 DEF RaceInv, RaceTypes, Race!Conn
<1>5. WinnerOK'
  BY <1>1, <1>2, <1>4 DEF WinnerOK
<1>6. HaltOK'
  BY <1>1 DEF RaceInv, HaltOK
<1>7. ASSUME NEW d \in Race!Candidates PROVE CandidateOK(d)'
  <2>1. CASE d = c
    BY <1>1, <1>2, <1>4, <2>1 DEF CandidateOK, Race!Failed
  <2>2. CASE d # c
    <3>1. CandidateOK(d) /\ Race!Conn(d) # Race!Conn(c)
      BY <1>7, <2>2, ConnInjective DEF RaceInv
    <3>2. Race!Conn(d) \in sent => phase[d] = "failed_auth"
      BY <1>1, <1>2, <3>1 DEF CandidateOK
    <3>3. phase[d] # "joined"
      BY <1>1, <3>1 DEF CandidateOK
    <3>4. phase'[d] = phase[d] /\ Race!Conn(d)' = Race!Conn(d)
      BY <1>4, <1>7, <2>2
    <3>. QED
      BY <1>1, <3>1, <3>2, <3>3, <3>4 DEF CandidateOK
  <2>. QED
    BY <2>1, <2>2
<1>. QED
  BY <1>3, <1>5, <1>6, <1>7 DEF RaceInv

LEMMA RegisterRace == ASSUME RaceInv, NEW answer, Race!Register(answer) PROVE RaceInv'
<1>1. /\ race = "cancelling" /\ race' \in {"failed", "returned"}
      /\ \A c \in Race!Candidates : phase[c] \notin Race!Active \cup {"finished"}
      /\ UNCHANGED <<attempt, phase, sent, joined, authFailed, halt, recoveryClosed>>
      /\ \/ UNCHANGED <<alive, winner, selection>> /\ race' = "returned"
         \/ alive' = alive \ {winner} /\ winner' = None /\ selection' = None
  BY DEF Race!Register, Race!halt_vars
<1>2. RaceTypes' /\ WinnerOK' /\ HaltOK'
  BY <1>1 DEF RaceInv, RaceTypes, WinnerOK, HaltOK, Race!Conn, Races, Race!Over
<1>3. ASSUME NEW d \in Race!Candidates PROVE CandidateOK(d)'
  <2>1. CandidateOK(d) /\ Race!Conn(d)' = Race!Conn(d) /\ phase[d] # "confirming"
    BY <1>1, <1>3 DEF RaceInv, Race!Conn, Race!Active
  <2>. QED
    BY <1>1, <1>3, <2>1 DEF CandidateOK
<1>. QED
  BY <1>2, <1>3 DEF RaceInv

LEMMA NoMoreCandidatesRace == ASSUME RaceInv, Race!GiveUp \/ Race!LockEndpoints PROVE RaceInv'
<1>1. /\ race = "racing" /\ joined = Race!Candidates
      /\ race' = "failed" \/ (race' = "creating" /\ Race!Recoverable /\ halt = "running")
      /\ UNCHANGED <<attempt, phase, alive, selection, sent, joined, authFailed, winner, halt,
                     recoveryClosed>>
  BY DEF Race!GiveUp, Race!LockEndpoints, Race!AllFailed, Race!halt_vars
<1>2. RaceTypes' /\ WinnerOK' /\ HaltOK'
  BY <1>1 DEF RaceInv, RaceTypes, WinnerOK, HaltOK, Race!Conn, Race!Recoverable, Races, Race!Over
<1>3. ASSUME NEW d \in Race!Candidates PROVE CandidateOK(d)'
  <2>1. CandidateOK(d) /\ Race!Conn(d)' = Race!Conn(d) /\ d \in joined
    BY <1>1, <1>3 DEF RaceInv, Race!Conn
  <2>2. phase[d] \in Race!Failed /\ phase[d] \notin Race!Active \cup {"finished"}
    BY <2>1 DEF CandidateOK, Race!Failed, Race!Active
  <2>3. race' = "creating" => phase[d] # "failed_auth"
    BY <1>1, <2>1 DEF CandidateOK, Race!Recoverable
  <2>. QED
    BY <1>1, <2>1, <2>2, <2>3 DEF CandidateOK
<1>. QED
  BY <1>2, <1>3 DEF RaceInv

LEMMA RecoveryFailsRace == ASSUME RaceInv, Race!RecoveryFails PROVE RaceInv'
<1>1. /\ race = "creating" /\ race' = "failed"
      /\ UNCHANGED <<attempt, phase, alive, selection, sent, joined, authFailed, winner, halt,
                     recoveryClosed>>
  BY DEF Race!RecoveryFails, Race!halt_vars
<1>2. RaceTypes' /\ WinnerOK' /\ HaltOK'
  BY <1>1 DEF RaceInv, RaceTypes, WinnerOK, HaltOK, Race!Conn, Races, Race!Over
<1>3. ASSUME NEW d \in Race!Candidates PROVE CandidateOK(d)'
  <2>1. CandidateOK(d) /\ Race!Conn(d)' = Race!Conn(d)
    BY <1>1, <1>3 DEF RaceInv, Race!Conn
  <2>2. phase[d] \in Race!Failed /\ phase[d] \notin Race!Active \cup {"finished"}
    BY <1>1, <2>1 DEF CandidateOK, Race!Failed, Race!Active
  <2>. QED
    BY <1>1, <2>1, <2>2 DEF CandidateOK
<1>. QED
  BY <1>2, <1>3 DEF RaceInv

(* Nothing of the first race is left when the second one starts.           *)
LEMMA StartRecoveryRace == ASSUME RaceInv, Race!StartRecovery PROVE RaceInv'
<1>1. /\ race = "creating" /\ race' = "racing" /\ attempt' = 2 /\ phase' = Race!Asleep /\ joined' = {}
      /\ UNCHANGED <<alive, selection, sent, authFailed, winner, halt, recoveryClosed>>
  BY DEF Race!StartRecovery, Race!halt_vars
<1>2. attempt = 1 /\ halt # "down" /\ winner = None
  BY <1>1 DEF RaceInv, HaltOK, WinnerOK
<1>3. ASSUME NEW x \in alive \cup sent PROVE FALSE
  <2>1. x \in Race!Connections /\ x[1] = attempt
    BY <1>3 DEF RaceInv, RaceTypes
  <2>2. PICK c \in Race!Candidates : x = Race!Conn(c)
    BY <2>1, SMTT(30) DEF Race!Connections, Race!Conn
  <2>3. CandidateOK(c) /\ phase[c] \in Race!Failed \ {"failed_auth"}
    BY <1>1, <2>2 DEF RaceInv, CandidateOK
  <2>. QED
    BY <1>3, <2>2, <2>3 DEF CandidateOK, Race!Failed, Race!Authenticating
<1>4. alive = {} /\ sent = {}
  BY <1>3
<1>5. RaceTypes'
  BY <1>1, <1>4 DEF RaceTypes, Race!Asleep, Race!Attempts, Phases, Race!Active, Races
<1>6. WinnerOK' /\ HaltOK'
  BY <1>1, <1>2, <1>4 DEF RaceInv, WinnerOK, HaltOK
<1>7. \A d \in Race!Candidates : CandidateOK(d)'
  BY <1>1, <1>2, <1>4 DEF CandidateOK, Race!Asleep
<1>. QED
  BY <1>5, <1>6, <1>7 DEF RaceInv

LEMMA DropCallRace == ASSUME RaceInv, Race!DropCall PROVE RaceInv'
<1>1. /\ race' = "dropped" /\ winner' = None /\ alive' = alive \ {winner}
      /\ selection' = IF winner = None THEN selection ELSE None
      /\ UNCHANGED <<attempt, phase, sent, joined, authFailed, halt, recoveryClosed>>
  BY DEF Race!DropCall, Race!halt_vars
<1>2. RaceTypes' /\ WinnerOK' /\ HaltOK'
  BY <1>1 DEF RaceInv, RaceTypes, WinnerOK, HaltOK, Races, Race!Over
<1>3. ASSUME NEW d \in Race!Candidates PROVE CandidateOK(d)'
  <2>1. CandidateOK(d) /\ Race!Conn(d)' = Race!Conn(d)
    BY <1>1, <1>3 DEF RaceInv, Race!Conn
  <2>2. phase[d] \in {"confirming", "finished"} => winner = None
    BY <1>3, <2>1, ConnInjective DEF RaceInv, WinnerOK, CandidateOK
  <2>. QED
    BY <1>1, <2>1, <2>2 DEF CandidateOK
<1>. QED
  BY <1>2, <1>3 DEF RaceInv

(* The peer and shutdown only close connections.                           *)
LEMMA CloseRace ==
    ASSUME RaceInv, UNCHANGED Race!race_vars, alive' \subseteq alive, HaltOK'
    PROVE  RaceInv'
<1>1. RaceTypes' /\ WinnerOK'
  BY DEF RaceInv, RaceTypes, WinnerOK, Race!race_vars, Race!Conn
<1>2. \A d \in Race!Candidates : CandidateOK(d)'
  BY DEF RaceInv, CandidateOK, Race!race_vars, Race!Conn
<1>. QED
  BY <1>1, <1>2 DEF RaceInv

LEMMA PeerAndShutdownRace ==
    ASSUME RaceInv, \/ \E x \in Race!Connections : Race!PeerRegisters(x) \/ Race!PeerCloseArrives(x)
                 \/ Race!Stop \/ Race!CloseListener \/ Race!CloseListed \/ UNCHANGED Race!vars
    PROVE  RaceInv'
<1>1. HaltOK /\ RaceTypes
  BY DEF RaceInv
<1>2. ASSUME NEW x \in Race!Connections, Race!PeerRegisters(x) \/ Race!PeerCloseArrives(x) PROVE RaceInv'
  <2>1. UNCHANGED <<Race!race_vars, Race!halt_vars>> /\ alive' \subseteq alive
    BY <1>2 DEF Race!PeerRegisters, Race!PeerCloseArrives
  <2>2. HaltOK'
    BY <1>1, <2>1 DEF HaltOK, Race!race_vars, Race!halt_vars
  <2>. QED
    BY <2>1, <2>2, CloseRace
<1>3. CASE Race!Stop
  <2>1. HaltOK'
    BY <1>1, <1>3 DEF HaltOK, Race!Stop, Race!race_vars
  <2>. QED
    BY <1>3, <2>1, CloseRace DEF Race!Stop
<1>4. CASE Race!CloseListener
  <2>1. alive' \subseteq alive /\ (attempt = 1 => alive' = {})
    BY <1>1, <1>4 DEF Race!CloseListener, RaceTypes
  <2>2. HaltOK'
    BY <1>1, <1>4, <2>1 DEF HaltOK, Race!CloseListener, Race!race_vars
  <2>. QED
    BY <1>4, <2>1, <2>2, CloseRace DEF Race!CloseListener
<1>5. CASE Race!CloseListed
  <2>1. /\ UNCHANGED Race!race_vars /\ race # "creating" /\ halt = "listener" /\ halt' = "down"
        /\ recoveryClosed' = (attempt = 2 /\ race \in {"racing", "cancelling", "returned"})
        /\ alive' = IF recoveryClosed' THEN {} ELSE alive
    BY <1>5 DEF Race!CloseListed
  <2>2. race \in {"racing", "cancelling", "returned", "failed", "dropped"} => HaltOK'
    BY <1>1, <2>1 DEF HaltOK, Race!race_vars
  <2>. QED
    BY <2>1, <2>2, CloseRace DEF RaceInv, RaceTypes, Races, Race!Over
<1>6. CASE UNCHANGED Race!vars
  <2>1. HaltOK'
    BY <1>1, <1>6 DEF HaltOK, Race!vars, Race!race_vars, Race!halt_vars
  <2>. QED
    BY <1>6, <2>1, CloseRace DEF Race!vars
<1>. QED
  BY <1>2, <1>3, <1>4, <1>5, <1>6

LEMMA NextRace == ASSUME RaceInv, [Race!Next]_(Race!vars) PROVE RaceInv'
<1>1. ASSUME NEW c \in Race!Candidates, Race!CandidateStep(c) \/ Race!Cancel(c) PROVE RaceInv'
  BY <1>1, TaskMovesRace, TaskEndsRace DEF Race!CandidateStep
<1>2. CASE Race!CallStep
  BY <1>2, JoinFailedRace, JoinWinnerRace, RegisterRace, NoMoreCandidatesRace, RecoveryFailsRace,
     StartRecoveryRace DEF Race!CallStep
<1>. QED
  BY <1>1, <1>2, DropCallRace, PeerAndShutdownRace DEF Race!Next

LEMMA RaceFollows ==
    ASSUME RaceInv
    PROVE  /\ NoRivalOfTheWinner /\ NoCandidateLeftBehind
           /\ RecoveryStartsClean /\ ShutdownClosesTheRace
<1>1. \A x \in alive : \E c \in Race!Candidates : x = Race!Conn(c) /\ CandidateOK(c)
  <2> SUFFICES ASSUME NEW x \in alive PROVE \E c \in Race!Candidates : x = Race!Conn(c)
    BY DEF RaceInv
  <2>. QED
    BY SMTT(30) DEF RaceInv, RaceTypes, Race!Connections, Race!Conn
<1>2. NoRivalOfTheWinner
  BY DEF RaceInv, CandidateOK, NoRivalOfTheWinner, Race!NoRivalOfTheWinner
<1>3. NoCandidateLeftBehind
  <2>1. ASSUME race \in {"returned", "failed"}, NEW x \in alive PROVE x = winner
    BY <1>1, <2>1 DEF CandidateOK, Race!Authenticating, Race!Active
  <2>2. ASSUME race = "dropped", NEW x \in alive
        PROVE  \E c \in Race!Candidates : x = Race!Conn(c) /\ phase[c] \in Race!Authenticating \cup {"finished"}
    <3>1. PICK c \in Race!Candidates : x = Race!Conn(c) /\ CandidateOK(c)
      BY <1>1, <2>2
    <3>2. winner # Race!Conn(c)
      BY <2>2, ConnType, NoneOK DEF RaceInv, WinnerOK
    <3>. QED
      BY <2>2, <3>1, <3>2 DEF CandidateOK
  <2>. QED
    BY <2>1, <2>2 DEF NoCandidateLeftBehind, Race!NoCandidateLeftBehind
<1>4. RecoveryStartsClean
  BY DEF RaceInv, RaceTypes, RecoveryStartsClean, Race!RecoveryStartsClean
<1>5. ShutdownClosesTheRace
  <2>1. race = "failed" => alive = {}
    <3>1. race = "failed" => winner = None
      BY DEF RaceInv, WinnerOK
    <3>. QED
      BY <1>1, <3>1, ConnType, NoneOK, SMTT(30) DEF CandidateOK, Race!Authenticating, Race!Active, RaceInv
  <2>. QED
    BY <2>1 DEF RaceInv, HaltOK, RaceTypes, Race!Attempts, ShutdownClosesTheRace,
       Race!ShutdownClosesTheRace
<1>. QED
  BY <1>2, <1>3, <1>4, <1>5

-----------------------------------------------------------------------------
LEMMA RaceInvariant == Race!Spec => []RaceInv
<1>1. RaceInv /\ [Race!Next]_(Race!vars) => RaceInv'
  BY NextRace
<1>. QED
  BY InitRace, <1>1, PTL DEF Race!Spec

(* With any number of candidates, only the winner of the race confirms     *)
(* itself to the peer, apart from candidates that fail after they did.     *)
THEOREM WinnerHasNoRival == RaceSpec => []NoRivalOfTheWinner
<1>1. RaceInv => NoRivalOfTheWinner
  BY RaceFollows
<1>. QED
  BY <1>1, RaceInvariant, PTL DEF RaceSpec

(* Returned, failed or dropped, race_endpoints leaves no candidate         *)
(* connection open but the one it returned.                                *)
THEOREM NothingLeftBehind == RaceSpec => []NoCandidateLeftBehind
<1>1. RaceInv => NoCandidateLeftBehind
  BY RaceFollows
<1>. QED
  BY <1>1, RaceInvariant, PTL DEF RaceSpec

(* The second race never meets a connection of the first, open or          *)
(* confirmed to the peer.                                                  *)
THEOREM RecoveryIsClean == RaceSpec => []RecoveryStartsClean
<1>1. RaceInv => RecoveryStartsClean
  BY RaceFollows
<1>. QED
  BY <1>1, RaceInvariant, PTL DEF RaceSpec

(* shutdown leaves no connection of a race open, wherever it meets it.     *)
THEOREM ShutdownEndsTheRace == RaceSpec => []ShutdownClosesTheRace
<1>1. RaceInv => ShutdownClosesTheRace
  BY RaceFollows
<1>. QED
  BY <1>1, RaceInvariant, PTL DEF RaceSpec
=============================================================================
