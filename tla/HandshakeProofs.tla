---------------------------- MODULE HandshakeProofs ----------------------------
(***************************************************************************)
(* Proofs about the authentication exchange, for any number of connections *)
(* and permits, any releases and any pairings.                             *)
(***************************************************************************)
EXTENDS Handshake, FiniteSetTheorems, TLAPS

(* The provers of a leaf that names none, and their seconds. A leaf that   *)
(* needs arithmetic, functions or records names SMT.                       *)
USE ZenonT(30), SMTT(30)

(* Types of what the exchange reads and writes; the permits come later.    *)
TypeInv ==
    /\ paired \subseteq Nodes /\ shown \subseteq Nodes
    /\ range \in [Nodes -> Ranges]
    /\ dialed \in 0..MaxConns
    /\ route \in [Conns -> [from : Nodes, to : Nodes, kind : Kinds]]
    /\ stage \in [Conns -> [Ends -> Stages]]
    /\ sent \in [Conns -> [Ends -> 0..3]]
    /\ minor \in [Conns -> [Ends -> 0..MaxMinor]]

(* What an end that has answered the hello knows.                          *)
Passed(c, e) == ~HelloFails(c, e) /\ minor[c][e] = MinorOf(c, e)

(* How far an end has come, and what it has checked before each message it *)
(* has sent.  The messages outlive the stage: an end that failed later has *)
(* sent them all the same.                                                 *)
ConsentAt(c, e) ==
    /\ c > dialed => stage[c][e] = "none"
    /\ stage[c][e] \in {"none", "waiting", "connecting"} => sent[c][e] = 0
    /\ stage[c][e] = "hello" => sent[c][e] <= 1
    /\ stage[c][e] = "auth" => sent[c][e] = 2
    /\ stage[c][e] \in {"accepted", "done", "closed"} => sent[c][e] = 3
    /\ sent[c][e] >= 2 => Passed(c, e)
    /\ sent[c][e] >= 3 => MayBePaired(c, e)
    /\ stage[c][e] \in {"done", "closed"} =>
           sent[c][Opposite(e)] = 3 /\ minor[c]["dialer"] = minor[c]["acceptor"]

IInv == TypeInv /\ \A c \in Conns, e \in Ends : ConsentAt(c, e)

LEMMA InitIInv == Init => IInv
<1> SUFFICES ASSUME Init PROVE IInv
  OBVIOUS
<1>1. TypeInv
  BY HandshakeConstantsOK, SMTT(30) DEF Init, TypeInv, Nodes, Ranges, Conns, Ends, Kinds, Stages, Ended, Gone, NoRoute
<1>2. \A c \in Conns, e \in Ends : ConsentAt(c, e)
  BY SMTT(30) DEF Init, ConsentAt, Conns, Ends, Ended
<1>. QED
  BY <1>1, <1>2 DEF IInv

(* Both ends choose the same version, since they compare the same ranges.  *)
LEMMA MinorAgrees ==
    ASSUME TypeInv, NEW c \in Conns
    PROVE  /\ MinorOf(c, "dialer") = MinorOf(c, "acceptor")
           /\ \A e \in Ends : MinorOf(c, e) \in 0..MaxMinor
<1> DEFINE a == range[route[c].from]
           b == range[route[c].to]
<1>1. a \in Ranges /\ b \in Ranges
  BY DEF TypeInv
<1>2. a.max \in 0..MaxMinor /\ b.max \in 0..MaxMinor
  BY <1>1 DEF Ranges
<1>3. MinorOf(c, "dialer") = Least(a.max, b.max) /\ MinorOf(c, "acceptor") = Least(b.max, a.max)
  BY DEF MinorOf, Negotiated, Node, Opposite
<1> HIDE DEF a, b
<1>. QED
  BY <1>2, <1>3, HandshakeConstantsOK, SMTT(30) DEF Least, Ends

(* A connection that a step leaves alone keeps what its ends know.         *)
LEMMA Untouched ==
    ASSUME NEW d \in Conns, NEW e \in Ends, TypeInv, TypeInv', ConsentAt(d, e),
           UNCHANGED config, dialed' >= dialed,
           route'[d] = route[d], stage'[d] = stage[d], sent'[d] = sent[d], minor'[d] = minor[d]
    PROVE  ConsentAt(d, e)'
<1>1. HelloFails(d, e)' = HelloFails(d, e) /\ MinorOf(d, e)' = MinorOf(d, e)
      /\ MayBePaired(d, e)' = MayBePaired(d, e)
  BY DEF HelloFails, MinorOf, MayBePaired, ValidHello, Admitted, Negotiated, Node, config
<1>2. Passed(d, e)' = Passed(d, e)
  BY <1>1 DEF Passed
<1>3. d > dialed' => d > dialed
  BY HandshakeConstantsOK, SMTT(30) DEF TypeInv, Conns
<1>. QED
  BY <1>1, <1>2, <1>3 DEF ConsentAt

(* The checks of a connection are the same before and after a step that    *)
(* changes neither its route nor the configuration.                        *)
LEMMA SameChecks ==
    ASSUME NEW d \in Conns, NEW e \in Ends, UNCHANGED config, route'[d] = route[d]
    PROVE  /\ HelloFails(d, e)' = HelloFails(d, e)
           /\ MinorOf(d, e)' = MinorOf(d, e)
           /\ MayBePaired(d, e)' = MayBePaired(d, e)
  BY DEF HelloFails, MinorOf, MayBePaired, ValidHello, Admitted, Negotiated, Node, config

(* So a step of one connection has only its own two ends to look after.    *)
LEMMA OneConnection ==
    ASSUME NEW c \in Conns, IInv, TypeInv', UNCHANGED config, dialed' >= dialed,
           \A d \in Conns \ {c} : /\ route'[d] = route[d] /\ stage'[d] = stage[d]
                                 /\ sent'[d] = sent[d] /\ minor'[d] = minor[d],
           ConsentAt(c, "dialer")', ConsentAt(c, "acceptor")'
    PROVE  IInv'
<1>1. \A d \in Conns, e \in Ends : ConsentAt(d, e)'
  <2> TAKE d \in Conns, e \in Ends
  <2>1. CASE d = c
    BY <2>1 DEF Ends
  <2>2. CASE d # c
    BY <2>2, Untouched DEF IInv
  <2>. QED
    BY <2>1, <2>2
<1>. QED
  BY <1>1 DEF IInv

(* One end reads a message or gives up, and may send its next message: it  *)
(* keeps the invariant if it has done the checks of what it has sent.      *)
LEMMA EndStep ==
    ASSUME NEW c \in Conns, NEW e \in Ends, NEW k \in 0..3,
           NEW s \in {"accepted", "done"} \cup Gone,
           IInv, c <= dialed, UNCHANGED <<config, dialed, route, minor>>,
           stage' = [stage EXCEPT ![c][e] = s],
           sent' = [sent EXCEPT ![c][e] = k], k >= sent[c][e],
           k >= 2 => Passed(c, e),
           k >= 3 => MayBePaired(c, e),
           s \notin {"failed", "expired"} => k = 3,
           s \in {"done", "closed"} =>
               sent[c][Opposite(e)] = 3 /\ minor[c]["dialer"] = minor[c]["acceptor"]
    PROVE  IInv'
<1>1. TypeInv'
  BY DEF IInv, TypeInv, config, Stages, Ended, Gone
<1>2. \A x \in Ends : ConsentAt(c, x)'
  <2> TAKE x \in Ends
  <2>1. Passed(c, x)' = Passed(c, x) /\ MayBePaired(c, x)' = MayBePaired(c, x)
    BY SameChecks DEF Passed
  <2>2. /\ stage'[c][x] = IF x = e THEN s ELSE stage[c][x]
        /\ sent'[c][x] = IF x = e THEN k ELSE sent[c][x]
        /\ sent'[c][Opposite(x)] = IF Opposite(x) = e THEN k ELSE sent[c][Opposite(x)]
    BY DEF IInv, TypeInv, Ends, Opposite
  <2>3. ConsentAt(c, x) /\ sent[c][x] \in 0..3 /\ sent[c][e] \in 0..3
    BY DEF IInv, TypeInv
  <2>4. CASE x = e
    <3>1. ~(c > dialed')
      BY HandshakeConstantsOK, SMTT(30) DEF IInv, TypeInv, Conns
    <3>2. (k >= 2 => Passed(c, x)') /\ (k >= 3 => MayBePaired(c, x)')
      BY <2>1, <2>4
    <3>3. Opposite(x) # e
      BY <2>4 DEF Opposite, Ends
    <3>. QED
      BY <2>2, <2>4, <3>1, <3>2, <3>3 DEF ConsentAt, Gone
  <2>5. CASE x # e
    <3>1. Opposite(x) = e
      BY <2>5 DEF Opposite, Ends
    <3>. QED
      BY <2>1, <2>2, <2>3, <2>5, <3>1, SMTT(30) DEF ConsentAt
  <2>. QED
    BY <2>4, <2>5
<1>3. \A d \in Conns \ {c} : stage'[d] = stage[d] /\ sent'[d] = sent[d]
  BY DEF IInv, TypeInv
<1>4. dialed' >= dialed
  BY HandshakeConstantsOK, SMTT(30) DEF IInv, TypeInv
<1>. QED
  BY <1>1, <1>2, <1>3, <1>4, OneConnection DEF Ends

(* A connection with an end under way has been dialled.                    *)
LEMMA Dialed ==
    ASSUME IInv, NEW c \in Conns, NEW e \in Ends, stage[c][e] # "none"
    PROVE  c <= dialed
  BY HandshakeConstantsOK, SMTT(30) DEF IInv, TypeInv, ConsentAt, Conns

(* An end that gives up sends nothing more.                                *)
LEMMA EndFails ==
    ASSUME NEW c \in Conns, NEW e \in Ends, IInv, stage[c][e] # "none",
           UNCHANGED <<config, dialed, route, minor, sent>>,
           NEW s \in {"failed", "expired"}, stage' = [stage EXCEPT ![c][e] = s]
    PROVE  IInv'
<1>1. sent' = [sent EXCEPT ![c][e] = sent[c][e]] /\ sent[c][e] \in 0..3
  BY DEF IInv, TypeInv
<1>2. ConsentAt(c, e) /\ c <= dialed
  BY Dialed DEF IInv
<1>3. /\ sent[c][e] >= sent[c][e]
      /\ sent[c][e] >= 2 => Passed(c, e)
      /\ sent[c][e] >= 3 => MayBePaired(c, e)
  BY <1>1, <1>2, SMTT(30) DEF ConsentAt
<1>. QED
  BY <1>1, <1>2, <1>3, EndStep DEF Ends, Gone

LEMMA DialIInv ==
    ASSUME IInv, NEW c \in Conns, NEW from \in Nodes, NEW to \in Nodes, NEW kind \in Kinds,
           Dial(c, from, to, kind)
    PROVE  IInv'
<1>1. TypeInv'
  <2>1. dialed' \in 0..MaxConns
    BY HandshakeConstantsOK, SMTT(30) DEF IInv, TypeInv, Dial, Conns
  <2>2. route' \in [Conns -> [from : Nodes, to : Nodes, kind : Kinds]]
    BY DEF IInv, TypeInv, Dial
  <2>3. stage' \in [Conns -> [Ends -> Stages]]
    BY DEF IInv, TypeInv, Dial, Ends, Stages
  <2>. QED
    BY <2>1, <2>2, <2>3 DEF IInv, TypeInv, Dial, config
<1>2. c > dialed /\ dialed' >= dialed /\ ~(c > dialed')
  BY HandshakeConstantsOK, SMTT(30) DEF IInv, TypeInv, Dial, Conns
<1>3. \A x \in Ends : stage[c][x] = "none" /\ sent[c][x] = 0
  BY <1>2 DEF IInv, ConsentAt
<1>4. \A x \in Ends : sent'[c][x] = 0 /\ stage'[c][x] \in {"none", "waiting", "connecting"}
  BY <1>3 DEF IInv, TypeInv, Dial, Ends
<1>5. \A x \in Ends : ConsentAt(c, x)'
  BY <1>2, <1>4, SMTT(30) DEF ConsentAt
<1>6. \A d \in Conns \ {c} : /\ route'[d] = route[d] /\ stage'[d] = stage[d]
                            /\ sent'[d] = sent[d] /\ minor'[d] = minor[d]
  BY DEF IInv, TypeInv, Dial
<1>. QED
  BY <1>1, <1>2, <1>5, <1>6, OneConnection DEF Dial, Ends

LEMMA AcquireIInv == ASSUME IInv, NEW c \in Conns, Acquire(c) PROVE IInv'
<1>1. TypeInv'
  BY DEF IInv, TypeInv, Acquire, config, Ends, Stages, Ended, Gone
<1>2. c <= dialed /\ dialed' >= dialed
  BY Dialed, HandshakeConstantsOK, SMTT(30) DEF IInv, TypeInv, Acquire, Ends
<1>3. \A x \in Ends : ConsentAt(c, x)'
  <2> TAKE x \in Ends
  <2>1. Passed(c, x)' = Passed(c, x) /\ MayBePaired(c, x)' = MayBePaired(c, x)
    BY SameChecks DEF Passed, Acquire
  <2>2. stage'[c][x] = IF x = "dialer" THEN "connecting" ELSE stage[c][x]
    BY DEF IInv, TypeInv, Acquire, Ends
  <2>3. ConsentAt(c, x)
    BY DEF IInv
  <2>4. stage[c]["dialer"] = "waiting" /\ sent' = sent /\ minor' = minor /\ dialed' = dialed
    BY DEF Acquire
  <2>. QED
    BY <2>1, <2>2, <2>3, <2>4 DEF ConsentAt
<1>4. \A d \in Conns \ {c} : /\ route'[d] = route[d] /\ stage'[d] = stage[d]
                            /\ sent'[d] = sent[d] /\ minor'[d] = minor[d]
  BY DEF IInv, TypeInv, Acquire
<1>. QED
  BY <1>1, <1>2, <1>3, <1>4, OneConnection DEF Acquire, Ends

LEMMA AcceptIInv ==
    ASSUME IInv, NEW c \in Conns, Accept(c) \/ AcceptWrongDevice(c)
    PROVE  IInv'
<1>1. /\ stage[c]["dialer"] = "connecting" /\ stage[c]["acceptor"] = "none"
      /\ dialed' = dialed /\ route' = route /\ minor' = minor /\ UNCHANGED config
  BY DEF Accept, AcceptWrongDevice, Arriving
<1>2. \A x \in Ends : sent[c][x] = 0
  BY <1>1 DEF IInv, ConsentAt, Ends
<1>3. TypeInv'
  <2>1. PICK both \in [Ends -> {"hello", "failed"}] : stage' = [stage EXCEPT ![c] = both]
    BY DEF Accept, AcceptWrongDevice
  <2>2. both \in [Ends -> Stages]
    BY DEF Stages, Ended, Gone
  <2>3. stage' \in [Conns -> [Ends -> Stages]]
    BY <2>1, <2>2 DEF IInv, TypeInv
  <2>4. sent' = sent \/ sent' = [sent EXCEPT ![c]["dialer"] = 1]
    BY DEF Accept, AcceptWrongDevice, Send
  <2>5. sent \in [Conns -> [Ends -> 0..3]] /\ 1 \in 0..3
    BY SMTT(30) DEF IInv, TypeInv
  <2>6. ASSUME sent' = [sent EXCEPT ![c]["dialer"] = 1]
        PROVE  sent' \in [Conns -> [Ends -> 0..3]]
    BY <2>5, <2>6
  <2>7. sent' \in [Conns -> [Ends -> 0..3]]
    BY <2>4, <2>5, <2>6
  <2>. QED
    BY <1>1, <2>3, <2>7 DEF IInv, TypeInv, config
<1>4. c <= dialed /\ dialed' >= dialed /\ ~(c > dialed')
  BY <1>1, Dialed, HandshakeConstantsOK, SMTT(30) DEF IInv, TypeInv, Ends, Conns
<1>5. \A x \in Ends : stage'[c][x] \in {"hello", "failed"} /\ sent'[c][x] \in {0, 1}
  BY <1>2, SMTT(30) DEF IInv, TypeInv, Accept, AcceptWrongDevice, Send, Ends
<1>6. \A x \in Ends : ConsentAt(c, x)'
  BY <1>4, <1>5, SMTT(30) DEF ConsentAt
<1>7. \A d \in Conns \ {c} : /\ route'[d] = route[d] /\ stage'[d] = stage[d]
                            /\ sent'[d] = sent[d] /\ minor'[d] = minor[d]
  BY <1>1 DEF IInv, TypeInv, Accept, AcceptWrongDevice, Send
<1>. QED
  BY <1>1, <1>3, <1>4, <1>6, <1>7, OneConnection DEF Ends

LEMMA ReadHelloIInv ==
    ASSUME IInv, NEW c \in Conns, NEW e \in Ends, ReadHello(c, e)
    PROVE  IInv'
<1>1. /\ stage[c][e] = "hello" /\ ~HelloFails(c, e)
      /\ dialed' = dialed /\ route' = route /\ UNCHANGED config
      /\ stage' = [stage EXCEPT ![c][e] = "auth"]
      /\ sent' = [sent EXCEPT ![c][e] = 2]
      /\ minor' = [minor EXCEPT ![c][e] = MinorOf(c, e)]
  BY DEF ReadHello, Send
<1>2. TypeInv'
  BY <1>1, MinorAgrees, SMTT(30) DEF IInv, TypeInv, config, Stages, Ended
<1>3. c <= dialed /\ dialed' >= dialed /\ ~(c > dialed')
  BY <1>1, Dialed, HandshakeConstantsOK, SMTT(30) DEF IInv, TypeInv, Conns
<1>4. \A x \in Ends : ConsentAt(c, x)'
  <2> TAKE x \in Ends
  <2>1. /\ HelloFails(c, x)' = HelloFails(c, x) /\ MinorOf(c, x)' = MinorOf(c, x)
        /\ MayBePaired(c, x)' = MayBePaired(c, x)
    BY <1>1, SameChecks
  <2>2. /\ stage'[c][x] = IF x = e THEN "auth" ELSE stage[c][x]
        /\ sent'[c][x] = IF x = e THEN 2 ELSE sent[c][x]
        /\ minor'[c][x] = IF x = e THEN MinorOf(c, e) ELSE minor[c][x]
    BY <1>1 DEF IInv, TypeInv
  <2>3. CASE x = e
    <3>1. Passed(c, x)'
      BY <1>1, <2>1, <2>2, <2>3 DEF Passed
    <3>. QED
      BY <1>3, <2>2, <2>3, <3>1, SMTT(30) DEF ConsentAt
  <2>4. CASE x # e
    <3>1. ConsentAt(c, x) /\ ConsentAt(c, e) /\ Opposite(x) = e /\ sent[c][e] \in 0..3
      BY <2>4, SMTT(30) DEF IInv, TypeInv, Opposite, Ends
    <3>2. sent[c][e] <= 1 /\ stage[c][x] \notin {"done", "closed"}
      BY <1>1, <3>1, SMTT(30) DEF ConsentAt
    <3>3. Passed(c, x)' = Passed(c, x)
      BY <2>1, <2>2, <2>4 DEF Passed
    <3>. QED
      BY <1>3, <2>1, <2>2, <2>4, <3>1, <3>2, <3>3 DEF ConsentAt
  <2>. QED
    BY <2>3, <2>4
<1>5. \A d \in Conns \ {c} : /\ route'[d] = route[d] /\ stage'[d] = stage[d]
                            /\ sent'[d] = sent[d] /\ minor'[d] = minor[d]
  BY <1>1 DEF IInv, TypeInv
<1>. QED
  BY <1>1, <1>2, <1>3, <1>4, <1>5, OneConnection DEF Ends

LEMMA RejectHelloIInv ==
    ASSUME IInv, NEW c \in Conns, NEW e \in Ends, RejectHello(c, e)
    PROVE  IInv'
<1>1. /\ stage[c][e] = "hello" /\ stage' = [stage EXCEPT ![c][e] = "failed"]
      /\ UNCHANGED <<config, dialed, route, minor>>
      /\ sent' = sent \/ sent' = [sent EXCEPT ![c][e] = 1]
  BY DEF RejectHello, Goto
<1>2. CASE sent' = sent
  BY <1>1, <1>2, EndFails, ZenonT(60)
<1>3. CASE sent' = [sent EXCEPT ![c][e] = 1]
  <2>1. sent[c][e] \in 0..3 /\ sent[c][e] <= 1 /\ c <= dialed
    BY <1>1, Dialed, SMTT(30) DEF IInv, TypeInv, ConsentAt
  <2>2. 1 >= sent[c][e] /\ ~(1 >= 2) /\ ~(1 >= 3) /\ 1 \in 0..3
    BY <2>1, SMTT(30)
  <2>. QED
    BY <1>1, <1>3, <2>1, <2>2, EndStep DEF Gone
<1>. QED
  BY <1>1, <1>2, <1>3

(* ReadAuth sends the acceptance only after require_paired.                *)
LEMMA ReadAuthIInv ==
    ASSUME IInv, NEW c \in Conns, NEW e \in Ends, ReadAuth(c, e)
    PROVE  IInv'
<1>1. stage[c][e] = "auth" /\ UNCHANGED <<config, dialed, route, minor>>
  BY DEF ReadAuth
<1>2. CASE MayBePaired(c, e)
  <2>1. stage' = [stage EXCEPT ![c][e] = "accepted"] /\ sent' = [sent EXCEPT ![c][e] = 3]
    BY <1>2 DEF ReadAuth, Goto, Send
  <2>2. sent[c][e] = 2 /\ c <= dialed /\ Passed(c, e)
    BY <1>1, Dialed, SMTT(30) DEF IInv, ConsentAt
  <2>3. 3 >= sent[c][e] /\ 3 \in 0..3
    BY <2>2, SMTT(30)
  <2>. QED
    BY <1>1, <1>2, <2>1, <2>2, <2>3, EndStep, ZenonT(60)
<1>3. CASE ~MayBePaired(c, e)
  <2>1. stage' = [stage EXCEPT ![c][e] = "failed"] /\ sent' = sent
    BY <1>3 DEF ReadAuth, Goto
  <2>. QED
    BY <1>1, <2>1, EndFails
<1>. QED
  BY <1>2, <1>3

(* ReadAccepted and CloseFinished finish an end whose peer has sent it all.   *)
LEMMA FinishIInv ==
    ASSUME IInv, NEW c \in Conns, NEW e \in Ends, ReadAccepted(c, e) \/ CloseFinished(c, e)
    PROVE  IInv'
<1>1. /\ stage[c][e] \in {"accepted", "done"}
      /\ UNCHANGED <<config, dialed, route, minor, sent>>
  BY DEF ReadAccepted, CloseFinished
<1>2. ConsentAt(c, e) /\ sent[c][Opposite(e)] \in 0..3
  BY SMTT(30) DEF IInv, TypeInv, Opposite, Ends
<1>3. CASE stage' = [stage EXCEPT ![c][e] = "failed"]
  BY <1>1, <1>3, EndFails
<1>4. ASSUME NEW s \in {"done", "closed"}, stage' = [stage EXCEPT ![c][e] = s],
             Received(c, e, 3) \/ stage[c][e] = "done",
             minor[c]["dialer"] = minor[c]["acceptor"]
      PROVE  IInv'
  <2>1. sent[c][Opposite(e)] = 3
    BY <1>2, <1>4, SMTT(30) DEF ConsentAt, Received
  <2>2. sent[c][e] = 3 /\ c <= dialed /\ Passed(c, e) /\ MayBePaired(c, e)
    BY <1>1, <1>2, Dialed, SMTT(30) DEF ConsentAt
  <2>3. sent' = [sent EXCEPT ![c][e] = 3] /\ 3 >= sent[c][e] /\ 3 \in 0..3
    BY <1>1, <2>2, SMTT(30) DEF IInv, TypeInv
  <2>. QED
    BY <1>1, <1>4, <2>1, <2>2, <2>3, EndStep, ZenonT(60) DEF Gone
<1>5. CASE ReadAccepted(c, e)
  BY <1>3, <1>4, <1>5 DEF ReadAccepted, Goto
<1>6. CASE CloseFinished(c, e)
  <2>1. minor[c]["dialer"] = minor[c]["acceptor"]
    BY <1>2, <1>6 DEF ConsentAt, CloseFinished
  <2>. QED
    BY <1>4, <1>6, <2>1 DEF CloseFinished, Goto
<1>. QED
  BY <1>5, <1>6

LEMMA NextIInv == IInv /\ [Next]_vars => IInv'
<1> SUFFICES ASSUME IInv, [Next]_vars PROVE IInv'
  OBVIOUS
<1>1. ASSUME NEW c \in Conns, NEW from \in Nodes, NEW to \in Nodes, NEW kind \in Kinds,
             Dial(c, from, to, kind)
      PROVE  IInv'
  BY <1>1, DialIInv
<1>2. ASSUME NEW c \in Conns, Acquire(c) PROVE IInv'
  BY <1>2, AcquireIInv
<1>3. ASSUME NEW c \in Conns, Accept(c) \/ AcceptWrongDevice(c) PROVE IInv'
  BY <1>3, AcceptIInv
<1>4. ASSUME NEW c \in Conns, Refuse(c) PROVE IInv'
  BY <1>4, EndFails DEF Refuse, Arriving, Goto, Ends
<1>5. ASSUME NEW c \in Conns, NEW e \in Ends, ReadHello(c, e) PROVE IInv'
  BY <1>5, ReadHelloIInv
<1>6. ASSUME NEW c \in Conns, NEW e \in Ends, RejectHello(c, e) PROVE IInv'
  BY <1>6, RejectHelloIInv
<1>7. ASSUME NEW c \in Conns, NEW e \in Ends, ReadAuth(c, e) PROVE IInv'
  BY <1>7, ReadAuthIInv
<1>8. ASSUME NEW c \in Conns, NEW e \in Ends, ReadAccepted(c, e) \/ CloseFinished(c, e)
      PROVE  IInv'
  BY <1>8, FinishIInv
<1>9. ASSUME NEW c \in Conns, NEW e \in Ends, ConnectionLost(c, e) PROVE IInv'
  BY <1>9, EndFails DEF ConnectionLost, Goto
<1>10. ASSUME NEW c \in Conns, NEW e \in Ends, TimesOut(c, e) PROVE IInv'
  BY <1>10, EndFails, ZenonT(60) DEF TimesOut, Goto
<1>11. CASE UNCHANGED vars
  <2>1. TypeInv'
    BY <1>11 DEF IInv, TypeInv, vars, config
  <2>2. ASSUME NEW c \in Conns, NEW e \in Ends PROVE ConsentAt(c, e)'
    <3>1. dialed' >= dialed
      BY <1>11, HandshakeConstantsOK, SMTT(30) DEF vars, IInv, TypeInv
    <3>. QED
      BY <1>11, <2>1, <3>1, Untouched DEF IInv, vars
  <2>. QED
    BY <2>1, <2>2 DEF IInv
<1>. QED
  BY <1>1, <1>2, <1>3, <1>4, <1>5, <1>6, <1>7, <1>8, <1>9, <1>10, <1>11 DEF Next, Progress

-----------------------------------------------------------------------------
(* An end that has read the hello of a peer it accepts is not talking to   *)
(* itself, so the two ends of its connection are the two nodes.            *)
LEMMA ConsentFollows == IInv => BothConsent
<1> SUFFICES ASSUME IInv, NEW c \in Conns, NEW e \in Ends, stage[c][e] \in {"done", "closed"}
             PROVE  /\ sent[c][Opposite(e)] = 3
                    /\ minor[c]["dialer"] = minor[c]["acceptor"]
                    /\ \A n \in Nodes : minor[c][e] \in range[n].min..range[n].max
                    /\ route[c].from # route[c].to
                    /\ route[c].kind = "paired" => paired = Nodes
                    /\ route[c].kind # "paired" => route[c].to \in shown \cup paired
  BY DEF BothConsent
<1> DEFINE o == Opposite(e)
<1>1. o \in Ends /\ Opposite(o) = e /\ {e, o} = Ends
  BY DEF Opposite, Ends
<1>2. ConsentAt(c, e) /\ ConsentAt(c, o)
  BY <1>1 DEF IInv
<1>3. sent[c][e] = 3 /\ sent[c][o] = 3 /\ minor[c]["dialer"] = minor[c]["acceptor"]
  BY <1>2 DEF ConsentAt
<1>4. \A x \in Ends : Passed(c, x) /\ MayBePaired(c, x)
  <2>1. Passed(c, e) /\ MayBePaired(c, e)
    BY <1>2, <1>3, SMTT(30) DEF ConsentAt
  <2>2. Passed(c, o) /\ MayBePaired(c, o)
    BY <1>2, <1>3, SMTT(30) DEF ConsentAt
  <2>. QED
    BY <1>1, <2>1, <2>2
<1>5. route[c].from # route[c].to /\ Admitted(c)
  BY <1>4 DEF Passed, HelloFails, Ends
<1>6. route[c].from \in Nodes /\ route[c].to \in Nodes /\ Nodes = {route[c].from, route[c].to}
  BY <1>5 DEF IInv, TypeInv, Nodes
<1>7. route[c].kind = "paired" => paired = Nodes
  <2>1. route[c].kind = "paired" => route[c].from \in paired /\ route[c].to \in paired
    BY <1>4 DEF MayBePaired, Node, Ends
  <2>. QED
    BY <1>6, <2>1 DEF IInv, TypeInv
<1>8. route[c].kind # "paired" => route[c].to \in shown \cup paired
  BY <1>5 DEF Admitted
<1>9. \A n \in Nodes : minor[c][e] \in range[n].min..range[n].max
  <2> DEFINE a == range[route[c].from]
             b == range[route[c].to]
  <2>1. a \in Ranges /\ b \in Ranges
    BY <1>6 DEF IInv, TypeInv
  <2>2. /\ a.max \in 0..MaxMinor /\ b.max \in 0..MaxMinor
        /\ a.min \in 0..MaxMinor /\ b.min \in 0..MaxMinor
        /\ a.min <= a.max /\ b.min <= b.max
    BY <2>1 DEF Ranges
  <2>3. b.max >= a.min /\ b.min <= a.max
    BY <1>4 DEF Passed, HelloFails, ValidHello, Node, Opposite, Ends
  <2>4. minor[c]["dialer"] = Least(a.max, b.max)
    BY <1>4 DEF Passed, MinorOf, Negotiated, Node, Opposite, Ends
  <2>5. minor[c][e] = Least(a.max, b.max)
    BY <1>3, <2>4 DEF Ends
  <2> HIDE DEF a, b
  <2>6. Least(a.max, b.max) \in a.min..a.max /\ Least(a.max, b.max) \in b.min..b.max
    BY <2>2, <2>3, HandshakeConstantsOK, SMTT(30) DEF Least
  <2> USE DEF a, b
  <2>. QED
    BY <1>6, <2>5, <2>6
<1>. QED
  BY <1>3, <1>5, <1>7, <1>8, <1>9

(* Consent is mutual: an end of finish_authentication that succeeds knows  *)
(* that its peer went through every check of its own for the same          *)
(* connection, whatever the releases, pairings, timeouts and other         *)
(* connections of the two nodes.                                           *)
THEOREM ConsentIsMutual == Spec => []BothConsent
<1>1. Spec => []IInv
  BY InitIInv, NextIInv, PTL DEF Spec
<1>. QED
  BY <1>1, ConsentFollows, PTL

-----------------------------------------------------------------------------
(* The ends of connections that hold a permit of a node.                   *)
Holders(n) == {p \in Conns \X Ends : Node(p[1], p[2]) = n /\ HoldsPermit(p[1], p[2])}
Probers(n) == {p \in Conns \X Ends : Node(p[1], p[2]) = n /\ HoldsProbePermit(p[1], p[2])}

PermitTypes ==
    /\ gate \in Nat
    /\ permits \in [Nodes -> Nat] /\ probePermits \in [Nodes -> Nat]

(* Only a dial that will count against the permits waits for one.          *)
WaitOK == \A c \in Conns : stage[c]["dialer"] = "waiting" => route[c].kind # "probe"

Balance(n) ==
    /\ permits[n] + Cardinality(Holders(n)) = gate
    /\ probePermits[n] + Cardinality(Probers(n)) = ProbePermits

PermitInv == PermitTypes /\ WaitOK /\ \A n \in Nodes : Balance(n)

LEMMA HoldersFinite ==
    ASSUME NEW n
    PROVE  /\ IsFiniteSet(Holders(n)) /\ Cardinality(Holders(n)) \in Nat
           /\ IsFiniteSet(Probers(n)) /\ Cardinality(Probers(n)) \in Nat
<1>1. IsFiniteSet(Conns)
  <2>1. 1 \in Int /\ MaxConns \in Int
    BY HandshakeConstantsOK, SMTT(30)
  <2>2. IsFiniteSet(1..MaxConns)
    BY <2>1, FS_Interval
  <2>. QED
    BY <2>2 DEF Conns
<1>2. IsFiniteSet(Ends)
  <2>1. IsFiniteSet({}) /\ IsFiniteSet({} \cup {"dialer"})
    BY FS_EmptySet, FS_AddElement
  <2>2. IsFiniteSet({} \cup {"dialer"} \cup {"acceptor"})
    BY <2>1, FS_AddElement
  <2>3. Ends = {} \cup {"dialer"} \cup {"acceptor"}
    BY DEF Ends
  <2>. QED
    BY <2>2, <2>3
<1>3. IsFiniteSet(Conns \X Ends)
  BY <1>1, <1>2, FS_Product
<1>4. Holders(n) \subseteq Conns \X Ends /\ Probers(n) \subseteq Conns \X Ends
  BY DEF Holders, Probers
<1>. QED
  BY <1>3, <1>4, FS_Subset, FS_CardinalityType

LEMMA InitPermitInv == Init => PermitInv
<1> SUFFICES ASSUME Init PROVE PermitInv
  OBVIOUS
<1>1. PermitTypes /\ WaitOK
  BY HandshakeConstantsOK, SMTT(30) DEF Init, PermitTypes, WaitOK, Ends
<1>2. ASSUME NEW n \in Nodes PROVE Balance(n)
  <2>1. Holders(n) = {} /\ Probers(n) = {}
    BY DEF Init, Holders, Probers, HoldsPermit, HoldsProbePermit
  <2>2. Cardinality(Holders(n)) = 0 /\ Cardinality(Probers(n)) = 0
    BY <2>1, FS_EmptySet
  <2>. QED
    BY <1>2, <2>2, HandshakeConstantsOK, SMTT(30) DEF Init, Balance
<1>. QED
  BY <1>1, <1>2 DEF PermitInv

(* One end changes its stage: only the count of its own node can change,   *)
(* by this end.                                                            *)
LEMMA HoldersStep ==
    ASSUME TypeInv, NEW c \in Conns, NEW e \in Ends, NEW s,
           stage' = [stage EXCEPT ![c][e] = s], route' = route
    PROVE  /\ \A n \in Nodes \ {Node(c, e)} : Holders(n)' = Holders(n) /\ Probers(n)' = Probers(n)
           /\ (HoldsPermit(c, e)' <=> HoldsPermit(c, e)) =>
                  Holders(Node(c, e))' = Holders(Node(c, e))
           /\ HoldsPermit(c, e)' /\ ~HoldsPermit(c, e) =>
                  Cardinality(Holders(Node(c, e))') = Cardinality(Holders(Node(c, e))) + 1
           /\ ~HoldsPermit(c, e)' /\ HoldsPermit(c, e) =>
                  Cardinality(Holders(Node(c, e))') = Cardinality(Holders(Node(c, e))) - 1
           /\ (HoldsProbePermit(c, e)' <=> HoldsProbePermit(c, e)) =>
                  Probers(Node(c, e))' = Probers(Node(c, e))
           /\ HoldsProbePermit(c, e)' /\ ~HoldsProbePermit(c, e) =>
                  Cardinality(Probers(Node(c, e))') = Cardinality(Probers(Node(c, e))) + 1
           /\ ~HoldsProbePermit(c, e)' /\ HoldsProbePermit(c, e) =>
                  Cardinality(Probers(Node(c, e))') = Cardinality(Probers(Node(c, e))) - 1
<1> DEFINE m == Node(c, e)
           x == <<c, e>>
<1>1. ASSUME NEW d \in Conns, NEW f \in Ends, <<d, f>> # x
      PROVE  /\ (HoldsPermit(d, f)' <=> HoldsPermit(d, f))
             /\ (HoldsProbePermit(d, f)' <=> HoldsProbePermit(d, f))
  <2>1. stage'[d][f] = stage[d][f]
    BY <1>1 DEF TypeInv
  <2>. QED
    BY <2>1 DEF HoldsPermit, HoldsProbePermit
<1>2. \A d \in Conns, f \in Ends : Node(d, f)' = Node(d, f)
  BY DEF Node
<1>3. x \in Conns \X Ends /\ \A p \in Conns \X Ends : p[1] \in Conns /\ p[2] \in Ends /\ p = <<p[1], p[2]>>
  BY SMTT(30)
<1>4. \A n \in Nodes \ {m} : Holders(n)' = Holders(n) /\ Probers(n)' = Probers(n)
  BY <1>1, <1>2, <1>3 DEF Holders, Probers
<1>5. (HoldsPermit(c, e)' <=> HoldsPermit(c, e)) => Holders(m)' = Holders(m)
  BY <1>1, <1>2, <1>3 DEF Holders
<1>6. ASSUME HoldsPermit(c, e)', ~HoldsPermit(c, e)
      PROVE  Cardinality(Holders(m)') = Cardinality(Holders(m)) + 1
  <2>1. Holders(m)' = Holders(m) \cup {x} /\ x \notin Holders(m)
    BY <1>1, <1>2, <1>3, <1>6 DEF Holders
  <2>. QED
    BY <2>1, HoldersFinite, FS_AddElement
<1>7. ASSUME ~HoldsPermit(c, e)', HoldsPermit(c, e)
      PROVE  Cardinality(Holders(m)') = Cardinality(Holders(m)) - 1
  <2>1. Holders(m)' = Holders(m) \ {x} /\ x \in Holders(m)
    BY <1>1, <1>2, <1>3, <1>7 DEF Holders
  <2>. QED
    BY <2>1, HoldersFinite, FS_RemoveElement
<1>8. (HoldsProbePermit(c, e)' <=> HoldsProbePermit(c, e)) => Probers(m)' = Probers(m)
  BY <1>1, <1>2, <1>3 DEF Probers
<1>9. ASSUME HoldsProbePermit(c, e)', ~HoldsProbePermit(c, e)
      PROVE  Cardinality(Probers(m)') = Cardinality(Probers(m)) + 1
  <2>1. Probers(m)' = Probers(m) \cup {x} /\ x \notin Probers(m)
    BY <1>1, <1>2, <1>3, <1>9 DEF Probers
  <2>. QED
    BY <2>1, HoldersFinite, FS_AddElement
<1>10. ASSUME ~HoldsProbePermit(c, e)', HoldsProbePermit(c, e)
       PROVE  Cardinality(Probers(m)') = Cardinality(Probers(m)) - 1
  <2>1. Probers(m)' = Probers(m) \ {x} /\ x \in Probers(m)
    BY <1>1, <1>2, <1>3, <1>10 DEF Probers
  <2>. QED
    BY <2>1, HoldersFinite, FS_RemoveElement, ZenonT(60)
<1>. QED
  BY <1>4, <1>5, <1>6, <1>7, <1>8, <1>9, <1>10

(* A step of one end keeps the balance if it takes the permits it comes to *)
(* hold and returns those it holds no more.                                *)
LEMMA PermitStep ==
    ASSUME TypeInv, PermitInv, NEW c \in Conns, NEW e \in Ends,
           NEW s \in Stages \ {"waiting"},
           stage' = [stage EXCEPT ![c][e] = s], route' = route, gate' = gate, PermitTypes',
           \A n \in Nodes \ {Node(c, e)} :
               permits'[n] = permits[n] /\ probePermits'[n] = probePermits[n],
           (HoldsPermit(c, e)' <=> HoldsPermit(c, e)) =>
               permits'[Node(c, e)] = permits[Node(c, e)],
           HoldsPermit(c, e)' /\ ~HoldsPermit(c, e) =>
               permits'[Node(c, e)] = permits[Node(c, e)] - 1,
           ~HoldsPermit(c, e)' /\ HoldsPermit(c, e) =>
               permits'[Node(c, e)] = permits[Node(c, e)] + 1,
           (HoldsProbePermit(c, e)' <=> HoldsProbePermit(c, e)) =>
               probePermits'[Node(c, e)] = probePermits[Node(c, e)],
           HoldsProbePermit(c, e)' /\ ~HoldsProbePermit(c, e) =>
               probePermits'[Node(c, e)] = probePermits[Node(c, e)] - 1,
           ~HoldsProbePermit(c, e)' /\ HoldsProbePermit(c, e) =>
               probePermits'[Node(c, e)] = probePermits[Node(c, e)] + 1
    PROVE  PermitInv'
<1> DEFINE m == Node(c, e)
<1>1. m' = m
  BY DEF Node
<1>2. m \in Nodes
  BY DEF TypeInv, Node
<1>3. /\ permits[m] \in Nat /\ permits'[m] \in Nat /\ gate \in Nat
      /\ probePermits[m] \in Nat /\ probePermits'[m] \in Nat
      /\ Cardinality(Holders(m)) \in Nat /\ Cardinality(Probers(m)) \in Nat
  BY <1>2, HoldersFinite DEF PermitInv, PermitTypes
<1>4. permits'[m] + Cardinality(Holders(m)') = gate'
  <2>1. permits[m] + Cardinality(Holders(m)) = gate
    BY <1>2 DEF PermitInv, Balance
  <2>2. CASE HoldsPermit(c, e)' <=> HoldsPermit(c, e)
    BY <2>1, <2>2, HoldersStep
  <2>3. CASE HoldsPermit(c, e)' /\ ~HoldsPermit(c, e)
    <3>1. Cardinality(Holders(m)') = Cardinality(Holders(m)) + 1
      BY <2>3, HoldersStep
    <3>. QED
      BY <1>3, <2>1, <2>3, <3>1, SMTT(30)
  <2>4. CASE ~HoldsPermit(c, e)' /\ HoldsPermit(c, e)
    <3>1. Cardinality(Holders(m)') = Cardinality(Holders(m)) - 1
      BY <2>4, HoldersStep
    <3>. QED
      BY <1>3, <2>1, <2>4, <3>1, SMTT(30)
  <2>. QED
    BY <2>2, <2>3, <2>4
<1>5. probePermits'[m] + Cardinality(Probers(m)') = ProbePermits
  <2>1. probePermits[m] + Cardinality(Probers(m)) = ProbePermits
    BY <1>2 DEF PermitInv, Balance
  <2>2. CASE HoldsProbePermit(c, e)' <=> HoldsProbePermit(c, e)
    BY <2>1, <2>2, HoldersStep
  <2>3. CASE HoldsProbePermit(c, e)' /\ ~HoldsProbePermit(c, e)
    <3>1. Cardinality(Probers(m)') = Cardinality(Probers(m)) + 1
      BY <2>3, HoldersStep
    <3>. QED
      BY <1>3, <2>1, <2>3, <3>1, SMTT(30)
  <2>4. CASE ~HoldsProbePermit(c, e)' /\ HoldsProbePermit(c, e)
    <3>1. Cardinality(Probers(m)') = Cardinality(Probers(m)) - 1
      BY <2>4, HoldersStep, ZenonT(60)
    <3>. QED
      BY <1>3, <2>1, <2>4, <3>1, SMTT(30)
  <2>. QED
    BY <2>2, <2>3, <2>4
<1>6. ASSUME NEW n \in Nodes PROVE Balance(n)'
  <2>1. CASE n = m
    <3>1. Holders(n)' = Holders(m)' /\ Probers(n)' = Probers(m)'
      BY <1>1, <2>1 DEF Holders, Probers
    <3>. QED
      BY <1>4, <1>5, <2>1, <3>1 DEF Balance
  <2>2. CASE n # m
    <3>1. Holders(n)' = Holders(n) /\ Probers(n)' = Probers(n)
      BY <2>2, HoldersStep
    <3>. QED
      BY <2>2, <3>1 DEF PermitInv, Balance
  <2>. QED
    BY <2>1, <2>2
<1>7. WaitOK'
  <2> SUFFICES ASSUME NEW d \in Conns, stage'[d]["dialer"] = "waiting"
               PROVE  route'[d].kind # "probe"
    BY DEF WaitOK
  <2>1. stage[d]["dialer"] = "waiting"
    BY SMTT(30) DEF TypeInv, Ends
  <2>. QED
    BY <2>1 DEF PermitInv, WaitOK
<1>. QED
  BY <1>6, <1>7 DEF PermitInv

(* Goto returns the permits when the end is over, and an end under way     *)
(* goes on to "accepted" with those it has.                                *)
LEMMA GotoPermitInv ==
    ASSUME TypeInv, PermitInv, NEW c \in Conns, NEW e \in Ends, NEW s \in Stages,
           Goto(c, e, s), route' = route, gate' = gate,
           s \in Ended \/ (s = "accepted" /\ stage[c][e] = "auth")
    PROVE  PermitInv'
<1> DEFINE m == Node(c, e)
<1>1. stage'[c][e] = s /\ s \in Stages \ {"waiting"}
  BY DEF Goto, TypeInv, Ended, Gone
<1>2. m \in Nodes
  BY DEF TypeInv, Node
<1>3. PermitTypes'
  BY SMTT(30) DEF PermitInv, PermitTypes, Goto
<1>4. CASE s \in Ended
  <2>1. ~HoldsPermit(c, e)' /\ ~HoldsProbePermit(c, e)'
    BY <1>1, <1>4 DEF HoldsPermit, HoldsProbePermit, Ended, Gone
  <2>2. /\ HoldsPermit(c, e) => permits'[m] = permits[m] + 1
        /\ ~HoldsPermit(c, e) => permits'[m] = permits[m]
        /\ HoldsProbePermit(c, e) => probePermits'[m] = probePermits[m] + 1
        /\ ~HoldsProbePermit(c, e) => probePermits'[m] = probePermits[m]
        /\ \A n \in Nodes \ {m} : permits'[n] = permits[n] /\ probePermits'[n] = probePermits[n]
    BY <1>2, <1>4 DEF Goto
  <2>3. stage' = [stage EXCEPT ![c][e] = s]
    BY DEF Goto
  <2>. QED
    BY <1>1, <1>3, <2>1, <2>2, <2>3, PermitStep
<1>5. CASE s = "accepted" /\ stage[c][e] = "auth"
  <2>1. (HoldsPermit(c, e)' <=> HoldsPermit(c, e)) /\ (HoldsProbePermit(c, e)' <=> HoldsProbePermit(c, e))
    BY <1>1, <1>5 DEF HoldsPermit, HoldsProbePermit
  <2>2. /\ permits'[m] = permits[m] /\ probePermits'[m] = probePermits[m]
        /\ \A n \in Nodes \ {m} : permits'[n] = permits[n] /\ probePermits'[n] = probePermits[n]
    BY <1>2, <1>5 DEF Goto, Ended, Gone
  <2>3. stage' = [stage EXCEPT ![c][e] = s]
    BY DEF Goto
  <2>. QED
    BY <1>1, <1>3, <2>1, <2>2, <2>3, PermitStep, ZenonT(60)
<1>. QED
  BY <1>4, <1>5

LEMMA AcquirePermitInv ==
    ASSUME TypeInv, PermitInv, NEW c \in Conns, Acquire(c) PROVE PermitInv'
<1> DEFINE m == Node(c, "dialer")
<1>1. m = route[c].from /\ m \in Nodes /\ "dialer" \in Ends
  BY DEF TypeInv, Node, Ends
<1>2. stage' = [stage EXCEPT ![c]["dialer"] = "connecting"] /\ stage'[c]["dialer"] = "connecting"
      /\ "connecting" \in Stages \ {"waiting"} /\ route' = route /\ gate' = gate /\ probePermits' = probePermits
  BY <1>1 DEF Acquire, TypeInv, config, Stages
<1>3. HoldsPermit(c, "dialer")' /\ ~HoldsPermit(c, "dialer")
      /\ ~HoldsProbePermit(c, "dialer") /\ ~HoldsProbePermit(c, "dialer")'
  BY <1>2 DEF Acquire, PermitInv, WaitOK, HoldsPermit, HoldsProbePermit
<1>4. /\ permits'[m] = permits[m] - 1 /\ \A n \in Nodes \ {m} : permits'[n] = permits[n]
      /\ PermitTypes'
  BY <1>1, <1>2, SMTT(30) DEF Acquire, PermitInv, PermitTypes
<1>. QED
  BY <1>1, <1>2, <1>3, <1>4, PermitStep

LEMMA ReadHelloPermitInv ==
    ASSUME TypeInv, PermitInv, NEW c \in Conns, NEW e \in Ends, ReadHello(c, e) PROVE PermitInv'
<1> DEFINE m == Node(c, e)
<1>1. stage' = [stage EXCEPT ![c][e] = "auth"] /\ stage'[c][e] = "auth" /\ stage[c][e] = "hello"
      /\ route' = route /\ gate' = gate /\ permits' = permits /\ m \in Nodes
      /\ "auth" \in Stages \ {"waiting"}
  BY DEF ReadHello, TypeInv, config, Node, Stages
<1>2. (HoldsPermit(c, e)' <=> HoldsPermit(c, e)) /\ ~HoldsProbePermit(c, e)
  BY <1>1 DEF HoldsPermit, HoldsProbePermit
<1>3. CASE e = "acceptor" /\ route[c].kind = "probe"
  <2>1. HoldsProbePermit(c, e)' /\ m = route[c].to
    BY <1>1, <1>3 DEF HoldsProbePermit, Node
  <2>2. /\ probePermits'[m] = probePermits[m] - 1
        /\ \A n \in Nodes \ {m} : probePermits'[n] = probePermits[n]
        /\ PermitTypes'
    BY <1>1, <1>3, <2>1, SMTT(30) DEF ReadHello, PermitInv, PermitTypes
  <2>. QED
    BY <1>1, <1>2, <2>1, <2>2, PermitStep
<1>4. CASE ~(e = "acceptor" /\ route[c].kind = "probe")
  <2>1. ~HoldsProbePermit(c, e)'
    BY <1>1, <1>4 DEF HoldsProbePermit
  <2>2. probePermits' = probePermits /\ PermitTypes'
    BY <1>1, <1>4 DEF ReadHello, PermitInv, PermitTypes
  <2>. QED
    BY <1>1, <1>2, <2>1, <2>2, PermitStep, ZenonT(60)
<1>. QED
  BY <1>3, <1>4

(* A new connection holds nothing yet: a probe connects without a permit.  *)
LEMMA DialPermitInv ==
    ASSUME IInv, PermitInv, NEW c \in Conns, NEW from \in Nodes, NEW to \in Nodes, NEW kind \in Kinds,
           Dial(c, from, to, kind)
    PROVE  PermitInv'
<1>1. c > dialed
  BY HandshakeConstantsOK, SMTT(30) DEF IInv, TypeInv, Dial, Conns
<1>2. \A x \in Ends : stage[c][x] = "none"
  BY <1>1 DEF IInv, ConsentAt
<1>3. /\ stage'[c]["dialer"] = IF kind = "probe" THEN "connecting" ELSE "waiting"
      /\ stage'[c]["acceptor"] = "none" /\ route'[c].kind = kind
      /\ gate' = gate /\ permits' = permits /\ probePermits' = probePermits
  BY <1>2 DEF IInv, TypeInv, Dial, Ends, config
<1>4. \A x \in Ends : /\ ~HoldsPermit(c, x) /\ ~HoldsProbePermit(c, x)
                       /\ ~HoldsPermit(c, x)' /\ ~HoldsProbePermit(c, x)'
  BY <1>2, <1>3 DEF HoldsPermit, HoldsProbePermit, Ends
<1>5. \A d \in Conns \ {c} : route'[d] = route[d] /\ stage'[d] = stage[d]
  BY DEF IInv, TypeInv, Dial
<1>6. \A d \in Conns \ {c}, x \in Ends :
          /\ (HoldsPermit(d, x)' <=> HoldsPermit(d, x))
          /\ (HoldsProbePermit(d, x)' <=> HoldsProbePermit(d, x))
          /\ Node(d, x)' = Node(d, x)
  BY <1>5 DEF HoldsPermit, HoldsProbePermit, Node
<1>7. \A n \in Nodes : Holders(n)' = Holders(n) /\ Probers(n)' = Probers(n)
  BY <1>4, <1>6 DEF Holders, Probers
<1>8. WaitOK'
  BY <1>3, <1>5 DEF PermitInv, WaitOK
<1>. QED
  BY <1>3, <1>7, <1>8 DEF PermitInv, PermitTypes, Balance

(* The accept loop takes a permit for the acceptor.  When the dialler      *)
(* finds out that it has reached itself, the two cancel out.               *)
LEMMA AcceptPermitInv ==
    ASSUME IInv, PermitInv, NEW c \in Conns, Accept(c) \/ AcceptWrongDevice(c)
    PROVE  PermitInv'
<1> DEFINE m == route[c].to
           d == <<c, "dialer">>
           a == <<c, "acceptor">>
<1>1. /\ stage[c]["dialer"] = "connecting" /\ stage[c]["acceptor"] = "none"
      /\ stage'[c]["acceptor"] = "hello" /\ route' = route /\ gate' = gate
      /\ probePermits' = probePermits /\ m \in Nodes
  BY SMTT(30) DEF IInv, TypeInv, Accept, AcceptWrongDevice, Arriving, Ends, config
<1>2. \A f \in Conns \ {c} : stage'[f] = stage[f]
  BY DEF IInv, TypeInv, Accept, AcceptWrongDevice
<1>3. \A f \in Conns \ {c}, x \in Ends :
          /\ (HoldsPermit(f, x)' <=> HoldsPermit(f, x))
          /\ (HoldsProbePermit(f, x)' <=> HoldsProbePermit(f, x))
  BY <1>1, <1>2 DEF HoldsPermit, HoldsProbePermit
<1>4. \A f \in Conns, x \in Ends : Node(f, x)' = Node(f, x)
  BY <1>1 DEF Node
<1>5. ~HoldsPermit(c, "acceptor") /\ HoldsPermit(c, "acceptor")' /\ Node(c, "acceptor") = m
  BY <1>1 DEF HoldsPermit, Node
<1>6. \A x \in Ends : ~HoldsProbePermit(c, x) /\ ~HoldsProbePermit(c, x)'
  BY <1>1 DEF HoldsProbePermit, Ends
<1>7. /\ \A p \in Conns \X Ends : p[1] \in Conns /\ p[2] \in Ends /\ p = <<p[1], p[2]>>
      /\ a \in Conns \X Ends /\ d \in Conns \X Ends /\ a # d
      /\ \A p \in Conns \X Ends : p # a /\ p # d => p[1] # c
  BY SMTT(30) DEF Ends
<1>8. \A n \in Nodes : Probers(n)' = Probers(n)
  BY <1>3, <1>4, <1>6, <1>7, SMTT(30) DEF Probers
<1>9. WaitOK'
  <2>1. stage'[c]["dialer"] # "waiting"
    BY SMTT(30) DEF IInv, TypeInv, Accept, AcceptWrongDevice, Ends
  <2>. QED
    BY <1>1, <1>2, <2>1 DEF PermitInv, WaitOK
<1>10. ASSUME Accept(c)
       PROVE  PermitTypes' /\ \A n \in Nodes : permits'[n] + Cardinality(Holders(n)') = gate
  <2>1. HoldsPermit(c, "dialer")' <=> HoldsPermit(c, "dialer")
    <3>1. stage'[c]["dialer"] = "hello"
      BY <1>10 DEF IInv, TypeInv, Accept, Ends
    <3>. QED
      BY <1>1, <3>1 DEF HoldsPermit
  <2>2. /\ permits'[m] = permits[m] - 1 /\ \A n \in Nodes \ {m} : permits'[n] = permits[n]
        /\ PermitTypes'
    BY <1>1, <1>10, SMTT(30) DEF Accept, PermitInv, PermitTypes
  <2>3. ASSUME NEW n \in Nodes PROVE permits'[n] + Cardinality(Holders(n)') = gate
    <3>1. permits[n] + Cardinality(Holders(n)) = gate /\ permits[n] \in Nat /\ gate \in Nat
      BY DEF PermitInv, Balance, PermitTypes
    <3>2. CASE n # m
      <4>1. Holders(n)' = Holders(n)
        BY <1>3, <1>4, <1>5, <1>7, <2>1, <3>2, SMTT(30) DEF Holders
      <4>. QED
        BY <2>2, <3>1, <3>2, <4>1
    <3>3. CASE n = m
      <4>1. Holders(n)' = Holders(n) \cup {a} /\ a \notin Holders(n)
        BY <1>3, <1>4, <1>5, <1>7, <2>1, <3>3, SMTT(30) DEF Holders
      <4>2. Cardinality(Holders(n)') = Cardinality(Holders(n)) + 1 /\ Cardinality(Holders(n)) \in Nat
        BY <4>1, HoldersFinite, FS_AddElement, ZenonT(60)
      <4>. QED
        BY <2>2, <3>1, <3>3, <4>2, SMTT(30)
    <3>. QED
      BY <3>2, <3>3
  <2>. QED
    BY <2>2, <2>3
<1>11. ASSUME AcceptWrongDevice(c)
       PROVE  PermitTypes' /\ \A n \in Nodes : permits'[n] + Cardinality(Holders(n)') = gate
  <2>1. HoldsPermit(c, "dialer") /\ ~HoldsPermit(c, "dialer")' /\ Node(c, "dialer") = m
    <3>1. stage'[c]["dialer"] = "failed" /\ route[c].from = m /\ route[c].kind # "probe"
      BY <1>11 DEF IInv, TypeInv, AcceptWrongDevice, Ends
    <3>. QED
      BY <1>1, <3>1 DEF HoldsPermit, Node
  <2>2. permits' = permits /\ PermitTypes'
    BY <1>1, <1>11 DEF AcceptWrongDevice, PermitInv, PermitTypes
  <2>3. ASSUME NEW n \in Nodes PROVE permits'[n] + Cardinality(Holders(n)') = gate
    <3>1. permits[n] + Cardinality(Holders(n)) = gate /\ permits[n] \in Nat /\ gate \in Nat
      BY DEF PermitInv, Balance, PermitTypes
    <3>2. CASE n # m
      <4>1. Holders(n)' = Holders(n)
        BY <1>3, <1>4, <1>5, <1>7, <2>1, <3>2, SMTT(30) DEF Holders
      <4>. QED
        BY <2>2, <3>1, <4>1
    <3>3. CASE n = m
      <4> DEFINE rest == Holders(n) \ {d}
      <4>1. /\ Holders(n)' = rest \cup {a} /\ a \notin rest /\ d \in Holders(n)
        BY <1>3, <1>4, <1>5, <1>7, <2>1, <3>3, SMTT(30) DEF Holders
      <4>2. IsFiniteSet(rest) /\ Cardinality(rest) = Cardinality(Holders(n)) - 1
        BY <4>1, HoldersFinite, FS_RemoveElement
      <4> HIDE DEF rest
      <4>3. Cardinality(Holders(n)') = Cardinality(rest) + 1
        BY <4>1, <4>2, FS_AddElement
      <4>4. Cardinality(Holders(n)) \in Nat
        BY HoldersFinite
      <4>. QED
        BY <2>2, <3>1, <4>2, <4>3, <4>4, SMTT(30)
    <3>. QED
      BY <3>2, <3>3
  <2>. QED
    BY <2>2, <2>3
<1>. QED
  BY <1>1, <1>8, <1>9, <1>10, <1>11 DEF PermitInv, Balance

LEMMA NextPermitInv == IInv /\ PermitInv /\ [Next]_vars => PermitInv'
<1> SUFFICES ASSUME IInv, PermitInv, [Next]_vars PROVE PermitInv'
  OBVIOUS
<1>0. TypeInv /\ "dialer" \in Ends
  BY DEF IInv, Ends
<1>00. Ended \subseteq Stages /\ {"failed", "done", "closed", "expired"} \subseteq Ended /\ "accepted" \in Stages
  BY DEF Stages, Ended, Gone
<1>1. ASSUME NEW c \in Conns, NEW from \in Nodes, NEW to \in Nodes, NEW kind \in Kinds,
             Dial(c, from, to, kind)
      PROVE  PermitInv'
  BY <1>1, DialPermitInv
<1>2. ASSUME NEW c \in Conns, Acquire(c) PROVE PermitInv'
  BY <1>0, <1>2, AcquirePermitInv
<1>3. ASSUME NEW c \in Conns, Accept(c) \/ AcceptWrongDevice(c) PROVE PermitInv'
  BY <1>3, AcceptPermitInv
<1>4. ASSUME NEW c \in Conns, Refuse(c) PROVE PermitInv'
  BY <1>0, <1>00, <1>4, GotoPermitInv DEF Refuse, config
<1>5. ASSUME NEW c \in Conns, NEW e \in Ends, ReadHello(c, e) PROVE PermitInv'
  BY <1>0, <1>5, ReadHelloPermitInv
<1>6. ASSUME NEW c \in Conns, NEW e \in Ends, RejectHello(c, e) PROVE PermitInv'
  BY <1>0, <1>00, <1>6, GotoPermitInv DEF RejectHello, config
<1>7. ASSUME NEW c \in Conns, NEW e \in Ends, ReadAuth(c, e) PROVE PermitInv'
  BY <1>0, <1>00, <1>7, GotoPermitInv DEF ReadAuth, config
<1>8. ASSUME NEW c \in Conns, NEW e \in Ends, ReadAccepted(c, e) PROVE PermitInv'
  BY <1>0, <1>00, <1>8, GotoPermitInv DEF ReadAccepted, config
<1>9. ASSUME NEW c \in Conns, NEW e \in Ends, CloseFinished(c, e) PROVE PermitInv'
  BY <1>0, <1>00, <1>9, GotoPermitInv DEF CloseFinished, config
<1>10. ASSUME NEW c \in Conns, NEW e \in Ends, ConnectionLost(c, e) PROVE PermitInv'
  BY <1>0, <1>00, <1>10, GotoPermitInv DEF ConnectionLost, config
<1>11. ASSUME NEW c \in Conns, NEW e \in Ends, TimesOut(c, e) PROVE PermitInv'
  BY <1>0, <1>00, <1>11, GotoPermitInv DEF TimesOut, config
<1>12. CASE UNCHANGED vars
  <2>1. \A n \in Nodes : Holders(n)' = Holders(n) /\ Probers(n)' = Probers(n)
    BY <1>12 DEF vars, Holders, Probers, HoldsPermit, HoldsProbePermit, Node
  <2>. QED
    BY <1>12, <2>1 DEF vars, config, PermitInv, PermitTypes, WaitOK, Balance
<1>. QED
  BY <1>1, <1>2, <1>3, <1>4, <1>5, <1>6, <1>7, <1>8, <1>9, <1>10, <1>11, <1>12 DEF Next, Progress

(* Handshake permits are neither lost nor doubled (handshake_gate and the  *)
(* probe gate), whatever is dialled, refused, rejected or timed out: the   *)
(* permits that are free and the handshakes under way make up the gate.    *)
THEOREM PermitsNeverLeak == Spec => []PermitsConserved
<1>1. PermitInv => PermitsConserved
  BY DEF PermitInv, Balance, PermitsConserved, Held, Holders, Probers
<1>. QED
  BY <1>1, InitIInv, NextIInv, InitPermitInv, NextPermitInv, PTL DEF Spec

-----------------------------------------------------------------------------
(* An end that fails after it has sent its acceptance does so because its  *)
(* peer is gone.                                                           *)
SettledAt(c, e) ==
    sent[c][e] = 3 /\ stage[c][e] = "failed" => stage[c][Opposite(e)] \in Gone

SettledInv == \A c \in Conns, e \in Ends : SettledAt(c, e)

LEMMA InitSettled == Init => SettledInv
  BY SMTT(30) DEF Init, SettledInv, SettledAt, Conns, Ends

(* An end goes to another stage, and may have sent its next message.       *)
LEMMA SettledStep ==
    ASSUME NEW c \in Conns, NEW e \in Ends, NEW s, IInv, SettledInv,
           stage[c][e] \notin Gone,
           stage' = [stage EXCEPT ![c][e] = s],
           \/ sent' = sent
           \/ \E k \in 0..3 : sent' = [sent EXCEPT ![c][e] = k],
           s = "failed" /\ sent'[c][e] = 3 => stage[c][Opposite(e)] \in Gone
    PROVE  SettledInv'
<1> SUFFICES ASSUME NEW d \in Conns, NEW x \in Ends, sent'[d][x] = 3, stage'[d][x] = "failed"
             PROVE  stage'[d][Opposite(x)] \in Gone
  BY DEF SettledInv, SettledAt
<1>0. sent[d][x] = 3 /\ stage[d][x] = "failed" => stage[d][Opposite(x)] \in Gone
  BY DEF SettledInv, SettledAt
<1>1. /\ stage'[d][x] = IF d = c /\ x = e THEN s ELSE stage[d][x]
      /\ stage'[d][Opposite(x)] = IF d = c /\ Opposite(x) = e THEN s ELSE stage[d][Opposite(x)]
  BY SMTT(30) DEF IInv, TypeInv, Opposite, Ends
<1>2. ~(d = c /\ x = e) => sent'[d][x] = sent[d][x]
  BY SMTT(30) DEF IInv, TypeInv
<1>3. CASE d = c /\ x = e
  <2>1. Opposite(x) # e
    BY <1>3 DEF Opposite, Ends
  <2>. QED
    BY <1>1, <1>3, <2>1
<1>4. CASE d = c /\ x # e
  <2>1. Opposite(x) = e
    BY <1>4 DEF Opposite, Ends
  <2>. QED
    BY <1>0, <1>1, <1>2, <1>4, <2>1
<1>5. CASE d # c
  BY <1>0, <1>1, <1>2, <1>5
<1>. QED
  BY <1>3, <1>4, <1>5

(* The accept loop takes the connection: no end of it has sent anything.   *)
LEMMA SettledStart ==
    ASSUME NEW c \in Conns, IInv, SettledInv,
           \A d \in Conns \ {c} : stage'[d] = stage[d] /\ sent'[d] = sent[d],
           \A e \in Ends : sent'[c][e] # 3
    PROVE  SettledInv'
<1> SUFFICES ASSUME NEW d \in Conns, NEW x \in Ends PROVE SettledAt(d, x)'
  BY DEF SettledInv
<1>1. CASE d = c
  BY <1>1 DEF SettledAt
<1>2. CASE d # c
  <2>1. stage'[d] = stage[d] /\ sent'[d] = sent[d] /\ SettledAt(d, x)
    BY <1>2 DEF SettledInv
  <2>. QED
    BY <2>1 DEF SettledAt
<1>. QED
  BY <1>1, <1>2

(* The two ends choose the same version, so an acceptance that is read     *)
(* after one was sent is never refused.                                    *)
LEMMA AcceptedAgree ==
    ASSUME IInv, NEW c \in Conns, NEW e \in Ends, stage[c][e] = "accepted", Received(c, e, 3)
    PROVE  minor[c]["dialer"] = minor[c]["acceptor"]
<1> DEFINE o == Opposite(e)
<1>1. o \in Ends /\ {e, o} = Ends
  BY DEF Opposite, Ends
<1>2. sent[c][e] = 3 /\ sent[c][o] \in 0..3 /\ sent[c][o] >= 3
  BY <1>1, SMTT(30) DEF IInv, TypeInv, ConsentAt, Received
<1>3. ConsentAt(c, e) /\ ConsentAt(c, o)
  BY <1>1 DEF IInv
<1>4. Passed(c, e) /\ Passed(c, o)
  BY <1>2, <1>3, SMTT(30) DEF ConsentAt
<1>5. minor[c]["dialer"] = MinorOf(c, "dialer") /\ minor[c]["acceptor"] = MinorOf(c, "acceptor")
  BY <1>1, <1>4 DEF Passed, Ends
<1>. QED
  BY <1>5, MinorAgrees DEF IInv

LEMMA NextSettled == IInv /\ SettledInv /\ [Next]_vars => SettledInv'
<1> SUFFICES ASSUME IInv, SettledInv, [Next]_vars PROVE SettledInv'
  OBVIOUS
<1> USE DEF Goto
<1>1. ASSUME NEW c \in Conns, NEW from \in Nodes, NEW to \in Nodes, NEW kind \in Kinds,
             Dial(c, from, to, kind)
      PROVE  SettledInv'
  <2>1. c > dialed
    BY <1>1, HandshakeConstantsOK, SMTT(30) DEF Dial, IInv, TypeInv
  <2>2. \A e \in Ends : sent[c][e] = 0
    BY <2>1 DEF IInv, ConsentAt
  <2>3. \A e \in Ends : sent'[c][e] # 3
    BY <1>1, <2>2, SMTT(30) DEF Dial
  <2>4. \A d \in Conns \ {c} : stage'[d] = stage[d] /\ sent'[d] = sent[d]
    BY <1>1 DEF Dial, IInv, TypeInv
  <2>. QED
    BY <2>3, <2>4, SettledStart
<1>2. ASSUME NEW c \in Conns, Acquire(c) PROVE SettledInv'
  <2>1. /\ stage[c]["dialer"] \notin Gone /\ sent' = sent
        /\ stage' = [stage EXCEPT ![c]["dialer"] = "connecting"]
    BY <1>2 DEF Acquire, Gone
  <2>. QED
    BY <2>1, SettledStep DEF Ends
<1>3. ASSUME NEW c \in Conns, Accept(c) \/ AcceptWrongDevice(c) PROVE SettledInv'
  <2>1. \A e \in Ends : sent[c][e] = 0
    BY <1>3 DEF Accept, AcceptWrongDevice, Arriving, IInv, ConsentAt, Ends
  <2>2. \A e \in Ends : sent'[c][e] # 3
    BY <1>3, <2>1, SMTT(30) DEF Accept, AcceptWrongDevice, Send, IInv, TypeInv, Ends
  <2>3. \A d \in Conns \ {c} : stage'[d] = stage[d] /\ sent'[d] = sent[d]
    BY <1>3 DEF Accept, AcceptWrongDevice, Send, IInv, TypeInv
  <2>. QED
    BY <2>2, <2>3, SettledStart
<1>4. ASSUME NEW c \in Conns, Refuse(c) PROVE SettledInv'
  <2>1. /\ stage[c]["dialer"] = "connecting" /\ sent' = sent
        /\ stage' = [stage EXCEPT ![c]["dialer"] = "failed"]
    BY <1>4 DEF Refuse, Arriving
  <2>2. sent'[c]["dialer"] # 3
    BY <2>1, SMTT(30) DEF IInv, ConsentAt, Ends
  <2>. QED
    BY <2>1, <2>2, SettledStep DEF Ends, Gone
<1>5. ASSUME NEW c \in Conns, NEW e \in Ends, ReadHello(c, e) PROVE SettledInv'
  <2>1. /\ stage[c][e] = "hello" /\ stage' = [stage EXCEPT ![c][e] = "auth"]
        /\ sent' = [sent EXCEPT ![c][e] = 2]
    BY <1>5 DEF ReadHello, Send
  <2>2. 2 \in 0..3
    BY SMTT(30)
  <2>. QED
    BY <2>1, <2>2, SettledStep DEF Gone
<1>6. ASSUME NEW c \in Conns, NEW e \in Ends, RejectHello(c, e) PROVE SettledInv'
  <2>1. /\ stage[c][e] = "hello" /\ stage' = [stage EXCEPT ![c][e] = "failed"]
        /\ sent' = sent \/ sent' = [sent EXCEPT ![c][e] = 1]
    BY <1>6 DEF RejectHello
  <2>2. sent[c][e] \in 0..3 /\ sent[c][e] <= 1
    BY <2>1, SMTT(30) DEF IInv, TypeInv, ConsentAt
  <2>3. sent'[c][e] # 3 /\ 1 \in 0..3
    BY <2>1, <2>2, SMTT(30) DEF IInv, TypeInv
  <2>. QED
    BY <2>1, <2>3, SettledStep DEF Gone
<1>7. ASSUME NEW c \in Conns, NEW e \in Ends, ReadAuth(c, e) PROVE SettledInv'
  <2>1. stage[c][e] \notin Gone
    BY <1>7 DEF ReadAuth, Gone
  <2>2. \/ stage' = [stage EXCEPT ![c][e] = "accepted"] /\ sent' = [sent EXCEPT ![c][e] = 3]
        \/ stage' = [stage EXCEPT ![c][e] = "failed"] /\ sent' = sent
    BY <1>7 DEF ReadAuth, Send
  <2>3. sent[c][e] = 2
    BY <1>7 DEF ReadAuth, IInv, ConsentAt
  <2>4. 2 # 3 /\ 3 \in 0..3
    BY SMTT(30)
  <2>5. CASE stage' = [stage EXCEPT ![c][e] = "accepted"] /\ sent' = [sent EXCEPT ![c][e] = 3]
    BY <2>1, <2>4, <2>5, SettledStep
  <2>6. CASE stage' = [stage EXCEPT ![c][e] = "failed"] /\ sent' = sent
    BY <2>1, <2>3, <2>4, <2>6, SettledStep
  <2>. QED
    BY <2>2, <2>5, <2>6
<1>8. ASSUME NEW c \in Conns, NEW e \in Ends, ReadAccepted(c, e) PROVE SettledInv'
  <2>1. minor[c]["dialer"] = minor[c]["acceptor"]
    BY <1>8, AcceptedAgree DEF ReadAccepted
  <2>2. /\ stage[c][e] \notin Gone /\ stage' = [stage EXCEPT ![c][e] = "done"]
        /\ sent' = sent
    BY <1>8, <2>1 DEF ReadAccepted, Gone
  <2>. QED
    BY <2>2, SettledStep
<1>9. ASSUME NEW c \in Conns, NEW e \in Ends, CloseFinished(c, e) PROVE SettledInv'
  <2>1. /\ stage[c][e] \notin Gone /\ stage' = [stage EXCEPT ![c][e] = "closed"]
        /\ sent' = sent
    BY <1>9 DEF CloseFinished, Gone
  <2>. QED
    BY <2>1, SettledStep
<1>10. ASSUME NEW c \in Conns, NEW e \in Ends, ConnectionLost(c, e) PROVE SettledInv'
  <2>1. /\ stage[c][e] \notin Gone /\ stage' = [stage EXCEPT ![c][e] = "failed"]
        /\ stage[c][Opposite(e)] \in Gone /\ sent' = sent
    BY <1>10 DEF ConnectionLost, Gone
  <2>. QED
    BY <2>1, SettledStep
<1>11. ASSUME NEW c \in Conns, NEW e \in Ends, TimesOut(c, e) PROVE SettledInv'
  <2>1. /\ stage[c][e] \notin Gone /\ stage' = [stage EXCEPT ![c][e] = "expired"]
        /\ sent' = sent
    BY <1>11 DEF TimesOut, Gone
  <2>. QED
    BY <2>1, SettledStep
<1>12. CASE UNCHANGED vars
  BY <1>12 DEF vars, SettledInv, SettledAt
<1>. QED
  BY <1>1, <1>2, <1>3, <1>4, <1>5, <1>6, <1>7, <1>8, <1>9, <1>10, <1>11, <1>12 DEF Next, Progress

(* While an end that has finished keeps its connection, the other end has  *)
(* not failed (finish_authentication at the dialler and the acceptor),     *)
(* whatever else the two nodes dial and close, however full their gates    *)
(* are, and whichever other handshakes time out.                           *)
THEOREM HandshakeIsMutual == Spec => []NoOneSidedSession
<1>1. IInv /\ SettledInv => NoOneSidedSession
  <2> SUFFICES ASSUME IInv, SettledInv, NEW c \in Conns, NEW e \in Ends, stage[c][e] = "done"
               PROVE  stage[c][Opposite(e)] # "failed"
    BY DEF NoOneSidedSession
  <2>1. Opposite(e) \in Ends /\ Opposite(Opposite(e)) = e
    BY DEF Opposite, Ends
  <2>2. sent[c][Opposite(e)] = 3
    BY DEF IInv, ConsentAt
  <2>. QED
    BY <2>1, <2>2 DEF SettledInv, SettledAt, Gone
<1>. QED
  BY <1>1, InitIInv, NextIInv, InitSettled, NextSettled, PTL DEF Spec
=============================================================================
