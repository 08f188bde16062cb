------------------------------ MODULE Handshake ------------------------------
(***************************************************************************)
(* The authentication exchange of two nodes over several connections: who  *)
(* is let in, what both ends end up agreeing on, and the permits that      *)
(* limit the handshakes of a node.  Each end sends SessionHello,           *)
(* SessionAuth and SessionAccepted in this order and reads the other's;    *)
(* reading one message, checking it and sending the next is a step.        *)
(*                                                                         *)
(* Signatures verify (the cryptography is a library's) and a device is its *)
(* id.  Pairing, visibility and the version range of a node do not change  *)
(* while its handshakes run: Trust and Visibility model their changes.     *)
(* One candidate stands for a dial, so the selection permit of DialRace is *)
(* free.  The answer of the probe rate limit is an input (ProbeRate).      *)
(***************************************************************************)
EXTENDS Naturals, FiniteSets

CONSTANTS
    MaxConns,       \* bound: connections dialled
    MaxGate,        \* bound of the permits of handshake_gate
    ProbePermits,   \* permits of probe_gate
    MaxMinor,       \* highest minor version of any release
    MaxTimeouts     \* bound: handshakes a timeout ends

ASSUME HandshakeConstantsOK ==
    {MaxConns, MaxGate, ProbePermits, MaxMinor, MaxTimeouts} \subseteq Nat

Nodes == {1, 2}
Other(n) == 3 - n
Conns == 1..MaxConns
Ends == {"dialer", "acceptor"}
Opposite(e) == IF e = "dialer" THEN "acceptor" ELSE "dialer"
Ranges == {r \in [min : 0..MaxMinor, max : 0..MaxMinor] : r.min <= r.max}

(* Pairing and file transfer are open to strangers; paired stands for the  *)
(* kinds that are not.                                                     *)
Kinds == {"probe", "open", "paired"}

VARIABLES
    paired,      \* nodes that have paired the other one
    shown,       \* nodes that are discoverable
    range,       \* minor versions each node supports
    gate,        \* permits of handshake_gate
    dialed,      \* connections dialled so far
    route,       \* dialling node, node dialled and kind of a connection
    stage,       \* progress of each end
    sent,        \* messages each end has sent
    minor,       \* the version each end has negotiated
    permits,     \* permits free at each node
    probePermits,
    timeouts

config == <<paired, shown, range, gate>>
vars == <<config, dialed, route, stage, sent, minor, permits, probePermits, timeouts>>

Node(c, e) == IF e = "dialer" THEN route[c].from ELSE route[c].to
Gone == {"closed", "failed", "expired"}
Ended == {"none", "done"} \cup Gone
NoRoute == [from |-> 1, to |-> 1, kind |-> "probe"]

Init ==
    /\ paired \in SUBSET Nodes
    /\ shown \in SUBSET Nodes
    /\ range \in [Nodes -> Ranges]
    /\ gate \in 1..MaxGate
    /\ dialed = 0
    /\ route = [c \in Conns |-> NoRoute]
    /\ stage = [c \in Conns |-> [e \in Ends |-> "none"]]
    /\ sent = [c \in Conns |-> [e \in Ends |-> 0]]
    /\ minor = [c \in Conns |-> [e \in Ends |-> 0]]
    /\ permits = [n \in Nodes |-> gate]
    /\ probePermits = [n \in Nodes |-> ProbePermits]
    /\ timeouts = 0

-----------------------------------------------------------------------------
(* validate_hello, for the version range of the sender.                    *)
ValidHello(reader, hello) == hello.max >= range[reader].min /\ hello.min <= range[reader].max

(* negotiate_protocol_minor: the highest version of both.                  *)
Least(a, b) == IF a <= b THEN a ELSE b
Negotiated(local, remote) == Least(local.max, remote.max)

(* Whether the end has a handshake permit: a probe is not counted against  *)
(* the permits of the node that sends it.                                  *)
HoldsPermit(c, e) ==
    /\ stage[c][e] \in {"connecting", "hello", "auth", "accepted"}
    /\ e = "acceptor" \/ route[c].kind # "probe"

(* The probe permit is taken once the hello is read and admitted.          *)
HoldsProbePermit(c, e) ==
    e = "acceptor" /\ route[c].kind = "probe" /\ stage[c][e] \in {"auth", "accepted"}

(* The end goes to a stage; a final one drops its permits.                 *)
Goto(c, e, s) ==
    /\ stage' = [stage EXCEPT ![c][e] = s]
    /\ permits' = [n \in Nodes |->
           IF n = Node(c, e) /\ HoldsPermit(c, e) /\ s \in Ended THEN permits[n] + 1 ELSE permits[n]]
    /\ probePermits' = [n \in Nodes |->
           IF n = Node(c, e) /\ HoldsProbePermit(c, e) /\ s \in Ended
           THEN probePermits[n] + 1 ELSE probePermits[n]]

Send(c, e, k) == sent' = [sent EXCEPT ![c][e] = k]
Received(c, e, k) == sent[c][Opposite(e)] >= k

(* A probe connects at once, a candidate of a dial waits for a permit.     *)
Dial(c, from, to, kind) ==
    /\ c = dialed + 1
    /\ dialed' = c
    /\ route' = [route EXCEPT ![c] = [from |-> from, to |-> to, kind |-> kind]]
    /\ stage' = [stage EXCEPT ![c]["dialer"] = IF kind = "probe" THEN "connecting" ELSE "waiting"]
    /\ UNCHANGED <<config, sent, minor, permits, probePermits, timeouts>>

Acquire(c) ==
    /\ stage[c]["dialer"] = "waiting"
    /\ permits[route[c].from] > 0
    /\ permits' = [permits EXCEPT ![route[c].from] = @ - 1]
    /\ stage' = [stage EXCEPT ![c]["dialer"] = "connecting"]
    /\ UNCHANGED <<config, dialed, route, sent, minor, probePermits, timeouts>>

Arriving(c) == stage[c]["dialer"] = "connecting" /\ stage[c]["acceptor"] = "none"

(* The accept loop takes a permit and the QUIC handshake completes; the    *)
(* dialler opens the stream and sends its hello.                           *)
Accept(c) ==
    /\ Arriving(c)
    /\ permits[route[c].to] > 0
    /\ permits' = [permits EXCEPT ![route[c].to] = @ - 1]
    /\ stage' = [stage EXCEPT ![c] = [e \in Ends |-> "hello"]]
    /\ Send(c, "dialer", 1)
    /\ UNCHANGED <<config, dialed, route, minor, probePermits, timeouts>>

(* A dial that has reached this very node: the certificate is not the one  *)
(* expected, so the dialler gives up before it sends a hello.              *)
AcceptWrongDevice(c) ==
    /\ Arriving(c)
    /\ route[c].from = route[c].to /\ route[c].kind # "probe"
    /\ permits[route[c].to] > 0
    /\ stage' = [stage EXCEPT ![c] = [e \in Ends |-> IF e = "dialer" THEN "failed" ELSE "hello"]]
    /\ UNCHANGED <<config, dialed, route, sent, minor, permits, probePermits, timeouts>>

(* Mutant: the accept loop waits for a permit instead of refusing.         *)
RefuseNever(c) == FALSE /\ Arriving(c) /\ UNCHANGED vars

(* At capacity the incoming connection is dropped, which refuses it.       *)
Refuse(c) ==
    /\ Arriving(c)
    /\ permits[route[c].to] = 0
    /\ Goto(c, "dialer", "failed")
    /\ UNCHANGED <<config, dialed, route, sent, minor, timeouts>>

(* authenticate_inbound: strangers are let in only by a discoverable node. *)
Admitted(c) ==
    \/ route[c].to \in shown
    \/ route[c].to \in paired /\ route[c].from # route[c].to
    \/ route[c].kind = "paired"

(* The checks of an end on the hello it reads: a dialler expects the peer  *)
(* it looked for, and no node talks to itself.                             *)
HelloFails(c, e) ==
    \/ ~ValidHello(Node(c, e), range[Node(c, Opposite(e))])
    \/ e = "acceptor" /\ ~Admitted(c)
    \/ route[c].from = route[c].to

MinorOf(c, e) == Negotiated(range[Node(c, e)], range[Node(c, Opposite(e))])

(* The hello is in order: the acceptor takes its probe permit and answers  *)
(* with its own hello, and either end signs the transcript.                *)
ReadHello(c, e) ==
    /\ stage[c][e] = "hello"
    /\ Received(c, e, 1)
    /\ ~HelloFails(c, e)
    /\ minor' = [minor EXCEPT ![c][e] = MinorOf(c, e)]
    /\ Send(c, e, 2)
    /\ stage' = [stage EXCEPT ![c][e] = "auth"]
    /\ IF e = "acceptor" /\ route[c].kind = "probe"
       THEN /\ probePermits[route[c].to] > 0
            /\ probePermits' = [probePermits EXCEPT ![route[c].to] = @ - 1]
       ELSE UNCHANGED probePermits
    /\ UNCHANGED <<config, dialed, route, permits, timeouts>>

(* A hello that fails a check, or a probe that is over the rate limit or   *)
(* finds no probe permit.  A node that reads its own probe has answered    *)
(* the hello before it finds out.                                          *)
RejectHello(c, e) ==
    /\ stage[c][e] = "hello"
    /\ Received(c, e, 1)
    /\ HelloFails(c, e) \/ (e = "acceptor" /\ route[c].kind = "probe")
    /\ IF e = "acceptor" /\ route[c].from = route[c].to /\ Admitted(c)
       THEN sent' \in {sent, [sent EXCEPT ![c][e] = 1]}
       ELSE UNCHANGED sent
    /\ Goto(c, e, "failed")
    /\ UNCHANGED <<config, dialed, route, minor, timeouts>>

MayBePaired(c, e) == route[c].kind = "paired" => Node(c, e) \in paired

(* Mutant: only the acceptor asks for the pairing.                         *)
ReadAuthAcceptorChecks(c, e) ==
    /\ stage[c][e] = "auth"
    /\ Received(c, e, 2)
    /\ IF e = "dialer" \/ MayBePaired(c, e)
       THEN Send(c, e, 3) /\ Goto(c, e, "accepted")
       ELSE UNCHANGED sent /\ Goto(c, e, "failed")
    /\ UNCHANGED <<config, dialed, route, minor, timeouts>>

(* Mutant: the acceptor is done once it has accepted.                      *)
ReadAuthAcceptorDone(c, e) ==
    /\ stage[c][e] = "auth"
    /\ Received(c, e, 2)
    /\ IF MayBePaired(c, e)
       THEN Send(c, e, 3) /\ Goto(c, e, IF e = "dialer" THEN "accepted" ELSE "done")
       ELSE UNCHANGED sent /\ Goto(c, e, "failed")
    /\ UNCHANGED <<config, dialed, route, minor, timeouts>>

(* The signature verifies; require_paired for the kinds that need it.      *)
ReadAuth(c, e) ==
    /\ stage[c][e] = "auth"
    /\ Received(c, e, 2)
    /\ IF MayBePaired(c, e)
       THEN Send(c, e, 3) /\ Goto(c, e, "accepted")
       ELSE UNCHANGED sent /\ Goto(c, e, "failed")
    /\ UNCHANGED <<config, dialed, route, minor, timeouts>>

(* The SessionAccepted of the peer must name the version this end chose.   *)
ReadAccepted(c, e) ==
    /\ stage[c][e] = "accepted"
    /\ Received(c, e, 3)
    /\ Goto(c, e, IF minor[c]["dialer"] = minor[c]["acceptor"] THEN "done" ELSE "failed")
    /\ UNCHANGED <<config, dialed, route, sent, minor, timeouts>>

(* An end that has finished may close at once: a probe after a short       *)
(* sleep, a session that register_session finds to be a duplicate or       *)
(* replaces later, that no feature subscribes to, or whose dial is dropped. *)
CloseFinished(c, e) ==
    /\ stage[c][e] = "done"
    /\ Goto(c, e, "closed")
    /\ UNCHANGED <<config, dialed, route, sent, minor, timeouts>>

(* The other end has closed, and the close overtakes what it sent.         *)
ConnectionLost(c, e) ==
    /\ stage[c][e] \in {"hello", "auth", "accepted"}
    /\ stage[c][Opposite(e)] \in Gone
    /\ Goto(c, e, "failed")
    /\ UNCHANGED <<config, dialed, route, sent, minor, timeouts>>

(* Mutant: the permit of a handshake that timed out is not returned.       *)
TimesOutKeepsPermit(c, e) ==
    /\ stage[c][e] \in {"waiting", "connecting", "hello", "auth", "accepted"}
    /\ timeouts < MaxTimeouts
    /\ timeouts' = timeouts + 1
    /\ stage' = [stage EXCEPT ![c][e] = "expired"]
    /\ UNCHANGED <<config, dialed, route, sent, minor, permits, probePermits>>

(* HANDSHAKE_TIMEOUT, at any point.                                        *)
TimesOut(c, e) ==
    /\ stage[c][e] \in {"waiting", "connecting", "hello", "auth", "accepted"}
    /\ timeouts < MaxTimeouts
    /\ timeouts' = timeouts + 1
    /\ Goto(c, e, "expired")
    /\ UNCHANGED <<config, dialed, route, sent, minor>>

Progress(c) ==
    \/ Acquire(c) \/ Accept(c) \/ AcceptWrongDevice(c) \/ Refuse(c)
    \/ \E e \in Ends : ReadHello(c, e) \/ RejectHello(c, e) \/ ReadAuth(c, e)
                       \/ ReadAccepted(c, e) \/ ConnectionLost(c, e)

Next ==
    \E c \in Conns :
        \/ \E from, to \in Nodes, kind \in Kinds : Dial(c, from, to, kind)
        \/ Progress(c)
        \/ \E e \in Ends : TimesOut(c, e) \/ CloseFinished(c, e)

(* tokio polls a ready task and QUIC delivers; no timeout and no close of a *)
(* finished session is needed.                                             *)
Fairness == \A c \in Conns : WF_vars(Progress(c))

Spec == Init /\ [][Next]_vars /\ Fairness

-----------------------------------------------------------------------------
Stages == Ended \cup {"waiting", "connecting", "hello", "auth", "accepted"}

TypeOK ==
    /\ paired \subseteq Nodes /\ shown \subseteq Nodes
    /\ range \in [Nodes -> Ranges]
    /\ gate \in 1..MaxGate
    /\ dialed \in 0..MaxConns
    /\ route \in [Conns -> [from : Nodes, to : Nodes, kind : Kinds]]
    /\ stage \in [Conns -> [Ends -> Stages]]
    /\ sent \in [Conns -> [Ends -> 0..3]]
    /\ minor \in [Conns -> [Ends -> 0..MaxMinor]]
    /\ permits \in [Nodes -> 0..gate]
    /\ probePermits \in [Nodes -> 0..ProbePermits]
    /\ timeouts \in 0..MaxTimeouts

Held(n, Holds(_, _)) == Cardinality({p \in Conns \X Ends : Node(p[1], p[2]) = n /\ Holds(p[1], p[2])})

(* A permit is held exactly by a handshake that is going on: neither the   *)
(* refusals, nor the failed checks, nor a timeout lose or double one, so a *)
(* node that is idle can take on as many handshakes as it has permits.    *)
PermitsConserved ==
    \A n \in Nodes :
        /\ permits[n] + Held(n, HoldsPermit) = gate
        /\ probePermits[n] + Held(n, HoldsProbePermit) = ProbePermits

(* An end that finishes has a peer that went through all its own checks    *)
(* for the same connection, and both consent: they chose the same version, *)
(* which both support; they are different devices; a paired kind needs     *)
(* both pairings; a stranger needs a discoverable acceptor.                *)
BothConsent ==
    \A c \in Conns, e \in Ends :
        stage[c][e] \in {"done", "closed"} =>
            /\ sent[c][Opposite(e)] = 3
            /\ minor[c]["dialer"] = minor[c]["acceptor"]
            /\ \A n \in Nodes : minor[c][e] \in range[n].min..range[n].max
            /\ route[c].from # route[c].to
            /\ route[c].kind = "paired" => paired = Nodes
            /\ route[c].kind # "paired" => route[c].to \in shown \cup paired

(* No end is left with a session the other end has refused: while an end   *)
(* that has finished keeps its connection, the other end has not failed,   *)
(* neither by a check nor by losing the connection, whatever closes        *)
(* overtake messages.  Only its own timeout may have ended it.             *)
NoOneSidedSession ==
    \A c \in Conns, e \in Ends : stage[c][e] = "done" => stage[c][Opposite(e)] # "failed"

(* Every handshake ends, also when the permits of both nodes are held by   *)
(* dials to each other, and without any timeout.                           *)
HandshakesEnd ==
    \A c \in Conns : stage[c]["dialer"] # "none" ~> \A e \in Ends : stage[c][e] \in Ended
=============================================================================
