------------------------------- MODULE PeerPair -------------------------------
(***************************************************************************)
(* Two runtimes that dial each other for one session kind.  Each end runs  *)
(* its own task for a connection and registers it in its own table, so the *)
(* two tables decide about the same connections in different orders.       *)
(* Closing a connection at one end reaches the other end later.            *)
(*                                                                         *)
(* The register_session decision is the one of SessionRegistry, instanced  *)
(* once per node.  Applications hold the sessions they are given.  A       *)
(* connection carries the number of its dial, so older and newer dials of  *)
(* one node can be told apart.                                             *)
(***************************************************************************)
EXTENDS Naturals, Sequences

CONSTANTS
    RealtimeInput,    \* the session kind both nodes use
    NoSession,
    RelayNodes,       \* nodes that may also dial through a relay
    RestartNodes,     \* nodes whose process may end and start again
    MaxDials,         \* bound: dials of both nodes together
    MaxProcess,       \* bound: processes of a node
    MaxTimeouts,      \* bound: handshakes that time out
    MaxDisconnects,   \* bound: disconnect, grant or revoke calls
    MaxRetired        \* MAX_RETIRED_PEER_INSTANCES

Nodes == {1, 2}
Conns == 1..MaxDials
NoConn == 0
Other(n) == 3 - n

ASSUME PairConstantsOK ==
    /\ RelayNodes \subseteq Nodes
    /\ RestartNodes \subseteq Nodes
    /\ MaxDials \in Nat \ {0}
    /\ MaxProcess \in Nat \ {0}
    /\ MaxTimeouts \in Nat
    /\ MaxDisconnects \in Nat
    /\ MaxRetired \in Nat \ {0}

VARIABLES
    dialed,       \* number of connections dialled so far
    route,        \* initiator, relayed and the two processes of a connection
    stage,        \* stage[n][c]: progress of node n's task for connection c
    result,       \* result[n][c]: what register_session returned at node n
    up,           \* up[n]: connections node n has not seen closed
    table,        \* table[n]: the entry of the other node
    gate,         \* gate[n]: the connection dialled under the dial lock
    proc,         \* number of the running process of a node
    timeouts,     \* handshakes that timed out so far
    disconnects   \* disconnect calls so far

vars == <<dialed, route, stage, result, up, table, gate, proc, timeouts, disconnects>>

NoEntry == [conn |-> NoConn, retired |-> <<>>]
NoRoute == [initiator |-> 0, relayed |-> FALSE, proc |-> <<0, 0>>]

(* The stages of one end: the handshake runs, this end has sent its        *)
(* SessionAccepted, this end has read the peer's, register_session has     *)
(* returned, the task is over; or the handshake failed before or after     *)
(* this end sent its SessionAccepted.                                      *)
Stages == {"unused", "handshake", "confirmed", "authenticated", "registered", "done",
           "failed", "aborted"}
Working == {"handshake", "confirmed", "authenticated", "registered"}

-----------------------------------------------------------------------------
(* Node n's part of the state as SessionRegistry sees it.                  *)
RegistryStage(n, c) ==
    CASE stage[n][c] \in {"handshake", "confirmed"} ->
             IF route[c].initiator = n THEN "dialing" ELSE "unused"
      [] stage[n][c] \in {"authenticated", "registered", "done"} -> stage[n][c]
      [] OTHER -> "unused"

RegistryOrigin(n, c) ==
    CASE route[c].initiator = n /\ ~route[c].relayed -> "connect"
      [] route[c].initiator = n /\ route[c].relayed -> "relay_connect"
      [] route[c].initiator # n /\ ~route[c].relayed -> "accept"
      [] OTHER -> "relay_accept"

RegistrySession(n, c) ==
    IF RegistryStage(n, c) = "unused" THEN NoSession
    ELSE [peer |-> Other(n), kind |-> RealtimeInput, origin |-> RegistryOrigin(n, c),
          instance |-> IF RegistryStage(n, c) = "dialing" THEN 0
                       ELSE route[c].proc[Other(n)]]

RegistryOpen(n) == {c \in up[n] : stage[n][c] \in {"authenticated", "registered", "done"}}

RegistryHandle(n) ==
    {c \in Conns : \/ stage[n][c] = "authenticated"
                   \/ stage[n][c] \in {"registered", "done"} /\ result[n][c] = c}

(* The variables of SessionRegistry as node n of the pair has them.        *)
PairKey(n) == <<Other(n), RealtimeInput>>
StageView(n) == [c \in Conns |-> RegistryStage(n, c)]
SessionView(n) == [c \in Conns |-> RegistrySession(n, c)]
TableView(n) == [k \in {PairKey(n)} |-> table[n]]
GateView(n) == [k \in {PairKey(n)} |-> gate[n]]
RunningView(n) == [p \in {Other(n)} |-> proc[p]]

Registry(n) == INSTANCE SessionRegistry WITH
    Local <- n,
    Peers <- {Other(n)},
    Kinds <- {RealtimeInput},
    LegacyProcesses <- {},
    stage <- StageView(n),
    session <- SessionView(n),
    result <- result[n],
    open <- RegistryOpen(n),
    handle <- RegistryHandle(n),
    streams <- {},
    table <- TableView(n),
    gate <- GateView(n),
    running <- RunningView(n)

Usable(n) == table[n].conn # NoConn /\ table[n].conn \in up[n]

-----------------------------------------------------------------------------
Init ==
    /\ dialed = 0
    /\ route = [c \in Conns |-> NoRoute]
    /\ stage = [n \in Nodes |-> [c \in Conns |-> "unused"]]
    /\ result = [n \in Nodes |-> [c \in Conns |-> NoConn]]
    /\ up = [n \in Nodes |-> {}]
    /\ table = [n \in Nodes |-> NoEntry]
    /\ gate = [n \in Nodes |-> NoConn]
    /\ proc = [n \in Nodes |-> 1]
    /\ timeouts = 0
    /\ disconnects = 0

(* Mutant: a direct dial takes no dial lock either.                        *)
DialUngated(n, relayed) ==
    LET c == dialed + 1 IN
    /\ dialed < MaxDials
    /\ ~Usable(n)
    /\ relayed => n \in RelayNodes
    /\ dialed' = c
    /\ route' = [route EXCEPT ![c] = [initiator |-> n, relayed |-> relayed, proc |-> proc]]
    /\ stage' = [i \in Nodes |-> [stage[i] EXCEPT ![c] = "handshake"]]
    /\ up' = [i \in Nodes |-> up[i] \cup {c}]
    /\ table' = [table EXCEPT ![n] = NoEntry]
    /\ UNCHANGED <<result, gate, proc, timeouts, disconnects>>

(* connect or connect_input_relay at node n: the QUIC connection comes up  *)
(* and both ends start the authentication exchange.  A relay dial takes no *)
(* dial lock.                                                              *)
Dial(n, relayed) ==
    LET c == dialed + 1 IN
    /\ dialed < MaxDials
    /\ ~Usable(n)
    /\ IF relayed THEN n \in RelayNodes /\ UNCHANGED gate
       ELSE gate[n] = NoConn /\ gate' = [gate EXCEPT ![n] = c]
    /\ dialed' = c
    /\ route' = [route EXCEPT ![c] = [initiator |-> n, relayed |-> relayed, proc |-> proc]]
    /\ stage' = [i \in Nodes |-> [stage[i] EXCEPT ![c] = "handshake"]]
    /\ up' = [i \in Nodes |-> up[i] \cup {c}]
    /\ table' = [table EXCEPT ![n] = NoEntry]
    /\ UNCHANGED <<result, proc, timeouts, disconnects>>

(* finish_authentication, first half: the peer's signature is verified and *)
(* this end sends its SessionAccepted.                                     *)
SendAccepted(n, c) ==
    /\ stage[n][c] = "handshake"
    /\ c \in up[n]
    /\ stage' = [stage EXCEPT ![n][c] = "confirmed"]
    /\ UNCHANGED <<dialed, route, result, up, table, gate, proc, timeouts, disconnects>>

SentAccepted(n, c) == stage[n][c] \notin {"unused", "handshake", "failed"}

(* finish_authentication, second half: this end reads the SessionAccepted  *)
(* the other end has sent, whatever became of the other end since.         *)
Authenticate(n, c) ==
    /\ stage[n][c] = "confirmed"
    /\ c \in up[n]
    /\ SentAccepted(Other(n), c)
    /\ stage' = [stage EXCEPT ![n][c] = "authenticated"]
    /\ UNCHANGED <<dialed, route, result, up, table, gate, proc, timeouts, disconnects>>

Release(n, c) == gate' = [gate EXCEPT ![n] = IF @ = c THEN NoConn ELSE @]

Fallen(s) == IF s = "handshake" THEN "failed" ELSE IF s = "unused" THEN s ELSE "aborted"

(* The handshake of one end gives up: the dialler's CandidateConnection    *)
(* guard, or dropping the accept task's connection, closes it.             *)
GiveUp(n, c) ==
    /\ stage[n][c] \in {"handshake", "confirmed"}
    /\ stage' = [stage EXCEPT ![n][c] = Fallen(@)]
    /\ up' = [up EXCEPT ![n] = @ \ {c}]
    /\ Release(n, c)
    /\ UNCHANGED <<dialed, route, result, table, proc, disconnects>>

(* Mutant: only the dialler notices that its connection is gone.           *)
HandshakeFailsAtDialer(n, c) ==
    c \notin up[n] /\ route[c].initiator = n /\ GiveUp(n, c) /\ UNCHANGED timeouts

HandshakeFails(n, c) == c \notin up[n] /\ GiveUp(n, c) /\ UNCHANGED timeouts

HandshakeTimesOut(n, c) ==
    /\ c \in up[n]
    /\ timeouts < MaxTimeouts
    /\ timeouts' = timeouts + 1
    /\ GiveUp(n, c)

(* register_session at node n, with the decisions of SessionRegistry.      *)
RegisterSession(n, c) ==
    LET returned == Registry(n)!Returned(c) IN
    /\ stage[n][c] = "authenticated"
    /\ stage' = [stage EXCEPT ![n][c] =
           IF RegistryOrigin(n, c) = "connect" /\ returned # NoConn
           THEN "registered" ELSE "done"]
    /\ result' = [result EXCEPT ![n][c] = returned]
    /\ table' = IF returned = c
                THEN [table EXCEPT ![n] = [conn |-> c, retired |-> Registry(n)!Retire(c)]]
                ELSE table
    /\ up' = [up EXCEPT ![n] = @ \ Registry(n)!Closed(c)]
    /\ IF returned = NoConn THEN Release(n, c) ELSE UNCHANGED gate
    /\ UNCHANGED <<dialed, route, proc, timeouts, disconnects>>

(* remember_authenticated_session, after which connect returns.            *)
RememberDialed(n, c) ==
    /\ stage[n][c] = "registered"
    /\ stage' = [stage EXCEPT ![n][c] = "done"]
    /\ Release(n, c)
    /\ UNCHANGED <<dialed, route, result, up, table, proc, timeouts, disconnects>>

(* The other end's close frame, or the idle timeout after its process      *)
(* ended, arrives.                                                         *)
PeerCloses(n, c) ==
    /\ c \in up[n]
    /\ c \notin up[Other(n)]
    /\ up' = [up EXCEPT ![n] = @ \ {c}]
    /\ UNCHANGED <<dialed, route, stage, result, table, gate, proc, timeouts, disconnects>>

(* Mutant: the watcher removes the entry whoever it belongs to by then.    *)
RelayWatcherUnchecked(n, c) ==
    /\ stage[n][c] = "done"
    /\ route[c].relayed
    /\ c \notin up[n]
    /\ table[n].conn # NoConn
    /\ table' = [table EXCEPT ![n] = NoEntry]
    /\ UNCHANGED <<dialed, route, stage, result, up, gate, proc, timeouts, disconnects>>

(* The task register_input_relay spawned removes its own entry once the    *)
(* connection has closed.                                                  *)
RelayWatcher(n, c) ==
    /\ stage[n][c] = "done"
    /\ route[c].relayed
    /\ c \notin up[n]
    /\ table[n].conn = c
    /\ table' = [table EXCEPT ![n] = NoEntry]
    /\ UNCHANGED <<dialed, route, stage, result, up, gate, proc, timeouts, disconnects>>

Disconnect(n) ==
    /\ table[n].conn # NoConn
    /\ disconnects < MaxDisconnects
    /\ disconnects' = disconnects + 1
    /\ table' = [table EXCEPT ![n] = NoEntry]
    /\ up' = [up EXCEPT ![n] = @ \ {table[n].conn}]
    /\ UNCHANGED <<dialed, route, stage, result, gate, proc, timeouts>>

(* The process of node n ends without a word and a new one starts.         *)
Restart(n) ==
    /\ n \in RestartNodes
    /\ proc[n] < MaxProcess
    /\ proc' = [proc EXCEPT ![n] = @ + 1]
    /\ stage' = [stage EXCEPT ![n] = [c \in Conns |-> Fallen(stage[n][c])]]
    /\ result' = [result EXCEPT ![n] = [c \in Conns |-> NoConn]]
    /\ up' = [up EXCEPT ![n] = {}]
    /\ table' = [table EXCEPT ![n] = NoEntry]
    /\ gate' = [gate EXCEPT ![n] = NoConn]
    /\ UNCHANGED <<dialed, route, timeouts, disconnects>>

Task(n, c) ==
    \/ SendAccepted(n, c)
    \/ Authenticate(n, c)
    \/ HandshakeFails(n, c)
    \/ RegisterSession(n, c)
    \/ RememberDialed(n, c)
    \/ PeerCloses(n, c)
    \/ RelayWatcher(n, c)

Next ==
    \E n \in Nodes :
        \/ \E relayed \in BOOLEAN : Dial(n, relayed)
        \/ \E c \in Conns : Task(n, c)
        \/ \E c \in Conns : HandshakeTimesOut(n, c)
        \/ Disconnect(n)
        \/ Restart(n)

(* The executor runs every task that can go on, and QUIC delivers a close  *)
(* or times out.  Nothing obliges a node to dial, disconnect or restart.   *)
Fairness == \A n \in Nodes, c \in Conns : WF_vars(Task(n, c))

Spec == Init /\ [][Next]_vars /\ Fairness

-----------------------------------------------------------------------------
(* Types; and the dial lock is held by a direct dial of this node whose    *)
(* task is still running, so it cannot be left behind.                     *)
TypeOK ==
    /\ dialed \in 0..MaxDials
    /\ route \in [Conns -> [initiator : {0} \cup Nodes, relayed : BOOLEAN,
                            proc : [Nodes -> 0..MaxProcess]]]
    /\ stage \in [Nodes -> [Conns -> Stages]]
    /\ result \in [Nodes -> [Conns -> Conns \cup {NoConn}]]
    /\ up \in [Nodes -> SUBSET Conns]
    /\ \A n \in Nodes : table[n].conn \in Conns \cup {NoConn} /\ Len(table[n].retired) <= MaxRetired
    /\ gate \in [Nodes -> Conns \cup {NoConn}]
    /\ \A n \in Nodes : gate[n] # NoConn =>
           /\ stage[n][gate[n]] \in Working
           /\ route[gate[n]].initiator = n
    /\ proc \in [Nodes -> 1..MaxProcess]
    /\ timeouts \in 0..MaxTimeouts
    /\ disconnects \in 0..MaxDisconnects

(* The connections node n would hand to a feature.                         *)
Live(n) == {c \in up[n] : stage[n][c] \in {"registered", "done"} /\ result[n][c] = c}

(* No task is under way and both ends have seen the same closes.           *)
AtRest ==
    /\ \A n \in Nodes, c \in Conns : stage[n][c] \notin Working
    /\ up[1] = up[2]

(* Nothing but dialling has happened.                                      *)
Undisturbed == timeouts = 0 /\ disconnects = 0 /\ \A n \in Nodes : proc[n] = 1

(* No dial went through a relay, so every dial took the dial lock.         *)
Direct == \A c \in Conns : ~route[c].relayed

(* At rest the two nodes use the same connection or none, whatever         *)
(* restarts, timeouts and disconnects there were: no end keeps sending     *)
(* into a session the other end has refused.                               *)
EndsAgreeAtRest ==
    AtRest => /\ Live(1) = Live(2)
              /\ \A n \in Nodes : Live(n) \subseteq {table[n].conn}

(* Opposing dials converge on one session: when nothing else disturbs      *)
(* them, the two tables never close each other's choice.  Relay dials are  *)
(* left out for they take no dial lock: of two relay dials of one node the *)
(* ends may register the sessions in opposite orders and close both.       *)
OpposingDialsConverge ==
    AtRest /\ Undisturbed /\ Direct /\ dialed > 0 => Live(1) # {} /\ Live(1) = Live(2)

(* "A fresh authenticated session from the same initiator is a reconnect", *)
(* for "local dial gates and candidate selection already prevent           *)
(* concurrent same-initiator duplicates" (register_session): the session   *)
(* that displaces a live one of its own initiator belongs to a later dial, *)
(* whatever restarts, timeouts and disconnects there were, provided the    *)
(* dialler has not closed its end of it.  When a dialler gives a dial up   *)
(* after its SessionAccepted and dials again, the other end may well       *)
(* register the abandoned dial second.  Relay dials take no dial lock and  *)
(* are left out.                                                           *)
SameInitiatorIsReconnect ==
    [][\A n \in Nodes, c \in Conns :
           LET d == table[n].conn IN
           /\ Usable(n)
           /\ RegisterSession(n, c)
           /\ route[d].initiator = route[c].initiator
           /\ ~route[c].relayed /\ ~route[d].relayed
           /\ c \in up[route[c].initiator]
           /\ table'[n].conn = c
           => d < c]_vars
=============================================================================
