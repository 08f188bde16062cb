----------------------------- MODULE RelayTunnel -----------------------------
(***************************************************************************)
(* Input relays between two nodes: the private endpoint and the bridge of  *)
(* each end, the inner connection that runs over them, the table entry and *)
(* the Session that own a tunnel, its capacity, and shutdown.              *)
(*                                                                         *)
(* A relay is a stream of an outer session through a third device.  Its    *)
(* two ends call connect_input_relay and accept_input_relay.  Who wins in  *)
(* register_session is an input (SessionRegistry).                         *)
(***************************************************************************)
EXTENDS Integers, FiniteSets

CONSTANTS
    Relays,      \* outer streams that carry an input relay
    Capacity,    \* relay_capacity of a node
    NoRelay

ASSUME TunnelConstants == IsFiniteSet(Relays) /\ Capacity \in Nat /\ NoRelay \notin Relays

Nodes == {1, 2}
Other(n) == 3 - n

VARIABLES
    end,       \* state of each end of each relay
    outer,     \* relays whose outer stream is up
    capacity,  \* permits free at each node
    others,    \* permits its tunnels to other devices hold
    lock,      \* holder of the write lock of recovery_endpoints
    stopped,   \* nodes whose shutdown has begun
    swept      \* nodes whose shutdown has closed the listed endpoints

vars == <<end, outer, capacity, others, lock, stopped, swept>>

(* phase: new, locked, calling, registered, done.                          *)
Unused == [phase |-> "new", endpoint |-> "none", bridge |-> "none", inner |-> "none",
           entry |-> FALSE, handle |-> FALSE]

(* Someone owns the RelayTunnel: the call, the Session or the table entry. *)
Owned(e) == e.phase = "calling" \/ e.entry \/ e.handle

Init ==
    /\ end = [r \in Relays |-> [n \in Nodes |-> Unused]]
    /\ outer = Relays
    /\ capacity = [n \in Nodes |-> Capacity]
    /\ others = [n \in Nodes |-> 0]
    /\ lock = [n \in Nodes |-> NoRelay]
    /\ stopped = {} /\ swept = {}

(* Dropping the last owner closes the endpoint and aborts the bridge; an   *)
(* endpoint that is closed closes its connection.                          *)
Dropped(e) ==
    IF Owned(e) \/ e.endpoint = "none" THEN e
    ELSE [e EXCEPT !.endpoint = "closed", !.bridge = "ended"]
Settled(e) ==
    LET d == Dropped(e) IN
    IF d.endpoint = "closed" /\ d.inner = "up" THEN [d EXCEPT !.inner = "closed"] ELSE d

(* The end becomes e; a tunnel that loses its last owner returns a permit. *)
Become(r, n, e) ==
    /\ end' = [end EXCEPT ![r][n] = Settled(e)]
    /\ capacity' = [capacity EXCEPT ![n] =
           IF Owned(end[r][n]) /\ ~Owned(e) THEN @ + 1 ELSE @]

-----------------------------------------------------------------------------
(* new_input_relay_tunnel: no capacity, or the runtime is shut down.       *)
Refuse(r, n) ==
    /\ end[r][n].phase = "new"
    /\ capacity[n] = 0 \/ (lock[n] = NoRelay /\ n \in stopped)
    /\ Become(r, n, [end[r][n] EXCEPT !.phase = "done"])
    /\ UNCHANGED <<outer, others, lock, stopped, swept>>

(* Mutant: the stopped flag is not looked at under the lock.               *)
ReserveUnchecked(r, n) ==
    /\ end[r][n].phase = "new"
    /\ capacity[n] > 0
    /\ lock[n] = NoRelay
    /\ end' = [end EXCEPT ![r][n].phase = "locked"]
    /\ capacity' = [capacity EXCEPT ![n] = @ - 1]
    /\ lock' = [lock EXCEPT ![n] = r]
    /\ UNCHANGED <<outer, others, stopped, swept>>

(* It has a permit and the lock, and the runtime is not shut down ...      *)
Reserve(r, n) ==
    /\ end[r][n].phase = "new"
    /\ capacity[n] > 0
    /\ lock[n] = NoRelay
    /\ n \notin stopped
    /\ end' = [end EXCEPT ![r][n].phase = "locked"]
    /\ capacity' = [capacity EXCEPT ![n] = @ - 1]
    /\ lock' = [lock EXCEPT ![n] = r]
    /\ UNCHANGED <<outer, others, stopped, swept>>

(* ... it binds, spawns the bridge and lists the endpoint ...              *)
Create(r, n) ==
    /\ end[r][n].phase = "locked"
    /\ end' = [end EXCEPT ![r][n] =
           [@ EXCEPT !.phase = "calling", !.endpoint = "open", !.bridge = "running"]]
    /\ lock' = [lock EXCEPT ![n] = NoRelay]
    /\ UNCHANGED <<outer, capacity, others, stopped, swept>>

(* Mutant: an error on the way loses the permit.                           *)
CreateFailsKeepsPermit(r, n) ==
    /\ end[r][n].phase = "locked"
    /\ end' = [end EXCEPT ![r][n].phase = "done"]
    /\ lock' = [lock EXCEPT ![n] = NoRelay]
    /\ UNCHANGED <<outer, capacity, others, stopped, swept>>

(* ... or an error drops permit and lock.                                  *)
CreateFails(r, n) ==
    /\ end[r][n].phase = "locked"
    /\ end' = [end EXCEPT ![r][n].phase = "done"]
    /\ capacity' = [capacity EXCEPT ![n] = @ + 1]
    /\ lock' = [lock EXCEPT ![n] = NoRelay]
    /\ UNCHANGED <<outer, others, stopped, swept>>

(* The inner handshake completes at this end.                              *)
Establish(r, n) ==
    /\ end[r][n].phase = "calling"
    /\ end[r][n].inner = "none"
    /\ \A m \in Nodes : end[r][m].endpoint = "open" /\ end[r][m].bridge = "running"
    /\ end[r][Other(n)].inner # "closed"
    /\ Become(r, n, [end[r][n] EXCEPT !.inner = "up"])
    /\ UNCHANGED <<outer, others, lock, stopped, swept>>

(* No handshake permit, a failed check, the timeout, or a dropped call.    *)
CallFails(r, n) ==
    /\ end[r][n].phase = "calling"
    /\ Become(r, n, [end[r][n] EXCEPT !.phase = "done"])
    /\ UNCHANGED <<outer, others, lock, stopped, swept>>

(* register_input_relay: the session is registered and watched, or it lost *)
(* and is dropped with its tunnel.                                         *)
Register(r, n, won) ==
    /\ end[r][n].phase = "calling"
    /\ end[r][n].inner # "none"
    /\ Become(r, n, IF won THEN [end[r][n] EXCEPT !.phase = "registered", !.entry = TRUE, !.handle = TRUE]
                    ELSE [end[r][n] EXCEPT !.phase = "done"])
    /\ UNCHANGED <<outer, others, lock, stopped, swept>>

(* Mutant: the watcher leaves the entry in place.                          *)
WatcherSparesEntry(r, n) ==
    /\ end[r][n].phase = "registered"
    /\ end[r][n].inner = "closed"
    /\ end[r][n].bridge = "running"
    /\ Become(r, n, [end[r][n] EXCEPT !.bridge = "ended"])
    /\ UNCHANGED <<outer, others, lock, stopped, swept>>

(* The task of register_input_relay: the inner connection is closed.       *)
Watcher(r, n) ==
    /\ end[r][n].phase = "registered"
    /\ end[r][n].inner = "closed"
    /\ end[r][n].entry \/ end[r][n].bridge = "running"
    /\ Become(r, n, [end[r][n] EXCEPT !.bridge = "ended", !.entry = FALSE])
    /\ UNCHANGED <<outer, others, lock, stopped, swept>>

(* Session::close by the application, or its entry is removed by           *)
(* disconnect, grant, revoke, forget or a session that replaces it.        *)
CloseInner(r, n) ==
    /\ end[r][n].phase = "registered"
    /\ end[r][n].inner = "up"
    /\ \E entry \in {end[r][n].entry, FALSE} :
           Become(r, n, [end[r][n] EXCEPT !.inner = "closed", !.entry = entry])
    /\ UNCHANGED <<outer, others, lock, stopped, swept>>

(* The close of the other end arrives, if both bridges still carry it.     *)
PeerCloses(r, n) ==
    /\ end[r][n].inner = "up"
    /\ end[r][Other(n)].inner = "closed"
    /\ \A m \in Nodes : end[r][m].bridge = "running"
    /\ Become(r, n, [end[r][n] EXCEPT !.inner = "closed"])
    /\ UNCHANGED <<outer, others, lock, stopped, swept>>

DropHandle(r, n) ==
    /\ end[r][n].handle
    /\ Become(r, n, [end[r][n] EXCEPT !.handle = FALSE])
    /\ UNCHANGED <<outer, others, lock, stopped, swept>>

(* A bridge ends by itself when its streams do: the other end has dropped  *)
(* them, or the outer session is gone.  It closes the endpoint.            *)
StreamsGone(r, n) ==
    r \notin outer \/ end[r][Other(n)].phase = "done" \/ end[r][Other(n)].bridge = "ended"

BridgeEnds(r, n) ==
    /\ end[r][n].bridge = "running"
    /\ StreamsGone(r, n)
    /\ Become(r, n, [end[r][n] EXCEPT !.bridge = "ended", !.endpoint = "closed"])
    /\ UNCHANGED <<outer, others, lock, stopped, swept>>

(* It also ends by an empty packet or an error of its socket.              *)
BridgeBreaks(r, n) ==
    /\ end[r][n].bridge = "running"
    /\ Become(r, n, [end[r][n] EXCEPT !.bridge = "ended", !.endpoint = "closed"])
    /\ UNCHANGED <<outer, others, lock, stopped, swept>>

OuterCloses(r) ==
    /\ r \in outer
    /\ outer' = outer \ {r}
    /\ UNCHANGED <<end, capacity, others, lock, stopped, swept>>

(* shutdown: the flag, then every listed endpoint under the read lock.     *)
Stop(n) ==
    /\ n \notin stopped
    /\ stopped' = stopped \cup {n}
    /\ UNCHANGED <<end, outer, capacity, others, lock, swept>>

CloseListed(n) ==
    /\ n \in stopped \ swept
    /\ lock[n] = NoRelay
    /\ swept' = swept \cup {n}
    /\ end' = [r \in Relays |-> [m \in Nodes |->
           IF m = n /\ end[r][m].endpoint = "open"
           THEN Settled([end[r][m] EXCEPT !.endpoint = "closed"]) ELSE end[r][m]]]
    /\ UNCHANGED <<outer, capacity, others, lock, stopped>>

(* A tunnel to another device takes or returns a permit.                   *)
Elsewhere(n, d) ==
    /\ others[n] + d \in Nat
    /\ capacity[n] - d \in Nat
    /\ others' = [others EXCEPT ![n] = @ + d]
    /\ capacity' = [capacity EXCEPT ![n] = @ - d]
    /\ UNCHANGED <<end, outer, lock, stopped, swept>>

Next ==
    \/ \E r \in Relays, n \in Nodes :
           \/ Refuse(r, n) \/ Reserve(r, n) \/ Create(r, n) \/ CreateFails(r, n)
           \/ Establish(r, n) \/ CallFails(r, n) \/ (\E won \in BOOLEAN : Register(r, n, won))
           \/ Watcher(r, n) \/ CloseInner(r, n) \/ PeerCloses(r, n) \/ DropHandle(r, n)
           \/ BridgeEnds(r, n) \/ BridgeBreaks(r, n)
    \/ \E r \in Relays : OuterCloses(r)
    \/ \E n \in Nodes : Stop(n) \/ CloseListed(n) \/ \E d \in {-1, 1} : Elsewhere(n, d)

(* Tasks that can run do; a call ends by its timeout.  Nothing is assumed  *)
(* of the application, of the outer session or of the delivery of a close. *)
Fairness ==
    \A r \in Relays, n \in Nodes :
        /\ WF_vars(CallFails(r, n) \/ \E won \in BOOLEAN : Register(r, n, won))
        /\ WF_vars(Watcher(r, n))
        /\ WF_vars(BridgeEnds(r, n))

Spec == Init /\ [][Next]_vars /\ Fairness

-----------------------------------------------------------------------------
TypeOK ==
    /\ end \in [Relays -> [Nodes ->
           [phase : {"new", "locked", "calling", "registered", "done"},
            endpoint : {"none", "open", "closed"},
            bridge : {"none", "running", "ended"},
            inner : {"none", "up", "closed"},
            entry : BOOLEAN, handle : BOOLEAN]]]
    /\ outer \subseteq Relays
    /\ lock \in [Nodes -> Relays \cup {NoRelay}]
    /\ swept \subseteq stopped /\ stopped \subseteq Nodes

(* A permit of relay_capacity is out exactly while a tunnel is being made  *)
(* or has an owner, whichever call, session, entry or error ends it.       *)
CapacityConserved ==
    \A n \in Nodes :
        capacity[n] + others[n]
            + Cardinality({r \in Relays : end[r][n].phase = "locked" \/ Owned(end[r][n])}) = Capacity

(* After shutdown no tunnel of the node has an open endpoint, also when    *)
(* one was being made while it ran.                                        *)
ShutdownClosesTunnels == \A r \in Relays, n \in swept : end[r][n].endpoint # "open"

(* "Closing either inner QUIC connection also closes both outer streams,   *)
(* so a relay never stays alive after its input token."                    *)
RelayEndsWithItsSession ==
    \A r \in Relays, n \in Nodes :
        end[r][n].inner = "closed" ~> \A m \in Nodes : end[r][m].bridge # "running"

(* A session that is closed and that the application has let go returns    *)
(* its permit: the watcher takes the entry out of the table.               *)
CapacityReturns ==
    \A r \in Relays, n \in Nodes :
        end[r][n].phase = "registered" /\ end[r][n].inner = "closed" /\ ~end[r][n].handle
            ~> ~Owned(end[r][n])
=============================================================================
