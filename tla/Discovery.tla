------------------------------- MODULE Discovery -------------------------------
(***************************************************************************)
(* DiscoveryService: the table of multicast records, the table of routes   *)
(* learned from authenticated connections, and the snapshot merged from    *)
(* both.  One browser task handles the events of the mDNS daemon in turn;  *)
(* observe_authenticated, forget_authenticated and refresh run in any      *)
(* task.  emit reads one table, then the other, then publishes, with an    *)
(* await before each read.  A consumer, as the comment on                  *)
(* same_discovery_route describes it, answers every new snapshot by        *)
(* opening a session with a peer in it.                                    *)
(*                                                                         *)
(* An advertisement is its last_seen stamp, its addresses and one value    *)
(* for metadata, key, port and certificate, which are replaced together.   *)
(* Events of the local device's own record are dropped and change nothing. *)
(***************************************************************************)
EXTENDS Naturals

CONSTANTS
    Peers,
    Services,    \* full names of mDNS records
    Addresses,
    Metas,       \* metadata and certificate of a peer at some time
    Tasks,       \* tasks that call observe, forget and refresh
    Browser,     \* the task of DiscoveryService::start
    Consumer,    \* the task that follows the snapshot
    Stamps,      \* last_seen_at_ms; a late task may bring an old one
    MaxEvents,   \* bound of the events from outside
    NoAd, NoPeer

Ads == [seen : Stamps, meta : Metas, addrs : (SUBSET Addresses) \ {{}}]
Everyone == Tasks \cup {Browser, Consumer}

VARIABLES
    mdns,       \* mdns_peers
    auth,       \* authenticated_peers
    ids,        \* service_ids
    snapshot,   \* the watch channel's value
    unseen,     \* the consumer has not seen it yet
    step,       \* where a task is in emit, "idle" outside
    merged,     \* what its emit has collected so far
    current,    \* what each peer says of itself now
    events

tables == <<mdns, auth, ids>>
vars == <<tables, snapshot, unseen, step, merged, current, events>>

None == [p \in Peers |-> NoAd]

Init ==
    /\ mdns = None /\ auth = None
    /\ ids = [s \in Services |-> NoPeer]
    /\ snapshot = None
    /\ unseen = FALSE
    /\ step = [t \in Everyone |-> "idle"]
    /\ merged = [t \in Everyone |-> None]
    /\ current \in [Peers -> Metas]
    /\ events = 0

Event == events < MaxEvents /\ events' = events + 1

-----------------------------------------------------------------------------
(* merge_advertisement: the newer metadata, the addresses of both.         *)
Merge(target, newer) ==
    [IF newer.seen >= target.seen THEN newer ELSE target
       EXCEPT !.addrs = target.addrs \cup newer.addrs]

(* Mutant: every observation counts as a change.                           *)
NeverSameRoute(left, right) == FALSE

(* same_discovery_route: all fields but last_seen_at_ms.                   *)
SameRoute(left, right) == left.meta = right.meta /\ left.addrs = right.addrs

(* merge_observed_peer returns the entry and whether its route changed.    *)
Observed(old, peer) == IF old = NoAd THEN peer ELSE Merge(old, peer)
RouteChanged(old, peer) == old = NoAd \/ ~SameRoute(old, Merge(old, peer))

(* emit starts, if there is anything to publish.                           *)
Emit(t, changed) ==
    /\ step' = [step EXCEPT ![t] = IF changed THEN "read_auth" ELSE "idle"]
    /\ UNCHANGED <<snapshot, merged>>

(* resolve: ServiceResolved with a record decode_service accepts, which    *)
(* may be an old one from a cache.                                         *)
Resolve(s, p, peer) ==
    /\ step[Browser] = "idle"
    /\ Event
    /\ ids' = [ids EXCEPT ![s] = p]
    /\ mdns' = [mdns EXCEPT ![p] = Observed(mdns[p], peer)]
    /\ Emit(Browser, RouteChanged(mdns[p], peer))
    /\ UNCHANGED <<auth, unseen, current>>

(* remove: ServiceRemoved of a name that was resolved.                     *)
Remove(s) ==
    /\ step[Browser] = "idle"
    /\ ids[s] # NoPeer
    /\ Event
    /\ ids' = [ids EXCEPT ![s] = NoPeer]
    /\ mdns' = [mdns EXCEPT ![ids[s]] = NoAd]
    /\ Emit(Browser, mdns[ids[s]] # NoAd)
    /\ UNCHANGED <<auth, unseen, current>>

(* observe_authenticated in the task of a session, probe or scan.          *)
Observe(t, p, a, now) ==
    LET peer == [seen |-> now, meta |-> current[p], addrs |-> {a}] IN
    /\ step[t] = "idle"
    /\ Event
    /\ auth' = [auth EXCEPT ![p] = Observed(@, peer)]
    /\ Emit(t, RouteChanged(auth[p], peer))
    /\ UNCHANGED <<mdns, ids, unseen, current>>

ForgetAuthenticated(t, p) ==
    /\ step[t] = "idle"
    /\ auth[p] # NoAd
    /\ Event
    /\ auth' = [auth EXCEPT ![p] = NoAd]
    /\ Emit(t, TRUE)
    /\ UNCHANGED <<mdns, ids, unseen, current>>

Refresh(t) ==
    /\ step[t] = "idle"
    /\ Event
    /\ Emit(t, TRUE)
    /\ UNCHANGED <<tables, unseen, current>>

(* The consumer takes the new snapshot; if there is a peer in it, it opens *)
(* a session over one of its addresses, which is then observed.            *)
Follow ==
    /\ step[Consumer] = "idle"
    /\ unseen
    /\ unseen' = FALSE
    /\ \/ /\ snapshot = None
          /\ Emit(Consumer, FALSE)
          /\ UNCHANGED auth
       \/ \E p \in {q \in Peers : snapshot[q] # NoAd} : \E a \in snapshot[p].addrs, now \in Stamps :
            LET peer == [seen |-> now, meta |-> current[p], addrs |-> {a}] IN
            /\ auth' = [auth EXCEPT ![p] = Observed(@, peer)]
            /\ Emit(Consumer, RouteChanged(auth[p], peer))
    /\ UNCHANGED <<mdns, ids, current, events>>

(* The first statement of emit: a copy of the authenticated routes.        *)
EmitReadAuth(t) ==
    /\ step[t] = "read_auth"
    /\ merged' = [merged EXCEPT ![t] = auth]
    /\ step' = [step EXCEPT ![t] = "read_mdns"]
    /\ UNCHANGED <<tables, snapshot, unseen, current, events>>

(* Mutant: a multicast record replaces the authenticated route.            *)
EmitReadMdnsReplaces(t) ==
    /\ step[t] = "read_mdns"
    /\ merged' = [merged EXCEPT ![t] = [p \in Peers |-> IF mdns[p] = NoAd THEN merged[t][p] ELSE mdns[p]]]
    /\ step' = [step EXCEPT ![t] = "publish"]
    /\ UNCHANGED <<tables, snapshot, unseen, current, events>>

(* Then the multicast records are merged into it under their lock.         *)
EmitReadMdns(t) ==
    /\ step[t] = "read_mdns"
    /\ merged' = [merged EXCEPT ![t] = [p \in Peers |->
                    IF mdns[p] = NoAd THEN merged[t][p] ELSE Observed(merged[t][p], mdns[p])]]
    /\ step' = [step EXCEPT ![t] = "publish"]
    /\ UNCHANGED <<tables, snapshot, unseen, current, events>>

(* send_replace, with no lock held.                                        *)
EmitPublish(t) ==
    /\ step[t] = "publish"
    /\ snapshot' = merged[t]
    /\ unseen' = TRUE
    /\ merged' = [merged EXCEPT ![t] = None]
    /\ step' = [step EXCEPT ![t] = "idle"]
    /\ UNCHANGED <<tables, current, events>>

(* The peer changes its metadata or its certificate.                       *)
PeerChanges(p, m) ==
    /\ m # current[p]
    /\ Event
    /\ current' = [current EXCEPT ![p] = m]
    /\ UNCHANGED <<tables, snapshot, unseen, step, merged>>

EmitStep(t) == EmitReadAuth(t) \/ EmitReadMdns(t) \/ EmitPublish(t)

Next ==
    \/ \E s \in Services : Remove(s) \/ \E p \in Peers, peer \in Ads : Resolve(s, p, peer)
    \/ \E t \in Tasks :
         \/ Refresh(t)
         \/ \E p \in Peers :
              \/ ForgetAuthenticated(t, p)
              \/ \E a \in Addresses, now \in Stamps : Observe(t, p, a, now)
    \/ \E p \in Peers, m \in Metas : PeerChanges(p, m)
    \/ Follow
    \/ \E t \in Everyone : EmitStep(t)

(* A task that has entered emit, and the consumer, keep running: neither   *)
(* waits for anything but a short lock.                                    *)
Fairness == WF_vars(Follow) /\ \A t \in Everyone : WF_vars(EmitStep(t))

Spec == Init /\ [][Next]_vars /\ Fairness

-----------------------------------------------------------------------------
TypeOK ==
    /\ {mdns, auth, snapshot} \subseteq [Peers -> Ads \cup {NoAd}]
    /\ ids \in [Services -> Peers \cup {NoPeer}]
    /\ unseen \in BOOLEAN
    /\ step \in [Everyone -> {"idle", "read_auth", "read_mdns", "publish"}]
    /\ merged \in [Everyone -> [Peers -> Ads \cup {NoAd}]]
    /\ current \in [Peers -> Metas]
    /\ events \in 0..MaxEvents

AtRest == \A t \in Everyone : step[t] = "idle"
AddrsOf(ad) == IF ad = NoAd THEN {} ELSE ad.addrs
MetaOf(ad) == IF ad = NoAd THEN {} ELSE {ad.meta}

(* What the snapshot should say once nothing is in progress: exactly the   *)
(* addresses of the two tables, with metadata one of them holds.           *)
Current(p) ==
    /\ AddrsOf(snapshot[p]) = AddrsOf(auth[p]) \cup AddrsOf(mdns[p])
    /\ MetaOf(snapshot[p]) \subseteq MetaOf(auth[p]) \cup MetaOf(mdns[p])

(* same_discovery_route keeps last_seen out of the comparison so that a    *)
(* consumer which opens a session for every update is not fed its own      *)
(* sessions: once the world stops changing, publishing stops, whatever     *)
(* addresses the consumer has dialled.                                     *)
PublishingStops == <>[](AtRest /\ ~unseen)
=============================================================================
