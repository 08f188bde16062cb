---------------------------- MODULE MCDiscovery ----------------------------
(* TLC instance of Discovery, with a history variable: whether an emit has  *)
(* run beside another one since a call last started alone.                  *)
EXTENDS Naturals

CONSTANTS Peers, Services, Addresses, Metas, Tasks, Browser, Consumer, Stamps, MaxEvents,
          NoAd, NoPeer

VARIABLES mdns, auth, ids, snapshot, unseen, step, merged, current, events, overlap

Disc == INSTANCE Discovery

ASSUME DiscoveryConstantsOK ==
    /\ Stamps \subseteq Nat
    /\ MaxEvents \in Nat
    /\ Browser \notin Tasks /\ Consumer \notin Tasks /\ Browser # Consumer
    /\ NoAd \notin Disc!Ads

InEmit(t) == step[t] # "idle"
Starts == {t \in Disc!Everyone : ~InEmit(t) /\ step'[t] # "idle"}

DiscoveryInit == Disc!Init /\ overlap = FALSE
DiscoveryNext ==
    /\ Disc!Next
    /\ overlap' = IF Starts = {} THEN overlap ELSE \E u \in Disc!Everyone \ Starts : InEmit(u)
DiscoverySpec ==
    DiscoveryInit /\ [][DiscoveryNext]_<<Disc!vars, overlap>> /\ Disc!Fairness

(* While emits run one at a time, the snapshot follows the tables; after    *)
(* overlapping emits the next one that runs alone brings it up to date.     *)
SnapshotFollowsTables == Disc!AtRest /\ ~overlap => \A p \in Peers : Disc!Current(p)

(* The consumer and the service do not keep each other going (refresh).     *)
PublishingStops == Disc!PublishingStops
=============================================================================
