CONSTANTS
    Peers = {p1}
    Services = {s1, s2}
    Addresses = {a1, a2}
    Metas = {m1, m2}
    Tasks = {t1}
    Browser = Browser
    Consumer = Consumer
    Stamps = {1, 2}
    MaxEvents = 3
    NoAd = NoAd
    NoPeer = NoPeer
SPECIFICATION DiscoverySpec
INVARIANTS SnapshotFollowsTables
PROPERTIES PublishingStops
CHECK_DEADLOCK FALSE
