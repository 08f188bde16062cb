------------------------------ MODULE ReachProofs ------------------------------
(***************************************************************************)
(* Proofs about how peers find and reach one another: what a device        *)
(* announces of itself, for any threads, metadata and number of calls; the *)
(* snapshot of DiscoveryService while emits do not overlap, for any peers, *)
(* addresses, tasks and events; and the tunnels of input relays, for any   *)
(* relays and any capacity.                                                *)
(***************************************************************************)
EXTENDS MCVisibility, MCDiscovery, RelayTunnel, TLAPS

(* The provers of a leaf that names none, and their seconds. A leaf that   *)
(* needs arithmetic, functions or records names SMT.                       *)
USE ZenonT(30), SMTT(30)

-----------------------------------------------------------------------------
Showing == {"read", "previous", "announce", "store"}
CallTypes ==
    {Visible!Idle}
        \cup [at : Showing, on : BOOLEAN, meta : Records \cup {NoRecord}]
        \cup [at : {"reannounce", "write"}, meta : Records]

(* What is published is what the flag says, unless the daemon refused.     *)
FlagShown == ~refusedShow => discoverable = published

(* What a call that runs by itself leaves undone at each of its steps.     *)
Alone(t) == \A s \in Callers \ {t} : call[s] = Visible!Idle
LoneOK(t) ==
    /\ call[t].at = "idle" => Visible!Announced /\ FlagShown
    /\ call[t].at \in {"read", "previous", "announce"} => Visible!Announced
    /\ call[t].at \in Showing => discoverable = call[t].on
    /\ call[t].at \in {"previous", "announce", "store"} => call[t].meta = metadata
    /\ call[t].at = "store" => announced = IF call[t].on THEN metadata ELSE NoRecord
    /\ call[t].at = "reannounce" => published /\ Visible!Announced
    /\ call[t].at = "write" => announced = IF published THEN call[t].meta ELSE NoRecord
    /\ call[t].at \in {"reannounce", "write"} => FlagShown

VisibleInv ==
    /\ calls \in Nat /\ published \in BOOLEAN /\ metadata \in Records
    /\ call \in [Callers -> CallTypes]
    /\ ~overlapped =>
           /\ ~Visible!Overlapping
           /\ Visible!AtRest => Visible!Announced /\ FlagShown
           /\ \A t \in Callers : Alone(t) => LoneOK(t)

LEMMA InitVisible == VisibleInit => VisibleInv
<1> SUFFICES ASSUME Visible!Init, overlapped = FALSE, refusedShow = FALSE PROVE VisibleInv
  BY DEF VisibleInit
<1>1. Visible!Announced /\ FlagShown
  BY DEF Visible!Init, Visible!Announced, FlagShown
<1>2. call \in [Callers -> CallTypes] /\ \A t \in Callers : call[t] = Visible!Idle
  BY DEF Visible!Init, CallTypes
<1>3. ASSUME NEW t \in Callers PROVE LoneOK(t)
  <2>1. call[t].at = "idle"
    BY <1>2, SMTT(30) DEF Visible!Idle
  <2>. QED
    BY <1>1, <2>1 DEF LoneOK, Showing
<1>. QED
  BY <1>1, <1>2, <1>3 DEF VisibleInv, Visible!Init, Visible!Overlapping

(* A step of one call: as long as no two calls have overlapped, the others *)
(* are idle before and after it.                                           *)
LEMMA LoneStep ==
    ASSUME VisibleInv, NEW t \in Callers, NEW c \in CallTypes, Visible!Goto(t, c),
           call[t] # Visible!Idle \/ c # Visible!Idle,
           overlapped' = (overlapped \/ Visible!Overlapping'),
           calls' \in Nat, published' \in BOOLEAN, metadata' \in Records,
           ~overlapped /\ LoneOK(t) => LoneOK(t)'
    PROVE  VisibleInv'
<1>1. /\ call' \in [Callers -> CallTypes] /\ call'[t] = c
      /\ \A s \in Callers \ {t} : call'[s] = call[s]
  BY DEF VisibleInv, Visible!Goto
<1> SUFFICES ASSUME ~overlapped'
             PROVE  /\ ~Visible!Overlapping'
                    /\ Visible!AtRest' => Visible!Announced' /\ FlagShown'
                    /\ \A s \in Callers : Alone(s)' => LoneOK(s)'
  BY <1>1 DEF VisibleInv
<1>2. ~overlapped /\ ~Visible!Overlapping /\ ~Visible!Overlapping'
  BY DEF VisibleInv
<1>3. Alone(t)
  <2>1. CASE call[t] # Visible!Idle
    BY <1>2, <2>1 DEF Visible!Overlapping, Alone
  <2>2. CASE c # Visible!Idle
    BY <1>1, <1>2, <2>2 DEF Visible!Overlapping, Alone
  <2>. QED
    BY <2>1, <2>2
<1>4. LoneOK(t)'
  BY <1>2, <1>3 DEF VisibleInv
<1>5. ASSUME call'[t] = Visible!Idle PROVE Visible!Announced' /\ FlagShown'
  BY <1>4, <1>5, SMTT(30) DEF LoneOK, Visible!Idle
<1>6. ASSUME NEW s \in Callers, Alone(s)' PROVE LoneOK(s)'
  <2>1. CASE s = t
    BY <1>4, <2>1
  <2>2. CASE s # t
    <3>1. call'[t] = Visible!Idle /\ call'[s] = Visible!Idle
      BY <1>1, <1>3, <1>6, <2>2 DEF Alone
    <3>2. Visible!Announced' /\ FlagShown'
      BY <1>5, <3>1
    <3>. QED
      BY <3>1, <3>2, SMTT(30) DEF LoneOK, Visible!Idle, Showing
  <2>. QED
    BY <2>1, <2>2
<1>. QED
  BY <1>2, <1>5, <1>6 DEF Visible!AtRest

(* Only set_discoverable forgets a refusal.                                *)
LEMMA RefusalKept ==
    ASSUME VisibleInv, VisibleNext, calls' = calls, ~refusedShow' PROVE ~refusedShow
<1>1. \A t \in Callers, on \in BOOLEAN : ~Visible!SetDiscoverable(t, on)
  BY SMTT(30) DEF VisibleInv, Visible!SetDiscoverable, Visible!Begin
<1>. QED
  BY <1>1 DEF VisibleNext

(* What a call in progress carries.                                        *)
LEMMA CallFacts ==
    /\ Visible!Idle \in CallTypes /\ Visible!Idle.at = "idle"
    /\ \A c \in CallTypes : c.at \in Showing =>
           c # Visible!Idle /\ c.on \in BOOLEAN /\ c.meta \in Records \cup {NoRecord}
    /\ \A c \in CallTypes : c.at \in {"reannounce", "write"} =>
           c # Visible!Idle /\ c.meta \in Records
<1>1. Visible!Idle \in CallTypes /\ Visible!Idle.at = "idle"
  BY DEF CallTypes, Visible!Idle
<1>2. ASSUME NEW c \in CallTypes, c.at \in Showing
      PROVE  c # Visible!Idle /\ c.on \in BOOLEAN /\ c.meta \in Records \cup {NoRecord}
  BY <1>1, <1>2 DEF CallTypes, Showing
<1>3. ASSUME NEW c \in CallTypes, c.at \in {"reannounce", "write"}
      PROVE  c # Visible!Idle /\ c.meta \in Records
  BY <1>1, <1>3 DEF CallTypes, Showing
<1>. QED
  BY <1>1, <1>2, <1>3

LEMMA NextVisible == VisibleInv /\ [VisibleNext]_visibleVars => VisibleInv'
<1> SUFFICES ASSUME VisibleInv, VisibleNext \/ UNCHANGED visibleVars PROVE VisibleInv'
  BY DEF visibleVars
<1>1. CASE UNCHANGED visibleVars
  <2>1. /\ UNCHANGED <<discoverable, published, metadata, announced>>
        /\ UNCHANGED <<call, calls, overlapped, refusedShow>>
    BY <1>1 DEF visibleVars
  <2>2. \A t \in Callers : LoneOK(t) => LoneOK(t)'
    BY <2>1 DEF LoneOK, FlagShown, Visible!Announced
  <2>3. /\ \A t \in Callers : Alone(t)' => Alone(t)
        /\ Visible!Overlapping' => Visible!Overlapping
        /\ Visible!AtRest' => Visible!AtRest
        /\ Visible!Announced /\ FlagShown => Visible!Announced' /\ FlagShown'
    BY <2>1 DEF Alone, FlagShown, Visible!Announced, Visible!Overlapping, Visible!AtRest
  <2>. QED
    BY <2>1, <2>2, <2>3 DEF VisibleInv
<1>2. CASE VisibleNext
  <2>0. /\ overlapped' = (overlapped \/ Visible!Overlapping')
        /\ calls \in Nat /\ published \in BOOLEAN /\ metadata \in Records
        /\ call \in [Callers -> CallTypes]
        /\ calls' = calls => (~refusedShow' => ~refusedShow)
    BY <1>2, RefusalKept DEF VisibleNext, VisibleInv
  <2>1. ASSUME NEW t \in Callers, NEW on \in BOOLEAN, Visible!SetDiscoverable(t, on) PROVE VisibleInv'
    <3> DEFINE c == Visible!ShowAt("read", on, NoRecord)
    <3>1. /\ c \in CallTypes /\ c # Visible!Idle /\ call[t] = Visible!Idle /\ Visible!Goto(t, c)
          /\ c.at = "read" /\ c.on = on /\ Visible!Idle.at = "idle"
      BY <2>1 DEF Visible!SetDiscoverable, Visible!Begin, Visible!ShowAt, CallTypes, Showing, Visible!Idle
    <3>2. call'[t] = c
      BY <2>0, <3>1 DEF Visible!Goto
    <3>3. /\ discoverable' = on /\ UNCHANGED <<published, metadata, announced>> /\ calls' \in Nat
      BY <2>0, <2>1, SMTT(30) DEF Visible!SetDiscoverable, Visible!Begin
    <3>4. LoneOK(t) => LoneOK(t)'
      BY <3>1, <3>2, <3>3 DEF LoneOK, Visible!Announced, Showing
    <3>. QED
      BY <2>0, <3>1, <3>3, <3>4, LoneStep
  <2>2. ASSUME NEW t \in Callers, Visible!ReadMetadata(t) PROVE VisibleInv'
    <3> DEFINE c == Visible!ShowAt("previous", call[t].on, metadata)
    <3>1. /\ call[t].at = "read" /\ Visible!Goto(t, c)
          /\ UNCHANGED <<discoverable, published, metadata, announced, calls>>
      BY <2>2 DEF Visible!ReadMetadata
    <3>2. call[t] # Visible!Idle /\ call[t].on \in BOOLEAN
      BY <2>0, <3>1, CallFacts DEF Showing
    <3>3. c \in CallTypes /\ c.at = "previous" /\ c.on = call[t].on /\ c.meta = metadata
      BY <2>0, <3>2 DEF Visible!ShowAt, CallTypes, Showing, VisibleInv
    <3> HIDE DEF c
    <3>4. call'[t] = c
      BY <2>0, <3>1 DEF Visible!Goto
    <3>5. LoneOK(t) => LoneOK(t)'
      BY <3>1, <3>3, <3>4 DEF LoneOK, Visible!Announced, Showing
    <3>. QED
      BY <2>0, <3>1, <3>2, <3>3, <3>5, LoneStep
  <2>3. ASSUME NEW t \in Callers, Visible!Previous(t) PROVE VisibleInv'
    <3> DEFINE c == Visible!ShowAt("announce", call[t].on, call[t].meta)
               d == IF published = call[t].on THEN Visible!Idle ELSE c
    <3>1. /\ call[t].at = "previous" /\ Visible!Goto(t, d)
          /\ UNCHANGED <<discoverable, published, metadata, announced, calls>>
      BY <2>3 DEF Visible!Previous
    <3>2. /\ call[t] # Visible!Idle /\ call[t].on \in BOOLEAN /\ call[t].meta \in Records \cup {NoRecord}
      BY <2>0, <3>1, CallFacts DEF Showing
    <3>3. /\ c \in CallTypes /\ c.at = "announce" /\ c.on = call[t].on /\ c.meta = call[t].meta
          /\ Visible!Idle \in CallTypes /\ Visible!Idle.at = "idle"
      BY <3>2 DEF Visible!ShowAt, CallTypes, Showing, Visible!Idle
    <3> HIDE DEF c
    <3>4. call'[t] = d /\ d \in CallTypes
      BY <2>0, <3>1, <3>3 DEF Visible!Goto
    <3>5. CASE published = call[t].on
      <4>1. call'[t].at = "idle"
        BY <3>3, <3>4, <3>5
      <4>2. LoneOK(t) => LoneOK(t)'
        BY <3>1, <3>5, <4>1 DEF LoneOK, Visible!Announced, Showing, FlagShown
      <4>. QED
        BY <2>0, <3>1, <3>2, <3>4, <4>2, LoneStep
    <3>6. CASE published # call[t].on
      <4>1. call'[t] = c
        BY <3>4, <3>6
      <4>2. LoneOK(t) => LoneOK(t)'
        BY <3>1, <3>3, <4>1 DEF LoneOK, Visible!Announced, Showing
      <4>. QED
        BY <2>0, <3>1, <3>2, <3>4, <4>2, LoneStep
    <3>. QED
      BY <3>5, <3>6
  <2>4. ASSUME NEW t \in Callers, Visible!Announce(t) PROVE VisibleInv'
    <3> DEFINE c == Visible!ShowAt("store", call[t].on, call[t].meta)
    <3>1. /\ call[t].at = "announce" /\ Visible!Goto(t, c)
          /\ announced' = IF call[t].on THEN call[t].meta ELSE NoRecord
          /\ UNCHANGED <<discoverable, published, metadata, calls>>
      BY <2>4 DEF Visible!Announce
    <3>2. /\ call[t] # Visible!Idle /\ call[t].on \in BOOLEAN /\ call[t].meta \in Records \cup {NoRecord}
      BY <2>0, <3>1, CallFacts DEF Showing
    <3>3. c \in CallTypes /\ c.at = "store" /\ c.on = call[t].on /\ c.meta = call[t].meta
      BY <3>2 DEF Visible!ShowAt, CallTypes, Showing
    <3> HIDE DEF c
    <3>4. call'[t] = c
      BY <2>0, <3>1 DEF Visible!Goto
    <3>5. LoneOK(t) => LoneOK(t)'
      BY <3>1, <3>3, <3>4 DEF LoneOK, Visible!Announced, Showing
    <3>. QED
      BY <2>0, <3>1, <3>2, <3>3, <3>5, LoneStep
  <2>5. ASSUME NEW t \in Callers, Visible!AnnounceFails(t) PROVE VisibleInv'
    <3>1. /\ call[t].at = "announce" /\ Visible!Goto(t, Visible!Idle) /\ refusedShow' = TRUE
          /\ UNCHANGED <<discoverable, published, metadata, announced, calls>>
      BY <1>2, <2>5 DEF Visible!AnnounceFails, VisibleNext
    <3>2. Visible!Idle \in CallTypes /\ Visible!Idle.at = "idle" /\ call[t] # Visible!Idle
      BY <3>1, CallFacts
    <3>3. call'[t].at = "idle"
      BY <2>0, <3>1, <3>2 DEF Visible!Goto
    <3>4. LoneOK(t) => LoneOK(t)'
      BY <3>1, <3>3 DEF LoneOK, Visible!Announced, Showing, FlagShown
    <3>. QED
      BY <2>0, <3>1, <3>2, <3>4, LoneStep
  <2>6. ASSUME NEW t \in Callers, Visible!Store(t) PROVE VisibleInv'
    <3>1. /\ call[t].at = "store" /\ Visible!Goto(t, Visible!Idle) /\ published' = call[t].on
          /\ UNCHANGED <<discoverable, metadata, announced, calls>>
      BY <2>6 DEF Visible!Store
    <3>2. /\ Visible!Idle \in CallTypes /\ Visible!Idle.at = "idle" /\ call[t] # Visible!Idle
          /\ call[t].on \in BOOLEAN
      BY <2>0, <3>1, CallFacts DEF Showing
    <3>3. call'[t].at = "idle"
      BY <2>0, <3>1, <3>2 DEF Visible!Goto
    <3>4. LoneOK(t) => LoneOK(t)'
      BY <3>1, <3>3 DEF LoneOK, Visible!Announced, Showing, FlagShown
    <3>. QED
      BY <2>0, <3>1, <3>2, <3>4, LoneStep
  <2>7. ASSUME NEW t \in Callers, NEW meta \in Records, Visible!UpdateMetadata(t, meta) PROVE VisibleInv'
    <3> DEFINE c == Visible!UpdateAt(IF published THEN "reannounce" ELSE "write", meta)
    <3>1. /\ call[t] = Visible!Idle /\ Visible!Goto(t, c) /\ calls' = calls + 1
          /\ UNCHANGED <<discoverable, published, metadata, announced>>
      BY <2>7 DEF Visible!UpdateMetadata, Visible!Begin
    <3>2. /\ c \in CallTypes /\ c # Visible!Idle /\ c.meta = meta /\ Visible!Idle.at = "idle"
          /\ c.at = IF published THEN "reannounce" ELSE "write"
      BY DEF Visible!UpdateAt, CallTypes, Visible!Idle
    <3> HIDE DEF c
    <3>3. call'[t] = c
      BY <2>0, <3>1 DEF Visible!Goto
    <3>4. ASSUME NEW s \in Callers, NEW on \in BOOLEAN, Visible!SetDiscoverable(s, on) PROVE FALSE
      <4>1. call'[s].at = "read" /\ call' = [call EXCEPT ![s] = Visible!ShowAt("read", on, NoRecord)]
        BY <2>0, <3>4 DEF Visible!SetDiscoverable, Visible!Goto, Visible!ShowAt
      <4>2. s # t
        BY <3>2, <3>3, <4>1, SMTT(30)
      <4>3. call'[t] = call[t]
        BY <2>0, <4>1, <4>2
      <4>. QED
        BY <3>1, <3>2, <3>3, <4>3
    <3>5. ~refusedShow' => ~refusedShow
      BY <1>2, <3>4 DEF VisibleNext
    <3>6. LoneOK(t) => LoneOK(t)'
      BY <2>0, <3>1, <3>2, <3>3, <3>5 DEF LoneOK, Visible!Announced, Showing, FlagShown
    <3>. QED
      BY <2>0, <3>1, <3>2, <3>6, LoneStep, SMTT(30)
  <2>8. ASSUME NEW t \in Callers, Visible!Reannounce(t) PROVE VisibleInv'
    <3> DEFINE c == Visible!UpdateAt("write", call[t].meta)
    <3>1. /\ call[t].at = "reannounce" /\ Visible!Goto(t, c) /\ announced' = call[t].meta
          /\ UNCHANGED <<discoverable, published, metadata, calls>>
      BY <2>8 DEF Visible!Reannounce
    <3>2. call[t] # Visible!Idle /\ call[t].meta \in Records
      BY <2>0, <3>1, CallFacts DEF Showing
    <3>3. c \in CallTypes /\ c.at = "write" /\ c.meta = call[t].meta
      BY <3>2 DEF Visible!UpdateAt, CallTypes
    <3> HIDE DEF c
    <3>4. call'[t] = c
      BY <2>0, <3>1 DEF Visible!Goto
    <3>5. LoneOK(t) => LoneOK(t)'
      BY <2>0, <3>1, <3>3, <3>4 DEF LoneOK, Visible!Announced, Showing, FlagShown
    <3>. QED
      BY <2>0, <3>1, <3>2, <3>3, <3>5, LoneStep
  <2>9. ASSUME NEW t \in Callers, Visible!ReannounceFails(t) \/ Visible!WriteMetadata(t) PROVE VisibleInv'
    <3>1. /\ call[t].at \in {"reannounce", "write"} /\ Visible!Goto(t, Visible!Idle)
          /\ call[t].at = "reannounce" => metadata' = metadata
          /\ call[t].at = "write" => metadata' = call[t].meta
          /\ UNCHANGED <<discoverable, published, announced, calls>>
      BY <2>9 DEF Visible!ReannounceFails, Visible!WriteMetadata
    <3>2. /\ Visible!Idle \in CallTypes /\ Visible!Idle.at = "idle" /\ call[t] # Visible!Idle
          /\ metadata' \in Records
      BY <2>0, <3>1, CallFacts DEF Showing
    <3>3. call'[t].at = "idle"
      BY <2>0, <3>1, <3>2 DEF Visible!Goto
    <3>4. LoneOK(t) => LoneOK(t)'
      BY <2>0, <3>1, <3>3 DEF LoneOK, Visible!Announced, Showing, FlagShown
    <3>. QED
      BY <2>0, <3>1, <3>2, <3>4, LoneStep
  <2>10. Visible!Next
    BY <1>2 DEF VisibleNext
  <2>. QED
    BY <2>1, <2>2, <2>3, <2>4, <2>5, <2>6, <2>7, <2>8, <2>9, <2>10 DEF Visible!Next
<1>. QED
  BY <1>1, <1>2

(* As long as set_discoverable and update_metadata have not overlapped,    *)
(* the daemon announces the current metadata exactly when it is published, *)
(* however often it refused, and the flag inbound handshakes ask is what   *)
(* is published unless the last change was refused: for any threads,       *)
(* metadata and number of calls.                                           *)
THEOREM CallsSettle == VisibleSpec => []LoneCallsSettle
<1>1. VisibleInv => LoneCallsSettle
  BY DEF VisibleInv, LoneCallsSettle, FlagShown
<1>. QED
  BY InitVisible, NextVisible, <1>1, PTL DEF VisibleSpec

-----------------------------------------------------------------------------
(* Advertisements that differ in last_seen at most.                        *)
SameAd(ad1, ad2) == Disc!AddrsOf(ad1) = Disc!AddrsOf(ad2) /\ Disc!MetaOf(ad1) = Disc!MetaOf(ad2)

(* What emit publishes of a peer, when nothing overlaps.                   *)
Merged(ad, p) ==
    /\ Disc!AddrsOf(ad) = Disc!AddrsOf(auth[p]) \cup Disc!AddrsOf(mdns[p])
    /\ Disc!MetaOf(ad) \subseteq Disc!MetaOf(auth[p]) \cup Disc!MetaOf(mdns[p])

(* Without overlap one task at most is in emit; what it has collected is   *)
(* up to date, though entries may since have been seen again, and while    *)
(* none is the snapshot is up to date.                                     *)
LoneEmit ==
    /\ \A t, u \in Disc!Everyone : InEmit(t) /\ InEmit(u) => t = u
    /\ \A t \in Disc!Everyone, p \in Peers :
         /\ step[t] = "read_mdns" => SameAd(merged[t][p], auth[p])
         /\ step[t] = "publish" => Merged(merged[t][p], p)
    /\ Disc!AtRest => \A p \in Peers : Merged(snapshot[p], p)

DiscoveryInv == Disc!TypeOK /\ (~overlap => LoneEmit)

-----------------------------------------------------------------------------
(* merge_advertisement keeps the addresses of both and the metadata of     *)
(* one.                                                                    *)
LEMMA MergeAds ==
    ASSUME NEW old \in Disc!Ads, NEW peer \in Disc!Ads
    PROVE  /\ Disc!Merge(old, peer) \in Disc!Ads
           /\ Disc!Merge(old, peer).addrs = old.addrs \cup peer.addrs
           /\ Disc!Merge(old, peer).meta \in {old.meta, peer.meta}
<1>1. CASE peer.seen >= old.seen
  BY <1>1 DEF Disc!Merge, Disc!Ads
<1>2. CASE ~(peer.seen >= old.seen)
  BY <1>2 DEF Disc!Merge, Disc!Ads
<1>. QED
  BY <1>1, <1>2

LEMMA ObservedAds ==
    ASSUME NEW old \in Disc!Ads \cup {NoAd}, NEW peer \in Disc!Ads
    PROVE  /\ Disc!Observed(old, peer) \in Disc!Ads
           /\ Disc!AddrsOf(Disc!Observed(old, peer)) = Disc!AddrsOf(old) \cup Disc!AddrsOf(peer)
           /\ Disc!MetaOf(Disc!Observed(old, peer)) \subseteq Disc!MetaOf(old) \cup Disc!MetaOf(peer)
           /\ ~Disc!RouteChanged(old, peer) => SameAd(Disc!Observed(old, peer), old)
<1>1. peer # NoAd
  BY DiscoveryConstantsOK
<1>2. CASE old = NoAd
  BY <1>1, <1>2 DEF Disc!Observed, Disc!RouteChanged, Disc!AddrsOf, Disc!MetaOf
<1>3. CASE old # NoAd
  <2>1. /\ Disc!Merge(old, peer) \in Disc!Ads
        /\ Disc!Merge(old, peer).addrs = old.addrs \cup peer.addrs
        /\ Disc!Merge(old, peer).meta \in {old.meta, peer.meta}
    BY <1>3, MergeAds
  <2>2. Disc!Observed(old, peer) = Disc!Merge(old, peer) /\ Disc!Merge(old, peer) # NoAd
    BY <1>3, <2>1, DiscoveryConstantsOK DEF Disc!Observed
  <2>3. ~Disc!RouteChanged(old, peer) =>
            Disc!Merge(old, peer).addrs = old.addrs /\ Disc!Merge(old, peer).meta = old.meta
    BY <1>3 DEF Disc!RouteChanged, Disc!SameRoute
  <2>. QED
    BY <1>1, <1>3, <2>1, <2>2, <2>3 DEF Disc!AddrsOf, Disc!MetaOf, SameAd
<1>. QED
  BY <1>2, <1>3

-----------------------------------------------------------------------------
(* A task enters emit: it is alone there, or overlap says so.              *)
LEMMA EmitStarts ==
    ASSUME Disc!TypeOK, NEW t \in Disc!Everyone, step[t] = "idle",
           step' = [step EXCEPT ![t] = "read_auth"],
           overlap' = IF Starts = {} THEN overlap ELSE \E u \in Disc!Everyone \ Starts : InEmit(u)
    PROVE  ~overlap' => LoneEmit'
<1>1. /\ step'[t] = "read_auth"
      /\ \A u \in Disc!Everyone \ {t} : step'[u] = step[u]
  BY DEF Disc!TypeOK
<1>2. Starts = {t}
  BY <1>1 DEF Starts, InEmit
<1> SUFFICES ASSUME ~overlap' PROVE LoneEmit'
  OBVIOUS
<1>3. \A u \in Disc!Everyone \ {t} : step'[u] = "idle"
  BY <1>1, <1>2 DEF InEmit
<1>4. ~Disc!AtRest'
  BY <1>1 DEF Disc!AtRest
<1>. QED
  BY <1>1, <1>3, <1>4 DEF LoneEmit, InEmit

(* No task enters emit, and the routes in the tables stay as they are.     *)
LEMMA NoEmit ==
    ASSUME Disc!TypeOK, ~overlap => LoneEmit,
           overlap' = IF Starts = {} THEN overlap ELSE \E u \in Disc!Everyone \ Starts : InEmit(u),
           step' = step, UNCHANGED <<snapshot, merged>>,
           \A p \in Peers : SameAd(auth'[p], auth[p]) /\ SameAd(mdns'[p], mdns[p])
    PROVE  ~overlap' => LoneEmit'
<1>1. Starts = {}
  BY DEF Starts, InEmit
<1> SUFFICES ASSUME LoneEmit PROVE LoneEmit'
  BY <1>1
<1>2. Disc!AtRest' = Disc!AtRest /\ \A t \in Disc!Everyone : InEmit(t)' = InEmit(t)
  BY DEF Disc!AtRest, InEmit
<1>3. ASSUME NEW p \in Peers, NEW ad PROVE Merged(ad, p) =>
            /\ Disc!AddrsOf(ad) = Disc!AddrsOf(auth'[p]) \cup Disc!AddrsOf(mdns'[p])
            /\ Disc!MetaOf(ad) \subseteq Disc!MetaOf(auth'[p]) \cup Disc!MetaOf(mdns'[p])
  BY <1>3 DEF Merged, SameAd
<1>4. ASSUME NEW t \in Disc!Everyone, NEW p \in Peers
      PROVE  /\ step'[t] = "read_mdns" => SameAd(merged[t][p], auth'[p])
             /\ step'[t] = "publish" => Merged(merged[t][p], p)'
  BY <1>3, <1>4 DEF LoneEmit, SameAd, Merged
<1>5. ASSUME Disc!AtRest', NEW p \in Peers PROVE Merged(snapshot[p], p)'
  BY <1>2, <1>3, <1>5 DEF LoneEmit, Merged
<1>6. \A t, u \in Disc!Everyone : InEmit(t)' /\ InEmit(u)' => t = u
  BY <1>2 DEF LoneEmit
<1>. QED
  BY <1>4, <1>5, <1>6 DEF LoneEmit

(* An observation reaches one of the tables and, if its route is new, a    *)
(* task enters emit.                                                       *)
LEMMA ObserveKeepsUp ==
    ASSUME Disc!TypeOK, ~overlap => LoneEmit,
           overlap' = IF Starts = {} THEN overlap ELSE \E u \in Disc!Everyone \ Starts : InEmit(u),
           NEW t \in Disc!Everyone, step[t] = "idle", NEW p \in Peers, NEW peer \in Disc!Ads,
           \/ /\ auth' = [auth EXCEPT ![p] = Disc!Observed(auth[p], peer)] /\ mdns' = mdns
              /\ Disc!Emit(t, Disc!RouteChanged(auth[p], peer))
           \/ /\ mdns' = [mdns EXCEPT ![p] = Disc!Observed(mdns[p], peer)] /\ auth' = auth
              /\ Disc!Emit(t, Disc!RouteChanged(mdns[p], peer))
    PROVE  ~overlap' => LoneEmit'
<1>0. /\ auth \in [Peers -> Disc!Ads \cup {NoAd}] /\ mdns \in [Peers -> Disc!Ads \cup {NoAd}]
      /\ step \in [Disc!Everyone -> {"idle", "read_auth", "read_mdns", "publish"}]
  BY DEF Disc!TypeOK
<1>1. CASE step' = [step EXCEPT ![t] = "read_auth"]
  BY <1>1, EmitStarts
<1>2. CASE step' # [step EXCEPT ![t] = "read_auth"]
  <2>1. step' = [step EXCEPT ![t] = "idle"] /\ UNCHANGED <<snapshot, merged>>
    BY <1>2 DEF Disc!Emit
  <2>2. step' = step
    BY <1>0, <2>1
  <2>3. \A q \in Peers : SameAd(auth'[q], auth[q]) /\ SameAd(mdns'[q], mdns[q])
    <3>1. CASE /\ auth' = [auth EXCEPT ![p] = Disc!Observed(auth[p], peer)] /\ mdns' = mdns
               /\ Disc!Emit(t, Disc!RouteChanged(auth[p], peer))
      <4>1. ~Disc!RouteChanged(auth[p], peer)
        BY <1>2, <3>1 DEF Disc!Emit
      <4>2. SameAd(Disc!Observed(auth[p], peer), auth[p])
        BY <1>0, <4>1, ObservedAds
      <4>. QED
        BY <1>0, <3>1, <4>2 DEF SameAd
    <3>2. CASE /\ mdns' = [mdns EXCEPT ![p] = Disc!Observed(mdns[p], peer)] /\ auth' = auth
               /\ Disc!Emit(t, Disc!RouteChanged(mdns[p], peer))
      <4>1. ~Disc!RouteChanged(mdns[p], peer)
        BY <1>2, <3>2 DEF Disc!Emit
      <4>2. SameAd(Disc!Observed(mdns[p], peer), mdns[p])
        BY <1>0, <4>1, ObservedAds
      <4>. QED
        BY <1>0, <3>2, <4>2 DEF SameAd
    <3>. QED
      BY <3>1, <3>2
  <2>. QED
    BY <2>1, <2>2, <2>3, NoEmit
<1>. QED
  BY <1>1, <1>2

(* The steps of emit: each table is copied as it is, and what is published *)
(* is what was collected.                                                  *)
LEMMA EmitKeepsUp ==
    ASSUME Disc!TypeOK, ~overlap => LoneEmit,
           overlap' = IF Starts = {} THEN overlap ELSE \E u \in Disc!Everyone \ Starts : InEmit(u),
           NEW t \in Disc!Everyone, Disc!EmitStep(t)
    PROVE  ~overlap' => LoneEmit'
<1>0. /\ {mdns, auth, snapshot} \subseteq [Peers -> Disc!Ads \cup {NoAd}]
      /\ step \in [Disc!Everyone -> {"idle", "read_auth", "read_mdns", "publish"}]
      /\ merged \in [Disc!Everyone -> [Peers -> Disc!Ads \cup {NoAd}]]
  BY DEF Disc!TypeOK
<1>1. /\ InEmit(t) /\ UNCHANGED <<mdns, auth>>
      /\ \A u \in Disc!Everyone \ {t} : step'[u] = step[u]
  BY <1>0 DEF Disc!EmitStep, Disc!EmitReadAuth, Disc!EmitReadMdns, Disc!EmitPublish, InEmit,
     Disc!tables
<1>2. Starts = {}
  BY <1>1 DEF Starts, InEmit
<1> SUFFICES ASSUME LoneEmit PROVE LoneEmit'
  BY <1>2
<1>3. \A u \in Disc!Everyone \ {t} : step'[u] = "idle"
  BY <1>1 DEF LoneEmit, InEmit
<1>4. \A u, w \in Disc!Everyone : InEmit(u)' /\ InEmit(w)' => u = w
  BY <1>3 DEF InEmit
<1>5. CASE Disc!EmitReadAuth(t)
  <2>1. step'[t] = "read_mdns" /\ merged'[t] = auth
    BY <1>0, <1>5 DEF Disc!EmitReadAuth
  <2>2. ~Disc!AtRest'
    BY <2>1 DEF Disc!AtRest
  <2>3. \A p \in Peers : SameAd(merged'[t][p], auth'[p])
    BY <1>1, <2>1 DEF SameAd
  <2>. QED
    BY <1>3, <1>4, <2>1, <2>2, <2>3 DEF LoneEmit
<1>6. CASE Disc!EmitReadMdns(t)
  <2>1. /\ step[t] = "read_mdns" /\ step'[t] = "publish"
        /\ merged'[t] = [p \in Peers |-> IF mdns[p] = NoAd THEN merged[t][p]
                                         ELSE Disc!Observed(merged[t][p], mdns[p])]
    BY <1>0, <1>6 DEF Disc!EmitReadMdns
  <2>2. ~Disc!AtRest'
    BY <2>1 DEF Disc!AtRest
  <2>3. ASSUME NEW p \in Peers PROVE Merged(merged[t][p], p)'
    <3>1. SameAd(merged[t][p], auth[p])
      BY <2>1 DEF LoneEmit
    <3>2. merged[t][p] \in Disc!Ads \cup {NoAd} /\ mdns[p] \in Disc!Ads \cup {NoAd}
      BY <1>0
    <3>3. CASE mdns[p] = NoAd
      <4>1. merged'[t][p] = merged[t][p] /\ Disc!AddrsOf(mdns[p]) = {} /\ Disc!MetaOf(mdns[p]) = {}
        BY <2>1, <3>3 DEF Disc!AddrsOf, Disc!MetaOf
      <4>. QED
        BY <1>1, <3>1, <4>1 DEF Merged, SameAd
    <3>4. CASE mdns[p] # NoAd
      <4>1. merged'[t][p] = Disc!Observed(merged[t][p], mdns[p])
        BY <2>1, <3>4
      <4>2. /\ Disc!AddrsOf(merged'[t][p]) = Disc!AddrsOf(merged[t][p]) \cup Disc!AddrsOf(mdns[p])
            /\ Disc!MetaOf(merged'[t][p]) \subseteq Disc!MetaOf(merged[t][p]) \cup Disc!MetaOf(mdns[p])
        BY <3>2, <3>4, <4>1, ObservedAds
      <4>. QED
        BY <1>1, <3>1, <4>2 DEF Merged, SameAd
    <3>. QED
      BY <3>3, <3>4
  <2>. QED
    BY <1>3, <1>4, <2>1, <2>2, <2>3 DEF LoneEmit
<1>7. CASE Disc!EmitPublish(t)
  <2>1. step[t] = "publish" /\ step'[t] = "idle" /\ snapshot' = merged[t]
    BY <1>0, <1>7 DEF Disc!EmitPublish
  <2>2. ASSUME NEW p \in Peers PROVE Merged(snapshot[p], p)'
    BY <1>1, <2>1, <2>2 DEF LoneEmit, Merged
  <2>. QED
    BY <1>3, <1>4, <2>1, <2>2 DEF LoneEmit
<1>. QED
  BY <1>5, <1>6, <1>7 DEF Disc!EmitStep

(* An entry goes, and a task enters emit if there was one.                 *)
LEMMA DropKeepsUp ==
    ASSUME Disc!TypeOK, ~overlap => LoneEmit,
           overlap' = IF Starts = {} THEN overlap ELSE \E u \in Disc!Everyone \ Starts : InEmit(u),
           NEW s \in Services, Disc!Remove(s)
    PROVE  ~overlap' => LoneEmit'
<1>1. /\ mdns \in [Peers -> Disc!Ads \cup {NoAd}] /\ step[Browser] = "idle" /\ Browser \in Disc!Everyone
      /\ step \in [Disc!Everyone -> {"idle", "read_auth", "read_mdns", "publish"}]
  BY DEF Disc!TypeOK, Disc!Remove, Disc!Everyone
<1>2. CASE mdns[ids[s]] # NoAd
  BY <1>1, <1>2, EmitStarts DEF Disc!Remove, Disc!Emit
<1>3. CASE mdns[ids[s]] = NoAd
  <2>1. mdns' = mdns /\ auth' = auth /\ step' = step /\ UNCHANGED <<snapshot, merged>>
    BY <1>1, <1>3 DEF Disc!Remove, Disc!Emit
  <2>. QED
    BY <2>1, NoEmit DEF SameAd
<1>. QED
  BY <1>2, <1>3

-----------------------------------------------------------------------------
LEMMA NextTypes == ASSUME Disc!TypeOK, Disc!Next PROVE Disc!TypeOK'
<1> USE DEF Disc!tables
<1>0. /\ mdns \in [Peers -> Disc!Ads \cup {NoAd}] /\ auth \in [Peers -> Disc!Ads \cup {NoAd}]
      /\ snapshot \in [Peers -> Disc!Ads \cup {NoAd}] /\ ids \in [Services -> Peers \cup {NoPeer}]
      /\ step \in [Disc!Everyone -> {"idle", "read_auth", "read_mdns", "publish"}]
      /\ merged \in [Disc!Everyone -> [Peers -> Disc!Ads \cup {NoAd}]]
      /\ Browser \in Disc!Everyone /\ Consumer \in Disc!Everyone /\ Tasks \subseteq Disc!Everyone
  BY DEF Disc!TypeOK, Disc!Everyone
<1>1. ASSUME NEW t \in Disc!Everyone, NEW changed \in BOOLEAN, Disc!Emit(t, changed)
      PROVE  /\ step' \in [Disc!Everyone -> {"idle", "read_auth", "read_mdns", "publish"}]
             /\ UNCHANGED <<snapshot, merged>>
  BY <1>0, <1>1 DEF Disc!Emit
<1>2. ASSUME NEW table \in [Peers -> Disc!Ads \cup {NoAd}], NEW p \in Peers, NEW peer \in Disc!Ads
      PROVE  [table EXCEPT ![p] = Disc!Observed(table[p], peer)] \in [Peers -> Disc!Ads \cup {NoAd}]
  BY ObservedAds
<1>3. Disc!Event => events' \in 0..MaxEvents
  BY DiscoveryConstantsOK, SMTT(30) DEF Disc!Event, Disc!TypeOK
<1>4. ASSUME NEW s \in Services, Disc!Remove(s) PROVE Disc!TypeOK'
  BY <1>0, <1>1, <1>3, <1>4 DEF Disc!Remove, Disc!TypeOK
<1>5. ASSUME NEW s \in Services, NEW p \in Peers, NEW peer \in Disc!Ads, Disc!Resolve(s, p, peer)
      PROVE  Disc!TypeOK'
  <2>1. Disc!RouteChanged(mdns[p], peer) \in BOOLEAN
    BY DEF Disc!RouteChanged
  <2>2. mdns' \in [Peers -> Disc!Ads \cup {NoAd}]
    BY <1>0, <1>2, <1>5 DEF Disc!Resolve
  <2>3. ids' \in [Services -> Peers \cup {NoPeer}]
    BY <1>0, <1>5 DEF Disc!Resolve
  <2>4. /\ step' \in [Disc!Everyone -> {"idle", "read_auth", "read_mdns", "publish"}]
        /\ UNCHANGED <<snapshot, merged>>
    BY <1>0, <1>1, <1>5, <2>1 DEF Disc!Resolve
  <2>. QED
    BY <1>0, <1>3, <1>5, <2>2, <2>3, <2>4 DEF Disc!Resolve, Disc!TypeOK
<1>6. ASSUME NEW t \in Tasks, Disc!Refresh(t) PROVE Disc!TypeOK'
  BY <1>0, <1>1, <1>3, <1>6 DEF Disc!Refresh, Disc!TypeOK
<1>7. ASSUME NEW t \in Tasks, NEW p \in Peers, Disc!ForgetAuthenticated(t, p) PROVE Disc!TypeOK'
  BY <1>0, <1>1, <1>3, <1>7 DEF Disc!ForgetAuthenticated, Disc!TypeOK
<1>8. ASSUME NEW p \in Peers, NEW a \in Addresses, NEW now \in Stamps
      PROVE  [seen |-> now, meta |-> current[p], addrs |-> {a}] \in Disc!Ads
  BY <1>8 DEF Disc!Ads, Disc!TypeOK
<1>9. ASSUME NEW t \in Disc!Everyone, NEW p \in Peers, NEW peer \in Disc!Ads,
             auth' = [auth EXCEPT ![p] = Disc!Observed(auth[p], peer)],
             Disc!Emit(t, Disc!RouteChanged(auth[p], peer)),
             UNCHANGED <<mdns, ids, current>>, unseen' \in BOOLEAN, events' \in 0..MaxEvents
      PROVE  Disc!TypeOK'
  <2>1. Disc!RouteChanged(auth[p], peer) \in BOOLEAN
    BY DEF Disc!RouteChanged
  <2>2. auth' \in [Peers -> Disc!Ads \cup {NoAd}]
    BY <1>0, <1>2, <1>9
  <2>3. /\ step' \in [Disc!Everyone -> {"idle", "read_auth", "read_mdns", "publish"}]
        /\ UNCHANGED <<snapshot, merged>>
    BY <1>1, <1>9, <2>1
  <2>. QED
    BY <1>0, <1>9, <2>2, <2>3 DEF Disc!TypeOK
<1>10. ASSUME NEW t \in Tasks, NEW p \in Peers, NEW a \in Addresses, NEW now \in Stamps,
              Disc!Observe(t, p, a, now)
       PROVE  Disc!TypeOK'
  <2>1. unseen' \in BOOLEAN /\ events' \in 0..MaxEvents
    BY <1>3, <1>10 DEF Disc!Observe, Disc!TypeOK
  <2>. QED
    BY <1>0, <1>8, <1>9, <1>10, <2>1 DEF Disc!Observe
<1>11. CASE Disc!Follow
  <2>1. unseen' \in BOOLEAN /\ events' \in 0..MaxEvents /\ UNCHANGED <<mdns, ids, current>>
    BY <1>11 DEF Disc!Follow, Disc!TypeOK
  <2>2. CASE Disc!Emit(Consumer, FALSE) /\ UNCHANGED auth
    BY <1>0, <1>1, <2>1, <2>2 DEF Disc!TypeOK
  <2>3. ASSUME NEW p \in Peers, snapshot[p] # NoAd, NEW a \in snapshot[p].addrs,
               NEW now \in Stamps,
               LET peer == [seen |-> now, meta |-> current[p], addrs |-> {a}] IN
               /\ auth' = [auth EXCEPT ![p] = Disc!Observed(@, peer)]
               /\ Disc!Emit(Consumer, Disc!RouteChanged(auth[p], peer))
        PROVE  Disc!TypeOK'
    <3>1. a \in Addresses
      BY <1>0, <2>3 DEF Disc!Ads
    <3>. QED
      BY <1>0, <1>8, <1>9, <2>1, <2>3, <3>1
  <2>. QED
    BY <1>11, <2>2, <2>3 DEF Disc!Follow
<1>12. ASSUME NEW t \in Disc!Everyone, Disc!EmitReadAuth(t) \/ Disc!EmitPublish(t) PROVE Disc!TypeOK'
  <2>1. Disc!None \in [Peers -> Disc!Ads \cup {NoAd}]
    BY DEF Disc!None
  <2>2. /\ step' \in [Disc!Everyone -> {"idle", "read_auth", "read_mdns", "publish"}]
        /\ merged' \in [Disc!Everyone -> [Peers -> Disc!Ads \cup {NoAd}]]
    BY <1>0, <1>12, <2>1 DEF Disc!EmitReadAuth, Disc!EmitPublish
  <2>3. snapshot' \in [Peers -> Disc!Ads \cup {NoAd}]
    <3>1. snapshot' = snapshot \/ snapshot' = merged[t]
      BY <1>12 DEF Disc!EmitReadAuth, Disc!EmitPublish
    <3>. QED
      BY <1>0, <3>1, SMTT(30)
  <2>4. unseen' \in BOOLEAN
    BY <1>12 DEF Disc!EmitReadAuth, Disc!EmitPublish, Disc!TypeOK
  <2>. QED
    BY <1>0, <1>12, <2>2, <2>3, <2>4, SMTT(30) DEF Disc!EmitReadAuth, Disc!EmitPublish, Disc!TypeOK
<1>13. ASSUME NEW t \in Disc!Everyone, Disc!EmitReadMdns(t) PROVE Disc!TypeOK'
  <2>1. [p \in Peers |-> IF mdns[p] = NoAd THEN merged[t][p]
                         ELSE Disc!Observed(merged[t][p], mdns[p])] \in [Peers -> Disc!Ads \cup {NoAd}]
    <3>1. ASSUME NEW p \in Peers, mdns[p] # NoAd
          PROVE  Disc!Observed(merged[t][p], mdns[p]) \in Disc!Ads
      BY <1>0, <3>1, ObservedAds, SMTT(30)
    <3>. QED
      BY <1>0, <3>1
  <2>2. /\ merged' \in [Disc!Everyone -> [Peers -> Disc!Ads \cup {NoAd}]]
        /\ step' \in [Disc!Everyone -> {"idle", "read_auth", "read_mdns", "publish"}]
    BY <1>0, <1>13, <2>1 DEF Disc!EmitReadMdns
  <2>. QED
    BY <1>13, <2>2 DEF Disc!EmitReadMdns, Disc!TypeOK
<1>14. ASSUME NEW p \in Peers, NEW m \in Metas, Disc!PeerChanges(p, m) PROVE Disc!TypeOK'
  BY <1>3, <1>14 DEF Disc!PeerChanges, Disc!TypeOK
<1>. QED
  BY <1>4, <1>5, <1>6, <1>7, <1>10, <1>11, <1>12, <1>13, <1>14 DEF Disc!Next, Disc!EmitStep

LEMMA NextKeepsUp ==
    ASSUME DiscoveryInv, DiscoveryNext PROVE ~overlap' => LoneEmit'
<1>0. /\ Disc!TypeOK /\ (~overlap => LoneEmit)
      /\ overlap' = IF Starts = {} THEN overlap ELSE \E u \in Disc!Everyone \ Starts : InEmit(u)
      /\ Browser \in Disc!Everyone /\ Consumer \in Disc!Everyone /\ Tasks \subseteq Disc!Everyone
  BY DEF DiscoveryInv, DiscoveryNext, Disc!Everyone
<1>1. ASSUME NEW s \in Services, Disc!Remove(s) PROVE ~overlap' => LoneEmit'
  BY <1>0, <1>1, DropKeepsUp
<1>2. ASSUME NEW s \in Services, NEW p \in Peers, NEW peer \in Disc!Ads, Disc!Resolve(s, p, peer)
      PROVE  ~overlap' => LoneEmit'
  BY <1>0, <1>2, ObserveKeepsUp DEF Disc!Resolve
<1>3. ASSUME NEW t \in Tasks, Disc!Refresh(t) PROVE ~overlap' => LoneEmit'
  BY <1>0, <1>3, EmitStarts DEF Disc!Refresh, Disc!Emit
<1>4. ASSUME NEW t \in Tasks, NEW p \in Peers, Disc!ForgetAuthenticated(t, p)
      PROVE  ~overlap' => LoneEmit'
  BY <1>0, <1>4, EmitStarts DEF Disc!ForgetAuthenticated, Disc!Emit
<1>5. ASSUME NEW p \in Peers, NEW a \in Addresses, NEW now \in Stamps
      PROVE  [seen |-> now, meta |-> current[p], addrs |-> {a}] \in Disc!Ads
  BY <1>0, <1>5 DEF Disc!Ads, Disc!TypeOK
<1>6. ASSUME NEW t \in Tasks, NEW p \in Peers, NEW a \in Addresses, NEW now \in Stamps,
             Disc!Observe(t, p, a, now)
      PROVE  ~overlap' => LoneEmit'
  BY <1>0, <1>5, <1>6, ObserveKeepsUp DEF Disc!Observe
<1>7. CASE Disc!Follow
  <2>1. step[Consumer] = "idle" /\ mdns' = mdns
    BY <1>7 DEF Disc!Follow
  <2>2. CASE Disc!Emit(Consumer, FALSE) /\ UNCHANGED auth
    <3>1. step' = step /\ UNCHANGED <<snapshot, merged>>
      BY <1>0, <2>1, <2>2 DEF Disc!Emit, Disc!TypeOK
    <3>. QED
      BY <1>0, <2>1, <2>2, <3>1, NoEmit DEF SameAd
  <2>3. ASSUME NEW p \in Peers, snapshot[p] # NoAd, NEW a \in snapshot[p].addrs,
               NEW now \in Stamps,
               LET peer == [seen |-> now, meta |-> current[p], addrs |-> {a}] IN
               /\ auth' = [auth EXCEPT ![p] = Disc!Observed(@, peer)]
               /\ Disc!Emit(Consumer, Disc!RouteChanged(auth[p], peer))
        PROVE  ~overlap' => LoneEmit'
    <3>1. a \in Addresses
      BY <1>0, <2>3 DEF Disc!Ads, Disc!TypeOK
    <3>. QED
      BY <1>0, <1>5, <2>1, <2>3, <3>1, ObserveKeepsUp
  <2>. QED
    BY <1>7, <2>2, <2>3 DEF Disc!Follow
<1>8. ASSUME NEW t \in Disc!Everyone, Disc!EmitStep(t) PROVE ~overlap' => LoneEmit'
  BY <1>0, <1>8, EmitKeepsUp
<1>9. ASSUME NEW p \in Peers, NEW m \in Metas, Disc!PeerChanges(p, m) PROVE ~overlap' => LoneEmit'
  BY <1>0, <1>9, NoEmit DEF Disc!PeerChanges, Disc!tables, SameAd
<1>. QED
  BY <1>1, <1>2, <1>3, <1>4, <1>6, <1>7, <1>8, <1>9 DEF DiscoveryNext, Disc!Next

(* While emits run one at a time, the published snapshot holds exactly the *)
(* addresses of the two tables, each peer with metadata one of them holds; *)
(* after overlapping emits the next one that runs alone restores this.     *)
THEOREM SnapshotFollows == DiscoverySpec => []SnapshotFollowsTables
<1>1. DiscoveryInit => DiscoveryInv
  <2> SUFFICES ASSUME DiscoveryInit PROVE DiscoveryInv
    OBVIOUS
  <2>1. Disc!TypeOK
    <3>1. Disc!None \in [Peers -> Disc!Ads \cup {NoAd}]
      BY DEF Disc!None
    <3>2. events \in 0..MaxEvents
      BY DiscoveryConstantsOK, SMTT(30) DEF DiscoveryInit, Disc!Init
    <3>3. unseen \in BOOLEAN
      BY DEF DiscoveryInit, Disc!Init
    <3>. QED
      BY <3>1, <3>2, <3>3 DEF DiscoveryInit, Disc!Init, Disc!TypeOK
  <2>2. LoneEmit
    BY DEF DiscoveryInit, Disc!Init, Disc!None, LoneEmit, InEmit, Merged, Disc!AddrsOf, Disc!MetaOf
  <2>. QED
    BY <2>1, <2>2 DEF DiscoveryInv
<1>2. DiscoveryInv /\ [DiscoveryNext]_<<Disc!vars, overlap>> => DiscoveryInv'
  <2>1. ASSUME DiscoveryInv, DiscoveryNext PROVE DiscoveryInv'
    BY <2>1, NextTypes, NextKeepsUp DEF DiscoveryInv, DiscoveryNext
  <2>2. ASSUME DiscoveryInv, UNCHANGED <<Disc!vars, overlap>> PROVE DiscoveryInv'
    BY <2>2 DEF DiscoveryInv, Disc!vars, Disc!tables, Disc!TypeOK, LoneEmit, InEmit, Disc!AtRest,
       Merged, SameAd
  <2>. QED
    BY <2>1, <2>2
<1>3. DiscoveryInv => SnapshotFollowsTables
  BY DEF DiscoveryInv, LoneEmit, Merged, SnapshotFollowsTables, Disc!Current
<1>. QED
  BY <1>1, <1>2, <1>3, PTL DEF DiscoverySpec

INSTANCE FiniteSetTheorems

-----------------------------------------------------------------------------
(* The tunnels of input relays (RelayTunnel).                              *)
EndStates ==
    [phase : {"new", "locked", "calling", "registered", "done"},
     endpoint : {"none", "open", "closed"},
     bridge : {"none", "running", "ended"},
     inner : {"none", "up", "closed"},
     entry : BOOLEAN, handle : BOOLEAN]

TunnelTypes ==
    /\ end \in [Relays -> [Nodes -> EndStates]]
    /\ lock \in [Nodes -> Relays \cup {NoRelay}]
    /\ swept \subseteq stopped /\ swept \subseteq Nodes
    /\ capacity \in [Nodes -> Nat] /\ others \in [Nodes -> Nat]

(* An end that is being made holds the lock and has no owner, endpoint or  *)
(* bridge yet; the lock is free once shutdown has gone through the list,   *)
(* and stays so.                                                           *)
EndOK(r, n) ==
    /\ end[r][n].phase = "locked" => lock[n] = r
    /\ end[r][n].phase \in {"new", "locked"} =>
           /\ ~end[r][n].entry /\ ~end[r][n].handle
           /\ end[r][n].endpoint = "none" /\ end[r][n].bridge = "none" /\ end[r][n].inner = "none"
    /\ n \in swept => end[r][n].endpoint # "open"

SweptOK == \A n \in Nodes : n \in swept => lock[n] = NoRelay

Takes(e) == e.phase = "locked" \/ Owned(e)
Busy(n) == {r \in Relays : Takes(end[r][n])}
Balance(n) == capacity[n] + others[n] + Cardinality(Busy(n)) = Capacity

TunnelInv ==
    /\ TunnelTypes /\ SweptOK
    /\ \A r \in Relays, n \in Nodes : EndOK(r, n)
    /\ \A n \in Nodes : Balance(n)

LEMMA InitTunnels == ASSUME Init PROVE TunnelInv
<1>1. TunnelTypes /\ SweptOK
  BY TunnelConstants DEF Init, TunnelTypes, SweptOK, EndStates, Unused, Nodes
<1>2. \A r \in Relays, n \in Nodes : EndOK(r, n)
  BY DEF Init, EndOK, Unused
<1>3. ASSUME NEW n \in Nodes PROVE Balance(n)
  <2>1. Busy(n) = {}
    BY <1>3 DEF Init, Busy, Takes, Owned, Unused
  <2>2. Cardinality(Busy(n)) = 0
    BY <2>1, FS_EmptySet
  <2>3. capacity[n] = Capacity /\ others[n] = 0
    BY <1>3 DEF Init
  <2>. QED
    BY <2>2, <2>3, TunnelConstants, SMTT(30) DEF Balance
<1>. QED
  BY <1>1, <1>2, <1>3 DEF TunnelInv

(* A step that changes one end from s to t: the count of busy ends of its  *)
(* node changes by that end, no other node's does.                         *)
LEMMA OneEnd ==
    ASSUME TunnelTypes, NEW r \in Relays, NEW n \in Nodes, NEW t \in EndStates,
           end' = [end EXCEPT ![r][n] = t]
    PROVE  /\ end' \in [Relays -> [Nodes -> EndStates]]
           /\ \A q \in Relays, m \in Nodes :
                  end'[q][m] = IF q = r /\ m = n THEN t ELSE end[q][m]
           /\ \A m \in Nodes \ {n} : Busy(m)' = Busy(m)
           /\ Cardinality(Busy(n)) \in Nat
           /\ Takes(t) = Takes(end[r][n]) => Busy(n)' = Busy(n)
           /\ Takes(t) /\ ~Takes(end[r][n]) =>
                  Cardinality(Busy(n)') = Cardinality(Busy(n)) + 1
           /\ ~Takes(t) /\ Takes(end[r][n]) =>
                  Cardinality(Busy(n)') = Cardinality(Busy(n)) - 1
<1>1. end' \in [Relays -> [Nodes -> EndStates]]
  BY DEF TunnelTypes
<1>2. \A q \in Relays, m \in Nodes : end'[q][m] = IF q = r /\ m = n THEN t ELSE end[q][m]
  BY DEF TunnelTypes
<1>3. \A m \in Nodes : IsFiniteSet(Busy(m)) /\ Cardinality(Busy(m)) \in Nat
  BY FS_Subset, FS_CardinalityType, TunnelConstants DEF Busy
<1>4. \A m \in Nodes \ {n} : Busy(m)' = Busy(m)
  BY <1>2, SMTT(30) DEF Busy
<1>5. Takes(t) = Takes(end[r][n]) => Busy(n)' = Busy(n)
  BY <1>2, SMTT(30) DEF Busy
<1>6. ASSUME Takes(t), ~Takes(end[r][n])
      PROVE  Cardinality(Busy(n)') = Cardinality(Busy(n)) + 1
  <2>1. Busy(n)' = Busy(n) \cup {r} /\ r \notin Busy(n)
    BY <1>2, <1>6, SMTT(30) DEF Busy
  <2>. QED
    BY <1>3, <2>1, FS_AddElement
<1>7. ASSUME ~Takes(t), Takes(end[r][n])
      PROVE  Cardinality(Busy(n)') = Cardinality(Busy(n)) - 1
  <2>1. Busy(n)' = Busy(n) \ {r} /\ r \in Busy(n)
    BY <1>2, <1>7, SMTT(30) DEF Busy
  <2>. QED
    BY <1>3, <2>1, FS_RemoveElement, ZenonT(60)
<1>. QED
  BY <1>1, <1>2, <1>3, <1>4, <1>5, <1>6, <1>7

(* Settling a tunnel changes neither its phase nor its owners, and opens   *)
(* nothing.                                                                *)
LEMMA SettledKeeps ==
    ASSUME NEW e \in EndStates
    PROVE  /\ Settled(e) \in EndStates
           /\ Settled(e).phase = e.phase
           /\ Settled(e).entry = e.entry /\ Settled(e).handle = e.handle
           /\ Settled(e).endpoint = "open" => e.endpoint = "open"
           /\ Owned(Settled(e)) = Owned(e)
<1>1. /\ Dropped(e) \in EndStates
      /\ Dropped(e).phase = e.phase
      /\ Dropped(e).entry = e.entry /\ Dropped(e).handle = e.handle
      /\ Dropped(e).endpoint = "open" => e.endpoint = "open"
  BY ZenonT(60) DEF Dropped, EndStates
<1>2. /\ Settled(e) \in EndStates
      /\ Settled(e).phase = e.phase
      /\ Settled(e).entry = e.entry /\ Settled(e).handle = e.handle
      /\ Settled(e).endpoint = "open" => e.endpoint = "open"
  BY <1>1, SMTT(30) DEF Settled, EndStates
<1>. QED
  BY <1>2 DEF Owned

(* A step of an existing tunnel that takes no new owner keeps the          *)
(* invariant: it frees a permit exactly when the last owner goes.          *)
LEMMA BecomeTunnels ==
    ASSUME TunnelInv, NEW r \in Relays, NEW n \in Nodes, NEW e \in EndStates,
           Become(r, n, e), UNCHANGED <<others, lock, stopped, swept>>,
           end[r][n].phase # "locked", e.phase \notin {"new", "locked"},
           Owned(e) => Owned(end[r][n]),
           e.endpoint = "open" => end[r][n].endpoint = "open"
    PROVE  TunnelInv'
<1> DEFINE t == Settled(e)
<1>1. /\ t \in EndStates /\ t.phase = e.phase
      /\ t.endpoint = "open" => e.endpoint = "open"
      /\ Takes(t) = Owned(e)
      /\ Takes(end[r][n]) = Owned(end[r][n])
  BY SettledKeeps DEF Takes, Owned
<1>2. end' = [end EXCEPT ![r][n] = t]
  BY DEF Become
<1>3. capacity' = [capacity EXCEPT ![n] = IF Owned(end[r][n]) /\ ~Owned(e) THEN @ + 1 ELSE @]
  BY DEF Become
<1> HIDE DEF t
<1>4. TunnelTypes
  BY DEF TunnelInv
<1>5. TunnelTypes'
  <2>1. end' \in [Relays -> [Nodes -> EndStates]]
    BY <1>1, <1>2, <1>4, OneEnd
  <2>2. capacity' \in [Nodes -> Nat]
    BY <1>3, <1>4, SMTT(30) DEF TunnelTypes
  <2>. QED
    BY <1>4, <2>1, <2>2 DEF TunnelTypes
<1>6. \A q \in Relays, m \in Nodes : EndOK(q, m)'
  <2> TAKE q \in Relays, m \in Nodes
  <2>1. end'[q][m] = IF q = r /\ m = n THEN t ELSE end[q][m]
    BY <1>1, <1>2, <1>4, OneEnd, ZenonT(60)
  <2>2. EndOK(q, m) /\ EndOK(r, n)
    BY DEF TunnelInv
  <2>. QED
    BY <1>1, <2>1, <2>2 DEF EndOK
<1>7. ASSUME NEW m \in Nodes PROVE Balance(m)'
  <2>1. Balance(m) /\ capacity[m] \in Nat /\ others[m] \in Nat
    BY <1>4, <1>7 DEF TunnelInv, TunnelTypes
  <2>2. CASE m # n
    <3>1. Busy(m)' = Busy(m) /\ capacity'[m] = capacity[m]
      BY <1>1, <1>2, <1>3, <1>4, <1>7, <2>2, OneEnd, ZenonT(60) DEF TunnelTypes
    <3>. QED
      BY <2>1, <3>1 DEF Balance
  <2>3. CASE m = n /\ Owned(end[r][n]) /\ ~Owned(e)
    <3>1. /\ Cardinality(Busy(n)') = Cardinality(Busy(n)) - 1
          /\ Cardinality(Busy(n)) \in Nat
      BY <1>1, <1>2, <1>4, <2>3, OneEnd
    <3>2. capacity'[n] = capacity[n] + 1
      BY <1>3, <1>4, <2>3 DEF TunnelTypes
    <3>. QED
      BY <2>1, <2>3, <3>1, <3>2, SMTT(30) DEF Balance
  <2>4. CASE m = n /\ Owned(end[r][n]) = Owned(e)
    <3>1. Busy(n)' = Busy(n)
      <4>1. t \in EndStates /\ Takes(t) = Takes(end[r][n])
        BY <1>1, <2>4
      <4>. QED
        BY <1>2, <1>4, <4>1, OneEnd
    <3>2. capacity'[n] = capacity[n]
      BY <1>3, <1>4, <2>4 DEF TunnelTypes
    <3>. QED
      BY <2>1, <2>4, <3>1, <3>2 DEF Balance
  <2>. QED
    BY <2>2, <2>3, <2>4 DEF Owned
<1>8. SweptOK'
  BY DEF TunnelInv, SweptOK
<1>. QED
  BY <1>5, <1>6, <1>7, <1>8 DEF TunnelInv

-----------------------------------------------------------------------------
LEMMA ReserveTunnels ==
    ASSUME TunnelInv, NEW r \in Relays, NEW n \in Nodes, Reserve(r, n)
    PROVE  TunnelInv'
<1> DEFINE t == [end[r][n] EXCEPT !.phase = "locked"]
<1>1. TunnelTypes /\ SweptOK /\ EndOK(r, n) /\ end[r][n] \in EndStates
  BY DEF TunnelInv, TunnelTypes
<1>2. /\ end[r][n].phase = "new" /\ ~Takes(end[r][n])
      /\ t \in EndStates /\ Takes(t) /\ t.phase = "locked" /\ t.endpoint = "none"
      /\ ~t.entry /\ ~t.handle /\ t.bridge = "none" /\ t.inner = "none"
  BY <1>1 DEF Reserve, EndOK, Takes, Owned, EndStates
<1>3. end' = [end EXCEPT ![r][n] = t]
  BY DEF Reserve, TunnelInv, TunnelTypes
<1> HIDE DEF t
<1>4. /\ capacity' = [capacity EXCEPT ![n] = @ - 1] /\ capacity[n] > 0
      /\ lock[n] = NoRelay /\ lock' = [lock EXCEPT ![n] = r] /\ n \notin stopped
      /\ UNCHANGED <<others, stopped, swept>>
  BY DEF Reserve
<1>5. TunnelTypes'
  <2>1. end' \in [Relays -> [Nodes -> EndStates]]
    BY <1>1, <1>2, <1>3, OneEnd
  <2>2. capacity' \in [Nodes -> Nat] /\ lock' \in [Nodes -> Relays \cup {NoRelay}]
    BY <1>1, <1>4, SMTT(30) DEF TunnelTypes
  <2>. QED
    BY <1>1, <1>4, <2>1, <2>2 DEF TunnelTypes
<1>6. SweptOK'
  BY <1>1, <1>4 DEF SweptOK, TunnelTypes
<1>7. \A q \in Relays, m \in Nodes : EndOK(q, m)'
  <2> TAKE q \in Relays, m \in Nodes
  <2>1. end'[q][m] = IF q = r /\ m = n THEN t ELSE end[q][m]
    BY <1>1, <1>2, <1>3, OneEnd, ZenonT(60)
  <2>2. EndOK(q, m) /\ lock'[m] = IF m = n THEN r ELSE lock[m]
    BY <1>1, <1>4 DEF TunnelInv, TunnelTypes
  <2>3. m = n => end[q][m].phase # "locked"
    BY <1>4, <2>2, TunnelConstants DEF EndOK
  <2>. QED
    BY <1>2, <1>4, <2>1, <2>2, <2>3 DEF EndOK
<1>8. ASSUME NEW m \in Nodes PROVE Balance(m)'
  <2>1. Balance(m) /\ capacity[m] \in Nat /\ others[m] \in Nat
    BY <1>1, <1>8 DEF TunnelInv, TunnelTypes
  <2>2. CASE m # n
    <3>1. Busy(m)' = Busy(m) /\ capacity'[m] = capacity[m]
      BY <1>1, <1>2, <1>3, <1>4, <1>8, <2>2, OneEnd DEF TunnelTypes
    <3>. QED
      BY <1>4, <2>1, <3>1 DEF Balance
  <2>3. CASE m = n
    <3>1. Cardinality(Busy(n)') = Cardinality(Busy(n)) + 1 /\ Cardinality(Busy(n)) \in Nat
      BY <1>1, <1>2, <1>3, OneEnd
    <3>2. capacity'[n] = capacity[n] - 1
      BY <1>1, <1>4 DEF TunnelTypes
    <3>. QED
      BY <1>4, <2>1, <2>3, <3>1, <3>2, SMTT(30) DEF Balance
  <2>. QED
    BY <2>2, <2>3
<1>. QED
  BY <1>5, <1>6, <1>7, <1>8 DEF TunnelInv

(* Only the end that holds the lock opens an endpoint or gives up on it,   *)
(* so shutdown, which needs the lock, has not gone through the list.       *)
LEMMA UnlockTunnels ==
    ASSUME TunnelInv, NEW r \in Relays, NEW n \in Nodes, NEW t \in EndStates,
           end[r][n].phase = "locked", t.phase \notin {"new", "locked"},
           end' = [end EXCEPT ![r][n] = t],
           capacity' = [capacity EXCEPT ![n] = IF Owned(t) THEN @ ELSE @ + 1],
           lock' = [lock EXCEPT ![n] = NoRelay],
           UNCHANGED <<others, stopped, swept>>
    PROVE  TunnelInv'
<1>1. TunnelTypes /\ SweptOK /\ EndOK(r, n)
  BY DEF TunnelInv
<1>2. lock[n] = r /\ n \notin swept
  BY <1>1, TunnelConstants DEF EndOK, SweptOK
<1>3. TunnelTypes'
  BY <1>1, OneEnd, SMTT(30) DEF TunnelTypes
<1>4. SweptOK'
  BY <1>1 DEF SweptOK, TunnelTypes
<1>5. \A q \in Relays, m \in Nodes : EndOK(q, m)'
  <2> TAKE q \in Relays, m \in Nodes
  <2>1. end'[q][m] = IF q = r /\ m = n THEN t ELSE end[q][m]
    BY <1>1, OneEnd, ZenonT(60)
  <2>2. EndOK(q, m) /\ lock'[m] = IF m = n THEN NoRelay ELSE lock[m]
    BY <1>1 DEF TunnelInv, TunnelTypes
  <2>3. m = n /\ end[q][m].phase = "locked" => q = r
    BY <1>2, <2>2 DEF EndOK
  <2>. QED
    BY <1>2, <2>1, <2>2, <2>3 DEF EndOK
<1>6. ASSUME NEW m \in Nodes PROVE Balance(m)'
  <2>1. Balance(m) /\ capacity[m] \in Nat /\ others[m] \in Nat
    BY <1>1, <1>6 DEF TunnelInv, TunnelTypes
  <2>2. Takes(end[r][n]) /\ Takes(t) = Owned(t)
    BY DEF Takes, Owned
  <2>3. CASE m # n
    <3>1. Busy(m)' = Busy(m)
      <4>1. \A q \in Nodes \ {n} : Busy(q)' = Busy(q)
        BY <1>1, OneEnd
      <4>. QED
        BY <1>6, <2>3, <4>1
    <3>2. capacity'[m] = capacity[m]
      BY <1>1, <1>6, <2>3 DEF TunnelTypes
    <3>. QED
      BY <2>1, <3>1, <3>2 DEF Balance
  <2>4. CASE m = n /\ Owned(t)
    <3>1. Busy(n)' = Busy(n)
      BY <1>1, <2>2, <2>4, OneEnd DEF Takes, Owned
    <3>2. capacity'[n] = capacity[n]
      BY <1>1, <2>4 DEF TunnelTypes
    <3>. QED
      BY <2>1, <2>4, <3>1, <3>2 DEF Balance
  <2>5. CASE m = n /\ ~Owned(t)
    <3>1. Cardinality(Busy(n)') = Cardinality(Busy(n)) - 1 /\ Cardinality(Busy(n)) \in Nat
      BY <1>1, <2>2, <2>5, OneEnd
    <3>2. capacity'[n] = capacity[n] + 1
      BY <1>1, <2>5 DEF TunnelTypes
    <3>. QED
      BY <2>1, <2>5, <3>1, <3>2, SMTT(30) DEF Balance
  <2>. QED
    BY <2>3, <2>4, <2>5
<1>. QED
  BY <1>3, <1>4, <1>5, <1>6 DEF TunnelInv

LEMMA CreateTunnels ==
    ASSUME TunnelInv, NEW r \in Relays, NEW n \in Nodes, Create(r, n)
    PROVE  TunnelInv'
<1> DEFINE t == [end[r][n] EXCEPT !.phase = "calling", !.endpoint = "open", !.bridge = "running"]
<1>1. end[r][n].phase = "locked" /\ end[r][n] \in EndStates
  BY DEF Create, TunnelInv, TunnelTypes
<1>2. t \in EndStates /\ t.phase = "calling" /\ Owned(t)
  BY <1>1 DEF EndStates, Owned
<1>3. end' = [end EXCEPT ![r][n] = t]
  BY DEF Create
<1>4. capacity' = [capacity EXCEPT ![n] = @]
  BY DEF Create, TunnelInv, TunnelTypes
<1> HIDE DEF t
<1>. QED
  BY <1>1, <1>2, <1>3, <1>4, UnlockTunnels DEF Create

LEMMA CreateFailsTunnels ==
    ASSUME TunnelInv, NEW r \in Relays, NEW n \in Nodes, CreateFails(r, n)
    PROVE  TunnelInv'
<1> DEFINE t == [end[r][n] EXCEPT !.phase = "done"]
<1>1. end[r][n].phase = "locked" /\ end[r][n] \in EndStates /\ EndOK(r, n)
  BY DEF CreateFails, TunnelInv, TunnelTypes
<1>2. t \in EndStates /\ t.phase = "done" /\ ~Owned(t)
  BY <1>1 DEF EndStates, Owned, EndOK
<1>3. end' = [end EXCEPT ![r][n] = t]
  BY DEF CreateFails, TunnelInv, TunnelTypes
<1> HIDE DEF t
<1>. QED
  BY <1>1, <1>2, <1>3, UnlockTunnels, ZenonT(60) DEF CreateFails

(* shutdown closes what is listed and leaves phases and owners alone.      *)
LEMMA CloseListedTunnels ==
    ASSUME TunnelInv, NEW n \in Nodes, CloseListed(n)
    PROVE  TunnelInv'
<1> DEFINE C(r) == Settled([end[r][n] EXCEPT !.endpoint = "closed"])
<1>1. /\ n \in stopped /\ lock[n] = NoRelay /\ swept' = swept \cup {n}
      /\ UNCHANGED <<capacity, others, lock, stopped>>
  BY DEF CloseListed
<1>2. TunnelTypes /\ SweptOK
  BY DEF TunnelInv
<1>3. ASSUME NEW r \in Relays
      PROVE  /\ C(r) \in EndStates /\ C(r).phase = end[r][n].phase
             /\ C(r).entry = end[r][n].entry /\ C(r).handle = end[r][n].handle
             /\ C(r).endpoint # "open" /\ Takes(C(r)) = Takes(end[r][n])
  <2> DEFINE e == [end[r][n] EXCEPT !.endpoint = "closed"]
  <2>1. /\ e \in EndStates /\ e.phase = end[r][n].phase /\ e.endpoint = "closed"
        /\ e.entry = end[r][n].entry /\ e.handle = end[r][n].handle
    <3>1. end[r][n] \in EndStates
      BY <1>2, <1>3 DEF TunnelTypes
    <3>. QED
      BY <3>1 DEF EndStates
  <2> HIDE DEF e
  <2>2. C(r) = Settled(e)
    BY DEF e
  <2>. QED
    BY <2>1, <2>2, SettledKeeps, SMTT(30) DEF Takes, Owned
<1>4. \A r \in Relays, m \in Nodes :
          end'[r][m] = IF m = n /\ end[r][m].endpoint = "open" THEN C(r) ELSE end[r][m]
  BY DEF CloseListed
<1>5. end' = [r \in Relays |-> [m \in Nodes |-> end'[r][m]]]
  BY DEF CloseListed
<1> HIDE DEF C
<1>6. end' \in [Relays -> [Nodes -> EndStates]]
  <2>1. \A r \in Relays, m \in Nodes : end'[r][m] \in EndStates
    BY <1>2, <1>3, <1>4 DEF TunnelTypes
  <2>. QED
    BY <1>5, <2>1
<1>7. TunnelTypes'
  BY <1>1, <1>2, <1>6 DEF TunnelTypes
<1>8. SweptOK'
  BY <1>1, <1>2 DEF SweptOK
<1>9. \A r \in Relays, m \in Nodes : EndOK(r, m)'
  <2> TAKE r \in Relays, m \in Nodes
  <2>1. EndOK(r, m)
    BY DEF TunnelInv
  <2>2. CASE m = n /\ end[r][m].endpoint = "open"
    <3>1. end[r][m].phase \notin {"new", "locked"}
      BY <2>1, <2>2 DEF EndOK
    <3>. QED
      BY <1>3, <1>4, <2>2, <3>1 DEF EndOK
  <2>3. CASE ~(m = n /\ end[r][m].endpoint = "open")
    <3>1. end'[r][m] = end[r][m]
      BY <1>4, <2>3
    <3>. QED
      BY <1>1, <2>1, <2>3, <3>1 DEF EndOK
  <2>. QED
    BY <2>2, <2>3
<1>10. ASSUME NEW m \in Nodes PROVE Balance(m)'
  <2>1. Busy(m)' = Busy(m)
    BY <1>3, <1>4, <1>10 DEF Busy
  <2>. QED
    BY <1>1, <1>10, <2>1 DEF TunnelInv, Balance
<1>. QED
  BY <1>7, <1>8, <1>9, <1>10 DEF TunnelInv

(* A step that leaves the tunnels of the two nodes alone.                  *)
LEMMA ElsewhereTunnels ==
    ASSUME TunnelInv, NEW n \in Nodes, NEW d \in {-1, 1}, Elsewhere(n, d)
    PROVE  TunnelInv'
<1>1. /\ others[n] + d \in Nat /\ capacity[n] - d \in Nat
      /\ others' = [others EXCEPT ![n] = @ + d] /\ capacity' = [capacity EXCEPT ![n] = @ - d]
      /\ UNCHANGED <<end, lock, stopped, swept>>
  BY DEF Elsewhere
<1>2. TunnelTypes'
  BY <1>1 DEF TunnelInv, TunnelTypes
<1>3. ASSUME NEW m \in Nodes PROVE Balance(m)'
  <2>1. Balance(m) /\ capacity[m] \in Nat /\ others[m] \in Nat
    BY <1>3 DEF TunnelInv, TunnelTypes
  <2>2. Cardinality(Busy(m)) \in Nat
    BY FS_Subset, FS_CardinalityType, TunnelConstants DEF Busy
  <2>3. Busy(m)' = Busy(m)
    BY <1>1 DEF Busy
  <2>4. /\ others'[m] = IF m = n THEN others[m] + d ELSE others[m]
        /\ capacity'[m] = IF m = n THEN capacity[m] - d ELSE capacity[m]
    BY <1>1, <1>3 DEF TunnelInv, TunnelTypes
  <2>. QED
    BY <2>1, <2>2, <2>3, <2>4, SMTT(30) DEF Balance
<1>4. SweptOK' /\ \A r \in Relays, m \in Nodes : EndOK(r, m)'
  BY <1>1 DEF TunnelInv, SweptOK, EndOK
<1>. QED
  BY <1>2, <1>3, <1>4 DEF TunnelInv

LEMMA UntouchedTunnels ==
    ASSUME TunnelInv, UNCHANGED <<end, capacity, others, lock, swept>>, stopped \subseteq stopped'
    PROVE  TunnelInv'
  BY DEF TunnelInv, TunnelTypes, SweptOK, EndOK, Balance, Busy

(* The steps of one end whose tunnel exists or that is refused one.        *)
LEMMA TunnelStep ==
    ASSUME TunnelInv, NEW r \in Relays, NEW n \in Nodes,
           \/ Refuse(r, n) \/ Establish(r, n) \/ CallFails(r, n)
           \/ \E won \in BOOLEAN : Register(r, n, won)
           \/ Watcher(r, n) \/ CloseInner(r, n) \/ PeerCloses(r, n) \/ DropHandle(r, n)
           \/ BridgeEnds(r, n) \/ BridgeBreaks(r, n)
    PROVE  TunnelInv'
<1> DEFINE s == end[r][n]
<1>1. s \in EndStates /\ EndOK(r, n)
  BY DEF TunnelInv, TunnelTypes
<1>2. UNCHANGED <<others, lock, stopped, swept>>
  BY DEF Refuse, Establish, CallFails, Register, Watcher, CloseInner, PeerCloses, DropHandle,
     BridgeEnds, BridgeBreaks
<1>3. ASSUME NEW e \in EndStates, Become(r, n, e),
             e.phase \notin {"new", "locked"}, s.phase # "locked",
             Owned(e) => Owned(s), e.endpoint = "open" => s.endpoint = "open"
      PROVE  TunnelInv'
  BY <1>2, <1>3, BecomeTunnels
<1>4. CASE Refuse(r, n)
  <2> DEFINE e == [s EXCEPT !.phase = "done"]
  <2>1. Become(r, n, e) /\ s.phase = "new"
    BY <1>4 DEF Refuse
  <2>2. e \in EndStates /\ e.phase = "done" /\ ~Owned(e) /\ e.endpoint = s.endpoint
    BY <1>1, <2>1 DEF EndOK, Owned, EndStates
  <2>. QED
    BY <1>3, <2>1, <2>2
<1>5. CASE Establish(r, n)
  <2> DEFINE e == [s EXCEPT !.inner = "up"]
  <2>1. Become(r, n, e) /\ s.phase = "calling"
    BY <1>5 DEF Establish
  <2>2. e \in EndStates /\ e.phase = "calling" /\ Owned(s) /\ e.endpoint = s.endpoint
    BY <1>1, <2>1 DEF Owned, EndStates
  <2>. QED
    BY <1>3, <2>1, <2>2
<1>6. CASE CallFails(r, n)
  <2> DEFINE e == [s EXCEPT !.phase = "done"]
  <2>1. Become(r, n, e) /\ s.phase = "calling"
    BY <1>6 DEF CallFails
  <2>2. e \in EndStates /\ e.phase = "done" /\ Owned(s) /\ e.endpoint = s.endpoint
    BY <1>1, <2>1 DEF Owned, EndStates
  <2>. QED
    BY <1>3, <2>1, <2>2
<1>7. CASE \E won \in BOOLEAN : Register(r, n, won)
  <2>1. PICK e \in {[s EXCEPT !.phase = "registered", !.entry = TRUE, !.handle = TRUE],
                    [s EXCEPT !.phase = "done"]} : Become(r, n, e)
    BY <1>7 DEF Register
  <2>2. s.phase = "calling" /\ Owned(s)
    BY <1>7 DEF Register, Owned
  <2>3. e \in EndStates /\ e.phase \in {"registered", "done"} /\ e.endpoint = s.endpoint
    BY <1>1, <2>1 DEF EndStates
  <2>. QED
    BY <1>3, <2>1, <2>2, <2>3
<1>8. CASE Watcher(r, n)
  <2> DEFINE e == [s EXCEPT !.bridge = "ended", !.entry = FALSE]
  <2>1. Become(r, n, e) /\ s.phase = "registered"
    BY <1>8 DEF Watcher
  <2>2. /\ e \in EndStates /\ e.phase = "registered" /\ e.endpoint = s.endpoint
        /\ ~e.entry /\ e.handle = s.handle
    BY <1>1, <2>1 DEF EndStates
  <2>3. Owned(e) => Owned(s)
    BY <2>2 DEF Owned
  <2>. QED
    BY <1>3, <2>1, <2>2, <2>3
<1>9. CASE CloseInner(r, n)
  <2>1. PICK x \in {s.entry, FALSE} : Become(r, n, [s EXCEPT !.inner = "closed", !.entry = x])
    BY <1>9 DEF CloseInner
  <2> DEFINE e == [s EXCEPT !.inner = "closed", !.entry = x]
  <2>2. s.phase = "registered"
    BY <1>9 DEF CloseInner
  <2>3. /\ e \in EndStates /\ e.phase = "registered" /\ e.endpoint = s.endpoint
        /\ e.entry = x /\ e.handle = s.handle
    BY <1>1, <2>1, <2>2 DEF EndStates
  <2>4. Owned(e) => Owned(s)
    BY <2>1, <2>2, <2>3 DEF Owned
  <2>. QED
    BY <1>3, <2>1, <2>2, <2>3, <2>4
<1>10. CASE PeerCloses(r, n)
  <2> DEFINE e == [s EXCEPT !.inner = "closed"]
  <2>1. Become(r, n, e) /\ s.inner = "up"
    BY <1>10 DEF PeerCloses
  <2>2. /\ e \in EndStates /\ e.phase = s.phase /\ e.endpoint = s.endpoint
        /\ e.entry = s.entry /\ e.handle = s.handle
    BY <1>1 DEF EndStates
  <2>3. s.phase \notin {"new", "locked"}
    BY <1>1, <2>1 DEF EndOK
  <2>. QED
    BY <1>3, <2>1, <2>2, <2>3 DEF Owned
<1>11. CASE DropHandle(r, n)
  <2> DEFINE e == [s EXCEPT !.handle = FALSE]
  <2>1. Become(r, n, e) /\ s.handle
    BY <1>11 DEF DropHandle
  <2>2. /\ e \in EndStates /\ e.phase = s.phase /\ e.endpoint = s.endpoint
        /\ e.entry = s.entry
    BY <1>1 DEF EndStates
  <2>3. s.phase \notin {"new", "locked"} /\ Owned(s)
    BY <1>1, <2>1 DEF EndOK, Owned
  <2>. QED
    BY <1>3, <2>1, <2>2, <2>3
<1>12. CASE BridgeEnds(r, n) \/ BridgeBreaks(r, n)
  <2> DEFINE e == [s EXCEPT !.bridge = "ended", !.endpoint = "closed"]
  <2>1. Become(r, n, e) /\ s.bridge = "running"
    BY <1>12 DEF BridgeEnds, BridgeBreaks
  <2>2. /\ e \in EndStates /\ e.phase = s.phase /\ e.endpoint = "closed"
        /\ e.entry = s.entry /\ e.handle = s.handle
    BY <1>1, ZenonT(60) DEF EndStates
  <2>3. s.phase \notin {"new", "locked"}
    BY <1>1, <2>1 DEF EndOK
  <2>. QED
    BY <1>3, <2>1, <2>2, <2>3 DEF Owned
<1>. QED
  BY <1>4, <1>5, <1>6, <1>7, <1>8, <1>9, <1>10, <1>11, <1>12

LEMMA NextTunnels == ASSUME TunnelInv, [Next]_vars PROVE TunnelInv'
<1>1. ASSUME NEW r \in Relays, NEW n \in Nodes,
             \/ Refuse(r, n) \/ Reserve(r, n) \/ Create(r, n) \/ CreateFails(r, n)
             \/ Establish(r, n) \/ CallFails(r, n) \/ (\E won \in BOOLEAN : Register(r, n, won))
             \/ Watcher(r, n) \/ CloseInner(r, n) \/ PeerCloses(r, n) \/ DropHandle(r, n)
             \/ BridgeEnds(r, n) \/ BridgeBreaks(r, n)
      PROVE  TunnelInv'
  BY <1>1, ReserveTunnels, CreateTunnels, CreateFailsTunnels, TunnelStep
<1>2. ASSUME NEW r \in Relays, OuterCloses(r) PROVE TunnelInv'
  BY <1>2, UntouchedTunnels DEF OuterCloses
<1>3. ASSUME NEW n \in Nodes, Stop(n) PROVE TunnelInv'
  BY <1>3, UntouchedTunnels DEF Stop
<1>4. ASSUME NEW n \in Nodes, CloseListed(n) PROVE TunnelInv'
  BY <1>4, CloseListedTunnels
<1>5. ASSUME NEW n \in Nodes, NEW d \in {-1, 1}, Elsewhere(n, d) PROVE TunnelInv'
  BY <1>5, ElsewhereTunnels
<1>6. CASE UNCHANGED vars
  BY <1>6, UntouchedTunnels DEF vars
<1>. QED
  BY <1>1, <1>2, <1>3, <1>4, <1>5, <1>6 DEF Next

LEMMA TunnelsFollow == ASSUME TunnelInv PROVE CapacityConserved /\ ShutdownClosesTunnels
<1>1. ShutdownClosesTunnels
  BY DEF TunnelInv, TunnelTypes, EndOK, ShutdownClosesTunnels
<1>2. CapacityConserved
  BY DEF TunnelInv, CapacityConserved, Balance, Busy, Takes
<1>. QED
  BY <1>1, <1>2

-----------------------------------------------------------------------------
(* Whatever ends a tunnel (an error while it is made, a failed call, a     *)
(* lost registration, the watcher, a dropped session), its permit of       *)
(* relay_capacity is returned once and only once.                          *)
THEOREM CapacityNeverLeaks == Spec => []CapacityConserved
<1>1. Init => TunnelInv
  BY InitTunnels
<1>2. TunnelInv /\ [Next]_vars => TunnelInv'
  BY NextTunnels
<1>3. TunnelInv => CapacityConserved
  BY TunnelsFollow
<1>. QED
  BY <1>1, <1>2, <1>3, PTL DEF Spec

(* shutdown leaves no tunnel open, however many are being made while it    *)
(* runs: the flag is set before the list is closed, and a new tunnel looks *)
(* at the flag under the lock with which it enters the list.               *)
THEOREM NoTunnelOutlivesShutdown == Spec => []ShutdownClosesTunnels
<1>1. Init => TunnelInv
  BY InitTunnels
<1>2. TunnelInv /\ [Next]_vars => TunnelInv'
  BY NextTunnels
<1>3. TunnelInv => ShutdownClosesTunnels
  BY TunnelsFollow
<1>. QED
  BY <1>1, <1>2, <1>3, PTL DEF Spec
=============================================================================
