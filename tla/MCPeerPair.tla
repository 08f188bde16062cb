------------------------------ MODULE MCPeerPair ------------------------------
(* TLC instance of PeerPair.  A behaviour is one of two scenarios, because   *)
(* many dials with all faults at once are too many states.                   *)
EXTENDS PeerPair

CONSTANT MaxFaultyDials   \* bound of the dials where faults happen

VARIABLE scenario

(* "direct": up to MaxDials direct dials and nothing else.  "faults": fewer  *)
(* dials, which may be relayed, with restarts, timeouts and disconnects.     *)
InScenario ==
    IF scenario = "direct" THEN Undisturbed /\ Direct
    ELSE dialed <= MaxFaultyDials

MCInit == Init /\ scenario \in {"direct", "faults"}
MCNext == Next /\ UNCHANGED scenario /\ InScenario'
MCSpec == MCInit /\ [][MCNext]_<<vars, scenario>> /\ Fairness

(* Whatever its peer does, a runtime of the pair that does not itself        *)
(* restart behaves as SessionRegistry says: the table, the dial lock, the    *)
(* sessions handed out and the connections closed only change by the steps   *)
(* of that module, so what is proved of it holds at each end of the pair.    *)
(* (A step that leaves the pair alone stutters; the disjunct spares TLC the  *)
(* search for a step of the registry.)                                       *)
Node1ImplementsRegistry ==
    Registry(1)!Init /\ [][UNCHANGED vars \/ Registry(1)!Next]_(Registry(1)!vars)
=============================================================================
