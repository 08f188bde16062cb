-------------------------- MODULE MCSessionRegistry --------------------------
(* TLC instance of SessionRegistry.  A behaviour is one of three scenarios,  *)
(* because all connections of all keys at once are too many states.          *)
EXTENDS SessionRegistry, FiniteSets, TLC

CONSTANTS Control

VARIABLE scenario

(* Connection ids are interchangeable: no operator orders them.             *)
ConnSymmetry == Permutations(Conns)

AtMostTwo == Cardinality({c \in Conns : stage[c] # "unused"}) <= 2

(* "contended": all connections belong to one key, and its processes send   *)
(* instance ids.  "restarts": two connections at a time of such a key, and  *)
(* so many processes that the retired list overflows.  "apart": two         *)
(* connections of any keys and processes, where one of the peers restarts.  *)
InScenario ==
    IF scenario = "apart"
    THEN /\ AtMostTwo
         /\ \E p \in Peers : running[p] = 1
         /\ \A p \in Peers : running[p] < MaxProcess
    ELSE /\ \A c \in Conns : session[c] # NoSession =>
                /\ Key(c) = <<1, RealtimeInput>>
                /\ stage[c] # "dialing" => session[c].instance # NoInstance
         /\ \A p \in Peers \ {1} : running[p] = 1
         /\ IF scenario = "contended" THEN running[1] < MaxProcess ELSE AtMostTwo

MCInit == Init /\ scenario \in {"contended", "restarts", "apart"}

(* The process without an instance id is gone as soon as it comes where all  *)
(* connections share a key: what this node does next it can do as well then. *)
PassesOver == scenario # "apart" /\ running[1] \in LegacyProcesses => running'[1] # running[1]

MCNext == Next /\ UNCHANGED scenario /\ InScenario' /\ PassesOver
MCSpec == MCInit /\ [][MCNext]_<<vars, scenario>>
=============================================================================
