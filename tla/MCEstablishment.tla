---------------------------- MODULE MCEstablishment ----------------------------
(* How a session comes up: two runtimes that dial each other (MCPeerPair),   *)
(* and the race of a call over the candidate addresses of one peer           *)
(* (MCDialRace).  A behaviour exercises one of them, named by part.  Init,   *)
(* Next and the properties without a prefix are the pair's.                  *)
EXTENDS MCPeerPair, MCDialRace

VARIABLE part

pairVars == <<vars, scenario>>
raceVars == <<attempt, phase, alive, selection, sent, joined, pathTimedOut, authFailed, race, winner,
              seen, peerTable, peerClosed, halt, recoveryClosed>>

EstablishmentInit ==
    /\ part \in {"pair", "race"}
    /\ MCInit /\ Race!Init
    /\ part = "race" => scenario = "direct"

EstablishmentNext ==
    /\ UNCHANGED part
    /\ \/ part = "pair" /\ MCNext /\ UNCHANGED raceVars
       \/ part = "race" /\ Race!Next /\ UNCHANGED pairVars

(* The fairness of PeerPair and of DialRace, each for its own behaviours.    *)
EstablishmentSpec ==
    /\ EstablishmentInit /\ [][EstablishmentNext]_<<part, pairVars, raceVars>>
    /\ \A n \in Nodes, c \in Conns : WF_vars(part = "pair" /\ Task(n, c))
    /\ \A c \in Race!Candidates : /\ WF_raceVars(part = "race" /\ Race!CandidateStep(c))
                                 /\ WF_raceVars(part = "race" /\ Race!Cancel(c))
    /\ WF_raceVars(part = "race" /\ Race!CallStep)

(* Every dial comes to an end.  Between two nodes, no task of a connection   *)
(* goes on for ever at either end and both ends come to see the same closes  *)
(* (register_session, finish_authentication); a call that races returns, or  *)
(* is dropped, and then holds nothing but what it returned (race_endpoints). *)
Settles == <>[](AtRest /\ (part = "race" => Race!HasEnded))
=============================================================================
