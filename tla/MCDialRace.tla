------------------------------ MODULE MCDialRace ------------------------------
(* TLC instance of DialRace.                                                 *)
EXTENDS Naturals

CONSTANTS Count, RaceCapacity, Retryable, None

VARIABLES
    attempt, phase, alive, selection, sent, joined, pathTimedOut, authFailed, race, winner,
    seen, peerTable, peerClosed, halt, recoveryClosed

Race == INSTANCE DialRace WITH Capacity <- RaceCapacity

ASSUME RaceConstantsOK ==
    /\ Count \in 1..16 /\ RaceCapacity \in Nat \ {0} /\ Retryable \in BOOLEAN
    /\ None \notin Race!Connections

RaceSpec == Race!Spec

(* Once the loop has a winner, no other candidate has confirmed itself to    *)
(* the peer, unless it has failed after that (race_endpoints_on).            *)
NoRivalOfTheWinner == Race!NoRivalOfTheWinner

(* A call that has ended leaves no candidate connection behind but the one   *)
(* it returned (race_endpoints_on).                                          *)
NoCandidateLeftBehind == Race!NoCandidateLeftBehind

(* The second race starts from nothing (race_endpoints).                     *)
RecoveryStartsClean == Race!RecoveryStartsClean

(* After shutdown no connection of the call is open (new_recovery_endpoint). *)
ShutdownClosesTheRace == Race!ShutdownClosesTheRace
=============================================================================
