------------------------------- MODULE MCTrust -------------------------------
(* TLC instances of Trust.                                                  *)
EXTENDS Trust, TLC

CONSTANTS Control, FileTransfer, RemoteFilesRead

TaskSymmetry == Permutations(Tasks)
=============================================================================
