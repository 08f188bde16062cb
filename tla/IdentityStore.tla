----------------------------- MODULE IdentityStore -----------------------------
(***************************************************************************)
(* DeviceIdentity::load_or_create over its directory: the root key and the *)
(* TLS certificate with its key are loaded, or generated and written by    *)
(* private_write.  A process may end, a write may fail and the machine may *)
(* lose power between any two steps; processes run one after another.      *)
(*                                                                         *)
(* private_write puts complete, synced contents in place by a rename, so a *)
(* file is absent or holds the value of one generation.  A power loss may  *)
(* undo a rename until the directory is synced.  The number of the process *)
(* stands for the values it generates.                                     *)
(***************************************************************************)
EXTENDS Naturals

CONSTANT MaxStarts    \* bound of the processes started

NoFile == 0
Files == {"root", "cert", "key"}

VARIABLES
    visible,    \* the directory as programs see it
    durable,    \* the directory a power loss may fall back to
    at,         \* where load_or_create is; "down" without a process
    held,       \* what the process has loaded or generated
    starts,     \* processes started so far
    identities  \* root keys that some process has run with

vars == <<visible, durable, at, held, starts, identities>>

NoFiles == [f \in Files |-> NoFile]

Init ==
    /\ visible = NoFiles /\ durable = NoFiles
    /\ at = "down"
    /\ held = NoFiles
    /\ starts = 0
    /\ identities = {}

Start ==
    /\ at = "down"
    /\ starts < MaxStarts
    /\ starts' = starts + 1
    /\ at' = "root"
    /\ UNCHANGED <<visible, durable, held, identities>>

(* load_or_create_root: the stored key, or a new one that must be written. *)
LoadRoot ==
    /\ at = "root"
    /\ IF visible["root"] # NoFile
       THEN held' = [held EXCEPT !["root"] = visible["root"]] /\ at' = "tls"
       ELSE held' = [held EXCEPT !["root"] = starts] /\ at' = "rename_root"
    /\ UNCHANGED <<visible, durable, starts, identities>>

(* load_or_create_tls: both files, or a new pair.                          *)
LoadTls ==
    /\ at = "tls"
    /\ IF visible["cert"] # NoFile /\ visible["key"] # NoFile
       THEN /\ held' = [visible EXCEPT !["root"] = held["root"]]
            /\ at' = "configure"
       ELSE /\ held' = [f \in Files |-> IF f = "root" THEN held[f] ELSE starts]
            /\ at' = "rename_cert"
    /\ UNCHANGED <<visible, durable, starts, identities>>

(* What private_write of a file is followed by.                            *)
After(f) == CASE f = "root" -> "tls" [] f = "cert" -> "rename_key" [] f = "key" -> "configure"
Renaming(f) == CASE f = "root" -> "rename_root" [] f = "cert" -> "rename_cert" [] f = "key" -> "rename_key"
Syncing(f) == CASE f = "root" -> "sync_root" [] f = "cert" -> "sync_cert" [] f = "key" -> "sync_key"

(* private_write: the temporary file is complete and is renamed ...        *)
Rename(f) ==
    /\ at = Renaming(f)
    /\ visible' = [visible EXCEPT ![f] = held[f]]
    /\ at' = Syncing(f)
    /\ UNCHANGED <<durable, held, starts, identities>>

(* Mutant: the directory is not synced.                                    *)
SyncNothing(f) ==
    /\ at = Syncing(f)
    /\ at' = After(f)
    /\ UNCHANGED <<visible, durable, held, starts, identities>>

(* ... and the directory is synced.                                        *)
Sync(f) ==
    /\ at = Syncing(f)
    /\ durable' = visible
    /\ at' = After(f)
    /\ UNCHANGED <<visible, held, starts, identities>>

(* server_config refuses a certificate with another key.                   *)
Configure ==
    /\ at = "configure"
    /\ IF held["cert"] = held["key"]
       THEN at' = "running" /\ identities' = identities \cup {held["root"]}
       ELSE at' = "down" /\ UNCHANGED identities
    /\ UNCHANGED <<visible, durable, held, starts>>

(* The process ends, by a crash, by an error of one of its writes or when  *)
(* its work is done.                                                       *)
End ==
    /\ at # "down"
    /\ at' = "down"
    /\ UNCHANGED <<visible, durable, held, starts, identities>>

(* Each rename since the last sync has or has not reached the disk.        *)
PowerLoss ==
    /\ visible' \in [Files -> {visible[f] : f \in Files} \cup {durable[f] : f \in Files}]
    /\ \A f \in Files : visible'[f] \in {visible[f], durable[f]}
    /\ durable' = visible'
    /\ at' = "down"
    /\ UNCHANGED <<held, starts, identities>>

Next ==
    \/ Start \/ LoadRoot \/ LoadTls \/ Configure \/ End \/ PowerLoss
    \/ \E f \in Files : Rename(f) \/ Sync(f)

Spec == Init /\ [][Next]_vars

-----------------------------------------------------------------------------
Steps == {"down", "root", "rename_root", "sync_root", "tls", "rename_cert", "sync_cert",
          "rename_key", "sync_key", "configure", "running"}

TypeOK ==
    /\ visible \in [Files -> Nat]
    /\ durable \in [Files -> Nat]
    /\ at \in Steps
    /\ held \in [Files -> Nat]
    /\ starts \in Nat
    /\ identities \subseteq Nat

(* "TLS endpoint keys may rotate; the Ed25519 root key and its derived     *)
(* DeviceId do not": every process that gets past load_or_create has the   *)
(* same root key, whatever crashes, failed writes and power losses came    *)
(* before it.                                                              *)
RootNeverRotates == \A r, s \in identities : r = s

(* No sequence of faults leaves a certificate beside the key of another    *)
(* pair, which server_config would refuse at every later start.            *)
StoredPairMatches ==
    visible["cert"] # NoFile /\ visible["key"] # NoFile => visible["cert"] = visible["key"]
=============================================================================
