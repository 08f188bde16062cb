--------------------------------- MODULE Trust ---------------------------------
(***************************************************************************)
(* What this device stores about one peer (the peer, its grants and its    *)
(* remembered endpoint in SQLite), the sessions it has with that peer, and *)
(* the operations on both: pairing, forget, grant, revoke, the             *)
(* auto-connect preference and the three ways a session comes up.          *)
(*                                                                         *)
(* Every repository call and every lock of the session table is one step   *)
(* of a task; tasks interleave between them, as the awaits of the code     *)
(* allow.  A session is known by the task that registered it.  A device id *)
(* is the hash of its key (verify_key), so the peer's key never differs    *)
(* from the stored one.                                                    *)
(***************************************************************************)
EXTENDS Naturals

CONSTANTS
    Tasks,         \* concurrent calls of the runtime
    Ops,           \* the operations the tasks may start
    StorageFails,  \* whether repository calls may fail
    Capabilities,
    Inject,        \* CrossScreenInject
    Input,         \* SessionKind::RealtimeInput
    OtherKinds,    \* Control and its like: paired peers only
    OpenKinds,     \* FileTransfer: unpaired peers may connect
    NoKind

ASSUME TrustConstantsOK ==
    /\ Ops \subseteq {"pair", "forget", "grant", "revoke", "auto", "inbound", "outbound",
                   "relay_accept", "relay_connect"}
    /\ StorageFails \in BOOLEAN
    /\ Inject \in Capabilities
    /\ Input \notin OtherKinds \cup OpenKinds
    /\ NoKind \notin {Input} \cup OtherKinds \cup OpenKinds

VARIABLES
    paired,       \* the peer has a row, with TrustState::Paired
    grants,       \* capabilities with a grant row (one direction)
    remembered,   \* the peer has an endpoint row
    step,         \* the next step of each task, "idle" between calls
    op,           \* the call of each task
    arg,          \* its capabilities: to grant, to revoke, approved in pairing
    read,         \* what it has read: existing grants, or the relay's grant
    kind,         \* session kind of each task's connection
    sessions,     \* tasks whose session is in the table and open
    snapshot      \* the grants a session's features were negotiated with

stored == <<paired, grants, remembered>>
vars == <<stored, step, op, arg, read, kind, sessions, snapshot>>

Origins == {"inbound", "outbound", "relay_accept", "relay_connect"}
Kinds == {Input} \cup OtherKinds \cup OpenKinds

(* The process starts with whatever an earlier one has stored.             *)
Init ==
    /\ paired \in BOOLEAN
    /\ grants \in SUBSET Capabilities
    /\ remembered \in BOOLEAN
    /\ grants # {} \/ remembered => paired
    /\ step = [t \in Tasks |-> "idle"]
    /\ op = [t \in Tasks |-> "none"]
    /\ arg = [t \in Tasks |-> {}]
    /\ read = [t \in Tasks |-> {}]
    /\ kind = [t \in Tasks |-> NoKind]
    /\ sessions = {}
    /\ snapshot = [t \in Tasks |-> {}]

Goto(t, s) ==
    /\ step' = [step EXCEPT ![t] = s]
    /\ IF s = "idle"
       THEN /\ op' = [op EXCEPT ![t] = "none"]
            /\ arg' = [arg EXCEPT ![t] = {}]
            /\ read' = [read EXCEPT ![t] = {}]
       ELSE UNCHANGED <<op, arg, read>>
    /\ UNCHANGED kind

(* A call starts with its first repository access at s.                    *)
Begin(t, name, caps, s) ==
    /\ step[t] = "idle"
    /\ name \in Ops
    /\ op' = [op EXCEPT ![t] = name]
    /\ arg' = [arg EXCEPT ![t] = caps]
    /\ step' = [step EXCEPT ![t] = s]

-----------------------------------------------------------------------------
(* Mutant: the query does not ask for this peer's grants only.             *)
PairReadUnfiltered(t, caps) ==
    /\ Begin(t, "pair", caps, "pair_save")
    /\ read' = [read EXCEPT ![t] = Capabilities]
    /\ UNCHANGED <<stored, kind, sessions, snapshot>>

(* confirm_pairing_with_grants reads the existing grants.                  *)
PairRead(t, caps) ==
    /\ Begin(t, "pair", caps, "pair_save")
    /\ read' = [read EXCEPT ![t] = grants]
    /\ UNCHANGED <<stored, kind, sessions, snapshot>>

(* save_pairing: one transaction writes the peer and replaces its grants.  *)
PairSave(t) ==
    /\ step[t] = "pair_save"
    /\ paired' = TRUE
    /\ grants' = read[t] \cup arg[t]
    /\ UNCHANGED <<remembered, sessions, snapshot>>
    /\ Goto(t, "recheck")

(* forget: the peer's row goes, and by ON DELETE CASCADE its grants and    *)
(* endpoints.                                                              *)
ForgetPeer(t) ==
    /\ Begin(t, "forget", {}, "forget_endpoints")
    /\ paired' = FALSE
    /\ grants' = {}
    /\ remembered' = FALSE
    /\ UNCHANGED <<read, kind, sessions, snapshot>>

(* endpoints.forget, then the entry of the discovery service.              *)
ForgetEndpoints(t) ==
    /\ step[t] = "forget_endpoints"
    /\ remembered' = FALSE
    /\ UNCHANGED <<paired, grants, sessions, snapshot>>
    /\ Goto(t, "close_all")

(* Mutant: the disconnect of forget and revoke spares realtime input.      *)
CloseAllButInput(t) ==
    /\ step[t] = "close_all"
    /\ sessions' = {s \in sessions : kind[s] = Input}
    /\ snapshot' = [s \in Tasks |-> IF s \in sessions' THEN snapshot[s] ELSE {}]
    /\ UNCHANGED stored
    /\ Goto(t, "idle")

(* The last part of forget and revoke: every session of the peer goes.     *)
CloseAll(t) ==
    /\ step[t] = "close_all"
    /\ sessions' = {}
    /\ snapshot' = [s \in Tasks |-> {}]
    /\ UNCHANGED stored
    /\ Goto(t, "idle")

(* grant: the row needs its peer (foreign key), else the call fails.       *)
GrantSave(t, c) ==
    /\ paired
    /\ Begin(t, "grant", {c}, "close_for_grant")
    /\ grants' = grants \cup {c}
    /\ UNCHANGED <<paired, remembered, read, kind, sessions, snapshot>>

(* A grant of CrossScreenInject only closes realtime input.                *)
CloseForGrant(t) ==
    /\ step[t] = "close_for_grant"
    /\ sessions' = IF arg[t] = {Inject} THEN {s \in sessions : kind[s] # Input} ELSE {}
    /\ snapshot' = [s \in Tasks |-> IF s \in sessions' THEN snapshot[s] ELSE {}]
    /\ UNCHANGED stored
    /\ Goto(t, "idle")

(* revoke: without a row to delete nothing else happens.                   *)
RevokeDelete(t, c) ==
    /\ c \in grants
    /\ Begin(t, "revoke", {c}, "close_all")
    /\ grants' = grants \ {c}
    /\ UNCHANGED <<paired, remembered, read, kind, sessions, snapshot>>

(* set_peer_auto_connect reads the paired peer, then writes it back.       *)
AutoRead(t) ==
    /\ paired
    /\ Begin(t, "auto", {}, "auto_save")
    /\ UNCHANGED <<stored, read, kind, sessions, snapshot>>

(* save_peer is an upsert of the whole record.                             *)
AutoSave(t) ==
    /\ step[t] = "auto_save"
    /\ paired' = TRUE
    /\ UNCHANGED <<grants, remembered, sessions, snapshot>>
    /\ Goto(t, "idle")

-----------------------------------------------------------------------------
(* Mutant: the handshake does not ask for the pairing.                     *)
CheckSkipped(t, origin, k) ==
    /\ t \notin sessions
    /\ origin \in {"relay_accept", "relay_connect"} => k = Input
    /\ Begin(t, origin, {}, CASE origin = "inbound" -> "recheck"
                               [] origin = "relay_accept" -> "authorize"
                               [] OTHER -> "register")
    /\ kind' = [kind EXCEPT ![t] = k]
    /\ UNCHANGED <<stored, read, sessions, snapshot>>

(* finish_authentication asks for the pairing, unless the kind is open to  *)
(* unpaired peers, and completes.  What follows depends on the caller.     *)
Check(t, origin, k) ==
    /\ t \notin sessions
    /\ k \notin OpenKinds => paired
    /\ origin \in {"relay_accept", "relay_connect"} => k = Input
    /\ Begin(t, origin, {}, CASE origin = "inbound" -> "recheck"
                               [] origin = "relay_accept" -> "authorize"
                               [] OTHER -> "register")
    /\ kind' = [kind EXCEPT ![t] = k]
    /\ UNCHANGED <<stored, read, sessions, snapshot>>

(* accept_input_relay requires the source's grant before it registers.     *)
Authorize(t) ==
    /\ step[t] = "authorize"
    /\ \/ /\ Inject \in grants
          /\ step' = [step EXCEPT ![t] = "register"]
          /\ read' = [read EXCEPT ![t] = {Inject}]
          /\ UNCHANGED <<op, arg, kind>>
       \/ Inject \notin grants /\ Goto(t, "idle")
    /\ UNCHANGED <<stored, sessions, snapshot>>

(* register_session: a rival of the same kind is replaced or stays.        *)
Register(t) ==
    LET rivals == {s \in sessions : kind[s] = kind[t]} IN
    /\ step[t] = "register"
    /\ \/ sessions' = (sessions \ rivals) \cup {t}
       \/ rivals # {} /\ sessions' = sessions
    /\ snapshot' = [s \in Tasks |->
           IF s \notin sessions' THEN {} ELSE IF s = t THEN read[t] ELSE snapshot[s]]
    /\ UNCHANGED stored
    /\ Goto(t, IF op[t] = "outbound" THEN "recheck" ELSE "idle")

(* remember_authenticated_session asks for the pairing once more.          *)
Recheck(t) ==
    /\ step[t] = "recheck"
    /\ UNCHANGED <<stored, sessions, snapshot>>
    /\ Goto(t, IF paired THEN "record"
               ELSE IF op[t] = "inbound" THEN "register" ELSE "idle")

(* Mutant: the endpoint row does not reference the peer.                   *)
RecordUnreferenced(t) ==
    /\ step[t] = "record"
    /\ remembered' = TRUE
    /\ UNCHANGED <<paired, grants, sessions, snapshot>>
    /\ Goto(t, IF op[t] = "inbound" THEN "register" ELSE "idle")

(* record_authenticated: without the peer's row the insert fails, which is *)
(* logged.                                                                 *)
Record(t) ==
    /\ step[t] = "record"
    /\ remembered' = (remembered \/ paired)
    /\ UNCHANGED <<paired, grants, sessions, snapshot>>
    /\ Goto(t, IF op[t] = "inbound" THEN "register" ELSE "idle")

(* A repository call returns an error, after which pairing, the preference *)
(* and accepting a relay return it, forget leaves the sessions alone, and  *)
(* remember_authenticated_session logs it and is done.  A call whose first *)
(* access fails has not begun.                                             *)
StorageError(t) ==
    /\ StorageFails
    /\ step[t] \in {"pair_save", "auto_save", "forget_endpoints", "authorize", "recheck", "record"}
    /\ UNCHANGED <<stored, sessions, snapshot>>
    /\ Goto(t, IF op[t] = "inbound" THEN "register" ELSE "idle")

(* A feature of a session in the table is negotiated: require reads the    *)
(* grants of the moment.                                                   *)
Negotiate(t) ==
    /\ t \in sessions
    /\ snapshot' = [snapshot EXCEPT ![t] = grants]
    /\ UNCHANGED <<stored, step, op, arg, read, kind, sessions>>

SessionEnds(t) ==
    /\ t \in sessions
    /\ sessions' = sessions \ {t}
    /\ snapshot' = [snapshot EXCEPT ![t] = {}]
    /\ UNCHANGED <<stored, step, op, arg, read, kind>>

(* The process ends between any two steps and starts again: only the       *)
(* database is left.                                                       *)
Crash ==
    /\ step' = [t \in Tasks |-> "idle"]
    /\ op' = [t \in Tasks |-> "none"]
    /\ arg' = [t \in Tasks |-> {}]
    /\ read' = [t \in Tasks |-> {}]
    /\ kind' = [t \in Tasks |-> NoKind]
    /\ sessions' = {}
    /\ snapshot' = [t \in Tasks |-> {}]
    /\ UNCHANGED stored

Next ==
    \/ \E t \in Tasks, caps \in SUBSET Capabilities : PairRead(t, caps)
    \/ \E t \in Tasks : PairSave(t)
    \/ \E t \in Tasks : ForgetPeer(t)
    \/ \E t \in Tasks : ForgetEndpoints(t)
    \/ \E t \in Tasks : CloseAll(t)
    \/ \E t \in Tasks, c \in Capabilities : GrantSave(t, c)
    \/ \E t \in Tasks : CloseForGrant(t)
    \/ \E t \in Tasks, c \in Capabilities : RevokeDelete(t, c)
    \/ \E t \in Tasks : AutoRead(t)
    \/ \E t \in Tasks : AutoSave(t)
    \/ \E t \in Tasks, origin \in Origins, k \in Kinds : Check(t, origin, k)
    \/ \E t \in Tasks : Authorize(t)
    \/ \E t \in Tasks : Register(t)
    \/ \E t \in Tasks : Recheck(t)
    \/ \E t \in Tasks : Record(t)
    \/ \E t \in Tasks : StorageError(t)
    \/ \E t \in Tasks : Negotiate(t)
    \/ \E t \in Tasks : SessionEnds(t)
    \/ Crash

Spec == Init /\ [][Next]_vars

-----------------------------------------------------------------------------
Steps == {"idle", "pair_save", "forget_endpoints", "close_all", "close_for_grant", "auto_save",
          "authorize", "register", "recheck", "record"}

(* Types; and a session in the table has the kind its handshake asked for. *)
TypeOK ==
    /\ paired \in BOOLEAN /\ remembered \in BOOLEAN
    /\ grants \subseteq Capabilities
    /\ step \in [Tasks -> Steps]
    /\ op \in [Tasks -> Ops \cup {"none"}]
    /\ arg \in [Tasks -> SUBSET Capabilities]
    /\ read \in [Tasks -> SUBSET Capabilities]
    /\ kind \in [Tasks -> Kinds \cup {NoKind}]
    /\ sessions \subseteq {t \in Tasks : kind[t] \in Kinds}
    /\ snapshot \in [Tasks -> SUBSET Capabilities]

AllIdle == \A t \in Tasks : step[t] = "idle"

(* No grant and no remembered endpoint without the paired peer it belongs  *)
(* to, whatever is in flight and wherever the process crashes.             *)
RowsNeedAPeer == grants # {} \/ remembered => paired

(* "tears down all feature sessions so stale authority cannot survive in   *)
(* memory": once the calls have returned, a peer that is not paired has no *)
(* session but of the kinds open to unpaired peers.                        *)
NoSessionSurvivesForget ==
    AllIdle /\ ~paired => \A t \in sessions : kind[t] \in OpenKinds

(* "Tear down every peer session so a revoked grant cannot remain usable   *)
(* until an arbitrary reconnect": no session keeps a grant that is gone,   *)
(* except while the call that removed it is about to close it.             *)
StaleGrantIsBeingClosed ==
    \A t \in sessions :
        \/ snapshot[t] \subseteq grants
        \/ \E u \in Tasks : step[u] \in {"close_all", "forget_endpoints"}

(* "only a pairing session can establish device trust": a peer becomes     *)
(* paired by save_pairing alone.                                           *)
OnlyPairingEstablishesTrust ==
    [][paired' /\ ~paired => \E t \in Tasks : step[t] = "pair_save"]_vars
=============================================================================
