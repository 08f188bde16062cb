------------------------------ MODULE Visibility ------------------------------
(***************************************************************************)
(* What this device says about itself: set_discoverable and                *)
(* update_metadata, called from any thread.  Neither holds a lock across   *)
(* its reads, the mDNS daemon and its writes, so each of these is a step.  *)
(***************************************************************************)
EXTENDS Naturals, FiniteSets

CONSTANTS
    Callers,     \* threads
    Records,     \* device metadata
    NoRecord,    \* the daemon announces nothing
    MaxCalls     \* bound of the calls made

VARIABLES
    discoverable,  \* NetworkRuntime::discoverable, what inbound handshakes ask
    published,     \* DiscoveryService::local_published
    metadata,      \* NetworkRuntime::metadata
    announced,     \* metadata of the service registered at the daemon
    call,          \* what each thread is doing
    calls          \* calls made

vars == <<discoverable, published, metadata, announced, call, calls>>

Idle == [at |-> "idle"]
ShowAt(step, on, meta) == [at |-> step, on |-> on, meta |-> meta]
UpdateAt(step, meta) == [at |-> step, meta |-> meta]
Goto(t, c) == call' = [call EXCEPT ![t] = c]

Init ==
    /\ discoverable = TRUE /\ published = TRUE
    /\ metadata \in Records
    /\ announced = metadata
    /\ call = [t \in Callers |-> Idle]
    /\ calls = 0

Begin(t) ==
    /\ call[t] = Idle
    /\ calls < MaxCalls
    /\ calls' = calls + 1

(* set_discoverable: the flag is stored first ...                          *)
SetDiscoverable(t, on) ==
    /\ Begin(t)
    /\ discoverable' = on
    /\ Goto(t, ShowAt("read", on, NoRecord))
    /\ UNCHANGED <<published, metadata, announced>>

(* ... then the metadata is read ...                                       *)
ReadMetadata(t) ==
    /\ call[t].at = "read"
    /\ Goto(t, ShowAt("previous", call[t].on, metadata))
    /\ UNCHANGED <<discoverable, published, metadata, announced, calls>>

(* ... set_local_published returns when nothing changes ...                *)
Previous(t) ==
    /\ call[t].at = "previous"
    /\ Goto(t, IF published = call[t].on THEN Idle
               ELSE ShowAt("announce", call[t].on, call[t].meta))
    /\ UNCHANGED <<discoverable, published, metadata, announced, calls>>

(* ... registers or unregisters the service ...                            *)
Announce(t) ==
    /\ call[t].at = "announce"
    /\ announced' = IF call[t].on THEN call[t].meta ELSE NoRecord
    /\ Goto(t, ShowAt("store", call[t].on, call[t].meta))
    /\ UNCHANGED <<discoverable, published, metadata, calls>>

(* ... gives up, with a warning, when the daemon refuses ...               *)
AnnounceFails(t) ==
    /\ call[t].at = "announce"
    /\ Goto(t, Idle)
    /\ UNCHANGED <<discoverable, published, metadata, announced, calls>>

(* ... and records what is published.                                      *)
Store(t) ==
    /\ call[t].at = "store"
    /\ published' = call[t].on
    /\ Goto(t, Idle)
    /\ UNCHANGED <<discoverable, metadata, announced, calls>>

(* update_metadata: only a published service is announced again ...        *)
UpdateMetadata(t, meta) ==
    /\ Begin(t)
    /\ Goto(t, UpdateAt(IF published THEN "reannounce" ELSE "write", meta))
    /\ UNCHANGED <<discoverable, published, metadata, announced>>

Reannounce(t) ==
    /\ call[t].at = "reannounce"
    /\ announced' = call[t].meta
    /\ Goto(t, UpdateAt("write", call[t].meta))
    /\ UNCHANGED <<discoverable, published, metadata, calls>>

(* Mutant: the metadata is written although the daemon refused it.         *)
ReannounceFailsWrites(t) ==
    /\ call[t].at = "reannounce"
    /\ Goto(t, UpdateAt("write", call[t].meta))
    /\ UNCHANGED <<discoverable, published, metadata, announced, calls>>

(* ... an error returns before the metadata is replaced ...                *)
ReannounceFails(t) ==
    /\ call[t].at = "reannounce"
    /\ Goto(t, Idle)
    /\ UNCHANGED <<discoverable, published, metadata, announced, calls>>

(* ... and the metadata is replaced last.                                  *)
WriteMetadata(t) ==
    /\ call[t].at = "write"
    /\ metadata' = call[t].meta
    /\ Goto(t, Idle)
    /\ UNCHANGED <<discoverable, published, announced, calls>>

Next ==
    \E t \in Callers :
        \/ \E on \in BOOLEAN : SetDiscoverable(t, on)
        \/ ReadMetadata(t) \/ Previous(t) \/ Announce(t) \/ AnnounceFails(t) \/ Store(t)
        \/ \E meta \in Records : UpdateMetadata(t, meta)
        \/ Reannounce(t) \/ ReannounceFails(t) \/ WriteMetadata(t)

Spec == Init /\ [][Next]_vars

-----------------------------------------------------------------------------
AtRest == \A t \in Callers : call[t] = Idle
Overlapping == \E s, t \in Callers : s # t /\ call[s] # Idle /\ call[t] # Idle

TypeOK ==
    /\ discoverable \in BOOLEAN /\ published \in BOOLEAN
    /\ metadata \in Records
    /\ announced \in Records \cup {NoRecord}
    /\ calls \in 0..MaxCalls
    /\ \A t \in Callers :
           call[t].at \in {"idle", "read", "previous", "announce", "store", "reannounce", "write"}

(* The daemon announces the current metadata exactly when it is published. *)
Announced == announced = IF published THEN metadata ELSE NoRecord
=============================================================================
