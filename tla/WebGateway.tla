------------------------------ MODULE WebGateway ------------------------------
(***************************************************************************)
(* publish_web_gateway and unpublish_web_gateway, called from any thread,  *)
(* and the drop of the discovery service.  The name of the record is known *)
(* to the service between the calls; the mDNS daemon has the record.  All  *)
(* records of a device have one name, so a new one replaces the old.       *)
(***************************************************************************)
CONSTANT Callers    \* threads

VARIABLES
    recorded,   \* web_fullname is set
    posted,     \* the daemon announces the gateway
    gateway,    \* where the call of each thread is
    stranded,   \* history: the daemon refused to withdraw the record
    dropped     \* the service is gone

vars == <<recorded, posted, gateway, stranded, dropped>>

Goto(t, next) == gateway' = [gateway EXCEPT ![t] = next]

Init ==
    /\ recorded = FALSE /\ posted = FALSE
    /\ gateway = [t \in Callers |-> "idle"]
    /\ stranded = FALSE
    /\ dropped = FALSE

(* Mutant: the name is forgotten and the record left at the daemon.        *)
UnpublishNothing(t, next) ==
    /\ ~dropped
    /\ gateway[t] = "idle"
    /\ recorded' = FALSE
    /\ Goto(t, next)
    /\ UNCHANGED <<posted, stranded, dropped>>

(* unpublish_web_gateway, the whole of one call (next is "idle") and the   *)
(* start of the other (next is "register"): a stored name is taken and its *)
(* record unregistered under the lock of web_fullname.  An error of the    *)
(* daemon is ignored.                                                      *)
Unpublish(t, next) ==
    /\ ~dropped
    /\ gateway[t] = "idle"
    /\ recorded' = FALSE
    /\ \/ ~recorded /\ UNCHANGED <<posted, stranded>>
       \/ recorded /\ posted' = FALSE /\ stranded' = FALSE
       \/ recorded /\ stranded' = TRUE /\ UNCHANGED posted
    /\ Goto(t, next)
    /\ UNCHANGED dropped

(* publish_web_gateway then registers the new record, without a lock ...   *)
Register(t) ==
    /\ gateway[t] = "register"
    /\ posted' = TRUE
    /\ stranded' = FALSE
    /\ Goto(t, "store")
    /\ UNCHANGED <<recorded, dropped>>

(* ... returns the error of a bad name or of the daemon ...                *)
RegisterFails(t) ==
    /\ gateway[t] = "register"
    /\ Goto(t, "idle")
    /\ UNCHANGED <<recorded, posted, stranded, dropped>>

(* ... and stores its name.                                                *)
StoreName(t) ==
    /\ gateway[t] = "store"
    /\ recorded' = TRUE
    /\ Goto(t, "idle")
    /\ UNCHANGED <<posted, stranded, dropped>>

(* The last reference to the service goes, so no call is running: the      *)
(* record is unregistered and the daemon shut down.                        *)
Drop ==
    /\ ~dropped
    /\ \A t \in Callers : gateway[t] = "idle"
    /\ dropped' = TRUE
    /\ recorded' = FALSE /\ posted' = FALSE
    /\ UNCHANGED <<gateway, stranded>>

Next ==
    \/ \E t \in Callers :
           \/ \E next \in {"idle", "register"} : Unpublish(t, next)
           \/ Register(t) \/ RegisterFails(t) \/ StoreName(t)
    \/ Drop

Spec == Init /\ [][Next]_vars

-----------------------------------------------------------------------------
TypeOK ==
    /\ {recorded, posted, stranded, dropped} \subseteq BOOLEAN
    /\ gateway \in [Callers -> {"idle", "register", "store"}]

(* A gateway that the daemon announces can be withdrawn: its name is       *)
(* stored, or a call that has registered it is about to store it, whatever *)
(* calls overlap; only a refusal of the daemon strands a record.           *)
GatewayWithdrawable ==
    posted /\ ~stranded => recorded \/ \E t \in Callers : gateway[t] = "store"
=============================================================================
