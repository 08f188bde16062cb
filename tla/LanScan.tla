------------------------------- MODULE LanScan -------------------------------
(***************************************************************************)
(* scan_local_ipv4 and cancel_lan_scan: the calls share a cooldown and one *)
(* cancel flag, and each has its own set of probe tasks.  A call may be    *)
(* dropped, which aborts its probes.  The cooldown may end at any time: a  *)
(* stalled scan can outlast it, and then two scans overlap.                *)
(***************************************************************************)
EXTENDS Naturals

CONSTANTS
    Scans,         \* calls of scan_local_ipv4
    Hosts,         \* number of endpoints a scan probes
    Concurrency,   \* SCAN_CONCURRENCY
    NotCancelled

VARIABLES
    cooling,     \* less than SCAN_COOLDOWN has passed since last_started
    cancelled,   \* scan_cancelled
    at,          \* where each call is
    attempted,   \* probes the call has spawned
    probing,     \* its probes that are running
    ended,       \* its probes that have ended and are not joined
    late         \* history: probes spawned since the call was cancelled in its
                 \* loop, NotCancelled when it was not or the flag was cleared

vars == <<cooling, cancelled, at, attempted, probing, ended, late>>

Loop == {"check", "slot", "sleep"}

Init ==
    /\ cooling = FALSE
    /\ cancelled = FALSE
    /\ at = [s \in Scans |-> "new"]
    /\ attempted = [s \in Scans |-> 0]
    /\ probing = [s \in Scans |-> 0]
    /\ ended = [s \in Scans |-> 0]
    /\ late = [s \in Scans |-> NotCancelled]

Goto(s, step) == at' = [at EXCEPT ![s] = step]

(* Under the lock of scan_state; "done" is also a throttled call.          *)
Start(s) ==
    /\ at[s] = "new"
    /\ cooling' = TRUE
    /\ Goto(s, IF cooling THEN "done" ELSE "reset")
    /\ UNCHANGED <<cancelled, attempted, probing, ended, late>>

(* The flag is cleared after the lock is released.                         *)
Reset(s) ==
    /\ at[s] = "reset"
    /\ cancelled' = FALSE
    /\ late' = [r \in Scans |-> NotCancelled]
    /\ Goto(s, "interfaces")
    /\ UNCHANGED <<cooling, attempted, probing, ended>>

(* local_scan_interfaces; an error ends the call, the cooldown is used up. *)
Interfaces(s) ==
    /\ at[s] = "interfaces"
    /\ \E step \in {"check", "done"} : Goto(s, step)
    /\ UNCHANGED <<cooling, cancelled, attempted, probing, ended, late>>

(* Mutant: the flag is only looked at before the first probe.              *)
CheckFirst(s) ==
    /\ at[s] = "check"
    /\ Goto(s, IF attempted[s] = Hosts \/ (cancelled /\ attempted[s] = 0) THEN "drain" ELSE "slot")
    /\ UNCHANGED <<cooling, cancelled, attempted, probing, ended, late>>

(* The head of the loop: the next endpoint, unless cancelled.              *)
Check(s) ==
    /\ at[s] = "check"
    /\ Goto(s, IF attempted[s] = Hosts \/ cancelled THEN "drain" ELSE "slot")
    /\ UNCHANGED <<cooling, cancelled, attempted, probing, ended, late>>

(* A slot is free: one more probe.                                         *)
Spawn(s) ==
    /\ at[s] = "slot"
    /\ probing[s] + ended[s] < Concurrency
    /\ attempted' = [attempted EXCEPT ![s] = @ + 1]
    /\ probing' = [probing EXCEPT ![s] = @ + 1]
    /\ late' = [late EXCEPT ![s] = IF @ = NotCancelled THEN @ ELSE @ + 1]
    /\ Goto(s, "sleep")
    /\ UNCHANGED <<cooling, cancelled, ended>>

Slept(s) ==
    /\ at[s] = "sleep"
    /\ Goto(s, "check")
    /\ UNCHANGED <<cooling, cancelled, attempted, probing, ended, late>>

(* Mutant: only the drain joins probes.                                    *)
JoinAtTheEnd(s) ==
    /\ ended[s] > 0
    /\ at[s] = "drain"
    /\ ended' = [ended EXCEPT ![s] = @ - 1]
    /\ UNCHANGED <<cooling, cancelled, at, attempted, probing, late>>

(* join_next, to free a slot or to drain.                                  *)
Join(s) ==
    /\ ended[s] > 0
    /\ \/ at[s] = "slot" /\ probing[s] + ended[s] >= Concurrency
       \/ at[s] = "drain"
    /\ ended' = [ended EXCEPT ![s] = @ - 1]
    /\ UNCHANGED <<cooling, cancelled, at, attempted, probing, late>>

Drained(s) ==
    /\ at[s] = "drain"
    /\ probing[s] + ended[s] = 0
    /\ Goto(s, "done")
    /\ UNCHANGED <<cooling, cancelled, attempted, probing, ended, late>>

(* probe_endpoint ends, each of its steps being under a timeout.           *)
ProbeEnds(s) ==
    /\ probing[s] > 0
    /\ probing' = [probing EXCEPT ![s] = @ - 1]
    /\ ended' = [ended EXCEPT ![s] = @ + 1]
    /\ UNCHANGED <<cooling, cancelled, at, attempted, late>>

(* The caller drops the future, and with it the JoinSet.                   *)
DropCall(s) ==
    /\ at[s] \notin {"new", "done"}
    /\ Goto(s, "done")
    /\ probing' = [probing EXCEPT ![s] = 0]
    /\ ended' = [ended EXCEPT ![s] = 0]
    /\ UNCHANGED <<cooling, cancelled, attempted, late>>

(* cancel_lan_scan.                                                        *)
Cancel ==
    /\ ~cancelled
    /\ cancelled' = TRUE
    /\ late' = [s \in Scans |-> IF at[s] \in Loop THEN 0 ELSE late[s]]
    /\ UNCHANGED <<cooling, at, attempted, probing, ended>>

CooldownEnds ==
    /\ cooling
    /\ cooling' = FALSE
    /\ UNCHANGED <<cancelled, at, attempted, probing, ended, late>>

Step(s) == Reset(s) \/ Interfaces(s) \/ Check(s) \/ Spawn(s) \/ Slept(s) \/ Join(s) \/ Drained(s)

Next ==
    \/ \E s \in Scans : Start(s) \/ Step(s) \/ ProbeEnds(s) \/ DropCall(s)
    \/ Cancel \/ CooldownEnds

(* tokio polls a ready task, and a probe ends by its timeouts.             *)
Fairness == \A s \in Scans : WF_vars(Step(s)) /\ WF_vars(ProbeEnds(s))

Spec == Init /\ [][Next]_vars /\ Fairness

-----------------------------------------------------------------------------
TypeOK ==
    /\ cooling \in BOOLEAN /\ cancelled \in BOOLEAN
    /\ at \in [Scans -> Loop \cup {"new", "reset", "interfaces", "drain", "done"}]
    /\ attempted \in [Scans -> 0..Hosts]
    /\ \A s \in Scans : probing[s] + ended[s] \in 0..Concurrency
    /\ late \in [Scans -> 0..Hosts \cup {NotCancelled}]

(* A scan that cancel_lan_scan finds in its loop spawns at most the probe  *)
(* it had already passed the check for, unless a later scan clears the     *)
(* flag the two share.                                                     *)
CancelStopsTheScan == \A s \in Scans : late[s] = NotCancelled \/ late[s] <= 1

(* A scan that has started ends, whatever fails and whoever cancels: no    *)
(* slot of its JoinSet is waited for in vain.                              *)
ScansEnd == \A s \in Scans : at[s] = "reset" ~> at[s] = "done"
=============================================================================
