------------------------------ MODULE ProbeRate ------------------------------
(***************************************************************************)
(* admit_discovery_probe: how often one source may probe this device.  The *)
(* table keeps for each source the age of its window and the attempts in   *)
(* it; ages of Keep and more are alike, so time needs no bound.            *)
(***************************************************************************)
EXTENDS Naturals, FiniteSets

CONSTANTS
    Sources,     \* addresses probes come from
    Window,      \* WINDOW
    MaxAttempts, \* MAX_ATTEMPTS
    TableSize,   \* entries beyond which old ones are dropped
    Keep         \* age from which they are dropped

NoRate == [age |-> Keep, attempts |-> MaxAttempts + 1]   \* no entry

VARIABLES
    rates,     \* probe_rates
    admitted,  \* history: ages of a source's latest admitted probes, the latest first;
               \* Window: that long ago, or never
    refused    \* history: whether the source was refused since the last tick

vars == <<rates, admitted, refused>>

Latest == 1..2 * MaxAttempts

Known == {s \in Sources : rates[s] # NoRate}

Init ==
    /\ rates = [s \in Sources |-> NoRate]
    /\ admitted = [s \in Sources |-> [i \in Latest |-> Window]]
    /\ refused = [s \in Sources |-> FALSE]

(* Mutant: pruning empties the table.                                      *)
PrunedAll == IF Cardinality(Known) > TableSize THEN [s \in Sources |-> NoRate] ELSE rates

(* rates.retain                                                            *)
Pruned ==
    IF Cardinality(Known) > TableSize
    THEN [s \in Sources |-> IF rates[s].age < Keep THEN rates[s] ELSE NoRate]
    ELSE rates

(* The entry of the source after or_insert and the restart of its window.  *)
Rate(s) ==
    IF Pruned[s] = NoRate \/ Pruned[s].age >= Window
    THEN [age |-> 0, attempts |-> 0] ELSE Pruned[s]

Admit(s) ==
    /\ Rate(s).attempts < MaxAttempts
    /\ rates' = [Pruned EXCEPT ![s] = [Rate(s) EXCEPT !.attempts = @ + 1]]
    /\ admitted' = [admitted EXCEPT ![s] =
           [i \in Latest |-> IF i = 1 THEN 0 ELSE admitted[s][i - 1]]]
    /\ UNCHANGED refused

Refuse(s) ==
    /\ Rate(s).attempts >= MaxAttempts
    /\ rates' = [Pruned EXCEPT ![s] = Rate(s)]
    /\ refused' = [refused EXCEPT ![s] = TRUE]
    /\ UNCHANGED admitted

Tick ==
    /\ rates' = [s \in Sources |->
           IF rates[s] # NoRate /\ rates[s].age < Keep
           THEN [rates[s] EXCEPT !.age = @ + 1] ELSE rates[s]]
    /\ admitted' = [s \in Sources |->
           [i \in Latest |-> IF admitted[s][i] < Window THEN admitted[s][i] + 1 ELSE Window]]
    /\ refused' = [s \in Sources |-> FALSE]

Next == (\E s \in Sources : Admit(s) \/ Refuse(s)) \/ Tick

Spec == Init /\ [][Next]_vars

-----------------------------------------------------------------------------
TypeOK ==
    /\ \A s \in Known : rates[s] \in [age : 0..Keep, attempts : 0..MaxAttempts]
    /\ admitted \in [Sources -> [Latest -> 0..Window]]
    /\ refused \in [Sources -> BOOLEAN]

(* No WINDOW of time, wherever it starts, admits 2 * MAX_ATTEMPTS probes   *)
(* of a source: the window restarts with an attempt of its own, and        *)
(* pruning a large table forgets nothing that still counts.                *)
RateBounded == \A s \in Sources : admitted[s][2 * MaxAttempts] = Window

(* A source is refused only after MAX_ATTEMPTS admitted probes within the  *)
(* last WINDOW: neither other sources nor its own refusals count.          *)
RefusedForCause == \A s \in Sources : refused[s] => admitted[s][MaxAttempts] < Window
=============================================================================
