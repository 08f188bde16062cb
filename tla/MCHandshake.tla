------------------------------ MODULE MCHandshake ------------------------------
(* TLC instance of Handshake.                                                *)
EXTENDS Handshake

(* Two releases that agree, that overlap and that have no version in common *)
(* (which of the two nodes is the older one is a matter of names).          *)
Releases ==
    LET r(a, b) == [min |-> a, max |-> b] IN
    {<<r(0, 1), r(0, 1)>>, <<r(0, 0), r(0, 1)>>, <<r(0, 0), r(1, 1)>>}

(* Each check passes and fails in some configuration; more than one permit  *)
(* is tried where every check passes.                                       *)
MCInit ==
    /\ Init
    /\ range \in Releases
    /\ paired \in {{1}, Nodes}
    /\ shown \in {{1}, Nodes}
    /\ gate = 2 => paired = Nodes /\ shown = Nodes /\ range[1] = range[2]

MCSpec == MCInit /\ [][Next]_vars /\ Fairness
=============================================================================
