-------------------------- MODULE MCRelayAddress --------------------------
(* SessionRegistry with a history variable: the sessions whose remote       *)
(* address remember_authenticated_session has stored, by kind of route.     *)
EXTENDS SessionRegistry, TLC

(* Connection ids are interchangeable: no operator orders them.             *)
ConnSymmetry == Permutations(Conns)

VARIABLE remembered

RInit == Init /\ remembered = {}

(* The accept loop remembers its own connection once it is authenticated; a *)
(* direct dial remembers the Session that register_session returned.        *)
RNext ==
    /\ Next
    /\ remembered' = remembered
           \cup {"lan" : c \in {d \in Conns : stage[d] = "unused" /\ stage'[d] = "authenticated"
                                              /\ session'[d].origin = "accept"}}
           \cup {IF Relayed(result[c]) THEN "loopback" ELSE "lan" :
                     c \in {d \in Conns : stage[d] = "registered" /\ stage'[d] = "done"}}

RSpec == RInit /\ [][RNext]_<<vars, remembered>>

(* "Its addresses must never enter LAN discovery or remembered endpoint     *)
(* history": only addresses of direct connections are remembered.           *)
RelayAddressNotRemembered == "loopback" \notin remembered
=============================================================================
