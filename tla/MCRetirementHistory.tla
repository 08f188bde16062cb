------------------------- MODULE MCRetirementHistory -------------------------
(* SessionRegistry with a history variable: every instance a key has ever   *)
(* retired, also after the entry that recorded it is gone.                  *)
EXTENDS SessionRegistry, TLC

(* Connection ids are interchangeable: no operator orders them.             *)
ConnSymmetry == Permutations(Conns)

VARIABLE everRetired

HInit == Init /\ everRetired = [k \in Keys |-> {}]

HNext ==
    /\ Next
    /\ everRetired' = [k \in Keys |-> everRetired[k] \cup Range(table'[k].retired)]

HSpec == HInit /\ [][HNext]_<<vars, everRetired>>

(* "Remember retired processes so a delayed old handshake cannot take the   *)
(* replacement session back": register_session never lets a process that    *)
(* was retired for a key displace a usable session of that key.             *)
DelayedHandshakeCannotTakeBack ==
    [][\A c \in Conns :
           RegisterSession(c) /\ Returned(c) = c /\ Usable(Key(c))
               => session[c].instance \notin everRetired[Key(c)]]_<<vars, everRetired>>
=============================================================================
