----------------------------- MODULE MCVisibility -----------------------------
(* Visibility with two history variables: whether calls have overlapped, and *)
(* whether the daemon refused the last change.                               *)
EXTENDS Naturals

CONSTANTS Callers, Records, NoRecord, MaxCalls

VARIABLES
    discoverable, published, metadata, announced, call, calls,
    overlapped,   \* history: two visibility calls have been in progress at once
    refusedShow   \* history: the daemon refused the last set_discoverable

Visible == INSTANCE Visibility

visibleVars == <<discoverable, published, metadata, announced, call, calls, overlapped, refusedShow>>

VisibleInit == Visible!Init /\ overlapped = FALSE /\ refusedShow = FALSE

VisibleNext ==
    /\ Visible!Next
    /\ overlapped' = (overlapped \/ Visible!Overlapping')
    /\ refusedShow' =
           IF \E t \in Callers : Visible!AnnounceFails(t) THEN TRUE
           ELSE IF \E t \in Callers, on \in BOOLEAN : Visible!SetDiscoverable(t, on) THEN FALSE
           ELSE refusedShow

VisibleSpec == VisibleInit /\ [][VisibleNext]_visibleVars

(* As long as set_discoverable and update_metadata have not overlapped, the *)
(* daemon announces the current metadata exactly when it is published, also *)
(* after refusals, and what is published is what the runtime's flag says    *)
(* unless the daemon refused the last change.                               *)
LoneCallsSettle ==
    Visible!AtRest /\ ~overlapped =>
        Visible!Announced /\ (~refusedShow => discoverable = published)
==============================================================================
