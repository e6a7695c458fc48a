--------------------------- MODULE OneTimeRelease ---------------------------
(***************************************************************************)
(* What a manual-approval hold promises its caller, whatever the gateway   *)
(* does inside: a held request is released at most once, only on an        *)
(* authority that was given while it was held, and whatever ends a hold is *)
(* final.  A hold may be refused at any time, authority or not.            *)
(***************************************************************************)
CONSTANT Requests

VARIABLES state, authorized

Init == state = [r \in Requests |-> "new"] /\ authorized = {}

Move(r, from, to) == state[r] \in from /\ state' = [state EXCEPT ![r] = to]

Hold(r) == Move(r, {"new"}, "held") /\ UNCHANGED authorized

Authorize(r) ==
    /\ state[r] = "held"
    /\ authorized' = authorized \cup {r}
    /\ UNCHANGED state

Release(r) == r \in authorized /\ Move(r, {"held"}, "released") /\ UNCHANGED authorized

\* Holds can end together, when the process that keeps them stops.
Refuse(S) ==
    /\ \A r \in S : state[r] \in {"new", "held"}
    /\ state' = [r \in Requests |-> IF r \in S THEN "refused" ELSE state[r]]
    /\ UNCHANGED authorized

Next ==
    \/ \E r \in Requests : Hold(r) \/ Authorize(r) \/ Release(r)
    \/ \E S \in SUBSET Requests : Refuse(S)

Spec == Init /\ [][Next]_<<state, authorized>>
=============================================================================
