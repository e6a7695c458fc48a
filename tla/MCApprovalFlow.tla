--------------------------- MODULE MCApprovalFlow ---------------------------
(* One request with one SDK of its project, and one or two calls to the API. *)
EXTENDS ApprovalFlow, TLC

CONSTANT p1

MCProjectOf == [x \in Requests \cup Deciders |-> p1]

CallSymmetry == Permutations(Calls)
=============================================================================
