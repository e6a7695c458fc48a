--------------------------- MODULE MCApprovalHold ---------------------------
(* A request that is held, one whose agent belongs to no project, and three *)
(* SDKs, one of them of another project.                                    *)
EXTENDS ApprovalHold

CONSTANTS r1, r2, d1, d2, d3, p1, p2

MCProjectOf == [x \in Requests \cup Deciders |->
    CASE x = d3 -> p2 [] x = r2 -> NoProject [] OTHER -> p1]
=============================================================================
