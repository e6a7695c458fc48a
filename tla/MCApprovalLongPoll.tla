------------------------- MODULE MCApprovalLongPoll -------------------------
(* Two approvals of one project and one of another, two pollers.           *)
EXTENDS ApprovalLongPoll

CONSTANTS a1, a2, a3, q1, q2, p1, p2, k1, k2, b1, b2

MCProjectOf == [x \in Approvals \cup Pollers |-> IF x \in {a3, q2} THEN p2 ELSE p1]
MCNotifyKey == [p \in Projects |-> IF p = p1 THEN k1 ELSE k2]
MCBareKey == [p \in Projects |-> IF p = p1 THEN b1 ELSE b2]
=============================================================================
