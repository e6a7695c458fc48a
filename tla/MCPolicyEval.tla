---------------------------- MODULE MCPolicyEval ----------------------------
(* Every set of rules over three requests: two of one agent, one of another. *)
EXTENDS PolicyEval

CONSTANTS q1, q2, q3, a1, a2

MCAgentOf == [q \in Requests |-> IF q = q3 THEN a2 ELSE a1]
=============================================================================
