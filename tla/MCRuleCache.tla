----------------------------- MODULE MCRuleCache -----------------------------
(* Two keys of one project and one of another, two resolvers, two changes.  *)
EXTENDS RuleCache, TLC

CONSTANTS k1, k2, k3, p1, p2

MCKeys == {k1, k2, k3}
MCProjects == {p1, p2}
MCProjectOf == (k1 :> p1) @@ (k2 :> p1) @@ (k3 :> p2)
=============================================================================
