--------------------------- MODULE MCAppConnections ---------------------------
(* The uses of a project that meet in one table, each from an initial state *)
(* with the rows it needs and no others; ids that are gone are not used     *)
(* again, so that they bound what a use creates.                            *)
EXTENDS AppConnections, TLC

CONSTANTS Others, Spare   \* agents beside the default one, and an id for one more

Symmetry == Permutations(Calls) \cup Permutations(Others) \cup Permutations(Labels)

Moving == {"seed", "default", "delete"}
Killing == {"renew", "revoke", "delete"}
Granting == {"create", "delete", "mode", "grants", "disconnect"}
Dropping == {"create", "delete", "mode", "grants", "drop"}
Blocking == {"connect", "disconnect", "block"}
Configuring == {"connect", "disconnect", "config"}
AllUses == {Moving, Killing, Granting, Dropping, Blocking, Configuring}

\* Which rows there are, and which ids are free.
Agents(there, free) ==
    \A i \in Ids \ {Default} : /\ Exists(i) <=> i \in there
                               /\ row[i] = None <=> i \in free
Some(n) == CHOOSE ids \in SUBSET Apps : Cardinality(ids) = n
Connected(there, free) ==
    \A i \in Apps : /\ i \in Connections <=> i \in there
                    /\ conn[i] = None <=> i \in free

NoApp == method = "keys" /\ Connected({}, {})

MCInit ==
    /\ Init
    /\ CASE ops = Moving -> Agents(Others, {Spare}) /\ NoApp /\ live = {}
         [] ops = Killing -> Agents(Others, {}) /\ NoApp /\ live = {}
         [] ops = Granting -> /\ Agents({}, {Spare})
                              /\ method = "oauth" /\ Connected(Some(1), {})
                              /\ live \cap Secrets = {Anthropic}
         [] ops = Dropping -> Agents({}, {Spare}) /\ NoApp /\ live = Secrets
         [] ops = Blocking -> /\ Agents({}, {}) /\ live = {}
                              /\ method = "keys" /\ Connected({}, Some(2))
         [] ops = Configuring -> /\ Agents({}, {}) /\ live = {}
                                 /\ method # "keys" /\ Connected({}, Some(2))

MCSpec == MCInit /\ [][Next]_vars
=============================================================================
