SPECIFICATION MCSpec
CONSTANTS
    Default = d
    Parent = d
    Others = {x, y}
    Spare = z
    Ids = {d, x, y, z}
    Anthropic = s0
    Secrets = {s0, s1}
    Apps = {i1, i2}
    RuleIds = {r1, r2}
    Labels = {u, v}
    Defaulted = {h}
    Custom = {k}
    Calls = {c1, c2}
    MaxClient = 2
    Uses <- AllUses
SYMMETRY Symmetry
INVARIANTS TypeOK DefaultExplained KillHolds WithinGrant ChildComplete BlockedWhileConnected RefreshableByClient
\* Every id may have been used.
CHECK_DEADLOCK FALSE
