SPECIFICATION Spec
CONSTANTS
    Requests = {r1, r2}
    Grants = 2
    Life = 1
    TTL = 2
SYMMETRY Symmetry
INVARIANTS RowUsable OldGrantExplained
