SPECIFICATION Spec
CONSTANTS
    None = None
    Roles = {"owner", "member"}
    Users = {o1, o2, n1}
    Seeded = {o1, o2}
    Calls = {c1, c2}
SYMMETRY Symmetry
INVARIANTS AlwaysAnOwner HomeExplained BootstrapExplained
