SPECIFICATION Spec
CONSTANTS
    Ids = {x, y}
    Ports = {1}
    Tenants = {a, b}
    Creations = {n1, n2}
    Calls = {c1}
    None = None
INVARIANTS StartedGoverned OrphanExplained
PROPERTY ProvisioningEnds
CHECK_DEADLOCK FALSE
