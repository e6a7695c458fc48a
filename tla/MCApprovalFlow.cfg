CONSTANTS
    p1 = p1
    NoProject = NoProject
    Projects = {p1}
    Requests = {r1}
    Approvals = {r1}
    Deciders = {d1}
    Calls = {c1, c2}
    ProjectOf <- MCProjectOf
SPECIFICATION FlowSpec
SYMMETRY CallSymmetry
INVARIANTS ReleaseBacked PollAgreesWithRow
PROPERTIES ImplementsPromise
CHECK_DEADLOCK FALSE
