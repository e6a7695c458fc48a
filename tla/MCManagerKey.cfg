CONSTANTS
    Approvals = {a1}
    Calls = {c1, c2, c3}
    Devices = {d1, d2}
    NoKey = NoKey
SPECIFICATION KeySpec
SYMMETRY Symmetry
INVARIANTS SerialDecisionSound SerialDispatchOnce KeyWrittenOnce
CHECK_DEADLOCK FALSE
