CONSTANTS
    a1 = a1
    a2 = a2
    a3 = a3
    q1 = q1
    q2 = q2
    p1 = p1
    p2 = p2
    k1 = k1
    k2 = k2
    b1 = b1
    b2 = b2
    Approvals = {a1, a2, a3}
    Pollers = {q1, q2}
    Projects = {p1, p2}
    ProjectOf <- MCProjectOf
    NotifyKey <- MCNotifyKey
    BareKey <- MCBareKey
SPECIFICATION PollSpec
INVARIANTS WaiterReachable BlocksOnlyOnGap
