CONSTANTS
    r1 = r1
    r2 = r2
    d1 = d1
    d2 = d2
    d3 = d3
    p1 = p1
    p2 = p2
    NoProject = NoProject
    Projects = {p1, p2}
    Requests = {r1, r2}
    Deciders = {d1, d2, d3}
    ProjectOf <- MCProjectOf
SPECIFICATION FairSpec
INVARIANTS ReleaseAuthorized NoLostWakeup StoreDrained
PROPERTIES ChannelWrittenOnce ImplementsPromise HoldEnds
CHECK_DEADLOCK FALSE
