CONSTANTS
    k1 = k1
    k2 = k2
    k3 = k3
    p1 = p1
    p2 = p2
    Keys <- MCKeys
    RuleProjects <- MCProjects
    ProjectOfKey <- MCProjectOf
    Resolvers = {q1, q2}
    MaxVersion = 2
SPECIFICATION FairSpec
INVARIANTS StaleOnlyIfExcused
PROPERTIES EventuallyCurrent
CHECK_DEADLOCK FALSE
