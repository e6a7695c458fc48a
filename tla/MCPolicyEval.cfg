CONSTANTS
    q1 = q1
    q2 = q2
    q3 = q3
    a1 = a1
    a2 = a2
    Requests = {q1, q2, q3}
    Agents = {a1, a2}
    AgentOf <- MCAgentOf
    NumRules = 2
    MaxRequests = 1
    Window = 2
    MaxClock = 3
SPECIFICATION EvalSpec
INVARIANTS StrictestWins RateRespected LimitedOnlyWhenUsedUp
CHECK_DEADLOCK FALSE
