\* Three rows of two agents, one loss, a clock that may step back, one command.
SPECIFICATION Spec
CONSTANTS
    Agents <- TwoAgents
    Decisions = {"ALLOW", "DENY"}
    Captured <- MCCaptured
    Windows <- MCWindows
    MinDecisions = 1
    Limit = 2
    MaxDepth <- MCMaxDepth
    MaxRows = 3
    MaxTime = 1
    MaxLosses = 1
CHECK_DEADLOCK FALSE
INVARIANTS
    OnlyLostEndsAreHidden
    LineageIsAncestry
