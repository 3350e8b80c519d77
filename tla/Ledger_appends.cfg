\* Three enforcers of one agent side by side; the clock passes the rate window once.
SPECIFICATION Spec
CONSTANTS
    Enforcers <- ThreeEnforcers
    Revokers = {}
    Mandates <- AllMandates
    Delegations = {"d1", "d2"}
    Agents = {"a1"}
    MandateOf <- ThreeMandateOf
    ChainOf <- ThreeChainOf
    AgentOf <- OneAgent
    MaxCalls <- OneCall
    Target <- NoTarget
    RateWindow = 1
    Genesis = Genesis
    NoWriter = NoWriter
    MaxTime = 1
CHECK_DEADLOCK FALSE
INVARIANTS
    ChainIntact
    PrintedIsRecorded
    OverrunIsOverlap
PROPERTIES
    ImplementsLog
