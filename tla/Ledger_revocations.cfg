\* Two enforcers, one with a chain, and three revokers.
SPECIFICATION FairSpec
CONSTANTS
    Enforcers <- TwoEnforcers
    Revokers <- ThreeRevokers
    Mandates <- AllMandates
    Delegations = {"d1", "d2"}
    Agents = {"a1"}
    MandateOf <- TwoMandateOf
    ChainOf <- TwoChainOf
    AgentOf <- OneAgent
    MaxCalls <- OneCall
    Target <- ThreeTargets
    RateWindow = 1
    Genesis = Genesis
    NoWriter = NoWriter
    MaxTime = 0
CHECK_DEADLOCK FALSE
INVARIANTS
    EarlierRevocationDenies
PROPERTIES
    EveryCommandEnds
