\* Two bindings, one grant, four ticks; every kind of call a host or a shell makes.
SPECIFICATION Spec
CONSTANTS
    SECOND = 2
    HOUR = 7200
    DAY = 172800
    AlwaysOpen = AlwaysOpen
    Genesis = Genesis
    NotANumber = NotANumber
    Never = Never
    Malformed = Malformed
    Absent = Absent
    NoState = NoState
    Null = Null
    Unresolvable = Unresolvable
    PENDING_APPROVAL_TTL = 2
    rootKey = rootKey
    issuerKey = issuerKey
    HostCalls <- MCHostCalls
    EnforceCalls <- MCEnforceCalls
    GrantTtls = {1, 3}
    Approvers = {"human"}
    RealPath <- MCRealPath
    SafetyCritical <- MCSafetyCritical
    Openings <- MCOpenings
    HumanOnly <- MCHumanOnly
    Spellings <- MCSpellings
    MaxBindings = 2
    MaxGrants = 1
    MaxTime = 3
CHECK_DEADLOCK FALSE
INVARIANTS
    OpensOnlyAtRest
    HumanInTheLoop
    ApprovalLiftsOnlyEscalation
    SpellingIrrelevant
    VerifyAgrees
