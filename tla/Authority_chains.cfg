\* Three delegations of two keys, a root and two below it or two roots, one revoked,
\* and one file edited.
SPECIFICATION Spec
CONSTANTS
    HOUR = 1
    DAY = 24
    AlwaysOpen = AlwaysOpen
    Genesis = Genesis
    Actors = {r, a}
    DefaultTools = {"read", "write"}
    RootToolArgs <- MCRootToolArgs
    ToolArgs <- MCToolArgs
    EditTools <- MCEditTools
    RateArgs = {2}
    RootTtlArgs = {2}
    TtlArgs = {1}
    MaxTtlArgs = {2}
    Mandates <- MCMandates
    LevelArgs = {1, 2}
    MaxUnlogged = 1
    MaxDelegations = 3
    MaxEdits = 1
    MaxRevocations = 1
    MaxTime = 1
SYMMETRY MCSymmetry
CHECK_DEADLOCK FALSE
INVARIANTS
    GrantsShrink
    AdmittedWithinChain
    RevokedAncestorStops
    
