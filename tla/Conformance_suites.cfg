\* The shipped vectors as they are and taken through to a gateway, and the showcase, on the
\* build as it is and on each build that lacks one check.
SPECIFICATION RunnerSpec
CONSTANTS
    SECOND = 1
    HOUR = 3600
    DAY = 86400
    AlwaysOpen = AlwaysOpen
    Genesis = Genesis
    NotANumber = NotANumber
    Never = Never
    Malformed = Malformed
    Absent = Absent
    NoState = NoState
    PENDING_APPROVAL_TTL = 300
    Suites <- MCSuites
    StartTimes <- MCStartTimes
    Losses <- MCLosses
    Noticed <- MCNoticed
    Pauses = {0, 60}
    issuer = issuer
    stranger = stranger
    zero = zero
    operator = operator
CHECK_DEADLOCK FALSE
INVARIANTS
    SuiteNotices
    DefenseInDepth
