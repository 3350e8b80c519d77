\* Calls of every verdict between other messages; the server speaks once out of turn.
SPECIFICATION FairSpec
CONSTANTS
    Requests <- MixedRequests
    Verdict <- MixedVerdict
    NoRequest = NoRequest
    MaxMessages = 3
    MaxChatter = 1
CHECK_DEADLOCK FALSE
INVARIANTS
    ForwardedOnlyEnforced
    AnswersMatchGateway
    EnforcedIsForwardedOrReported
    OwnAnswerUnlessChatter
PROPERTIES
    EveryRequestAnswered
