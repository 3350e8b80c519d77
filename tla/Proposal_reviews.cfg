CONSTANTS
    r1 = r1
    r2 = r2
    r3 = r3
    Reviews = {r1, r2, r3}
    Signings = {"s1"}
    Reviewers = {"alice", "bob"}
    ReviewerOf <- MCReviewerOf
    SameMandate = {"s1"}
    RequiredApprovals = 2
    Proposer = "p"
    TTL = 1
    MaxTime = 1
SYMMETRY MCSymmetry
SPECIFICATION Spec
INVARIANT SignedWithEnoughApprovals
INVARIANT StatusFollowsReviews
INVARIANT LostOnlyByOverlap
INVARIANT UnreadableOnlyByInterruption
CHECK_DEADLOCK FALSE
