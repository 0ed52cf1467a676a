SPECIFICATION SpecReviewed
CONSTANTS
    p1 = p1
    p2 = p2
    w1 = w1
    r1 = r1
    r2 = r2
    NoPost = NoPost
    Posts <- TwoPosts
    Social = {p1}
    KeyOf <- OwnKeys
    Publishers <- TwoReviewers
    Schedulers = {w1}
    Reviewers = {r1, r2}
    MaxReviews = 2
    Batch = 2
    StopKinds = {"workspace"}
    DailyCap = 1
    MaxAttempts = 2
    MaxDeferrals = 0
    MaxCrashes = 1
    Answers <- MixedAnswers
INVARIANTS
    ReviewTypeOK
    SentAsReleased
    NothingSentUndecided
PROPERTIES
    RejectedNeverSent
SYMMETRY EitherReviewer
