SPECIFICATION FairSpec
CONSTANTS
    p1 = p1
    p2 = p2
    w1 = w1
    w2 = w2
    NoPost = NoPost
    Posts <- TwoPosts
    Social = {p1, p2}
    KeyOf <- OwnKeys
    Publishers = {w1}
    Schedulers = {w1}
    Batch = 2
    StopKinds = {"workspace"}
    DailyCap = 1
    MaxAttempts = 2
    MaxDeferrals = 1
    MaxCrashes = 1
    Answers <- MainAnswers
INVARIANTS
    TriesBounded
PROPERTIES
    EveryPostSettles
