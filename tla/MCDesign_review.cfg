SPECIFICATION FairSpec
CONSTANTS
    w1 = w1
    w2 = w2
    MaxItems = 7
    MaxJobs = 2
    Workers <- TwoWorkers
    Decisions = {d1}
    MaxRevisions = 1
    MaxCrashes = 2
    MaxRedeliveries = 2
    Kinds = {"approve", "reject", "expire"}
    Deployments = {"celery", "threads"}
INVARIANTS
    OneRunPerJob
    OneRevisionPerDecision
    CardHasItsPicture
    RevisionsWithinLimit
PROPERTIES
    DecidedStaysDecided
    OutcomeStands
    JobsSettle
    ChangesAnswered
CHECK_DEADLOCK FALSE
