SPECIFICATION Spec
CONSTANTS
    j1 = j1
    j2 = j2
    NoJob = NoJob
    Jobs <- TwoJobs
    CallCeiling = 2
    MaxPrompt = 1
    MaxCalls = 2
    LimitValues = {0, 1, 3}
    FirstLimits = {1, 3}
    MaxChanges = 1
    MaxDeaths = 1
    MaxMonth = 1
SYMMETRY JobSymmetry
INVARIANTS
    JobsWithinLimit
    UseBounded
    
CHECK_DEADLOCK FALSE
