SPECIFICATION Spec
CONSTANTS
    r1 = r1
    r2 = r2
    f1 = f1
    Runs <- TwoRuns
    Forms = {f1}
    MaxSignIns = 2
    MaxRenewals = 4
    MaxHours = 3
    MaxFaults = 1
SYMMETRY RunSymmetry
INVARIANTS
    BreaksOnlyByLoss
PROPERTIES
    RunsOnlyRenew
    RecoversFromOthers
CHECK_DEADLOCK FALSE
