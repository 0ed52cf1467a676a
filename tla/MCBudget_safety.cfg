SPECIFICATION Spec
CONSTANTS
    N = 3
    Connected = {1, 2, 3}
    Splits <- Uneven
    HandShares = {30}
    Readings <- SomeReadings
    DayLimit = 16
    MaxRuns = 2
    MaxReviews = 1
    MaxEdits = 1
    MaxFaults = 1
    MaxDays = 1
INVARIANTS
    TypeOK
    PlanSound
    MovedWithinLimit
    StoredIsSpent
PROPERTY HandSetShareStands
CHECK_DEADLOCK FALSE
