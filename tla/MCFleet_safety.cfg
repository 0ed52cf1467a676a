SPECIFICATION Spec
CONSTANTS
    a1 = a1
    w1 = w1
    w2 = w2
    u1 = u1
    u2 = u2
    NoAgent = NoAgent
    Agents = {a1}
    Workers = {w1}
    Users = {u1}
    Savers = {u1}
    Outcomes <- MainOutcomes
    StopKinds = {"workspace"}
    ActionCap = 2
    MaxFailures = 1
    MaxActions = 2
    MaxTasks = 1
    MaxEscapes = 1
    MaxDays = 0
INVARIANTS
    TypeOK
    StopHoldsTheRest
    DailyCapHolds
PROPERTY ResumeRestarts
