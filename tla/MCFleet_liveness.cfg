SPECIFICATION FairSpec
CONSTANTS
    a1 = a1
    w1 = w1
    w2 = w2
    u1 = u1
    u2 = u2
    NoAgent = NoAgent
    Agents = {a1}
    Workers = {w1}
    Users = {u1}
    Savers = {}
    Outcomes <- WithModel
    StopKinds = {"platform"}
    ActionCap = 1
    MaxFailures = 1
    MaxActions = 0
    MaxTasks = 1
    MaxEscapes = 1
    MaxDays = 1
PROPERTY EveryAgentRuns
