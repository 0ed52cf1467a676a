SPECIFICATION Spec
CONSTANTS
    a1 = a1
    w1 = w1
    w2 = w2
    u1 = u1
    u2 = u2
    NoAgent = NoAgent
    Agents = {a1}
    Workers = {w1}
    Users = {u1, u2}
    Savers = {u2}
    Outcomes <- Changes
    StopKinds = {"workspace"}
    ActionCap = 1
    MaxFailures = 2
    MaxActions = 2
    MaxTasks = 1
    MaxEscapes = 0
    MaxDays = 0
PROPERTY StopStaysOn
