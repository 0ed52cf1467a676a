SPECIFICATION Spec
CONSTANTS
    r1 = r1
    r2 = r2
    w1 = w1
    w2 = w2
    Requests <- TwoRequests
    Workers = {w1}
    MaxFiles = 3
    MaxCards = 2
    MaxRedraws = 1
INVARIANT DownloadsStayApproved
CHECK_DEADLOCK FALSE
