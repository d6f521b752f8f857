SPECIFICATION TablesSpec
CONSTANTS
    Id = {i1, i2}
    Group = {g1, g2}
    NoGroup = NoGroup
    Dispatchers = {d1, d2}
    Dues = {0, 1}
    MaxWrites = 3
    MaxCalls = 2
    other = other
    t1 = t1
    t2 = t2
    t3 = t3
    Empty = Empty
    Task <- Tasks
    Name <- Names
    Blank <- Empty
    Requests <- Lists
    Deletable <- Names
    Exec = {e1, e2}
    Unit = 4
    Policies <- Configured
    DefaultPolicy <- Fallback
    MaxTime = 5
    Failed = {f1, f2}
    Keyless = {f2}
    Clients = {c1, c2}
    MaxAttempts = 2
    MaxResets = 1
SYMMETRY GroupsSymmetric
INVARIANTS
    GroupsTypeOK
    CacheFresh
    DepsTypeOK
    PendingExact
    
    LimiterTypeOK
    WindowBound
    Exact
    RetryBudget
PROPERTIES
    BatchAlive
    QueuedReady
CHECK_DEADLOCK FALSE
