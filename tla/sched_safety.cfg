SPECIFICATION ReadersSpec
CONSTANTS
    Task = {1, 2, 3}
    Publishers = {p1, p2}
    Interval = 2
    Phase = 1
    Past = 1
    From = {0, 1}
    Environments <- MixedEnvironments
SYMMETRY Symmetric
INVARIANTS
    TypeOK
    HandedOnce
    CursorBacked
    StateTruthful
    Accounted
    OnTime
    ReplayCovers
    ReplayBacked
    RecordKept
    BacklogCoherent
CHECK_DEADLOCK FALSE
