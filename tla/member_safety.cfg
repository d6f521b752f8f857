SPECIFICATION Spec
CONSTANTS
    Exec = {e1, e2}
    Job = {j1, j2}
    Handlers = {h1, h2}
    Timeout = 1
    MaxTime = 4
    MaxRegs = 2
    None = None
SYMMETRY Symmetric
INVARIANTS
    TypeOK
    LeaseTable
    LeaseHasRunner
    LeaseKept
PROPERTIES
    NoRevival
    OnlyStaleEvicted
CHECK_DEADLOCK FALSE
