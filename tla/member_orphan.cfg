SPECIFICATION Spec
CONSTANTS
    Exec = {e1}
    Job = {j1, j2}
    Handlers = {h1, h2}
    Timeout = 1
    MaxTime = 5
    MaxRegs = 3
    None = None
SYMMETRY Symmetric
PROPERTIES
    RemovedIdle
CHECK_DEADLOCK FALSE
