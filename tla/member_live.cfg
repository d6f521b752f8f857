SPECIFICATION FairSpec
CONSTANTS
    Exec = {e1, e2}
    Job = {j1}
    Handlers = {h1}
    Timeout = 1
    MaxTime = 3
    MaxRegs = 2
    None = None
PROPERTIES
    EvictionCompletes
CHECK_DEADLOCK FALSE
