SPECIFICATION ReadersSpec
CONSTANTS
    Task = {1, 2}
    Publishers = {p1}
    Interval = 2
    Phase = 1
    Past = 1
    From = {}
    Environments <- HastyEnvironments
PROPERTIES
    TailOutside
CHECK_DEADLOCK FALSE
