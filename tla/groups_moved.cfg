SPECIFICATION GroupsSpec
CONSTANTS
    Id = {t1}
    Group = {g1, g2}
    NoGroup = NoGroup
    Dispatchers = {d1}
    Dues = {1}
    MaxWrites = 2
    MaxCalls = 2
SYMMETRY GroupsSymmetric
PROPERTIES
    NeverStale
CHECK_DEADLOCK FALSE
