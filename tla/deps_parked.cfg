SPECIFICATION DepsFairSpec
CONSTANTS
    other = other
    t1 = t1
    t2 = t2
    t3 = t3
    Empty = Empty
    Task <- Tasks
    Name <- Names
    Blank <- Empty
    Requests <- Lists
    Deletable = {}
PROPERTIES
    WaitersReleased
