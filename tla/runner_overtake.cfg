SPECIFICATION Spec
CONSTANTS
    a1 = a1
    a2 = a2
    b1 = b1
    c1 = c1
    c2 = c2
    p1 = p1
    p2 = p2
    s1 = s1
    s2 = s2
    ka = ka
    kb = kb
    None = None
    Inst <- TwoOne
    Key = {ka, kb}
    KeyOf <- KeyMap
    Callers = {c1}
    Replayers = {p1}
    Closers = {}
    QueueSize = 1
SYMMETRY Symmetric
PROPERTIES
    ReplayPrecedesLive
CHECK_DEADLOCK FALSE
