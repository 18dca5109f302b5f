SPECIFICATION Spec
CONSTANTS
    t = t
    u = u
    v = v
    i = i
    f = f
    s = s
    None = None
    Tasks = {t, u}
    Nodes = {i, s}
    Parent <- OneSender
    Failures = {}
    MaxEvents = 1
    MaxGen = 1
PROPERTY EventsAreServed
CHECK_DEADLOCK FALSE
