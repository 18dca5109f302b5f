SPECIFICATION Spec
CONSTANTS
    a = a
    b = b
    bad = bad
    t = t
    u = u
    None = None
    Unreadable = Unreadable
    Tasks = {t, u}
    Configs = {a, b, bad}
    Broken = {bad}
    Check = {b}
    MainTasks <- TaskOf
    MaxEdits = 2
    MaxSignals = 2
    EarlyEdits = TRUE
INVARIANTS TypeOK TasksServeConfig
PROPERTY SignalHonoured
CHECK_DEADLOCK FALSE
