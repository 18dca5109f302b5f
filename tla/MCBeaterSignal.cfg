SPECIFICATION Spec
CONSTANTS
    a = a
    b = b
    bad = bad
    t = t
    u = u
    None = None
    Unreadable = Unreadable
    Tasks = {t, u}
    Configs = {a, b, bad}
    Broken = {bad}
    Check = {a, b, bad}
    MainTasks <- TaskOf
    MaxEdits = 2
    MaxSignals = 1
    EarlyEdits = FALSE
PROPERTY MainConfigFollowed
CHECK_DEADLOCK FALSE
