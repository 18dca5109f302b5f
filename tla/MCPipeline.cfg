SPECIFICATION Spec
CONSTANTS
    t = t
    u = u
    v = v
    i = i
    f = f
    s = s
    None = None
    Tasks = {t, v}
    Nodes = {i, f, s}
    Parent <- TwoTasks
    Failures = {"input", "output"}
    MaxEvents = 1
    MaxGen = 2
INVARIANTS TypeOK TasksAreLinked NothingLeaks
PROPERTIES ManagerReturns ServedWhileGrowing
CHECK_DEADLOCK FALSE
