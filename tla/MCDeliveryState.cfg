SPECIFICATION Spec
CONSTANTS
    f = f
    t = t
    None = None
    Files = {f}
    Tasks = {t}
    MaxLine = 2
    Excluded <- SecondLine
    Unmatched <- NoLines
    CanPackage = TRUE
    PackageCount = 2
    QueueSize = 2
    MaxCrashes = 1
    MaxReloads = 0
INVARIANT AtLeastOnce
