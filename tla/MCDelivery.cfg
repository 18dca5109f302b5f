SPECIFICATION Spec
CONSTANTS
    f = f
    t = t
    None = None
    Files = {f}
    Tasks = {t}
    MaxLine = 5
    Excluded <- FirstLine
    Unmatched <- SecondLine
    CanPackage = TRUE
    PackageCount = 2
    QueueSize = 2
    MaxCrashes = 1
    MaxReloads = 1
INVARIANTS TypeOK AtLeastOnce NothingForgotten CacheBelowPackage
PROPERTIES CollectsAll EventuallyDelivered EventuallyDurable
