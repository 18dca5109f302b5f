SPECIFICATION Spec
CONSTANTS
    f = f
    w = w
    inode = inode
    NoState = NoState
    Sources = {f, w}
    WinLogs = {w}
    Identifiers = {inode}
    Ids <- OneIds
    IdOf <- OneIdOf
    Batches <- SingleBatches
    Legacies <- SomeLegacy
    MaxOffset = 1
    MaxClock = 1
INVARIANTS TypeOK DirtyIsCached RestartRestores ShutdownWritesAll
PROPERTIES StoredNeverOlder CollectedIsForgotten KeepsPromise ProgressBecomesDurable
