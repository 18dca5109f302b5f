SPECIFICATION Spec
CONSTANTS
    f = f
    g = g
    None = None
    Empty = ""
    Sources = {f, g}
    SenderFields <- SenderOnly
    ProcessorFields <- Processors
    FilterFields <- FilterOnly
    InputFields <- InputOnly
    FieldValues <- TwoValues
    Groups <- AllGroups
    Streams <- AllStreams
    MaxStops = 1
INVARIANTS TypeOK PackagesInOrder NothingDropped WellFormed
PROPERTIES EverythingLeaves
CHECK_DEADLOCK FALSE
