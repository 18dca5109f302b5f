SPECIFICATION Spec
CONSTANTS
    None = None
    Logs = {"app"}
    MaxRecord = 3
    BatchSize = 2
    Capacity = 1
    MaxReloads = 1
    MaxCrashes = 1
    Keys <- AllKeys
    Unnamed <- NoNames
    Param <- ParamName
    XmlName = "xml_name"
    Values = {"", "a", "b"}
    Empty = ""
    Absent = Absent
    Contents <- SomeContents
INVARIANTS TypeOK DeliveredInOrder FieldsAreFirstOfEach
PROPERTIES CollectsAll EventuallyCollected
CHECK_DEADLOCK FALSE
