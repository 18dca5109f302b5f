SPECIFICATION Spec
CONSTANTS
    None = None
    Logs = {"app"}
    MaxRecord = 2
    BatchSize = 2
    Capacity = 1
    MaxReloads = 0
    MaxCrashes = 1
    Keys <- AllKeys
    Unnamed <- NoNames
    Param <- ParamName
    XmlName = "xml_name"
    Values = {"", "a", "b"}
    Empty = ""
    Absent = Absent
    Contents <- NoContents
PROPERTY CoveredStatesStay
CHECK_DEADLOCK FALSE
