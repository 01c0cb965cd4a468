CONSTANTS
    Protocol = "tcp"
    LogFormat = "rfc5424"
    StructuredData = "(null)"
    Text <- MCText
    Messages <- MCMultiLine
    Severities <- MCSeverities
    Facilities <- MCFacilities
    MaxSent <- MCMaxSent
SPECIFICATION Spec
INVARIANTS
    RecordsRecovered
