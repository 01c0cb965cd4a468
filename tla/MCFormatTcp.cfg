CONSTANTS
    Protocol = "tcp"
    LogFormat = "rfc3339"
    StructuredData = "(null)"
    Text <- MCText
    Messages <- MCSingleLine
    Severities <- MCSeverities
    Facilities <- MCFacilities
    MaxSent <- MCMaxSent
SPECIFICATION Spec
INVARIANT RecordsRecovered
