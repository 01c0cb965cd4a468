CONSTANTS
    Protocol = "tls"
    LogFormat = "rfc5424"
    StructuredData = "(null)"
    Text <- MCText
    Messages <- MCSingleLine
    Severities <- MCSeverities
    Facilities <- MCFacilities
    MaxSent <- MCMaxSent
SPECIFICATION Spec
INVARIANTS
    RecordsRecovered
