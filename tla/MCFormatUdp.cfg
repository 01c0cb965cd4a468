CONSTANTS
    Protocol = "udp"
    LogFormat = "rfc5424"
    StructuredData = "cfg"
    Text <- MCText
    Messages <- MCSingleLine
    Severities <- MCSeverities
    Facilities <- MCFacilities
    MaxSent <- MCMaxSent
SPECIFICATION Spec
INVARIANTS
    TypeOK
    RecordsRecovered
