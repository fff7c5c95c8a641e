\* HTTPS traffic of two clients under every single rule.
CONSTANTS
    LittleEndian = TRUE
    Payloads <- MCPayloads
    Hosts <- MCHosts
    SniToAppType <- MCSniToAppType
    AppNames <- MCAppNames
    NameToAppType <- MCNameToAppType
    Domains <- MCDomains
    Contains <- MCContains
    IpTexts <- MCIpTexts
    AnyFrame <- MCAnyFrame
    Captures <- BothOrders
    Records <- TlsRecords
    MaxOptions = 1
    MaxPackets = 4
SPECIFICATION Spec
INVARIANTS
    TypeOK
    DropExactlyFromFirstMatch
    BlockedSourceIsDropped
    ReportUnambiguous
    OutputReadsBack
    FilteringAgainDropsNothing
PROPERTIES
    ClassificationSettles
    FilterSpec
