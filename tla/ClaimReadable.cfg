\* A capture written in the other byte order.
CONSTANTS
    LittleEndian = TRUE
    Payloads <- MCPayloads
    Hosts <- MCHosts
    SniToAppType <- MCSniToAppType
    AppNames <- MCAppNames
    NameToAppType <- MCNameToAppType
    Domains <- MCDomains
    Contains <- MCContains
    IpTexts <- MCIpTexts
    AnyFrame <- MCAnyFrame
    Captures <- SwappedOnly
    Records <- SynOnly
    MaxOptions = 1
    MaxPackets = 2
SPECIFICATION Spec
INVARIANT FilteredCaptureReadable
