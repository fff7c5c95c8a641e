\* A blocked connection and the reply to it.
CONSTANTS
    LittleEndian = TRUE
    Payloads <- MCPayloads
    Hosts <- MCHosts
    SniToAppType <- MCSniToAppType
    AppNames <- MCAppNames
    NameToAppType <- MCNameToAppType
    Domains <- MCDomains
    Contains <- MCContains
    IpTexts <- MCIpTexts
    AnyFrame <- MCAnyFrame
    Captures <- NativeOnly
    Records <- BothWays
    MaxOptions = 1
    MaxPackets = 2
SPECIFICATION Spec
INVARIANT BothDirectionsBlocked
