\* A capture with a frame that is not IPv4.
CONSTANTS
    LittleEndian = TRUE
    Payloads <- MCPayloads
    Hosts <- MCHosts
    SniToAppType <- MCSniToAppType
    AppNames <- MCAppNames
    NameToAppType <- MCNameToAppType
    Domains <- MCDomains
    Contains <- MCContains
    IpTexts <- MCIpTexts
    AnyFrame <- MCAnyFrame
    Captures <- NativeOnly
    Records <- ArpAndSyn
    MaxOptions = 0
    MaxPackets = 2
SPECIFICATION Spec
INVARIANT ForwardedOrDropped
