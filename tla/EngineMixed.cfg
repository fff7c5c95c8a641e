\* Other protocols, frames the engine passes over, captures of every kind.
CONSTANTS
    LittleEndian = TRUE
    Payloads <- MCPayloads
    Hosts <- MCHosts
    SniToAppType <- MCSniToAppType
    AppNames <- TwoAppNames
    NameToAppType <- NameToAppTypeOfTwo
    Domains <- OneDomain
    Contains <- ContainsOne
    IpTexts <- OneIpText
    AnyFrame <- MCAnyFrame
    Captures <- AllCaptures
    Records <- MixedRecords
    MaxOptions = 1
    MaxPackets = 3
SPECIFICATION Spec
INVARIANTS
    FlowIsolation
    CountersAgree
    PayloadWhereParsed
    InspectsRecords
