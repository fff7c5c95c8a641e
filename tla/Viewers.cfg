\* Both viewers on up to three records of captures of both byte orders.
CONSTANTS
    LittleEndian = TRUE
    Payloads <- MCPayloads
    Hosts <- MCHosts
    SniToAppType <- MCSniToAppType
    AnyFrame <- MCAnyFrame
    Captures <- AllCaptures
    Records <- MCRecords
    Limits <- MCLimits
    MaxRecords = 3
SPECIFICATION Spec
INVARIANTS
    TypeOK
    ShowsThatPacket
    EveryPacketAccounted
    StopsAtLimit
    PreviewIsPayload
    InspectorMissesNoName
