\* Captures of both byte orders and records at the limits of the length checks.
CONSTANTS
    LittleEndian = TRUE
    Captures <- MCCaptures
    Records <- MCRecords
SPECIFICATION Spec
INVARIANTS
    DecodedAsWritten
