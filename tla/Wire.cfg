SPECIFICATION Spec
CONSTANTS
    TermBit = 16
    Dst = "Clientbound"
    MaxLength = 140
    Malformed <- MalformedBytes
    Packets <- WirePackets
    ReadSizes = {1, 1000}
    MaxSent = 2
INVARIANTS
    TypeOK
    NothingWithheld
    FailsOnlyOnUnsound
PROPERTIES
    PartsRefused
    InOrder
