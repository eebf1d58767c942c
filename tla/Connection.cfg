SPECIFICATION Spec
CONSTANTS
    ClientTimeout = 4
    ServerTimeout = 4
    MaxDelay = 2
    Capacity = 2
    MaxTime = 11
INVARIANTS
    TypeOK
    HandshakesAgree
    NoFalseTimeout
    SilenceBounded
