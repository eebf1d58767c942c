SPECIFICATION Spec
CONSTANTS
    ByteSize = 8
    LateWindow = 3
    CounterSize = 3
    Start = 0
    MaxSent = 9
    MaxDelay = 3
    MaxLoss = 3
    MaxGap = 5
    MaxLates = 1
    MaxResyncs = 1
INVARIANTS
    TypeOK
    Accounting
    RepeatsExplained
PROPERTIES
    AcceptedOnce
    InSync
    NoncesAdvance
