SPECIFICATION Spec
CONSTANTS
    ByteSize = 8
    LateWindow = 3
    CounterSize = 64
    Start = 0
    MaxSent = 9
    MaxDelay = 9
    MaxLoss = 9
    MaxGap = 16
    MaxLates = 1
    MaxResyncs = 0
PROPERTY
    ErrorsRevert
