SPECIFICATION Spec
CONSTANTS
    ByteSize = 8
    LateWindow = 3
    CounterSize = 64
    Start = 0
    MaxSent = 9
    MaxDelay = 3
    MaxLoss = 3
    MaxGap = 16
    MaxLates = 1
    MaxResyncs = 0
INVARIANT
    RepeatsAreRepeats
