SPECIFICATION FairSpec
CONSTANTS
    FrameSize = 3
    RingSize = 7
    Chunks = {2, 5}
    MaxReceived = 3
    MaxWaiting = 2
INVARIANTS
    TypeOK
    NoSampleLost
    CodecOutlivesIo
PROPERTIES
    PlayedInOrder
    StopsOnceCodecCan
