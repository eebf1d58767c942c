SPECIFICATION FairSpec
CONSTANTS
    FrameSize = 2
    RingSize = 4
    Chunks = {1, 3}
    MaxReceived = 2
    MaxWaiting = 2
PROPERTIES
    FollowsConnection
