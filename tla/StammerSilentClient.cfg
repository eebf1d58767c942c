SPECIFICATION ServerSpec
CONSTANTS
    SessionIds = {0, 1}
    RoomIds = {0}
    Packets <- NoPackets
    MaxReads = 0
PROPERTY
    ShutdownCompletes
