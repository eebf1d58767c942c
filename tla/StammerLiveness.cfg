SPECIFICATION FairSpec
CONSTANTS
    SessionIds = {0, 1}
    RoomIds = {0}
    Packets <- LivenessPackets
    MaxReads = 1
INVARIANTS
    TypeOK
    DroppedOnlyForPacket
PROPERTIES
    TablesInOrder
    ShutdownCompletes
    LostSessionsLeave
    EnrolledGetRoutable
