SPECIFICATION Spec
CONSTANTS
    SessionIds = {0, 1, 2}
    RoomIds = {0, 1, 2}
INVARIANTS
    TypeOK
    Memberships
    TargetsAreRoomPeers
PROPERTY
    RoomsPersist
