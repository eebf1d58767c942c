SPECIFICATION Spec
CONSTANTS
    SessionIds = {0, 1}
    RoomIds = {0}
    Packets <- StammerPackets
    MaxReads = 2
INVARIANTS
    NoExpectFails
    TableSync
    TablesConsistent
    Deregistered
    OnlyEnrolled
    DeliveryOrder
