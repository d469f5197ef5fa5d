SPECIFICATION Spec
CONSTANTS
    MAX_PACKET_SIZE = 3
    HEADER = 2
    WIRE = 4
    MaxPackets = 3
INVARIANT
    TypeOK
PROPERTIES
    ImplementsLink
    WholePacketsArrive
    ReceiverEnds
CHECK_DEADLOCK FALSE
