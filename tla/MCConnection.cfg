\* One connection, another worker that enqueues on it, its own worker and main.
SPECIFICATION Spec
CONSTANTS
    Peer = {p1}
    Owner = owner
    Main = main
    MAX_QUEUE_SIZE = 2
    MaxMessages = 4
INVARIANTS
    TypeOK
    SocketOutlivesSender
PROPERTIES
    ImplementsLink
    SenderWakes
    BrokenIsClosed
    StopReturns
\* A closed connection does nothing any more.
CHECK_DEADLOCK FALSE
