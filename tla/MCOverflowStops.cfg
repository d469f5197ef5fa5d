\* What ClientConnection.cpp:64 says of an overflow; TLC finds it violated.
SPECIFICATION Spec
CONSTANTS
    Peer = {p1}
    Owner = owner
    Main = main
    MAX_QUEUE_SIZE = 2
    MaxMessages = 4
INVARIANT
    OverflowStopsOnlyFullClient
CHECK_DEADLOCK FALSE
