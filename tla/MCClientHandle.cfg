SPECIFICATION Spec
CONSTANTS
    Client = {c1, c2, c3}
    Handle = {h1, h2, h3}
    InvalidSocket = InvalidSocket
    MaxRooms = 2
SYMMETRY Symmetry
INVARIANTS
    TypeOK
    SeatsMatchHandlers
    NoForgottenRoom
    NoGhostHandles
    ListComplete
CHECK_DEADLOCK FALSE
