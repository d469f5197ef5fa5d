SPECIFICATION Spec
CONSTANTS
    Client = {c1, c2, c3}
    NoSocket = NoSocket
    NoOwner = NoOwner
INVARIANTS
    TypeOK
    PlayersStay
    TurnShown
PROPERTIES
    ImplementsTable
    GameMutexFreed
