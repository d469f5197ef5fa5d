SPECIFICATION Spec
CONSTANTS
    Client = {c1, c2, c3}
    Nobody = Nobody
INVARIANTS
    TypeOK
    EverythingHasAnOwner
    ServingIsNotDisturbed
PROPERTIES
    ServerStops
    EverybodyIsAnswered
CHECK_DEADLOCK FALSE
