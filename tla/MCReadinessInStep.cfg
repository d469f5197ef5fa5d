SPECIFICATION Spec
CONSTANTS
    Client = {c1, c2}
    NoSocket = NoSocket
    NoOwner = NoOwner
INVARIANT
    ReadinessInStep
