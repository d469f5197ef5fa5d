SPECIFICATION Spec
CONSTANTS
    Client = {c1, c2}
    NoSocket = NoSocket
    Counts <- MCCounts
    DEFAULT_CHIPS = 4
    MAX_USERS = 2
    BONUS_CHIPS = 2
    FACES = 3
SYMMETRY Symmetry
INVARIANT DrawCarriesOver
