SPECIFICATION Spec
CONSTANTS
    owner = owner  key = key  guardian = guardian
    funding = funding  other = other  udt = udt  s1 = s1  s2 = s2
    Slot = {s1, s2}
    Key = {owner, key, guardian}
    NoKey = NoKey
    Script = {funding, other, udt}
    NoScript = NoScript
    Args <- MCRevArgs
    Params <- MCRevParams
    Data <- MCEpochs
    Capacity = {1}
    Foreign = {}
    Witness <- MCWitness
    MILLIS = 2
    NO_EXPIRY = 99
    UNLIMITED = 99
    MAX_TIME = 0
SYMMETRY Symmetry
INVARIANTS
    TypeOK
    RevocationSticks
CHECK_DEADLOCK FALSE
