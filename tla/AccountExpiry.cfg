SPECIFICATION Spec
CONSTANTS
    owner = owner  key = key  guardian = guardian
    funding = funding  other = other  udt = udt  s1 = s1  s2 = s2
    Slot = {s1, s2}
    Key = {owner, key, guardian}
    NoKey = NoKey
    Script = {funding, other, udt}
    NoScript = NoScript
    Args <- MCSpendArgs
    Params <- MCSpendParams
    Data <- MCNoData
    Capacity = {1, 3}
    Foreign <- MCForeign
    Witness <- MCWitness
    MILLIS = 2
    NO_EXPIRY = 99
    UNLIMITED = 99
    MAX_TIME = 2
SYMMETRY Symmetry
INVARIANT ExpiredUnlocksNothing
CHECK_DEADLOCK FALSE
