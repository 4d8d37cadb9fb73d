SPECIFICATION Spec
CONSTANTS
    a1 = a1  a2 = a2
    App = {a1, a2}
    Deposits <- MCDeposits
    SPEND_CAP = 3
    Budget = {3, 8}
    Amount = {1, 2}
    MIN_CELL = 1
    MAX_TX = 5
    MAX_CHANNELS = 2
    MAX_LOST = 1
SYMMETRY Symmetry
INVARIANTS
    TypeOK
    RailAgrees
    Conserved
CHECK_DEADLOCK FALSE
