SPECIFICATION Spec
CONSTANTS
    p1 = p1  p2 = p2  g = g
    Player = {p1, p2}
    GameId = {g}
    Game = g
    MAX_POINTS_PER_MOVE = 1
    U64_MAX = 3
    U16_MAX = 2
    POINTS = 1
    MOVES <- MCOneEach
    FEE = 1
    CAPACITY = 4
    OCCUPIED = 1
    PER_PLAYER = 1
    GROWTH = 2
    MAX_QUEUE = 1
    Faults <- MCDisturbed
SYMMETRY Symmetry
INVARIANTS
    TypeOK
    MempoolApplies
    TipIsReal
    AckedCounted
CHECK_DEADLOCK FALSE
