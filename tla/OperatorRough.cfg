SPECIFICATION FairSpec
CONSTANTS
    p1 = p1  p2 = p2  g = g
    Player = {p1, p2}
    GameId = {g}
    Game = g
    MAX_POINTS_PER_MOVE = 1
    U64_MAX = 4
    U16_MAX = 4
    POINTS = 1
    MOVES <- MCOnePlays
    FEE = 1
    CAPACITY = 7
    OCCUPIED = 1
    PER_PLAYER = 1
    GROWTH = 2
    MAX_QUEUE = 0
    Faults <- MCRough
INVARIANT InSync
PROPERTY MovesLand
CHECK_DEADLOCK FALSE
