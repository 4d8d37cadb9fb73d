SPECIFICATION Spec
CONSTANTS
    p1 = p1  p2 = p2  g1 = g1  g2 = g2  a = a  b = b
    Player = {p1, p2}
    GameId = {g1, g2}
    Cell = {a, b}
    GameOf <- MCTwoGames
    Signed <- MCSigned
    Batch <- MCBatch
    Data <- MCData
    MAX_POINTS_PER_MOVE = 2
    U64_MAX = 3
    U16_MAX = 2
INVARIANTS
    TypeOK
    UniquePlayers
    NoReplay
    OnlySignedMoves
    SeqCountsMoves
    BoardIsLog
PROPERTY LedgerSpec
