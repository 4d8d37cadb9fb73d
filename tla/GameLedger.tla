----------------------------- MODULE GameLedger -----------------------------
(***************************************************************************)
(* What the aggregator promises, with no cells, batches in flight or       *)
(* boards: each game cell is an append-only log of signed moves in which   *)
(* every player's moves are numbered 1, 2, 3, ... without gap or repeat    *)
(* and carry at most MAX_POINTS_PER_MOVE points.                           *)
(***************************************************************************)
EXTENDS Naturals, Sequences, FiniteSets

CONSTANTS
    Cell,                 \* the game cells
    GameOf,               \* the game id in each cell's type script
    Signed,               \* the messages players have signed
    MAX_POINTS_PER_MOVE

VARIABLE log              \* log[c] = the moves cell c has accepted, in order

MovesOf(moves, p) == {i \in DOMAIN moves : moves[i].hash = p}

\* Move k of a log extends the k-1 moves before it.
LegalMove(c, moves, k) ==
    /\ moves[k].sig \in Signed
    /\ moves[k].sig = [game |-> GameOf[c], hash |-> moves[k].hash,
                       points |-> moves[k].points, nonce |-> moves[k].nonce]
    /\ moves[k].points <= MAX_POINTS_PER_MOVE
    /\ moves[k].nonce =
         1 + Cardinality({i \in MovesOf(moves, moves[k].hash) : i < k})

Init == log = [c \in Cell |-> << >>]

\* One accepted transition: the log of one cell grows by legal moves.
Advance(c) ==
    /\ Len(log'[c]) > Len(log[c])
    /\ SubSeq(log'[c], 1, Len(log[c])) = log[c]
    /\ \A k \in Len(log[c]) + 1 .. Len(log'[c]) : LegalMove(c, log'[c], k)
    /\ \A d \in Cell \ {c} : log'[d] = log[d]

Next == \E c \in Cell : Advance(c)

Spec == Init /\ [][Next]_log
=============================================================================
