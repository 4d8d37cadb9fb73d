------------------------------ MODULE GameCell ------------------------------
(***************************************************************************)
(* The game-cell type script (contracts/controller-game-cell) and the      *)
(* cells it governs.  Anybody may submit a transaction; the script lets it *)
(* through when it creates one empty board or advances one board by a      *)
(* batch of signed intents, as the rules crate's apply_batch has it.  A    *)
(* transaction the script fails leaves everything as it is.                *)
(*                                                                         *)
(* `log` is history: the moves a cell has accepted.                        *)
(***************************************************************************)
EXTENDS GameRules, FiniteSets

CONSTANTS
    Cell,      \* lineages: a genesis output and the outputs that succeed it
    GameOf,    \* the game id (type-script args) of each lineage
    Signed,    \* messages for which a valid signature exists
    Batch,     \* batches a builder may put in the witness
    Data       \* data a builder may put in the output cell

ASSUME CellAssumption ==
    /\ GameOf \in [Cell -> GameId]
    /\ Signed \subseteq Message
    /\ Batch \subseteq Seq(Intent)
    /\ Data \subseteq CellData

VARIABLES
    born,      \* lineages whose genesis is on chain
    data,      \* the live cell's data, per lineage
    log        \* history: moves accepted, per lineage

vars == <<born, data, log>>

\* No cell ever accepts more moves than its seq can count.
TypeOK ==
    /\ born \subseteq Cell
    /\ data \in [Cell -> CellData]
    /\ log \in [Cell -> Seq(Intent)]
    /\ \A c \in Cell : Len(log[c]) \in U64

Init ==
    /\ born = {}
    /\ data = [c \in Cell |-> [tag |-> "empty"]]
    /\ log = [c \in Cell |-> << >>]

\* Variant of verify_intent_sig: the points are not part of the message.
verify_intent_sig_points(game_id, intent) ==
    /\ intent.sig = intent_message(game_id, intent.hash, intent.sig.points, intent.nonce)
    /\ intent.sig \in Signed

verify_intent_sig(game_id, intent) ==
    /\ intent.sig = intent_message(game_id, intent.hash, intent.points, intent.nonce)
    /\ intent.sig \in Signed

\* verify(), shape (0, 1): a new cell must start from the empty board.
verify_genesis(c, d) ==
    /\ c \notin born
    /\ Decodes(d)
    /\ decode(d).seq = 0
    /\ decode(d).players = << >>
    /\ born' = born \cup {c}
    /\ data' = [data EXCEPT ![c] = d]
    /\ UNCHANGED log

\* verify(), shape (1, 1): the output cell holds the board that the signed intents
\* of the witness make of the input cell's, the players in any order.
verify_transition(c, b) ==
    LET applied == apply_batch(decode(data[c]), b)
    IN  /\ c \in born
        /\ Decodes(data[c])
        /\ BatchDecodes(b)
        /\ \A i \in DOMAIN b : verify_intent_sig(GameOf[c], b[i])
        /\ applied.ok
        /\ \E d \in Data :
             /\ Decodes(d)
             /\ equals_unordered(applied.state, decode(d))
             /\ data' = [data EXCEPT ![c] = d]
        /\ log' = [log EXCEPT ![c] = @ \o b]
        /\ UNCHANGED born

Next ==
    \/ \E c \in Cell : \E d \in Data : verify_genesis(c, d)
    \/ \E c \in Cell : \E b \in Batch : verify_transition(c, b)

Spec == Init /\ [][Next]_vars

-----------------------------------------------------------------------------
(***************************************************************************)
(* Properties.                                                             *)
(***************************************************************************)
DistinctPlayers(s) ==
    \A i, j \in DOMAIN s.players :
        s.players[i].hash = s.players[j].hash => i = j

\* A player appears at most once on a committed board.  equals_unordered only
\* asks that every computed entry occurs in the output, so this rests on every
\* earlier board of the lineage having had distinct players.
UniquePlayers == \A c \in born : DistinctPlayers(decode(data[c]))

\* No cell counts the same (player, nonce) twice, whatever batches the
\* builders put together and whatever order they write the players in.
NoReplay ==
    \A c \in Cell : \A i, j \in DOMAIN log[c] :
        log[c][i].hash = log[c][j].hash /\ log[c][i].nonce = log[c][j].nonce => i = j

\* Only moves signed for this very game were ever counted.
OnlySignedMoves ==
    \A c \in Cell : \A i \in DOMAIN log[c] :
        LET m == log[c][i]
        IN  [game |-> GameOf[c], hash |-> m.hash, points |-> m.points, nonce |-> m.nonce]
                \in Signed

\* seq counts the moves the cell has accepted.
SeqCountsMoves == \A c \in born : decode(data[c]).seq = Len(log[c])

\* The append-only ledger of signed moves that the cells implement.
Ledger == INSTANCE GameLedger
LedgerSpec == Ledger!Spec

NonceOnBoard(s, h) == IF HasPlayer(s, h) THEN s.players[PlayerIndex(s, h)].nonce ELSE 0

MovesBy(moves, h) == Cardinality(Ledger!MovesOf(moves, h))

PointsIn(moves, h) ==
    LET sum[n \in 0 .. Len(moves)] ==
            IF n = 0 THEN 0
            ELSE sum[n-1] + (IF moves[n].hash = h THEN moves[n].points ELSE 0)
    IN  sum[Len(moves)]

\* The board is a function of the log: each player's score is the sum of the
\* points of their accepted moves and their nonce is how many there were.
BoardIsLog ==
    \A c \in born : \A h \in Player :
        LET s == decode(data[c])
        IN  /\ NonceOnBoard(s, h) = MovesBy(log[c], h)
            /\ HasPlayer(s, h) =>
                 s.players[PlayerIndex(s, h)].score = PointsIn(log[c], h)

\* What a board and the moves behind it keep to after every intent.
Accounted(s, moves) ==
    /\ DistinctPlayers(s)
    /\ \A k \in DOMAIN moves : \E i \in DOMAIN s.players :
         s.players[i].hash = moves[k].hash /\ moves[k].nonce <= s.players[i].nonce
    /\ \A k, l \in DOMAIN moves :
         moves[k].hash = moves[l].hash /\ moves[k].nonce = moves[l].nonce => k = l

SignedFor(g, moves) ==
    \A k \in DOMAIN moves :
        intent_message(g, moves[k].hash, moves[k].points, moves[k].nonce) \in Signed

\* Every entry of the board is the tally of its player's moves.
Tallied(s, moves) ==
    \A i \in DOMAIN s.players :
        /\ s.players[i].nonce = MovesBy(moves, s.players[i].hash)
        /\ s.players[i].score = PointsIn(moves, s.players[i].hash)

\* The inductive invariant: the moves of a cell are signed for it, and they account
\* for its board entry by entry.
IndInv ==
    /\ TypeOK
    /\ \A c \in Cell \ born : log[c] = << >>
    /\ \A c \in born :
         LET s == decode(data[c])
         IN  /\ Decodes(data[c])
             /\ Accounted(s, log[c])
             /\ Tallied(s, log[c])
             /\ s.seq = Len(log[c])
             /\ SignedFor(GameOf[c], log[c])

\* The moves continue the log of cell c by legal ones.
Continues(c, moves) ==
    /\ Len(log[c]) <= Len(moves)
    /\ SubSeq(moves, 1, Len(log[c])) = log[c]
    /\ \A k \in Len(log[c]) + 1 .. Len(moves) : Ledger!LegalMove(c, moves, k)
=============================================================================
