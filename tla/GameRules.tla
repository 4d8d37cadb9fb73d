------------------------------ MODULE GameRules ------------------------------
(***************************************************************************)
(* The rules crate (game-rules/src/lib.rs), compiled both into the         *)
(* on-chain type script and into the off-chain stack: the board, the rule  *)
(* for one move, the rule for a batch, and the order-insensitive equality  *)
(* the type script uses on the output board.                               *)
(*                                                                         *)
(* Byte layouts are abstracted: a cell's data is empty, malformed or the   *)
(* encoding of a board; a signature is the message it signs.  The u64      *)
(* fields keep their width (U64_MAX), since every addition is checked.     *)
(***************************************************************************)
EXTENDS Naturals, Sequences

CONSTANTS
    Player,               \* session-key hashes that may appear in an intent
    GameId,               \* type-script args: one value per game
    MAX_POINTS_PER_MOVE,  \* the per-move cap of the demo rule
    U64_MAX,              \* largest value of a u64 field
    U16_MAX               \* largest count a batch header can carry

ASSUME RulesAssumption ==
    /\ MAX_POINTS_PER_MOVE \in Nat
    /\ U64_MAX \in Nat \ {0}
    /\ U16_MAX \in Nat

U64 == 0 .. U64_MAX

PlayerEntry == [hash : Player, score : U64, nonce : U64]

\* A board: `players` keeps the Vec's order, which the encoding exposes.
GameState == [seq : U64, players : Seq(PlayerEntry)]

EmptyState == [seq |-> 0, players |-> << >>]

(***************************************************************************)
(* Intents and what they sign.                                             *)
(***************************************************************************)
Message == [game : GameId, hash : Player, points : U64, nonce : U64]

\* `sig` is the message the 65 signature bytes are over (by key sig.hash).
Intent == [hash : Player, points : U64, nonce : U64, sig : Message]

intent_message(game_id, hash, points, nonce) ==
    [game |-> game_id, hash |-> hash, points |-> points, nonce |-> nonce]

(***************************************************************************)
(* The data of a game cell.                                                *)
(***************************************************************************)
CellData == [tag : {"empty", "malformed"}] \cup [tag : {"state"}, state : GameState]

encode(s) == [tag |-> "state", state |-> s]

Decodes(d) == d.tag # "malformed"

decode(d) == IF d.tag = "empty" THEN EmptyState ELSE d.state

\* A batch whose length the two-byte count cannot carry does not parse back.
BatchDecodes(batch) == Len(batch) <= U16_MAX

(***************************************************************************)
(* One move.                                                               *)
(***************************************************************************)
HasPlayer(s, h) == \E i \in DOMAIN s.players : s.players[i].hash = h

\* iter_mut().find: the first entry with this hash.
PlayerIndex(s, h) ==
    CHOOSE i \in DOMAIN s.players :
        /\ s.players[i].hash = h
        /\ \A j \in DOMAIN s.players : s.players[j].hash = h => i <= j

\* Variants of CanApply: the nonce of the last move is accepted again, and the
\* per-move cap is forgotten.
CanApplyStale(s, intent) ==
    /\ intent.points <= MAX_POINTS_PER_MOVE
    /\ IF HasPlayer(s, intent.hash)
       THEN LET p == s.players[PlayerIndex(s, intent.hash)]
            IN  /\ intent.nonce \in {p.nonce, p.nonce + 1}
                /\ p.score + intent.points <= U64_MAX
       ELSE intent.nonce = 1

CanApplyUncapped(s, intent) ==
    IF HasPlayer(s, intent.hash)
    THEN LET p == s.players[PlayerIndex(s, intent.hash)]
         IN  /\ intent.nonce = p.nonce + 1
             /\ p.nonce + 1 <= U64_MAX
             /\ p.score + intent.points <= U64_MAX
    ELSE intent.nonce = 1

\* No error path of apply_intent is taken.
CanApply(s, intent) ==
    /\ intent.points <= MAX_POINTS_PER_MOVE
    /\ IF HasPlayer(s, intent.hash)
       THEN LET p == s.players[PlayerIndex(s, intent.hash)]
            IN  /\ p.nonce + 1 <= U64_MAX
                /\ intent.nonce = p.nonce + 1
                /\ p.score + intent.points <= U64_MAX
       ELSE intent.nonce = 1

\* Variant of apply_intent: the score is overwritten.
apply_intent_overwrite(s, intent) ==
    IF HasPlayer(s, intent.hash)
    THEN LET k == PlayerIndex(s, intent.hash)
         IN  [s EXCEPT !.players = [s.players EXCEPT ![k] =
                 [hash |-> intent.hash, score |-> intent.points, nonce |-> intent.nonce]]]
    ELSE [s EXCEPT !.players =
             Append(s.players, [hash |-> intent.hash, score |-> intent.points, nonce |-> 1])]

\* The board apply_intent leaves when CanApply holds.
apply_intent(s, intent) ==
    IF HasPlayer(s, intent.hash)
    THEN LET k == PlayerIndex(s, intent.hash)
             p == s.players[k]
         IN  [s EXCEPT !.players = [s.players EXCEPT ![k] =
                 [p EXCEPT !.score = p.score + intent.points, !.nonce = intent.nonce]]]
    ELSE [s EXCEPT !.players =
             Append(s.players, [hash |-> intent.hash, score |-> intent.points, nonce |-> 1])]

(***************************************************************************)
(* A whole batch: the intents in order, stopping at the first error, then  *)
(* one bump of seq by the number applied.                                  *)
(***************************************************************************)
\* The loop: whether the first n intents applied, and the board they left.
ran(s, batch) ==
    LET run[n \in 0 .. Len(batch)] ==
            IF n = 0 THEN [ok |-> TRUE, state |-> s]
            ELSE IF run[n-1].ok /\ CanApply(run[n-1].state, batch[n])
                 THEN [ok |-> TRUE, state |-> apply_intent(run[n-1].state, batch[n])]
                 ELSE [ok |-> FALSE, state |-> s]
    IN  run

\* Variants of apply_batch: seq is bumped without looking for overflow, and it
\* counts batches.
apply_batch_wraps(s, batch) ==
    LET last == ran(s, batch)[Len(batch)]
    IN  IF last.ok
        THEN [ok |-> TRUE,
              state |-> [last.state EXCEPT !.seq = (s.seq + Len(batch)) % (U64_MAX + 1)]]
        ELSE [ok |-> FALSE, state |-> s]

apply_batch_counts_batches(s, batch) ==
    LET last == ran(s, batch)[Len(batch)]
    IN  IF last.ok /\ s.seq + 1 <= U64_MAX
        THEN [ok |-> TRUE, state |-> [last.state EXCEPT !.seq = s.seq + 1]]
        ELSE [ok |-> FALSE, state |-> s]

apply_batch(s, batch) ==
    LET last == ran(s, batch)[Len(batch)]
    IN  IF last.ok /\ s.seq + Len(batch) <= U64_MAX
        THEN [ok |-> TRUE, state |-> [last.state EXCEPT !.seq = s.seq + Len(batch)]]
        ELSE [ok |-> FALSE, state |-> s]

\* Variant of equals_unordered: the lengths are not compared.
equals_unordered_subset(s, o) ==
    /\ s.seq = o.seq
    /\ \A i \in DOMAIN s.players :
         \E j \in DOMAIN o.players : o.players[j] = s.players[i]

\* One-directional on purpose: every entry of s has a match in o.
equals_unordered(s, o) ==
    /\ s.seq = o.seq
    /\ Len(s.players) = Len(o.players)
    /\ \A i \in DOMAIN s.players :
         \E j \in DOMAIN o.players : o.players[j] = s.players[i]
=============================================================================
