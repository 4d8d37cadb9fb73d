----------------------------- MODULE MCGameCell -----------------------------
(***************************************************************************)
(* Small instances of GameCell: two players, two lineages, batches of up   *)
(* to two intents, every board of up to two entries as output data.        *)
(***************************************************************************)
EXTENDS GameCell, TLC

CONSTANTS p1, p2, g1, g2, a, b

msg(g, h, points, nonce) == intent_message(g, h, points, nonce)

\* p1 signed two different first moves (a retry after a failed one), a second
\* and a third move; p2 two moves, the first also as one over the cap; two messages
\* are for g2.
MCSigned ==
    { msg(g1, p1, 1, 1), msg(g1, p1, 2, 1), msg(g1, p1, 1, 2), msg(g1, p1, 1, 3),
      msg(g1, p2, 1, 1), msg(g1, p2, 3, 1), msg(g1, p2, 1, 2),
      msg(g2, p1, 1, 1), msg(g2, p2, 1, 1) }

\* A good intent for every signed message, a tampered one (signed for fewer
\* points than it claims) and one that nobody signed.
MCIntents ==
    { [hash |-> m.hash, points |-> m.points, nonce |-> m.nonce, sig |-> m] : m \in MCSigned }
    \cup { [hash |-> p2, points |-> 2, nonce |-> 1, sig |-> msg(g1, p2, 1, 1)],
           [hash |-> p2, points |-> 2, nonce |-> 2, sig |-> msg(g1, p2, 2, 2)] }

SeqsUpTo2(S) == {<< >>} \cup {<<x>> : x \in S} \cup {<<x, y>> : x, y \in S}

MCBatch == SeqsUpTo2(MCIntents)

MCData ==
    { [tag |-> "empty"], [tag |-> "malformed"] } \cup
    { encode([seq |-> n, players |-> ps]) :
        n \in U64,
        ps \in SeqsUpTo2([hash : Player, score : U64 \ {0}, nonce : U64 \ {0}]) }

\* Two different games.
MCTwoGames == (a :> g1) @@ (b :> g2)
=============================================================================
