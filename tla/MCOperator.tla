----------------------------- MODULE MCOperator -----------------------------
(***************************************************************************)
(* Small instances of Operator: which faults a run has, and how many.      *)
(***************************************************************************)
EXTENDS Operator, TLC

CONSTANTS p1, p2, g

MCMoves == (p1 :> 2) @@ (p2 :> 1)
\* One page plays; the other player's hash is only used by forgers.
MCOnePlays == (p1 :> 3) @@ (p2 :> 0)

NoFaults == [k \in FaultKind |-> 0]

\* Everything that can disturb the operator, once.
MCDisturbed == [NoFaults EXCEPT !["unanswered"] = 1, !["restart"] = 1, !["evict"] = 1, !["grow"] = 1]

\* What the pages and the operator are built to ride out.
MCRough == [NoFaults EXCEPT !["lost"] = 2, !["unreachable"] = 1]

\* Two pages, one move each: with MAX_QUEUE an embedding queues in between.
MCOneEach == (p1 :> 1) @@ (p2 :> 1)

Symmetry == Permutations(Player)

\* What the pages sign and what a board holds have the declared layouts.
ASSUME MCOperatorAssumption ==
    \A p \in Player :
        /\ SignedIntent(p, 1) \in Intent
        /\ [hash |-> p, score |-> 0, nonce |-> 0] \in PlayerEntry
=============================================================================
