---------------------------- MODULE MCPaymaster ----------------------------
(***************************************************************************)
(* A small instance of Paymaster: three clients, one of whose tokens was   *)
(* issued for another scope; of the relayer's cells the oldest is dust and *)
(* the next ones pay for a few transactions each.                          *)
(***************************************************************************)
EXTENDS Paymaster, TLC

CONSTANTS c1, c2, c3

MCIssued ==
    (c1 :> [scope |-> "sponsor", subject |-> c1, not_after |-> 1])
        @@ (c2 :> [scope |-> "sponsor", subject |-> c2, not_after |-> 0])
        @@ (c3 :> [scope |-> "other", subject |-> c3, not_after |-> 1])

\* A holder who narrows, and one who writes the facts of a better token.
MCAttenuation ==
    { [sponsor |-> {}, subject |-> {}, expires |-> {}, expiry |-> FALSE, until |-> {0}],
      [sponsor |-> {"sponsor"}, subject |-> {c3}, expires |-> {1}, expiry |-> TRUE, until |-> {}] }

\* In bytes: c1 pays the floor and stays below it, c2's rate covers its
\* witnesses, c3's does not.
MCSize == (c1 :> 700) @@ (c2 :> 1001) @@ (c3 :> 1000)
MCSignedSize == (c1 :> 950) @@ (c2 :> 1200) @@ (c3 :> 1300)

MCFeeCells == <<1500, 3100, 2000>>

\* The layouts of drafts and tokens.
ASSUME MCPaymasterAssumption ==
    \A c \in Client :
        /\ [root |-> c, added |-> {}] \in Token
        /\ [input |-> 1, change |-> 0, subject |-> c] \in Draft
        /\ issue(Issued[c]) \in Block
=============================================================================
