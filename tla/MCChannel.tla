----------------------------- MODULE MCChannel -----------------------------
(***************************************************************************)
(* Small instances of Channel: two apps on one account.                    *)
(***************************************************************************)
EXTENDS Channel

CONSTANTS a1, a2

MCDeposits == [x \in {1} |-> 7]

Symmetry == Permutations(App)

\* The layouts of rail channels, transactions and open sessions.
ASSUME MCChannelAssumption ==
    /\ [local |-> 1, remote |-> 0, funding |-> 1] \in MockChannel
    /\ [kind |-> "settle", id |-> 1, input |-> 1, local |-> 1, channel |-> 1] \in ChannelTx
    /\ [st |-> "open", channel |-> 1, funding |-> 1, budget |-> 1, spent |-> 0] \in ChannelSession
=============================================================================
