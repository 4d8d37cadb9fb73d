----------------------------- MODULE MCAccount -----------------------------
(***************************************************************************)
(* Small instances of Account.  One account carries authorizations, the    *)
(* other has its session registered in the args.                           *)
(***************************************************************************)
EXTENDS Account, TLC

CONSTANTS owner, key, guardian, funding, other, udt, s1, s2

\* A channel session: scoped to a funding lock and a token, guarded, capped.
MCScoped ==
    [session_pubkey_hash |-> key, expires_at |-> 1, wildcard |-> FALSE,
     policies |-> {funding, udt}, spend_cap |-> 1, guardian_pubkey_hash |-> guardian]

\* A session for anything, never expiring, without limit.
MCAnything ==
    [session_pubkey_hash |-> key, expires_at |-> NO_EXPIRY, wildcard |-> TRUE,
     policies |-> {}, spend_cap |-> UNLIMITED, guardian_pubkey_hash |-> NoKey]

MCDisabled == [MCAnything EXCEPT !.session_pubkey_hash = NoKey]

Carried == [model |-> "carried", owner |-> owner]
Registered(params) == [model |-> "registered", owner |-> owner, params |-> params]

\* For the revocation questions: an unlimited session, epochs 0 to 2, no foreign outputs.
MCRevArgs == {Carried, Registered(MCDisabled)}
MCRevParams == {MCAnything}
MCEpochs == {[tag |-> "short"], [tag |-> "epoch", epoch |-> 1], [tag |-> "epoch", epoch |-> 2]}

\* For the spending questions: one epoch, every shape of output.
MCSpendArgs == {Carried, Registered([MCScoped EXCEPT !.policies = {other}, !.expires_at = NO_EXPIRY,
                                                     !.guardian_pubkey_hash = NoKey])}
MCSpendParams == {MCScoped}
MCNoData == {[tag |-> "empty"]}
MCForeign == { [lock |-> funding, type |-> NoScript], [lock |-> other, type |-> udt],
               [lock |-> other, type |-> NoScript] }

MCWitness == {{owner}, {key}, {key, guardian}}

Symmetry == Permutations(Slot)

\* The instance's values fill the layouts of cells, outputs and authorizations.
ASSUME MCAccountAssumption ==
    \A a \in Args, d \in Data, c \in Capacity, p \in Params :
        /\ [args |-> a, data |-> d, cap |-> c, floor |-> 0] \in AccountCell
        /\ [args |-> a, data |-> d, cap |-> c] \in Output
        /\ [args |-> a, epoch |-> 0, params |-> p] \in Authorization
        /\ [kind |-> "account", args |-> a] \in Destination
=============================================================================
