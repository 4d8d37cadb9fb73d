-------------------------- MODULE MCSessionWitness --------------------------
(***************************************************************************)
(* Small instances of SessionWitness: lists of none, one, two, three and  *)
(* five scripts (five is odd at two levels), outputs listed by their       *)
(* lock, by their type, or not at all.                                     *)
(***************************************************************************)
EXTENDS SessionWitness

CONSTANTS owner, key, guardian, a, b, c, d, e, x

MCPolicies == {<<>>, <<a>>, <<b, a>>, <<b, c, a>>, <<b, c, d, e, a>>}

ScopedTo(policies) == [wildcard |-> FALSE, policies |-> policies]
Anything == [wildcard |-> TRUE, policies |-> <<>>]

\* Every list with the session in the args; a list of one with each model,
\* with and without a guardian; a session that was never enabled.
MCAccounts ==
    [model : {"registered"}, session : {key}, guardian : {NoKey},
     scope : {ScopedTo(p) : p \in MCPolicies}]
    \cup [model : {"registered", "carried"}, session : {key}, guardian : {NoKey, guardian},
          scope : {ScopedTo(<<a>>), Anything}]
    \cup [model : {"registered"}, session : {NoKey}, guardian : {NoKey}, scope : {Anything}]

MCForeign == { [lock |-> a, type |-> NoScript],
               [lock |-> x, type |-> b],
               [lock |-> x, type |-> NoScript] }
=============================================================================
