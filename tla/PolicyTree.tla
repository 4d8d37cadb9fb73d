----------------------------- MODULE PolicyTree -----------------------------
(***************************************************************************)
(* The tree of allowed scripts as the SDK builds it (sdk/src/lib.rs) and   *)
(* the lock folds it, and the framing of membership proofs.                *)
(*                                                                         *)
(* Byte strings are sequences of bytes.  A byte is a number or part of a   *)
(* digest, named by what was hashed: blake2b_256 is injective.  Two halves *)
(* stand for the 32 bytes of a digest, so that a slice can straddle two.   *)
(* Nodes are put in ascending order before they are hashed, so the         *)
(* preimage of a pair is a set.                                            *)
(***************************************************************************)
EXTENDS Naturals, SequencesExt

HASH_LEN == 2

Num(n) == <<"num", n>>

Zeros(n) == [i \in 1 .. n |-> Num(0)]

ZERO == <<Num(0), Num(0)>>

WILDCARD_ROOT == <<Num(255), Num(255)>>

blake2b_256(preimage) == << <<"digest", preimage, 1>>, <<"digest", preimage, 2>> >>

policy_leaf(script) == blake2b_256(<<"script", script>>)

Leaves(policies) == [i \in DOMAIN policies |-> policy_leaf(policies[i])]

\* A node in a preimage: what it is a digest of, or its bytes.
Node(bytes) ==
    IF bytes[1][1] = "digest" /\ bytes = blake2b_256(bytes[1][2])
    THEN bytes[1][2] ELSE <<"bytes", bytes>>

pair(a, b) == blake2b_256(<<"pair", {Node(a), Node(b)}>>)

\* The digest of each pair of neighbours.
Pairs(level) == [i \in 1 .. Len(level) \div 2 |-> pair(level[2 * i - 1], level[2 * i])]

\* An odd level is padded with a zero node.
Padded(level) == IF Len(level) % 2 = 1 THEN Append(level, ZERO) ELSE level

\* Variant of fold_level: an odd level is padded with its last node.
fold_level_repeating(level) ==
    Pairs(IF Len(level) % 2 = 1 THEN Append(level, Last(level)) ELSE level)

fold_level(level) == Pairs(Padded(level))

\* The levels of the tree, leaves first; a level of one node stays.
Levels(leaves) ==
    LET level[n \in 0 .. Len(leaves)] ==
          IF n = 0 THEN leaves
          ELSE LET below == level[n - 1]
               IN  IF Len(below) > 1 THEN fold_level(below) ELSE below
    IN  level

merkle_root(leaves) ==
    IF leaves = <<>> THEN ZERO ELSE Levels(leaves)[Len(leaves)][1]

\* How often the leaves are folded: until one node is left.
Depth(leaves) == Min({n \in 0 .. Len(leaves) : Len(Levels(leaves)[n]) <= 1})

\* index ^ 1
Sibling(index) == IF index % 2 = 0 THEN index + 1 ELSE index - 1

\* Siblings of leaves[index], counted from 0, from the leaf to the root.
merkle_proof(leaves, index) ==
    LET level == Levels(leaves)
        at[n \in 0 .. Depth(leaves)] == IF n = 0 THEN index ELSE at[n - 1] \div 2
    IN  [n \in 1 .. Depth(leaves) |-> Padded(level[n - 1])[Sibling(at[n - 1]) + 1]]

\* A leaf is folded with its siblings, up to the root.
merkle_verify(root, leaf, proof) ==
    LET node[n \in 0 .. Len(proof)] == IF n = 0 THEN leaf ELSE pair(node[n - 1], proof[n])
    IN  node[Len(proof)] = root

-----------------------------------------------------------------------------
POLICY_KIND_TYPE == 0
POLICY_KIND_LOCK == 1

\* One entry of the proof region: kind, the number of siblings, the siblings.
Framed(entry) ==
    <<Num(entry.kind), Num(Len(entry.proof) % 256)>> \o FlattenSeq(entry.proof)

proof_region(entries) == FlattenSeq([i \in DOMAIN entries |-> Framed(entries[i])])

channel_proof_region == proof_region(<<[kind |-> POLICY_KIND_LOCK, proof |-> <<>>]>>)
=============================================================================
