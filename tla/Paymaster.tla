----------------------------- MODULE Paymaster -----------------------------
(***************************************************************************)
(* The sponsored relay (paymaster, paymaster-service): a client presents a *)
(* sponsor token and a partial transaction, gets it back with one of the   *)
(* relayer's cells as fee input and the change as an output, has it signed *)
(* and broadcasts it.  The service keeps nothing between the two requests, *)
(* so the same cell may be in several clients' hands, and a broadcast asks *)
(* for no token.                                                           *)
(*                                                                         *)
(* The relayer's cells are numbered in the order they were created; the    *)
(* indexer lists what is committed, and lags behind the pool.              *)
(***************************************************************************)
EXTENDS Integers, Sequences, FiniteSetsExt

CONSTANTS
    Client,            \* each has one transaction to get through
    Issued,            \* per client: the capability its token was issued for
    Genuine,           \* clients whose token the authority signed
    SCOPE,             \* the scope the service requires
    Attenuation,       \* the blocks holders append to tokens
    Size,              \* per client: bytes of its balanced transaction, unsigned
    SignedSize,        \* and with the session's and the fee cell's witnesses
    FEE_RATE,          \* shannons per 1000 bytes, the service's
    NODE_FEE_RATE,     \* and the least the node takes
    MIN_FEE_SHANNONS,
    MIN_CHANGE,        \* occupied capacity of a change cell
    PAGE,              \* cells one get_cells answer holds
    FeeCells,          \* capacities of the relayer's cells at the start
    MAX_TIME,          \* bound on the clock
    MAX_BLOCKS,        \* bound on attenuations
    MAX_REVOKED,       \* bound on revocations
    MAX_LOST           \* bound on lost answers

Capability == [scope : STRING, subject : Client, not_after : Nat]

\* A block of a token: facts, the check on them that the authority writes
\* (check if expires($e), time($t), $t <= $e) or not, and checks against dates.
Block == [sponsor : SUBSET STRING, subject : SUBSET Client, expires : SUBSET Nat,
          expiry : BOOLEAN, until : SUBSET Nat]

ASSUME PaymasterAssumption ==
    /\ Issued \in [Client -> Capability]
    /\ Genuine \subseteq Client
    /\ Attenuation \subseteq Block
    /\ Size \in [Client -> Nat] /\ SignedSize \in [Client -> Nat]
    /\ \A c \in Client : Size[c] <= SignedSize[c]
    /\ FeeCells \in Seq(Nat)
    /\ {FEE_RATE, NODE_FEE_RATE, MIN_FEE_SHANNONS, MIN_CHANGE, PAGE, MAX_TIME, MAX_BLOCKS, MAX_REVOKED,
        MAX_LOST} \subseteq Nat

VARIABLES
    token,    \* per client: the token it holds
    blocks,   \* attenuating blocks appended so far
    revoked,  \* revocation ids the gate was configured with
    now,      \* unix time
    cells,    \* capacities of the relayer's cells, in order of creation
    spent,    \* cells an accepted transaction spends
    listed,   \* cells the indexer knows and thinks live
    pool,     \* accepted transactions that are not committed
    landed,   \* clients whose transaction the node accepted
    draft,    \* per client: the balanced transaction in its hands
    done,     \* clients that know their transaction is through
    lost      \* lost answers so far

node == <<cells, spent, listed, pool, landed>>
gate == <<token, blocks, revoked, now>>
vars == <<node, gate, draft, done, lost>>

\* A token: the authority block, named by the client it was issued to, and the
\* blocks holders appended; each block has a revocation id.
Token == [root : Client, added : SUBSET [id : 1 .. MAX_BLOCKS, block : Attenuation]]

Draft == [input : Nat \ {0}, change : Nat, subject : Client]
NoDraft == [input |-> 0]

TypeOK ==
    /\ token \in [Client -> Token]
    /\ blocks \in 0 .. MAX_BLOCKS
    /\ revoked \subseteq Client \cup (1 .. MAX_BLOCKS)
    /\ now \in 0 .. MAX_TIME
    /\ cells \in Seq(Nat)
    /\ spent \subseteq DOMAIN cells
    /\ listed \subseteq DOMAIN cells
    /\ pool \in Seq([input : spent, change : DOMAIN cells])
    /\ landed \cup done \subseteq Client
    /\ draft \in [Client -> {NoDraft} \cup Draft]
    /\ lost \in 0 .. MAX_LOST

Init ==
    /\ token = [c \in Client |-> [root |-> c, added |-> {}]]
    /\ blocks = 0
    /\ revoked = {}
    /\ now = 0
    /\ cells = FeeCells
    /\ spent = {}
    /\ listed = DOMAIN FeeCells
    /\ pool = << >>
    /\ landed = {}
    /\ draft = [c \in Client |-> NoDraft]
    /\ done = {}
    /\ lost = 0

-----------------------------------------------------------------------------
(***************************************************************************)
(* The gate.                                                               *)
(***************************************************************************)
\* Appending a block, offline: facts and checks of the holder's own.  The new
\* token may be given to another client.
Attenuate(c, d, block) ==
    /\ blocks < MAX_BLOCKS
    /\ blocks' = blocks + 1
    /\ token' = [token EXCEPT ![d] =
            [token[c] EXCEPT !.added = @ \cup {[id |-> blocks + 1, block |-> block]}]]
    /\ UNCHANGED <<node, revoked, now, draft, done, lost>>

\* The block the authority signs for a capability.
issue(cap) ==
    [sponsor |-> {cap.scope}, subject |-> {cap.subject}, expires |-> {cap.not_after},
     expiry |-> TRUE, until |-> {}]

revocation_identifiers(t) == {t.root} \cup {b.id : b \in t.added}

\* A block's checks; `expires` are the expiry facts it may see.
Passes(block, expires) ==
    /\ block.expiry => \E e \in expires : now <= e
    /\ \A e \in block.until : now <= e

\* External: biscuit evaluates the checks of a block on the facts of the
\* authority and on the block's own.
ChecksPass(t) ==
    LET authority == issue(Issued[t.root])
    IN  /\ Passes(authority, authority.expires)
        /\ \A b \in t.added : Passes(b.block, authority.expires \cup b.block.expires)

\* Variant of authorize: with a variable for {scope} any sponsor fact will do.
authorize_any_scope(t) ==
    /\ t.root \in Genuine
    /\ revocation_identifiers(t) \cap revoked = {}
    /\ ChecksPass(t)
    /\ issue(Issued[t.root]).sponsor # {}

\* The signature chains to the authority, no block is revoked, every block's
\* checks pass, and the policy finds the required scope: a policy, and what is
\* read back afterwards, see the facts of the authority only.
authorize(t) ==
    /\ t.root \in Genuine
    /\ revocation_identifiers(t) \cap revoked = {}
    /\ ChecksPass(t)
    /\ SCOPE \in issue(Issued[t.root]).sponsor

\* What authorize answers with: query_exactly_one for each of the three facts.
Granted(t) ==
    LET authority == issue(Issued[t.root])
    IN  [scope |-> CHOOSE s \in authority.sponsor : TRUE,
         subject |-> CHOOSE c \in authority.subject : TRUE,
         not_after |-> CHOOSE e \in authority.expires : TRUE]

\* The other implementation of the trait, Ed25519Gate, on the token the
\* authority would have issued to c with it.
Ed25519Gate_authorize(c) ==
    /\ c \in Genuine
    /\ Issued[c].scope = SCOPE
    /\ ~ now > Issued[c].not_after

\* The gate is the service's own: a revocation takes a restart with a gate on
\* which revoke_hex was called.  What clients hold is not affected.
revoke_hex(id) ==
    /\ Cardinality(revoked) < MAX_REVOKED
    /\ id \notin revoked
    /\ revoked' = revoked \cup {id}
    /\ UNCHANGED <<node, token, blocks, now, draft, done, lost>>

Tick ==
    /\ now < MAX_TIME
    /\ now' = now + 1
    /\ UNCHANGED <<node, token, blocks, revoked, draft, done, lost>>

-----------------------------------------------------------------------------
(***************************************************************************)
(* The service.                                                            *)
(***************************************************************************)
min_fee(size, fee_rate) == (size * fee_rate + 999) \div 1000

\* Sized on the dry-balanced transaction, whose witnesses are still to come.
fee(c) == Max({min_fee(Size[c], FEE_RATE), MIN_FEE_SHANNONS})

\* Variant of needed: room for the change cell is forgotten.
needed_fee_only(c) == fee(c)

needed(c) == fee(c) + MIN_CHANGE

\* The cells collect_fee_cell may choose from: one page, oldest first.
Usable(min_capacity) ==
    {i \in listed : /\ Cardinality({j \in listed : j <= i}) <= PAGE
                    /\ cells[i] >= min_capacity}

collect_fee_cell(min_capacity) == Min(Usable(min_capacity))

\* Variant of balance: the fee is taken off twice.
balance_twice(capacity, fee_shannons) == capacity - 2 * fee_shannons

\* The change of a transaction that pays fee_shannons out of `capacity`.
balance(capacity, fee_shannons) == capacity - fee_shannons

\* POST /sponsor, with an answer; every refusal (Unauthorized, NoFeeCell,
\* InsufficientFee, Rpc) leaves no trace.
sponsor(c) ==
    /\ c \notin done
    /\ draft[c] = NoDraft
    /\ authorize(token[c])
    /\ Usable(needed(c)) # {}
    /\ LET i == collect_fee_cell(needed(c))
       IN  /\ cells[i] >= fee(c)
           /\ draft' = [draft EXCEPT ![c] =
                [input |-> i, change |-> balance(cells[i], fee(c)),
                 subject |-> Granted(token[c]).subject]]
    /\ UNCHANGED <<node, gate, done, lost>>

\* External: the node takes a transaction whose inputs nothing else spends,
\* whose change can hold itself and which pays for its size, all witnesses
\* included.
NodeAccepts(c, d) ==
    /\ c \notin landed
    /\ d.input \notin spent
    /\ d.change >= MIN_CHANGE
    /\ d.change + min_fee(SignedSize[c], NODE_FEE_RATE) <= cells[d.input]

\* POST /broadcast of the signed draft; an Rpc error sends the client back to
\* /sponsor, also when only the answer was lost.
broadcast(c) ==
    /\ draft[c] # NoDraft
    /\ draft' = [draft EXCEPT ![c] = NoDraft]
    /\ \/ /\ ~ NodeAccepts(c, draft[c])
          /\ UNCHANGED <<node, done, lost>>
       \/ /\ NodeAccepts(c, draft[c])
          /\ cells' = Append(cells, draft[c].change)
          /\ spent' = spent \cup {draft[c].input}
          /\ pool' = Append(pool, [input |-> draft[c].input, change |-> Len(cells) + 1])
          /\ landed' = landed \cup {c}
          /\ UNCHANGED listed
          /\ \/ done' = done \cup {c} /\ UNCHANGED lost
             \/ lost < MAX_LOST /\ lost' = lost + 1 /\ UNCHANGED done
    /\ UNCHANGED gate

\* External: a block takes the oldest transaction, and the indexer follows.
Commit ==
    /\ pool # << >>
    /\ listed' = (listed \ {Head(pool).input}) \cup {Head(pool).change}
    /\ pool' = Tail(pool)
    /\ UNCHANGED <<cells, spent, landed, gate, draft, done, lost>>

Next ==
    \/ \E c, d \in Client : \E block \in Attenuation : Attenuate(c, d, block)
    \/ \E id \in Client \cup (1 .. blocks) : revoke_hex(id)
    \/ Tick
    \/ \E c \in Client : sponsor(c) \/ broadcast(c)
    \/ Commit

\* Clients try again until they know that they are through; blocks are made.
Spec ==
    /\ Init /\ [][Next]_vars
    /\ WF_vars(Commit)
    /\ \A c \in Client : WF_vars(sponsor(c)) /\ WF_vars(broadcast(c))

-----------------------------------------------------------------------------
(***************************************************************************)
(* Properties.                                                             *)
(***************************************************************************)
\* The two gates behind the trait keep one contract: whatever the Biscuit gate
\* lets through, with any facts and checks appended by any chain of holders,
\* the reference gate would let through on the capability that was issued, and
\* that capability is what is read back; a token nobody has narrowed or revoked
\* is good for exactly what it was issued for, to the last second.
GatesAgree ==
    \A c \in Client : LET t == token[c] IN
        /\ authorize(t) => Ed25519Gate_authorize(t.root) /\ Granted(t) = Issued[t.root]
        /\ t.added = {} /\ t.root \notin revoked /\ Ed25519Gate_authorize(t.root) => authorize(t)

\* Whether the fee, taken before there were witnesses, is enough with them.
FeeCovers(c) == fee(c) >= min_fee(SignedSize[c], NODE_FEE_RATE)

\* A draft in a client's hands, however long it was kept and whatever else went
\* through meanwhile, is refused only because its cell is spent or because the
\* witnesses outgrew its fee; and in that case no draft of that client's is
\* ever accepted.
DraftsPay ==
    \A c \in Client :
        /\ draft[c] # NoDraft /\ c \notin landed /\ draft[c].input \notin spent /\ FeeCovers(c)
            => NodeAccepts(c, draft[c])
        /\ ~ FeeCovers(c) => c \notin landed

\* What the relayer has parted with is the fee of each transaction that went
\* through, once, in spite of shared fee cells, retries and lost answers.
PaysFeesOnly ==
    SumFunctionOnSet(cells, DOMAIN cells \ spent)
        + SumFunctionOnSet([c \in Client |-> fee(c)], landed)
            = SumFunctionOnSet(FeeCells, DOMAIN FeeCells)

\* A draft is the cell it spends less its client's fee, and can hold itself.
DraftsFunded ==
    \A c \in Client : draft[c] # NoDraft =>
        /\ draft[c].input \in DOMAIN cells
        /\ draft[c].change >= MIN_CHANGE
        /\ draft[c].change + fee(c) = cells[draft[c].input]

\* A transaction whose fee does not cover its witnesses does not get through.
LandedCovered == \A c \in landed : FeeCovers(c)

\* The inductive invariant.
IndInv == TypeOK /\ DraftsFunded /\ LandedCovered /\ IsFiniteSet(landed) /\ PaysFeesOnly

\* A client that keeps trying, with a fee that covers its witnesses, gets its
\* transaction through, or its token stops being good, or the page of cells it
\* is shown cannot pay: sharing a fee cell with others costs it retries only.
GetsThrough ==
    \A c \in Client : FeeCovers(c) =>
        <>(c \in landed \/ ~ authorize(token[c]) \/ Usable(needed(c)) = {})
=============================================================================
