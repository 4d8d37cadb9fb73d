-------------------------- MODULE PaymasterProofs --------------------------
(***************************************************************************)
(* Theorems about Paymaster for any clients, tokens, transaction sizes and *)
(* cells: type correctness, that the gate keeps the reference gate's       *)
(* contract whatever holders append, that a draft whose cell is unspent    *)
(* pays if its fee covers its witnesses, and that the relayer's capital    *)
(* shrinks by the fees of what went through and by nothing else.           *)
(***************************************************************************)
EXTENDS Paymaster, DataLemmas

\* The larger of two numbers.
LEMMA MaxOfTwo ==
    ASSUME NEW m \in Nat, NEW n \in Nat
    PROVE  Max({m, n}) \in Nat /\ Max({m, n}) >= m /\ Max({m, n}) >= n
<1>1. \E x \in {m, n} : \A y \in {m, n} : x >= y
  OBVIOUS
<1>2. Max({m, n}) \in {m, n} /\ \A y \in {m, n} : Max({m, n}) >= y
  BY <1>1 DEF Max
<1> QED
  BY <1>2

\* A fee and what the node asks for the signed transaction are numbers.
LEMMA FeeType ==
    ASSUME NEW c \in Client
    PROVE  fee(c) \in Nat /\ min_fee(SignedSize[c], NODE_FEE_RATE) \in Nat
<1>1. /\ Size[c] \in Nat /\ SignedSize[c] \in Nat
      /\ FEE_RATE \in Nat /\ NODE_FEE_RATE \in Nat /\ MIN_FEE_SHANNONS \in Nat
  BY PaymasterAssumption
<1>2. Size[c] * FEE_RATE \in Nat /\ SignedSize[c] * NODE_FEE_RATE \in Nat
  BY <1>1
<1>3. min_fee(Size[c], FEE_RATE) \in Nat /\ min_fee(SignedSize[c], NODE_FEE_RATE) \in Nat
  BY <1>2 DEF min_fee
<1> QED
  BY <1>1, <1>3, MaxOfTwo DEF fee

\* The cell a sponsored transaction spends is one that can pay for it.
LEMMA FeeCellPays ==
    ASSUME TypeOK, NEW n, Usable(n) # {}
    PROVE  /\ collect_fee_cell(n) \in DOMAIN cells
           /\ cells[collect_fee_cell(n)] >= n
<1>1. Usable(n) \in SUBSET Nat
  BY DEF Usable, TypeOK
<1>2. collect_fee_cell(n) \in Usable(n)
  BY <1>1, MinIsLeast DEF collect_fee_cell
<1> QED
  BY <1>2 DEF Usable, TypeOK

\* The relayer's cells are finitely many, and so are the unspent ones.
LEMMA CellsFinite ==
    ASSUME TypeOK, NEW S \in SUBSET DOMAIN cells
    PROVE  IsFiniteSet(S)
<1>1. DOMAIN cells = 1 .. Len(cells) /\ Len(cells) \in Nat
  BY DEF TypeOK
<1>2. IsFiniteSet(1 .. Len(cells)) /\ S \in SUBSET (1 .. Len(cells))
  BY <1>1, FS_Interval
<1> QED
  BY <1>2, FS_Subset

\* A sequence over a set is one over a larger set.
LEMMA SeqOfSubset ==
    ASSUME NEW S, NEW T, S \subseteq T, NEW s \in Seq(S)
    PROVE  s \in Seq(T)
<1>1. Len(s) \in Nat /\ s \in [1 .. Len(s) -> S]
  OBVIOUS
<1>2. s \in [1 .. Len(s) -> T]
  BY <1>1
<1> QED
  BY <1>1, <1>2

\* The empty service satisfies the inductive invariant.
LEMMA InitIndInv == Init => IndInv
<1> SUFFICES ASSUME Init PROVE IndInv
  OBVIOUS
<1>1. TypeOK
  BY PaymasterAssumption DEF Init, TypeOK, Token, NoDraft
<1>2. DraftsFunded /\ LandedCovered
  BY DEF Init, DraftsFunded, LandedCovered
<1>3. IsFiniteSet(landed)
  BY FS_EmptySet DEF Init
<1>4. PaysFeesOnly
  <2>1. DOMAIN cells \ spent = DOMAIN FeeCells
    BY DEF Init
  <2>2. SumFunctionOnSet(FeeCells, DOMAIN FeeCells) \in Int
    <3>1. /\ DOMAIN FeeCells = 1 .. Len(FeeCells) /\ Len(FeeCells) \in Nat
          /\ \A i \in DOMAIN FeeCells : FeeCells[i] \in Int
      BY PaymasterAssumption
    <3>2. IsFiniteSet(DOMAIN FeeCells)
      BY <3>1, FS_Interval
    <3> QED
      BY <3>1, <3>2, SumType
  <2>3. SumFunctionOnSet([c \in Client |-> fee(c)], landed) = 0
    BY SumEmpty DEF Init
  <2> QED
    BY <2>1, <2>2, <2>3 DEF Init, PaysFeesOnly
<1> QED
  BY <1>1, <1>2, <1>3, <1>4 DEF IndInv

\* A step that leaves cells and drafts alone keeps what is said of them.
LEMMA SameDrafts ==
    ASSUME IndInv, UNCHANGED <<cells, spent, landed, draft>>
    PROVE  DraftsFunded' /\ LandedCovered' /\ IsFiniteSet(landed)' /\ PaysFeesOnly'
<1>1. DraftsFunded'
  BY DEF IndInv, DraftsFunded
<1>2. LandedCovered'
  BY DEF IndInv, LandedCovered, FeeCovers
<1>3. IsFiniteSet(landed)' /\ PaysFeesOnly'
  BY DEF IndInv, PaysFeesOnly
<1> QED
  BY <1>1, <1>2, <1>3

\* A block appended to a token, and the narrowed token given away.
LEMMA AttenuateStep ==
    ASSUME IndInv, NEW c \in Client, NEW d \in Client, NEW block \in Attenuation,
           Attenuate(c, d, block)
    PROVE  IndInv'
<1>1. MAX_BLOCKS \in Nat
  BY PaymasterAssumption
<1>2. blocks' \in 0 .. MAX_BLOCKS /\ blocks + 1 \in 1 .. MAX_BLOCKS
  BY <1>1 DEF Attenuate, IndInv, TypeOK
<1>3. token' \in [Client -> Token]
  <2> DEFINE t == [token[c] EXCEPT !.added = @ \cup {[id |-> blocks + 1, block |-> block]}]
  <2>1. token[c] \in Token
    BY DEF IndInv, TypeOK
  <2>2. t \in Token
    BY <1>1, <1>2, <2>1 DEF Token
  <2>3. token' = [token EXCEPT ![d] = t]
    BY DEF Attenuate
  <2> HIDE DEF t
  <2> QED
    BY <2>2, <2>3 DEF IndInv, TypeOK
<1>4. TypeOK'
  BY <1>2, <1>3 DEF Attenuate, IndInv, TypeOK, node
<1>5. UNCHANGED <<cells, spent, landed, draft>>
  BY DEF Attenuate, node
<1> QED
  BY <1>4, <1>5, SameDrafts DEF IndInv

\* A revocation.
LEMMA RevokeStep ==
    ASSUME IndInv, NEW id \in Client \cup (1 .. blocks), revoke_hex(id)
    PROVE  IndInv'
<1>1. MAX_BLOCKS \in Nat
  BY PaymasterAssumption
<1>2. id \in Client \cup (1 .. MAX_BLOCKS)
  BY <1>1 DEF IndInv, TypeOK
<1>3. TypeOK'
  BY <1>2 DEF revoke_hex, IndInv, TypeOK, node
<1>4. UNCHANGED <<cells, spent, landed, draft>>
  BY DEF revoke_hex, node
<1> QED
  BY <1>3, <1>4, SameDrafts DEF IndInv

\* The clock.
LEMMA TickStep ==
    ASSUME IndInv, Tick
    PROVE  IndInv'
<1>1. MAX_TIME \in Nat
  BY PaymasterAssumption
<1>2. TypeOK'
  BY <1>1 DEF Tick, IndInv, TypeOK, node
<1>3. UNCHANGED <<cells, spent, landed, draft>>
  BY DEF Tick, node
<1> QED
  BY <1>2, <1>3, SameDrafts DEF IndInv

\* The three facts read back are the ones the authority wrote.
LEMMA GrantedIsIssued ==
    ASSUME NEW t, t.root \in Client
    PROVE  Granted(t) = Issued[t.root]
<1> DEFINE cap == Issued[t.root]
<1>1. cap \in Capability
  BY PaymasterAssumption
<1>2. /\ issue(cap).sponsor = {cap.scope} /\ issue(cap).subject = {cap.subject}
      /\ issue(cap).expires = {cap.not_after}
  BY DEF issue
<1> HIDE DEF cap
<1>3. [scope |-> CHOOSE s \in issue(cap).sponsor : TRUE,
       subject |-> CHOOSE c \in issue(cap).subject : TRUE,
       not_after |-> CHOOSE e \in issue(cap).expires : TRUE]
            = [scope |-> cap.scope, subject |-> cap.subject, not_after |-> cap.not_after]
  BY <1>2
<1>4. cap = [scope |-> cap.scope, subject |-> cap.subject, not_after |-> cap.not_after]
  BY <1>1 DEF Capability
<1> QED
  BY <1>3, <1>4 DEF Granted, cap

\* The Biscuit gate against the reference gate, for any token.
LEMMA OneContract ==
    ASSUME TypeOK, NEW c \in Client
    PROVE  LET t == token[c] IN
           /\ authorize(t) => Ed25519Gate_authorize(t.root) /\ Granted(t) = Issued[t.root]
           /\ t.added = {} /\ t.root \notin revoked /\ Ed25519Gate_authorize(t.root) => authorize(t)
<1> DEFINE t == token[c]
           cap == Issued[t.root]
<1>1. t.root \in Client
  BY DEF TypeOK, Token
<1>2. now \in Nat /\ cap.not_after \in Nat
  <2>1. MAX_TIME \in Nat /\ cap \in Capability
    BY <1>1, PaymasterAssumption
  <2> QED
    BY <2>1 DEF TypeOK, Capability
<1>3. /\ issue(cap).sponsor = {cap.scope} /\ issue(cap).expires = {cap.not_after}
      /\ issue(cap).expiry = TRUE /\ issue(cap).until = {}
  BY DEF issue
<1>4. Passes(issue(cap), issue(cap).expires) <=> now <= cap.not_after
  BY <1>3 DEF Passes
<1>5. authorize(t) => Ed25519Gate_authorize(t.root)
  BY <1>2, <1>3, <1>4 DEF authorize, ChecksPass, Ed25519Gate_authorize
<1>6. ASSUME t.added = {}, t.root \notin revoked, Ed25519Gate_authorize(t.root)
      PROVE  authorize(t)
  <2>1. revocation_identifiers(t) \cap revoked = {}
    BY <1>6 DEF revocation_identifiers
  <2>2. ChecksPass(t)
    BY <1>2, <1>4, <1>6 DEF ChecksPass, Ed25519Gate_authorize
  <2> QED
    BY <1>3, <1>6, <2>1, <2>2 DEF authorize, Ed25519Gate_authorize
<1>7. Granted(t) = Issued[t.root]
  BY <1>1, GrantedIsIssued
<1> QED
  BY <1>5, <1>6, <1>7

\* A sponsored transaction is the fee cell less the fee, for a good token.
LEMMA SponsorStep ==
    ASSUME IndInv, NEW c \in Client, sponsor(c)
    PROVE  IndInv'
<1> DEFINE i == collect_fee_cell(needed(c))
           d == [input |-> i, change |-> balance(cells[i], fee(c)),
                 subject |-> Granted(token[c]).subject]
<1>1. /\ authorize(token[c])
      /\ draft' = [draft EXCEPT ![c] = d]
      /\ UNCHANGED <<node, gate, done, lost>>
  BY DEF sponsor
<1>2. i \in DOMAIN cells /\ cells[i] >= needed(c)
  BY FeeCellPays DEF sponsor, IndInv
<1>3. /\ MIN_CHANGE \in Nat /\ fee(c) \in Nat
      /\ cells[i] \in Nat /\ i \in Nat \ {0}
  <2>1. MIN_CHANGE \in Nat /\ fee(c) \in Nat
    BY FeeType, PaymasterAssumption
  <2>2. cells \in Seq(Nat)
    BY DEF IndInv, TypeOK
  <2> HIDE DEF i
  <2> QED
    BY <1>2, <2>1, <2>2
<1>4. /\ balance(cells[i], fee(c)) \in Nat
      /\ balance(cells[i], fee(c)) >= MIN_CHANGE
      /\ balance(cells[i], fee(c)) + fee(c) = cells[i]
  BY <1>2, <1>3 DEF balance, needed
<1>5. Granted(token[c]).subject \in Client
  <2>1. token[c] \in Token
    BY DEF IndInv, TypeOK
  <2>2. token[c].root \in Client
    BY <2>1 DEF Token
  <2>3. Granted(token[c]) = Issued[token[c].root]
    BY <2>2, GrantedIsIssued
  <2> QED
    BY <2>2, <2>3, PaymasterAssumption DEF Capability
<1>6. d \in Draft
  BY <1>3, <1>4, <1>5 DEF Draft
<1>7. draft'[c] = d /\ \A e \in Client \ {c} : draft'[e] = draft[e]
  BY <1>1 DEF IndInv, TypeOK
<1>8. TypeOK'
  <2>1. draft' \in [Client -> {NoDraft} \cup Draft]
    BY <1>1, <1>6 DEF IndInv, TypeOK
  <2> QED
    BY <1>1, <2>1 DEF IndInv, TypeOK, node, gate
<1> HIDE DEF i
<1>9. LandedCovered'
  BY <1>1 DEF IndInv, LandedCovered, FeeCovers, node
<1>10. DraftsFunded'
  <2>1. cells' = cells
    BY <1>1 DEF node
  <2> QED
    BY <1>2, <1>4, <1>7, <2>1 DEF IndInv, DraftsFunded
<1>11. IsFiniteSet(landed)' /\ PaysFeesOnly'
  BY <1>1 DEF IndInv, PaysFeesOnly, node
<1> QED
  BY <1>8, <1>9, <1>10, <1>11 DEF IndInv

\* What the node checks of a draft whose input is unspent holds, if the fee
\* covers the witnesses.
LEMMA FundedAccepted ==
    ASSUME IndInv, NEW c \in Client, draft[c] # NoDraft, c \notin landed,
           draft[c].input \notin spent, FeeCovers(c)
    PROVE  NodeAccepts(c, draft[c])
<1>1. /\ draft[c].change >= MIN_CHANGE
      /\ draft[c].change + fee(c) = cells[draft[c].input]
  BY DEF IndInv, DraftsFunded
<1>2. draft[c].change \in Nat
  BY DEF IndInv, TypeOK, Draft
<1>3. /\ fee(c) \in Nat /\ min_fee(SignedSize[c], NODE_FEE_RATE) \in Nat
      /\ fee(c) >= min_fee(SignedSize[c], NODE_FEE_RATE)
  BY FeeType DEF FeeCovers
<1>4. draft[c].change + min_fee(SignedSize[c], NODE_FEE_RATE) <= cells[draft[c].input]
  BY <1>1, <1>2, <1>3
<1> QED
  BY <1>1, <1>4 DEF NodeAccepts

\* What the node accepts pays for its witnesses.
LEMMA AcceptedCovered ==
    ASSUME IndInv, NEW c \in Client, draft[c] # NoDraft, NodeAccepts(c, draft[c])
    PROVE  FeeCovers(c)
<1>1. draft[c].change + fee(c) = cells[draft[c].input]
  BY DEF IndInv, DraftsFunded
<1>2. draft[c].change + min_fee(SignedSize[c], NODE_FEE_RATE) <= cells[draft[c].input]
  BY DEF NodeAccepts
<1>3. draft[c].change \in Nat
  BY DEF IndInv, TypeOK, Draft
<1>4. fee(c) \in Nat /\ min_fee(SignedSize[c], NODE_FEE_RATE) \in Nat
  BY FeeType
<1> QED
  BY <1>1, <1>2, <1>3, <1>4 DEF FeeCovers

\* An accepted transaction turns the cell it spends into the change and the
\* fee: what the unspent cells hold falls by the fee.
LEMMA LandStep ==
    ASSUME IndInv, NEW c \in Client, NEW d, d = draft[c], d # NoDraft, NodeAccepts(c, d),
           cells' = Append(cells, d.change),
           spent' = spent \cup {d.input},
           landed' = landed \cup {c}
    PROVE  IsFiniteSet(landed)' /\ PaysFeesOnly'
<1> DEFINE n == Len(cells) + 1
           live == DOMAIN cells \ spent
           kept == live \ {d.input}
           fees == [e \in Client |-> fee(e)]
<1>1. /\ TypeOK /\ cells \in Seq(Nat) /\ n \in Nat
      /\ d.input \in live /\ d.change \in Nat
      /\ d.change + fee(c) = cells[d.input]
      /\ c \notin landed /\ landed \subseteq Client
  BY DEF IndInv, TypeOK, Draft, DraftsFunded, NodeAccepts
<1>2. /\ DOMAIN cells' = DOMAIN cells \cup {n}
      /\ cells'[n] = d.change
      /\ \A i \in DOMAIN cells : cells'[i] = cells[i] /\ cells[i] \in Nat
      /\ n \notin DOMAIN cells
  BY <1>1
<1>3. (DOMAIN cells \ spent)' = kept \cup {n} /\ n \notin kept
  BY <1>1, <1>2 DEF IndInv, TypeOK
<1>4. IsFiniteSet(live) /\ IsFiniteSet(kept)
  BY <1>1, CellsFinite
<1>5. SumFunctionOnSet(cells, live) = cells[d.input] + SumFunctionOnSet(cells, kept)
  <2>1. \A i \in live : cells[i] \in Int
    BY <1>2
  <2>2. d.input \in live /\ IsFiniteSet(live)
    BY <1>1, <1>4
  <2> HIDE DEF live
  <2> QED
    BY <2>1, <2>2, SumRemove
<1>6. SumFunctionOnSet(cells', kept \cup {n}) = SumFunctionOnSet(cells', kept) + d.change
  <2>1. \A i \in kept \cup {n} : cells'[i] \in Int
    BY <1>1, <1>2
  <2> HIDE DEF kept, n
  <2>2. SumFunctionOnSet(cells', kept \cup {n}) = SumFunctionOnSet(cells', kept) + cells'[n]
    BY <1>3, <1>4, <2>1, SumAdd
  <2> QED
    BY <1>2, <2>2
<1>7. SumFunctionOnSet(cells', kept) = SumFunctionOnSet(cells, kept)
  <2>1. \A i \in kept : cells'[i] = cells[i]
    BY <1>2
  <2> HIDE DEF kept
  <2> QED
    BY <1>4, <2>1, SumEqual
<1>8. IsFiniteSet(landed) /\ IsFiniteSet(landed')
  BY FS_AddElement DEF IndInv
<1>9. SumFunctionOnSet(fees, landed') = SumFunctionOnSet(fees, landed) + fee(c)
  <2>1. \A e \in Client : fees[e] = fee(e) /\ fees[e] \in Int
    BY FeeType
  <2>2. \A e \in landed \cup {c} : fees[e] \in Int
    BY <1>1, <2>1
  <2> HIDE DEF fees
  <2>3. SumFunctionOnSet(fees, landed \cup {c}) = SumFunctionOnSet(fees, landed) + fees[c]
    BY <1>1, <1>8, <2>2, SumAdd
  <2> QED
    BY <2>1, <2>3
<1>10. /\ SumFunctionOnSet(cells, kept) \in Int
       /\ SumFunctionOnSet(fees, landed) \in Int
       /\ fee(c) \in Int /\ d.change \in Int /\ cells[d.input] \in Int
  <2>1. SumFunctionOnSet(cells, kept) \in Int
    BY <1>2, <1>4, SumType
  <2>2. \A e \in landed : fees[e] \in Int
    BY <1>1, FeeType
  <2>3. SumFunctionOnSet(fees, landed) \in Int
    BY <1>8, <2>2, SumType
  <2> QED
    BY <1>1, <1>2, <2>1, <2>3, FeeType
<1>11. SumFunctionOnSet(cells, live) + SumFunctionOnSet(fees, landed)
            = SumFunctionOnSet(FeeCells, DOMAIN FeeCells)
  BY DEF IndInv, PaysFeesOnly
<1> HIDE DEF live, kept, fees, n
<1>12. SumFunctionOnSet(cells', kept \cup {n}) + SumFunctionOnSet(fees, landed')
            = SumFunctionOnSet(FeeCells, DOMAIN FeeCells)
  <2> DEFINE k == SumFunctionOnSet(cells, kept)
             s == SumFunctionOnSet(fees, landed)
             t == SumFunctionOnSet(FeeCells, DOMAIN FeeCells)
  <2>1. k \in Int /\ s \in Int /\ fee(c) \in Int /\ d.change \in Int
    BY <1>10
  <2>2. d.change + fee(c) + k + s = t
    BY <1>1, <1>5, <1>11
  <2>3. SumFunctionOnSet(cells', kept \cup {n}) = k + d.change
    BY <1>6, <1>7
  <2>4. SumFunctionOnSet(fees, landed') = s + fee(c)
    BY <1>9
  <2> HIDE DEF k, s, t
  <2>5. (k + d.change) + (s + fee(c)) = t
    BY <2>1, <2>2
  <2> QED
    BY <2>3, <2>4, <2>5 DEF t
<1> QED
  BY <1>3, <1>8, <1>12 DEF PaysFeesOnly, fees

\* A broadcast, refused or accepted, answered or not.
LEMMA BroadcastStep ==
    ASSUME IndInv, NEW c \in Client, broadcast(c)
    PROVE  IndInv'
<1> DEFINE d == draft[c]
<1>1. /\ draft' = [draft EXCEPT ![c] = NoDraft] /\ d # NoDraft
      /\ UNCHANGED gate
  BY DEF broadcast
<1>2. /\ draft' \in [Client -> {NoDraft} \cup Draft]
      /\ \A e \in Client : draft'[e] # NoDraft => draft'[e] = draft[e]
  BY <1>1 DEF IndInv, TypeOK
<1>3. LandedCovered'
  <2>1. landed' = landed \/ (landed' = landed \cup {c} /\ NodeAccepts(c, d))
    BY DEF broadcast, node
  <2>2. NodeAccepts(c, d) => FeeCovers(c)
    BY <1>1, AcceptedCovered
  <2> QED
    BY <2>1, <2>2 DEF IndInv, LandedCovered, FeeCovers
<1>4. CASE UNCHANGED <<node, done, lost>>
  <2>1. TypeOK'
    BY <1>1, <1>2, <1>4 DEF IndInv, TypeOK, node, gate
  <2>2. DraftsFunded'
    BY <1>2, <1>4 DEF IndInv, DraftsFunded, node
  <2>3. IsFiniteSet(landed)' /\ PaysFeesOnly'
    BY <1>4 DEF IndInv, PaysFeesOnly, node
  <2> QED
    BY <1>3, <2>1, <2>2, <2>3 DEF IndInv
<1>5. CASE /\ NodeAccepts(c, d)
           /\ cells' = Append(cells, d.change)
           /\ spent' = spent \cup {d.input}
           /\ pool' = Append(pool, [input |-> d.input, change |-> Len(cells) + 1])
           /\ landed' = landed \cup {c}
           /\ UNCHANGED listed
           /\ \/ done' = done \cup {c} /\ UNCHANGED lost
              \/ lost < MAX_LOST /\ lost' = lost + 1 /\ UNCHANGED done
  <2>1. /\ cells \in Seq(Nat) /\ d.change \in Nat /\ d.input \in DOMAIN cells
        /\ cells' \in Seq(Nat)
        /\ DOMAIN cells' = DOMAIN cells \cup {Len(cells) + 1}
        /\ \A i \in DOMAIN cells : cells'[i] = cells[i]
    <3>1. cells \in Seq(Nat) /\ d \in Draft /\ d.input \in DOMAIN cells
      BY <1>1 DEF IndInv, TypeOK, DraftsFunded
    <3>2. d.change \in Nat
      BY <3>1 DEF Draft
    <3> HIDE DEF d
    <3> QED
      BY <1>5, <3>1, <3>2
  <2>2. pool' \in Seq([input : spent', change : DOMAIN cells'])
    <3>1. pool \in Seq([input : spent', change : DOMAIN cells'])
      <4>1. [input : spent, change : DOMAIN cells]
                \subseteq [input : spent', change : DOMAIN cells']
        BY <1>5, <2>1
      <4>2. pool \in Seq([input : spent, change : DOMAIN cells])
        BY DEF IndInv, TypeOK
      <4> QED
        BY <4>1, <4>2, SeqOfSubset
    <3>2. [input |-> d.input, change |-> Len(cells) + 1]
              \in [input : spent', change : DOMAIN cells']
      BY <1>5, <2>1
    <3> QED
      BY <1>5, <3>1, <3>2
  <2>3. lost' \in 0 .. MAX_LOST
    <3>1. lost' = lost \/ (lost < MAX_LOST /\ lost' = lost + 1)
      BY <1>5
    <3>2. lost \in 0 .. MAX_LOST
      BY DEF IndInv, TypeOK
    <3>3. MAX_LOST \in Nat
      BY PaymasterAssumption
    <3> QED
      BY <3>1, <3>2, <3>3
  <2>4. TypeOK'
    BY <1>1, <1>2, <1>5, <2>1, <2>2, <2>3 DEF IndInv, TypeOK, gate
  <2>5. DraftsFunded'
    BY <1>2, <2>1 DEF IndInv, DraftsFunded
  <2>6. IsFiniteSet(landed)' /\ PaysFeesOnly'
    BY <1>1, <1>5, LandStep
  <2> QED
    BY <1>3, <2>4, <2>5, <2>6 DEF IndInv
<1> QED
  BY <1>4, <1>5 DEF broadcast

\* A block takes the oldest transaction of the pool.
LEMMA CommitStep ==
    ASSUME IndInv, Commit
    PROVE  IndInv'
<1>1. /\ pool' \in Seq([input : spent, change : DOMAIN cells])
      /\ Head(pool) \in [input : spent, change : DOMAIN cells]
  <2> DEFINE Entry == [input : spent, change : DOMAIN cells]
  <2>1. pool \in Seq(Entry) /\ pool # << >> /\ pool' = Tail(pool)
    BY DEF Commit, IndInv, TypeOK
  <2> HIDE DEF Entry
  <2>2. pool' \in Seq(Entry) /\ Head(pool) \in Entry
    BY <2>1
  <2> QED
    BY <2>2 DEF Entry
<1>2. listed' \subseteq DOMAIN cells
  BY <1>1 DEF Commit, IndInv, TypeOK
<1>3. TypeOK'
  BY <1>1, <1>2 DEF Commit, IndInv, TypeOK, gate
<1>4. UNCHANGED <<cells, spent, landed, draft>>
  BY DEF Commit
<1> QED
  BY <1>3, <1>4, SameDrafts DEF IndInv

-----------------------------------------------------------------------------
\* The invariant the theorems below rest on: no step of a holder, of the
\* service, of a client or of the chain leaves it.
THEOREM Inductive == Spec => []IndInv
<1>1. IndInv /\ [Next]_vars => IndInv'
  <2> SUFFICES ASSUME IndInv, [Next]_vars PROVE IndInv'
    OBVIOUS
  <2>1. ASSUME NEW c \in Client, NEW d \in Client, NEW block \in Attenuation,
               Attenuate(c, d, block)
        PROVE  IndInv'
    BY <2>1, AttenuateStep
  <2>2. ASSUME NEW id \in Client \cup (1 .. blocks), revoke_hex(id) PROVE IndInv'
    BY <2>2, RevokeStep
  <2>3. CASE Tick
    BY <2>3, TickStep
  <2>4. ASSUME NEW c \in Client, sponsor(c) PROVE IndInv'
    BY <2>4, SponsorStep
  <2>5. ASSUME NEW c \in Client, broadcast(c) PROVE IndInv'
    BY <2>5, BroadcastStep
  <2>6. CASE Commit
    BY <2>6, CommitStep
  <2>7. CASE UNCHANGED vars
    <3>1. UNCHANGED <<cells, spent, landed, draft>>
      BY <2>7 DEF vars, node
    <3>2. TypeOK'
      BY <2>7 DEF vars, node, gate, IndInv, TypeOK
    <3> QED
      BY <3>1, <3>2, SameDrafts DEF IndInv
  <2> QED
    BY <2>1, <2>2, <2>3, <2>4, <2>5, <2>6, <2>7 DEF Next
<1> QED
  BY <1>1, InitIndInv, PTL DEF Spec

\* Tokens, cells, pool and drafts keep their layouts, whatever clients,
\* holders, the service and the chain do.
THEOREM TypeCorrect == Spec => []TypeOK
<1>1. IndInv => TypeOK
  BY DEF IndInv
<1> QED
  BY <1>1, Inductive, PTL

\* BiscuitGate lets through nothing the reference gate would not on what was
\* issued, whatever facts and checks holders append, and reads back what was
\* issued; on a token as issued the two agree.
THEOREM GateKeepsContract == Spec => []GatesAgree
<1>1. IndInv => GatesAgree
  BY OneContract DEF IndInv, GatesAgree
<1> QED
  BY <1>1, Inductive, PTL

\* A balanced transaction of the service stays acceptable to the node for as
\* long as its cell is unspent if its fee, sized before signing, covers what it
\* weighs signed; if not it never gets through.
THEOREM CoveredDraftsPay == Spec => []DraftsPay
<1>1. IndInv => DraftsPay
  <2> SUFFICES ASSUME IndInv, NEW c \in Client
               PROVE  /\ draft[c] # NoDraft /\ c \notin landed /\ draft[c].input \notin spent
                            /\ FeeCovers(c) => NodeAccepts(c, draft[c])
                      /\ ~ FeeCovers(c) => c \notin landed
    BY DEF DraftsPay
  <2>1. draft[c] # NoDraft /\ c \notin landed /\ draft[c].input \notin spent /\ FeeCovers(c)
            => NodeAccepts(c, draft[c])
    BY FundedAccepted
  <2>2. ~ FeeCovers(c) => c \notin landed
    BY DEF IndInv, LandedCovered
  <2> QED
    BY <2>1, <2>2
<1> QED
  BY <1>1, Inductive, PTL

\* The relayer parts with the fees of the transactions that went through, for
\* any number of clients, cells, retries and lost answers.
THEOREM RelayerPaysFees == Spec => []PaysFeesOnly
<1>1. IndInv => PaysFeesOnly
  BY DEF IndInv
<1> QED
  BY <1>1, Inductive, PTL
=============================================================================
