------------------------- MODULE SessionLockProofs -------------------------
(***************************************************************************)
(* Theorems about the session lock.                                        *)
(*                                                                         *)
(* Account, for any keys, scripts, policies, accounts and number of cells: *)
(* type correctness, that a revocation written on a cell holds on every    *)
(* descendant, that scoped sessions stay in scope, and that a session      *)
(* takes no more than its cap out of an account at once.                   *)
(*                                                                         *)
(* PolicyTree, for lists of any length: a proof is accepted of what is on  *)
(* the list and of nothing else.                                           *)
(*                                                                         *)
(* SessionWitness, for any keys, accounts, lists, outputs and lengths of   *)
(* keys and signatures: who has signed what is accepted, where it may go,  *)
(* and that a witness made as the SDK documents is accepted.               *)
(***************************************************************************)
EXTENDS Account, SessionWitness, DataLemmas, SequenceTheorems

\* The epoch read from any data is a natural number.
LEMMA EpochType ==
    ASSUME NEW d \in Data
    PROVE  current_revocation_epoch(d) \in Nat
BY AccountAssumption DEF current_revocation_epoch, DataLayout

\* The highest element of a one-element set of numbers is that element.
LEMMA MaxOfOne ==
    ASSUME NEW n \in Nat
    PROVE  Max({n}) = n
BY DEF Max

\* One input in the group: its floor is the floor the outputs inherit.
LEMMA InheritedFloor ==
    ASSUME TypeOK, NEW ins \in Groups, NEW s \in ins, OneGroupInput(ins)
    PROVE  /\ s \in DOMAIN cell
           /\ Max({cell[t].floor : t \in ins}) = cell[s].floor
<1>1. s \in DOMAIN cell
  BY DEF Groups
<1>2. {cell[t].floor : t \in ins} = {cell[s].floor}
  BY DEF OneGroupInput
<1>3. cell[s].floor \in Nat
  BY <1>1 DEF TypeOK, AccountCell
<1> QED
  BY <1>1, <1>2, <1>3, MaxOfOne

\* Well-typed entries make `cell` well typed.
LEMMA CellsType ==
    ASSUME TypeOK, NEW S \in SUBSET Slot,
           cell' = [x \in DOMAIN cell' |-> cell'[x]],
           DOMAIN cell' \subseteq DOMAIN cell \cup S,
           \A x \in S : cell'[x] \in AccountCell,
           \A x \in DOMAIN cell' \ S : cell'[x] = cell[x]
    PROVE  DOMAIN cell' \subseteq Slot /\ cell' \in [DOMAIN cell' -> AccountCell]
<1>1. DOMAIN cell' \subseteq Slot
  BY DEF TypeOK
<1>2. \A x \in DOMAIN cell' : cell'[x] \in AccountCell
  BY DEF TypeOK
<1> QED
  BY <1>1, <1>2

\* The empty chain satisfies the inductive invariant.
LEMMA InitIndInv == Init => IndInv
<1> SUFFICES ASSUME Init PROVE IndInv
  OBVIOUS
<1>1. DOMAIN cell = {}
  BY DEF Init
<1>2. TypeOK
  BY <1>1, AccountAssumption DEF Init, TypeOK
<1>3. FloorKept /\ Confined
  BY <1>1 DEF Init, FloorKept, Confined
<1> QED
  BY <1>2, <1>3 DEF IndInv

\* A deposit.
LEMMA DepositStep ==
    ASSUME IndInv, NEW x \in Slot, NEW o \in Output, Deposit(x, o)
    PROVE  IndInv'
<1> DEFINE outs == [y \in {x} |-> o]
           zero == [y \in {x} |-> 0]
<1>1. cell' = Replace(cell, {}, outs, zero)
  BY DEF Deposit
<1>2. /\ {x} \subseteq Slot
      /\ DOMAIN outs = {x}
      /\ \A y \in {x} : outs[y] = o /\ zero[y] = 0
  OBVIOUS
<1> HIDE DEF outs, zero
<1>3. /\ cell' = [y \in DOMAIN cell' |-> cell'[y]]
      /\ DOMAIN cell' = DOMAIN cell \cup {x}
      /\ cell'[x] = [args |-> o.args, data |-> o.data, cap |-> o.cap, floor |-> 0]
      /\ \A y \in DOMAIN cell' \ {x} : cell'[y] = cell[y]
  BY <1>1, <1>2 DEF Replace
<1>a. cell'[x] \in AccountCell
  BY <1>3 DEF Output, AccountCell
<1>b. DOMAIN cell' \subseteq Slot /\ cell' \in [DOMAIN cell' -> AccountCell]
  BY <1>2, <1>3, <1>a, CellsType DEF IndInv
<1>4. TypeOK'
  BY <1>b DEF Deposit, IndInv, TypeOK
<1>5. FloorKept'
  <2> SUFFICES ASSUME NEW y \in DOMAIN cell'
               PROVE  cell'[y].floor <= current_revocation_epoch(cell'[y].data)
    BY DEF FloorKept
  <2>1. cell'[y].data \in Data
    BY <1>b DEF AccountCell
  <2>2. y = x => cell'[y].floor = 0
    BY <1>3
  <2> QED
    BY <1>3, <2>1, <2>2, EpochType DEF IndInv, FloorKept
<1>6. Confined'
  BY DEF Deposit, IndInv, Confined, SessionsOf
<1> QED
  BY <1>4, <1>5, <1>6 DEF IndInv

\* An authorization by the owner.
LEMMA AuthorizeStep ==
    ASSUME IndInv, NEW s \in DOMAIN cell, NEW session \in Params, Authorize(s, session)
    PROVE  IndInv'
<1>1. cell[s] \in AccountCell
  BY DEF IndInv, TypeOK
<1>2. session_auth_message(cell[s].args, current_revocation_epoch(cell[s].data), session)
        \in Authorization
  BY <1>1, EpochType DEF AccountCell, session_auth_message, Authorization
<1>3. TypeOK'
  BY <1>2 DEF Authorize, IndInv, TypeOK
<1>4. FloorKept'
  BY DEF Authorize, IndInv, FloorKept
<1>5. \A a \in Args : SessionsOf(a) \subseteq SessionsOf(a)'
  BY DEF SessionsOf, Authorize
<1>6. Confined'
  BY <1>5 DEF Authorize, IndInv, Confined
<1> QED
  BY <1>3, <1>4, <1>6 DEF IndInv

\* A transaction in owner mode.
LEMMA OwnerStep ==
    ASSUME IndInv, NEW ins \in Groups, NEW s \in ins, NEW signers \in Witness,
           NEW S \in SUBSET FreeSlots(ins), NEW outs \in [S -> Output],
           verify_owner(ins, s, signers, outs)
    PROVE  IndInv'
<1> DEFINE floor == [x \in S |-> current_revocation_epoch(outs[x].data)]
<1>1. /\ ins \subseteq DOMAIN cell
      /\ S \subseteq Slot
      /\ DOMAIN outs = S
  BY DEF Groups, FreeSlots, IndInv, TypeOK
<1>2. \A x \in S : outs[x] \in Output /\ current_revocation_epoch(outs[x].data) \in Nat
  BY EpochType DEF Output
<1>3. cell' = Replace(cell, ins, outs, floor) /\ floor \in [S -> Nat]
  BY <1>1, <1>2 DEF verify_owner
<1>4. \A x \in S : floor[x] = current_revocation_epoch(outs[x].data)
  OBVIOUS
<1> HIDE DEF floor
<1>5. /\ cell' = [x \in DOMAIN cell' |-> cell'[x]]
      /\ DOMAIN cell' = (DOMAIN cell \ ins) \cup S
      /\ \A x \in S :
           cell'[x] = [args |-> outs[x].args, data |-> outs[x].data, cap |-> outs[x].cap,
                       floor |-> current_revocation_epoch(outs[x].data)]
      /\ \A x \in DOMAIN cell' \ S : cell'[x] = cell[x]
  BY <1>1, <1>3, <1>4 DEF Replace
<1>a. \A x \in S : cell'[x] \in AccountCell
  BY <1>2, <1>5 DEF Output, AccountCell
<1>b. DOMAIN cell' \subseteq Slot /\ cell' \in [DOMAIN cell' -> AccountCell]
  BY <1>1, <1>5, <1>a, CellsType DEF IndInv
<1>6. written' \in [Args -> SUBSET Nat]
  BY <1>1, <1>2 DEF verify_owner, IndInv, TypeOK
<1>7. TypeOK'
  BY <1>b, <1>6 DEF verify_owner, IndInv, TypeOK
<1>8. FloorKept'
  BY <1>2, <1>5 DEF IndInv, FloorKept
<1>9. Confined'
  BY DEF verify_owner, IndInv, Confined, SessionsOf
<1> QED
  BY <1>7, <1>8, <1>9 DEF IndInv

\* A transaction in session mode.
LEMMA SessionStep ==
    ASSUME IndInv, NEW ins \in Groups, NEW s \in ins, NEW session, NEW signers \in Witness,
           NEW S \in SUBSET FreeSlots(ins), NEW outs \in [S -> Output],
           NEW foreign \in SUBSET Foreign,
           verify_session(ins, s, session, signers, outs, foreign)
    PROVE  IndInv'
<1> DEFINE a == cell[s].args
           floor == [x \in S |-> cell[s].floor]
           made == {[kind |-> "foreign", out |-> o] : o \in foreign}
                     \cup {[kind |-> "account", args |-> outs[x].args] : x \in S}
<1>1. /\ ins \subseteq DOMAIN cell
      /\ S \subseteq Slot
      /\ DOMAIN outs = S
  BY DEF Groups, FreeSlots, IndInv, TypeOK
<1>2. s \in DOMAIN cell /\ Max({cell[t].floor : t \in ins}) = cell[s].floor
  BY InheritedFloor DEF verify_session, IndInv
<1>3. cell[s] \in AccountCell /\ a \in Args /\ cell[s].floor \in Nat
  BY <1>2 DEF IndInv, TypeOK, AccountCell
<1>4. cell' = Replace(cell, ins, outs, floor) /\ floor \in [S -> Nat]
  BY <1>1, <1>2, <1>3 DEF verify_session
<1>5. \A x \in S : outs[x].args = a /\ outs[x].data = cell[s].data
  BY <1>1 DEF verify_session, enforce_account_outputs
<1>6. \A x \in S : floor[x] = cell[s].floor
  OBVIOUS
<1>7. /\ cell' = [x \in DOMAIN cell' |-> cell'[x]]
      /\ DOMAIN cell' = (DOMAIN cell \ ins) \cup S
      /\ \A x \in S :
           cell'[x] = [args |-> a, data |-> cell[s].data, cap |-> outs[x].cap,
                       floor |-> cell[s].floor]
      /\ \A x \in DOMAIN cell' \ S : cell'[x] = cell[x]
  <2> HIDE DEF floor, made, a
  <2> QED
    BY <1>1, <1>4, <1>5, <1>6 DEF Replace
<1>a. \A x \in S : cell'[x] \in AccountCell
  BY <1>3, <1>7 DEF Output, AccountCell
<1>b. DOMAIN cell' \subseteq Slot /\ cell' \in [DOMAIN cell' -> AccountCell]
  BY <1>1, <1>7, <1>a, CellsType DEF IndInv
<1>8. session \in SessionsOf(a) /\ session \in SessionParams
  <2>1. ResolvesTo(cell[s], session)
    BY DEF verify_session
  <2>2. CASE a.model = "registered" /\ session = a.params
    BY <1>3, <2>2, AccountAssumption DEF SessionsOf, ArgsLayout
  <2>3. CASE a.model = "carried" /\ \E m \in auths : Blesses(m, cell[s], session)
    <3>1. PICK m \in auths : Blesses(m, cell[s], session)
      BY <2>3
    <3>2. m.args = a /\ m.params = session
      BY <3>1 DEF Blesses, session_auth_message
    <3>3. session \in Params
      BY <3>2 DEF IndInv, TypeOK, Authorization
    <3>4. session \in SessionsOf(a)
      BY <2>3, <3>2 DEF SessionsOf
    <3> QED
      BY <3>3, <3>4, AccountAssumption
  <2> QED
    BY <2>1, <2>2, <2>3 DEF ResolvesTo
<1>9. reached' = [reached EXCEPT ![a] = reached[a] \cup made]
  BY <1>1, <1>3 DEF verify_session, IndInv, TypeOK
<1>10. made \subseteq Destination
  BY <1>1, <1>3, <1>5 DEF Destination, Output
<1>11. TypeOK'
  <2>1. last' \in [by : {"session"}, args : Args, params : SessionParams, at : 0 .. MAX_TIME]
    BY <1>3, <1>8 DEF verify_session, IndInv, TypeOK
  <2>2. reached' \in [Args -> SUBSET Destination]
    <3> HIDE DEF made
    <3> QED
      BY <1>3, <1>9, <1>10 DEF IndInv, TypeOK
  <2> QED
    BY <1>b, <2>1, <2>2 DEF verify_session, IndInv, TypeOK
<1>12. FloorKept'
  BY <1>2, <1>7 DEF IndInv, FloorKept
<1>13. Confined'
  <2>1. \A b \in Args : SessionsOf(b)' = SessionsOf(b)
    BY DEF SessionsOf, verify_session
  <2> SUFFICES ASSUME NEW b \in Args, \A p \in SessionsOf(b) : ~ p.wildcard,
                      NEW d \in reached'[b]
               PROVE  /\ d.kind = "account" => d.args = b
                      /\ d.kind = "foreign" =>
                           \E p \in SessionsOf(b) :
                               d.out.lock \in p.policies \/ d.out.type \in p.policies
    BY <2>1 DEF Confined
  <2>2. CASE d \in reached[b]
    BY <2>2 DEF IndInv, Confined
  <2>3. CASE d \notin reached[b]
    <3>1. b = a /\ d \in made
      <4> HIDE DEF made
      <4> QED
        BY <1>3, <1>9, <2>3 DEF IndInv, TypeOK
    <3>2. check_output_policies(session, foreign)
      BY <1>8, <3>1 DEF verify_session
    <3>3. CASE d \in {[kind |-> "foreign", out |-> o] : o \in foreign}
      <4>1. PICK o \in foreign : d = [kind |-> "foreign", out |-> o]
        BY <3>3
      <4>2. o.lock \in session.policies \/ o.type \in session.policies
        BY <3>2 DEF check_output_policies
      <4>3. d.kind = "foreign" /\ d.out = o
        BY <4>1
      <4> QED
        BY <1>8, <3>1, <4>2, <4>3
    <3>4. CASE d \in {[kind |-> "account", args |-> outs[x].args] : x \in S}
      BY <1>5, <3>1, <3>4
    <3> QED
      BY <3>1, <3>3, <3>4
  <2> QED
    BY <2>2, <2>3
<1> QED
  BY <1>11, <1>12, <1>13 DEF IndInv

\* Time passing.
LEMMA TickStep ==
    ASSUME IndInv, Tick
    PROVE  IndInv'
<1>1. TypeOK'
  BY AccountAssumption DEF Tick, IndInv, TypeOK
<1>2. FloorKept' /\ Confined'
  BY DEF Tick, IndInv, FloorKept, Confined, SessionsOf
<1> QED
  BY <1>1, <1>2 DEF IndInv

\* Every step preserves the inductive invariant.
LEMMA NextIndInv == IndInv /\ [Next]_vars => IndInv'
<1> SUFFICES ASSUME IndInv, [Next]_vars PROVE IndInv'
  OBVIOUS
<1>1. CASE \E x \in Slot : \E o \in Output : Deposit(x, o)
  BY <1>1, DepositStep
<1>2. CASE \E s \in DOMAIN cell : \E session \in Params : Authorize(s, session)
  BY <1>2, AuthorizeStep
<1>3. CASE OwnerTx
  BY <1>3, OwnerStep DEF OwnerTx
<1>4. CASE SessionTx
  BY <1>4, SessionStep DEF SessionTx
<1>5. CASE Tick
  BY <1>5, TickStep
<1>6. CASE UNCHANGED vars
  BY <1>6 DEF vars, IndInv, TypeOK, FloorKept, Confined, SessionsOf
<1> QED
  BY <1>1, <1>2, <1>3, <1>4, <1>5, <1>6 DEF Next

\* In every reachable state the cells carry at least the epoch their owner
\* wrote, and scoped accounts have reached only what their sessions list.
THEOREM AccountInductive == Spec => []IndInv
<1>1. Init => IndInv
  BY InitIndInv
<1>2. IndInv /\ [Next]_vars => IndInv'
  BY NextIndInv
<1> QED
  BY <1>1, <1>2, PTL DEF Spec

\* Type correctness.
THEOREM AccountTypeOK == Spec => []TypeOK
<1>1. IndInv => TypeOK
  BY DEF IndInv
<1> QED
  BY <1>1, AccountInductive, PTL

\* A revoked authorization unlocks no descendant of the cell the owner wrote
\* the higher epoch on: enforce_account_outputs and the one-input rule keep
\* the epoch on every path a session can take.
THEOREM AccountRevocationSticks == Spec => []RevocationSticks
<1>1. IndInv => RevocationSticks
  <2> SUFFICES ASSUME IndInv, NEW s \in DOMAIN cell, NEW m \in auths,
                      m.epoch < cell[s].floor, Blesses(m, cell[s], m.params)
               PROVE  FALSE
    BY DEF RevocationSticks
  <2>1. m.epoch = current_revocation_epoch(cell[s].data)
    BY DEF Blesses, session_auth_message
  <2>2. cell[s].floor <= m.epoch
    BY <2>1 DEF IndInv, FloorKept
  <2>3. m.epoch \in Nat /\ cell[s].floor \in Nat
    BY DEF IndInv, TypeOK, Authorization, AccountCell
  <2> QED
    BY <2>2, <2>3
<1> QED
  BY <1>1, AccountInductive, PTL

\* Value an account's scoped sessions moved lies under scripts they list or
\* under the account's own lock.
THEOREM AccountConfined == Spec => []Confined
<1>1. IndInv => Confined
  BY DEF IndInv
<1> QED
  BY <1>1, AccountInductive, PTL

-----------------------------------------------------------------------------
(***************************************************************************)
(* What a session takes.                                                   *)
(***************************************************************************)
\* The cells of account a.
Holding(cells, a) == {x \in DOMAIN cells : cells[x].args = a}

\* The worth of cells is the sum of f, whenever f gives their capacities.
LEMMA CapacitySum ==
    ASSUME NEW cs, NEW f, IsFiniteSet(DOMAIN cs), \A x \in DOMAIN cs : f[x] = cs[x].cap
    PROVE  CapacityOf(cs) = SumFunctionOnSet(f, DOMAIN cs)
<1> DEFINE g == [x \in DOMAIN cs |-> cs[x].cap]
<1>1. DOMAIN g = DOMAIN cs /\ \A x \in DOMAIN cs : g[x] = f[x]
  OBVIOUS
<1>2. CapacityOf(cs) = SumFunctionOnSet(g, DOMAIN cs)
  BY DEF CapacityOf, SumFunction
<1> HIDE DEF g
<1>3. SumFunctionOnSet(g, DOMAIN cs) = SumFunctionOnSet(f, DOMAIN cs)
  BY <1>1, SumEqual
<1> QED
  BY <1>2, <1>3

\* What an account holds, as such a sum.
LEMMA WorthSum ==
    ASSUME NEW cells, NEW a, NEW f, IsFiniteSet(DOMAIN cells),
           \A x \in Holding(cells, a) : f[x] = cells[x].cap
    PROVE  Worth(cells, a) = SumFunctionOnSet(f, Holding(cells, a))
<1> DEFINE H == Holding(cells, a)
           cs == [s \in H |-> cells[s]]
<1>1. IsFiniteSet(H)
  BY FS_Subset DEF Holding
<1>2. DOMAIN cs = H /\ \A x \in H : cs[x] = cells[x]
  OBVIOUS
<1>3. Worth(cells, a) = CapacityOf(cs)
  BY DEF Worth, Holding
<1> HIDE DEF H, cs
<1>4. CapacityOf(cs) = SumFunctionOnSet(f, DOMAIN cs)
  <2>1. \A x \in DOMAIN cs : f[x] = cs[x].cap
    BY <1>2 DEF H
  <2> QED
    BY <1>1, <1>2, <2>1, CapacitySum
<1> QED
  BY <1>2, <1>3, <1>4 DEF H

\* check_spend_cap compares the one input with the outputs under the same lock;
\* the account's other cells stay, so it bounds what the account loses.
LEMMA SessionOutflow ==
    ASSUME TypeOK, NEW ins \in Groups, NEW s \in ins, NEW session, NEW signers \in Witness,
           NEW S \in SUBSET FreeSlots(ins), NEW outs \in [S -> Output],
           NEW foreign \in SUBSET Foreign,
           verify_session(ins, s, session, signers, outs, foreign),
           last'.params.spend_cap # UNLIMITED, last'.params.spend_cap \in Nat
    PROVE  Worth(cell, last'.args) <= Worth(cell', last'.args) + last'.params.spend_cap
<1> DEFINE a == cell[s].args
           cap == session.spend_cap
           others == Holding(cell, a) \ {s}
           floor == [x \in DOMAIN outs |-> Max({cell[t].floor : t \in ins})]
           f == [x \in Slot |-> IF x \in DOMAIN cell THEN cell[x].cap ELSE 0]
           g == [x \in Slot |-> IF x \in S THEN outs[x].cap ELSE f[x]]
<1>1. last'.args = a /\ last'.params = session
  BY DEF verify_session
<1>2. ins = {s} /\ s \in DOMAIN cell /\ S \subseteq (Slot \ DOMAIN cell) \cup {s}
  BY DEF verify_session, OneGroupInput, Groups, FreeSlots
<1>3. /\ DOMAIN outs = S /\ \A x \in S : outs[x] \in Output /\ outs[x].args = a
      /\ \A x \in S : outs[x].cap \in Nat
  <2>1. DOMAIN outs = S /\ \A x \in S : outs[x] \in Output /\ outs[x].args = a
    BY DEF verify_session, enforce_account_outputs
  <2> QED
    BY <2>1, AccountAssumption DEF Output
<1>4. cell' = Replace(cell, ins, outs, floor)
  BY DEF verify_session
<1> HIDE DEF floor
<1>5. /\ DOMAIN cell' = (DOMAIN cell \ {s}) \cup S
      /\ \A x \in S : cell'[x].args = a /\ cell'[x].cap = outs[x].cap
      /\ \A x \in DOMAIN cell' \ S : cell'[x] = cell[x]
  BY <1>2, <1>3, <1>4 DEF Replace
<1>6. /\ DOMAIN cell \subseteq Slot /\ S \subseteq Slot
      /\ \A x \in DOMAIN cell : cell[x].cap \in Nat
  <2>1. \A x \in DOMAIN cell : cell[x] \in AccountCell
    BY DEF TypeOK
  <2> QED
    BY <1>2, <2>1, AccountAssumption DEF TypeOK, AccountCell
<1>7. /\ \A x \in Slot : f[x] \in Nat /\ g[x] \in Nat
      /\ \A x \in DOMAIN cell : f[x] = cell[x].cap
      /\ \A x \in S : g[x] = outs[x].cap
      /\ \A x \in Slot \ S : g[x] = f[x]
  BY <1>3, <1>6
<1> HIDE DEF f, g
<1>8. /\ Holding(cell, a) = others \cup {s} /\ s \in Holding(cell, a)
      /\ Holding(cell', a) = others \cup S
      /\ others \cap S = {} /\ others \subseteq DOMAIN cell
  <2>1. others \cap S = {} /\ others \subseteq DOMAIN cell /\ s \in Holding(cell, a)
    BY <1>2 DEF Holding
  <2>2. \A x \in others : x \in DOMAIN cell' /\ cell'[x].args = a
    BY <1>5, <2>1 DEF Holding
  <2>3. \A x \in DOMAIN cell' : cell'[x].args = a => x \in others \cup S
    BY <1>5 DEF Holding
  <2>4. Holding(cell', a) = others \cup S
    BY <1>5, <2>2, <2>3 DEF Holding
  <2> QED
    BY <2>1, <2>4
<1> HIDE DEF others
<1>9. /\ IsFiniteSet(Slot) /\ IsFiniteSet(DOMAIN cell) /\ IsFiniteSet(DOMAIN cell')
      /\ IsFiniteSet(others) /\ IsFiniteSet(S) /\ IsFiniteSet(Holding(cell, a))
  <2>1. /\ DOMAIN cell' \subseteq Slot /\ others \subseteq Slot
        /\ Holding(cell, a) \subseteq Slot
    BY <1>5, <1>6, <1>8 DEF Holding
  <2> QED
    BY <1>6, <2>1, AccountAssumption, FS_Subset
<1>10. Worth(cell, a) = SumFunctionOnSet(f, Holding(cell, a))
  <2>1. \A x \in Holding(cell, a) : f[x] = cell[x].cap
    BY <1>7 DEF Holding
  <2> QED
    BY <1>9, <2>1, WorthSum
<1>11. Worth(cell', a) = SumFunctionOnSet(g, Holding(cell', a))
  <2>1. \A x \in Holding(cell', a) : g[x] = cell'[x].cap
    <3>1. \A x \in S : g[x] = cell'[x].cap
      BY <1>5, <1>7
    <3>2. \A x \in others : x \in DOMAIN cell' \ S /\ x \in Slot \ S /\ x \in DOMAIN cell
      BY <1>6, <1>8 DEF Holding
    <3>3. \A x \in others : g[x] = cell'[x].cap
      BY <1>5, <1>7, <3>2
    <3> QED
      BY <1>8, <3>1, <3>3
  <2>2. PICK cells : cells = cell'
    OBVIOUS
  <2>3. /\ IsFiniteSet(DOMAIN cells)
        /\ \A x \in Holding(cells, a) : g[x] = cells[x].cap
    BY <1>9, <2>1, <2>2
  <2>4. Worth(cells, a) = SumFunctionOnSet(g, Holding(cells, a))
    BY <2>3, WorthSum
  <2> QED
    BY <2>2, <2>4
<1>12. SumFunctionOnSet(f, Holding(cell, a)) = SumFunctionOnSet(f, others) + cell[s].cap
  <2>1. s \notin others /\ \A x \in others \cup {s} : f[x] \in Int
    BY <1>2, <1>6, <1>7, <1>8 DEF others
  <2>2. SumFunctionOnSet(f, others \cup {s}) = SumFunctionOnSet(f, others) + f[s]
    BY <1>9, <2>1, SumAdd
  <2> QED
    BY <1>2, <1>7, <1>8, <2>2
<1>13. /\ SumFunctionOnSet(g, Holding(cell', a))
            = SumFunctionOnSet(f, others) + SumFunctionOnSet(g, S)
  <2>1. \A x \in others \cup S : g[x] \in Int
    BY <1>6, <1>7, <1>8
  <2>2. SumFunctionOnSet(g, others \cup S) = SumFunctionOnSet(g, others) + SumFunctionOnSet(g, S)
    BY <1>8, <1>9, <2>1, SumUnion
  <2>3. \A x \in others : g[x] = f[x]
    BY <1>6, <1>7, <1>8
  <2>4. SumFunctionOnSet(g, others) = SumFunctionOnSet(f, others)
    BY <1>9, <2>3, SumEqual
  <2> QED
    BY <1>8, <2>2, <2>4
<1>14. cell[s].cap <= SumFunctionOnSet(g, S) + cap
  <2> DEFINE one == [t \in ins |-> cell[t]]
  <2>1. check_spend_cap(cap, CapacityOf(one), CapacityOf(outs))
    BY DEF verify_session
  <2>2. CapacityOf(outs) = SumFunctionOnSet(g, S)
    BY <1>3, <1>7, <1>9, CapacitySum
  <2>3. CapacityOf(one) = cell[s].cap
    <3>1. DOMAIN one = {s} /\ one[s] = cell[s]
      BY <1>2
    <3> HIDE DEF one
    <3>2. IsFiniteSet({s}) /\ \A x \in DOMAIN one : f[x] = one[x].cap
      BY <1>2, <1>7, <3>1, FS_Singleton
    <3>3. CapacityOf(one) = SumFunctionOnSet(f, {s})
      BY <3>1, <3>2, CapacitySum
    <3>4. SumFunctionOnSet(f, {} \cup {s}) = SumFunctionOnSet(f, {}) + f[s]
      <4>1. IsFiniteSet({}) /\ s \notin {} /\ \A x \in {} \cup {s} : f[x] \in Int
        BY <1>2, <1>6, <1>7, FS_EmptySet
      <4> QED
        BY <4>1, SumAdd
    <3>5. SumFunctionOnSet(f, {}) = 0 /\ {} \cup {s} = {s} /\ f[s] = cell[s].cap
      BY <1>2, <1>7, SumEmpty
    <3>6. cell[s].cap \in Nat
      BY <1>2, <1>6
    <3> QED
      BY <3>3, <3>4, <3>5, <3>6
  <2> HIDE DEF one
  <2> QED
    BY <1>1, <2>1, <2>2, <2>3 DEF check_spend_cap
<1>15. /\ SumFunctionOnSet(f, others) \in Int /\ SumFunctionOnSet(g, S) \in Int
       /\ cell[s].cap \in Nat /\ cap \in Nat
  <2>1. (\A x \in others : f[x] \in Int) /\ (\A x \in S : g[x] \in Int)
    BY <1>6, <1>7, <1>8
  <2> QED
    BY <1>1, <1>2, <1>6, <1>9, <2>1, SumType
<1>16. Worth(cell, a) <= Worth(cell', a) + cap
  <2> HIDE DEF a, cap
  <2> QED
    BY <1>10, <1>11, <1>12, <1>13, <1>14, <1>15
<1> QED
  BY <1>1, <1>16

\* A session's transaction takes no more out of its account than its spend cap,
\* whatever other cells the account has: one group input, and every output under
\* the same lock counted.
THEOREM AccountOutflowBounded == Spec => OutflowBounded
<1> DEFINE Bounded == last'.by = "session" /\ last'.params.spend_cap # UNLIMITED =>
                        Worth(cell, last'.args) <= Worth(cell', last'.args) + last'.params.spend_cap
<1>1. IndInv /\ IndInv' /\ [Next]_vars => [Bounded]_vars
  <2> SUFFICES ASSUME IndInv, IndInv', Next,
                      last'.by = "session", last'.params.spend_cap # UNLIMITED
               PROVE  Worth(cell, last'.args) <= Worth(cell', last'.args) + last'.params.spend_cap
    OBVIOUS
  <2>1. TypeOK /\ TypeOK'
    BY DEF IndInv
  <2>2. last'.params.spend_cap \in Nat
    <3>1. last' \in {NoSession} \cup
            [by : {"session"}, args : Args, params : SessionParams, at : 0 .. MAX_TIME]
      BY <2>1 DEF TypeOK
    <3>2. last' # NoSession
      BY DEF NoSession
    <3>3. last'.params \in SessionParams
      BY <3>1, <3>2
    <3> QED
      BY <3>3 DEF SessionParams
  <2>3. last' # NoSession
    BY DEF NoSession
  <2>4. SessionTx
    BY <2>3 DEF Next, Deposit, Authorize, OwnerTx, verify_owner, Tick
  <2> QED
    BY <2>1, <2>2, <2>4, SessionOutflow DEF SessionTx
<1>2. Spec => [][Bounded]_vars
  BY <1>1, AccountInductive, PTL DEF Spec
<1> QED
  BY <1>2 DEF OutflowBounded

-----------------------------------------------------------------------------
(***************************************************************************)
(* Digests.                                                                *)
(***************************************************************************)
\* A node of some tree: the digest of a script or of a pair.
IsNode(x) == (\E s : x = policy_leaf(s)) \/ \E a, b : x = pair(a, b)

\* What was hashed can be read off the digest.
LEMMA DigestOf ==
    ASSUME NEW p, NEW q, blake2b_256(p) = blake2b_256(q)
    PROVE  p = q
<1>1. blake2b_256(p)[1] = <<"digest", p, 1>> /\ blake2b_256(q)[1] = <<"digest", q, 1>>
  BY DEF blake2b_256
<1>2. <<"digest", p, 1>> = <<"digest", q, 1>>
  BY <1>1
<1> QED
  BY <1>2

\* A digest in a preimage is named by what it is a digest of.
LEMMA NodeOfDigest ==
    ASSUME NEW p
    PROVE  Node(blake2b_256(p)) = p
<1>1. blake2b_256(p)[1] = <<"digest", p, 1>>
  BY DEF blake2b_256
<1>2. <<"digest", p, 1>>[1] = "digest" /\ <<"digest", p, 1>>[2] = p
  OBVIOUS
<1>3. blake2b_256(p)[1][1] = "digest" /\ blake2b_256(p)[1][2] = p
  BY <1>1, <1>2
<1> HIDE DEF blake2b_256
<1> QED
  BY <1>3 DEF Node

\* The zero node is no digest.
LEMMA NodeOfZero == Node(ZERO) = <<"bytes", ZERO>>
<1>1. ZERO[1][1] = "num"
  BY DEF ZERO, Num
<1> QED
  BY <1>1 DEF Node

\* The preimage of a node says whether it is a leaf or a pair.
LEMMA PreimageOfNode ==
    ASSUME NEW x, IsNode(x)
    PROVE  \E p : x = blake2b_256(p) /\ (p[1] = "script" \/ p[1] = "pair")
<1>1. CASE \E s : x = policy_leaf(s)
  <2>1. PICK s : x = policy_leaf(s)
    BY <1>1
  <2>2. <<"script", s>>[1] = "script"
    OBVIOUS
  <2> QED
    BY <2>1, <2>2 DEF policy_leaf
<1>2. CASE \E a, b : x = pair(a, b)
  <2>1. PICK a, b : x = pair(a, b)
    BY <1>2
  <2>2. <<"pair", {Node(a), Node(b)}>>[1] = "pair"
    OBVIOUS
  <2> QED
    BY <2>1, <2>2 DEF pair
<1> QED
  BY <1>1, <1>2 DEF IsNode

\* Two nodes of one name are one node, and no node has the name of the zero node.
LEMMA NodeName ==
    ASSUME NEW x, IsNode(x), NEW y, IsNode(y) \/ y = ZERO, Node(x) = Node(y)
    PROVE  x = y
<1>1. PICK p : x = blake2b_256(p) /\ (p[1] = "script" \/ p[1] = "pair")
  BY PreimageOfNode
<1>2. Node(x) = p
  BY <1>1, NodeOfDigest
<1>3. CASE IsNode(y)
  <2>1. PICK q : y = blake2b_256(q) /\ (q[1] = "script" \/ q[1] = "pair")
    BY <1>3, PreimageOfNode
  <2>2. Node(y) = q
    BY <2>1, NodeOfDigest
  <2> QED
    BY <1>1, <1>2, <2>1, <2>2
<1>4. CASE y = ZERO
  <2>1. p = <<"bytes", ZERO>>
    BY <1>2, <1>4, NodeOfZero
  <2>2. <<"bytes", ZERO>>[1] = "bytes"
    OBVIOUS
  <2> QED
    BY <1>1, <2>1, <2>2
<1> QED
  BY <1>3, <1>4

\* A pair that one finds among nodes was made of those: nodes are sorted before
\* they are hashed, so on which side does not matter.
LEMMA PairOf ==
    ASSUME NEW x, IsNode(x), NEW y,
           NEW c, IsNode(c) \/ c = ZERO, NEW d, IsNode(d) \/ d = ZERO,
           pair(x, y) = pair(c, d)
    PROVE  x = c \/ x = d
<1>1. <<"pair", {Node(x), Node(y)}>> = <<"pair", {Node(c), Node(d)}>>
  BY DigestOf DEF pair
<1>2. {Node(x), Node(y)} = {Node(c), Node(d)}
  BY <1>1
<1>3. Node(x) = Node(c) \/ Node(x) = Node(d)
  BY <1>2
<1> QED
  BY <1>3, NodeName

\* The order of two nodes does not matter.
LEMMA PairSymmetric ==
    ASSUME NEW x, NEW y
    PROVE  pair(x, y) = pair(y, x)
<1>1. {Node(x), Node(y)} = {Node(y), Node(x)}
  OBVIOUS
<1> QED
  BY <1>1 DEF pair

\* A leaf is no pair, and the leaf of a script is no other script's.
LEMMA LeafOf ==
    /\ \A s, a, b : policy_leaf(s) # pair(a, b)
    /\ \A s, t : policy_leaf(s) = policy_leaf(t) => s = t
<1>1. ASSUME NEW s, NEW a, NEW b, policy_leaf(s) = pair(a, b) PROVE FALSE
  <2>1. <<"script", s>> = <<"pair", {Node(a), Node(b)}>>
    BY <1>1, DigestOf DEF policy_leaf, pair
  <2> QED
    BY <2>1
<1>2. ASSUME NEW s, NEW t, policy_leaf(s) = policy_leaf(t) PROVE s = t
  <2>1. <<"script", s>> = <<"script", t>>
    BY <1>2, DigestOf DEF policy_leaf
  <2> QED
    BY <2>1
<1> QED
  BY <1>1, <1>2

\* A node is neither the zero node nor the root of everything.
LEMMA NodeIsDigest ==
    ASSUME NEW x, IsNode(x)
    PROVE  x # ZERO /\ x # WILDCARD_ROOT
<1>1. PICK p : x = blake2b_256(p)
  BY PreimageOfNode
<1>2. x[1] = <<"digest", p, 1>>
  BY <1>1 DEF blake2b_256
<1>3. x[1][1] = "digest"
  BY <1>2
<1>4. ZERO[1][1] = "num" /\ WILDCARD_ROOT[1][1] = "num"
  BY DEF ZERO, WILDCARD_ROOT, Num
<1> QED
  BY <1>3, <1>4

-----------------------------------------------------------------------------
(***************************************************************************)
(* Levels.                                                                 *)
(***************************************************************************)
\* A sequence of nodes.
Nodes(level) == \E X : level \in Seq(X) /\ \A x \in X : IsNode(x)

\* A padded level is twice as long as the next, whose nodes are its pairs.
LEMMA FoldShape ==
    ASSUME NEW level, Nodes(level)
    PROVE  /\ Nodes(fold_level(level))
           /\ Len(Padded(level)) = 2 * Len(fold_level(level))
           /\ Len(fold_level(level)) \in Nat
           /\ Len(level) \in Nat
           /\ Len(Padded(level)) \in {Len(level), Len(level) + 1}
           /\ \A i \in 1 .. Len(level) : Padded(level)[i] = level[i] /\ IsNode(level[i])
           /\ \A i \in 1 .. Len(Padded(level)) : i > Len(level) => Padded(level)[i] = ZERO
           /\ \A i \in 1 .. Len(fold_level(level)) :
                fold_level(level)[i] = pair(Padded(level)[2 * i - 1], Padded(level)[2 * i])
<1>1. PICK X : level \in Seq(X) /\ \A x \in X : IsNode(x)
  BY DEF Nodes
<1> DEFINE p == Padded(level)
           h == Len(p) \div 2
<1>2. /\ p \in Seq(X \cup {ZERO})
      /\ Len(level) \in Nat
      /\ Len(p) = IF Len(level) % 2 = 1 THEN Len(level) + 1 ELSE Len(level)
      /\ \A i \in 1 .. Len(level) : p[i] = level[i]
      /\ \A i \in 1 .. Len(p) : i > Len(level) => p[i] = ZERO
  <2>1. level \in Seq(X \cup {ZERO}) /\ Len(level) \in Nat
    BY <1>1, SeqMonotonic, LenProperties
  <2>2. CASE Len(level) % 2 = 1
    <3>1. p = Append(level, ZERO)
      BY <2>2 DEF Padded
    <3> HIDE DEF p
    <3>2. /\ p \in Seq(X \cup {ZERO})
          /\ Len(p) = Len(level) + 1
          /\ \A i \in 1 .. Len(level) : p[i] = level[i]
          /\ p[Len(level) + 1] = ZERO
      BY <2>1, <3>1, AppendProperties
    <3> QED
      BY <2>1, <2>2, <3>2
  <2>3. CASE Len(level) % 2 # 1
    <3>1. p = level
      BY <2>3 DEF Padded
    <3> HIDE DEF p
    <3> QED
      BY <2>1, <2>3, <3>1
  <2> QED
    BY <2>2, <2>3
<1>3. Len(p) \in Nat /\ Len(p) = 2 * h /\ h \in Nat
  <2> HIDE DEF p, h
  <2>1. PICK n \in Nat : n = Len(level)
    BY <1>2
  <2>2. Len(p) = IF n % 2 = 1 THEN n + 1 ELSE n
    BY <1>2, <2>1
  <2>3. Len(p) \in Nat /\ Len(p) = 2 * (Len(p) \div 2) /\ Len(p) \div 2 \in Nat
    BY <2>2
  <2> QED
    BY <2>3 DEF h
<1>4. fold_level(level) = [i \in 1 .. h |-> pair(p[2 * i - 1], p[2 * i])]
  BY DEF fold_level, Pairs
<1> DEFINE Y == {pair(p[2 * i - 1], p[2 * i]) : i \in 1 .. h}
<1>5. \A y \in Y : IsNode(y)
  BY DEF IsNode
<1> HIDE DEF p, h
<1>6. fold_level(level) \in Seq(Y) /\ Len(fold_level(level)) = h
  <2>1. \A i \in 1 .. h : pair(p[2 * i - 1], p[2 * i]) \in Y
    OBVIOUS
  <2> HIDE DEF Y
  <2>2. fold_level(level) \in [1 .. h -> Y]
    BY <1>4, <2>1
  <2> QED
    BY <1>3, <2>2
<1>7. \A i \in 1 .. h : fold_level(level)[i] = pair(p[2 * i - 1], p[2 * i])
  BY <1>4
<1> HIDE DEF Y
<1>8. Nodes(fold_level(level))
  BY <1>5, <1>6 DEF Nodes
<1>9. \A i \in 1 .. Len(level) : IsNode(level[i])
  BY <1>1, ElementOfSeq
<1> QED
  BY <1>2, <1>3, <1>6, <1>7, <1>8, <1>9 DEF p

\* f is the levels 0 to m over leaves.
IsLevels(f, m, leaves) ==
    f = [n \in 0 .. m |->
            IF n = 0 THEN leaves
            ELSE LET below == f[n - 1]
                 IN  IF Len(below) > 1 THEN fold_level(below) ELSE below]

\* The level over another.
Above(below) == IF Len(below) > 1 THEN fold_level(below) ELSE below

\* The levels over leaves, level by level.
LEMMA LevelsAt ==
    ASSUME NEW leaves, Len(leaves) \in Nat
    PROVE  /\ Levels(leaves)[0] = leaves
           /\ \A n \in 1 .. Len(leaves) : Levels(leaves)[n] = Above(Levels(leaves)[n - 1])
<1> DEFINE S == {m \in 0 .. Len(leaves) : \E f : IsLevels(f, m, leaves)}
<1>1. 0 \in S
  <2> DEFINE f == [n \in 0 .. 0 |-> leaves]
  <2>1. IsLevels(f, 0, leaves)
    BY DEF IsLevels
  <2> QED
    BY <2>1
<1>2. ASSUME NEW m \in 1 .. Len(leaves), m - 1 \in S PROVE m \in S
  <2>1. PICK f : IsLevels(f, m - 1, leaves)
    BY <1>2
  <2> DEFINE g == [n \in 0 .. m |-> IF n = m THEN Above(f[m - 1]) ELSE f[n]]
  <2>2. \A n \in 0 .. m - 1 : g[n] = f[n]
    OBVIOUS
  <2>3. g[m] = Above(f[m - 1])
    OBVIOUS
  <2>4. DOMAIN g = 0 .. m
    OBVIOUS
  <2>a. g = [n \in DOMAIN g |-> g[n]]
    OBVIOUS
  <2> HIDE DEF g
  <2>5. \A n \in 0 .. m - 1 : f[n] = IF n = 0 THEN leaves ELSE Above(f[n - 1])
    BY <2>1 DEF IsLevels, Above
  <2>6. \A n \in 0 .. m : g[n] = IF n = 0 THEN leaves ELSE Above(g[n - 1])
    <3> SUFFICES ASSUME NEW n \in 0 .. m
                 PROVE  g[n] = IF n = 0 THEN leaves ELSE Above(g[n - 1])
      OBVIOUS
    <3>1. CASE n = m
      <4>1. m # 0 /\ m - 1 \in 0 .. m - 1
        OBVIOUS
      <4> QED
        BY <2>2, <2>3, <3>1, <4>1
    <3>2. CASE n # m
      <4>1. n \in 0 .. m - 1 /\ (n # 0 => n - 1 \in 0 .. m - 1)
        BY <3>2
      <4> QED
        BY <2>2, <2>5, <4>1
    <3> QED
      BY <3>1, <3>2
  <2>7. IsLevels(g, m, leaves)
    BY <2>4, <2>a, <2>6 DEF IsLevels, Above
  <2> QED
    BY <2>7
<1> HIDE DEF S
<1>3. Len(leaves) \in S
  <2>1. \A m \in 0 .. Len(leaves) : m \in S
    BY <1>1, <1>2, StepsReach
  <2> QED
    BY <2>1
<1>4. Levels(leaves) = CHOOSE f : IsLevels(f, Len(leaves), leaves)
  BY DEF Levels, IsLevels
<1>5. IsLevels(Levels(leaves), Len(leaves), leaves)
  BY <1>3, <1>4 DEF S
<1>6. PICK L : L = Levels(leaves)
  OBVIOUS
<1>7. \A n \in 0 .. Len(leaves) :
         L[n] = IF n = 0 THEN leaves ELSE Above(L[n - 1])
  BY <1>5, <1>6 DEF IsLevels, Above
<1> QED
  BY <1>6, <1>7

\* Every level is a sequence of nodes; there are fewer of them from level to
\* level until one is left, and never none.
LEMMA LevelShape ==
    ASSUME NEW leaves, Nodes(leaves)
    PROVE  \A n \in 0 .. Len(leaves) :
             /\ Nodes(Levels(leaves)[n])
             /\ Len(Levels(leaves)[n]) \in Nat
             /\ leaves # <<>> => Len(Levels(leaves)[n]) >= 1
             /\ Len(Levels(leaves)[n]) <= 1 \/ Len(Levels(leaves)[n]) <= Len(leaves) - n
<1>1. PICK X : leaves \in Seq(X)
  BY DEF Nodes
<1>2. PICK m \in Nat : m = Len(leaves)
  BY <1>1
<1>3. leaves # <<>> => m >= 1
  BY <1>1, <1>2, EmptySeq
<1> DEFINE L == Levels(leaves)
           S == {n \in 0 .. m :
                   /\ Nodes(L[n])
                   /\ Len(L[n]) \in Nat
                   /\ leaves # <<>> => Len(L[n]) >= 1
                   /\ Len(L[n]) <= 1 \/ Len(L[n]) <= m - n}
<1>4. L[0] = leaves /\ \A n \in 1 .. m : L[n] = Above(L[n - 1])
  BY <1>2, LevelsAt
<1> HIDE DEF L
<1>5. 0 \in S
  BY <1>2, <1>3, <1>4
<1>6. ASSUME NEW k \in 1 .. m, k - 1 \in S PROVE k \in S
  <2>1. PICK below : below = L[k - 1]
    OBVIOUS
  <2>2. L[k] = Above(below)
    BY <1>4, <2>1
  <2>3. /\ Nodes(below) /\ Len(below) \in Nat
        /\ leaves # <<>> => Len(below) >= 1
        /\ Len(below) <= 1 \/ Len(below) <= m - (k - 1)
    BY <1>6, <2>1
  <2>4. CASE Len(below) > 1
    <3>1. L[k] = fold_level(below)
      BY <2>2, <2>4 DEF Above
    <3>2. PICK p : p = Len(Padded(below))
      OBVIOUS
    <3>3. /\ Nodes(L[k]) /\ Len(L[k]) \in Nat
          /\ p = 2 * Len(L[k]) /\ p \in {Len(below), Len(below) + 1}
      BY <2>3, <3>1, <3>2, FoldShape
    <3>4. Len(L[k]) >= 1 /\ Len(L[k]) <= Len(below) - 1
      BY <2>3, <2>4, <3>3
    <3>5. Len(L[k]) <= m - k
      BY <2>3, <2>4, <3>3, <3>4
    <3> QED
      BY <3>3, <3>4, <3>5
  <2>5. CASE ~ Len(below) > 1
    BY <2>2, <2>3, <2>5 DEF Above
  <2> QED
    BY <2>3, <2>4, <2>5
<1> HIDE DEF S
<1>7. \A n \in 0 .. m : n \in S
  BY <1>5, <1>6, StepsReach
<1> QED
  BY <1>2, <1>7 DEF S, L

\* The depth is that of the first level of one node, which stays: the root.
LEMMA DepthShape ==
    ASSUME NEW leaves, Nodes(leaves), leaves # <<>>
    PROVE  /\ Depth(leaves) \in 0 .. Len(leaves)
           /\ Len(leaves) \in Nat
           /\ Len(Levels(leaves)[Depth(leaves)]) = 1
           /\ \A n \in 1 .. Depth(leaves) :
                /\ Len(Levels(leaves)[n - 1]) > 1
                /\ Levels(leaves)[n] = fold_level(Levels(leaves)[n - 1])
           /\ merkle_root(leaves) = Levels(leaves)[Depth(leaves)][1]
<1>1. PICK X : leaves \in Seq(X)
  BY DEF Nodes
<1>2. PICK m \in Nat : m = Len(leaves)
  BY <1>1
<1> DEFINE L == Levels(leaves)
           D == {n \in 0 .. m : Len(L[n]) <= 1}
<1>3. L[0] = leaves /\ \A n \in 1 .. m : L[n] = Above(L[n - 1])
  BY <1>2, LevelsAt
<1>4. \A n \in 0 .. m :
         /\ Len(L[n]) \in Nat /\ Len(L[n]) >= 1
         /\ Len(L[n]) <= 1 \/ Len(L[n]) <= m - n
  BY <1>2, LevelShape
<1>5. Depth(leaves) = Min(D)
  BY <1>2 DEF Depth
<1>r. merkle_root(leaves) = L[m][1]
  BY <1>2 DEF merkle_root
<1> HIDE DEF L
<1>6. m \in D
  <2>1. m \in 0 .. m
    OBVIOUS
  <2>2. Len(L[m]) \in Nat /\ (Len(L[m]) <= 1 \/ Len(L[m]) <= m - m)
    BY <1>4, <2>1
  <2> QED
    BY <2>1, <2>2
<1>7. D \in SUBSET Nat
  OBVIOUS
<1> HIDE DEF D
<1>8. Min(D) \in D /\ \A y \in D : Min(D) <= y
  BY <1>6, <1>7, MinIsLeast
<1>9. PICK d \in D : d = Depth(leaves) /\ \A y \in D : d <= y
  BY <1>5, <1>8
<1>10. d \in 0 .. m /\ Len(L[d]) = 1
  <2>1. d \in 0 .. m /\ Len(L[d]) <= 1
    BY DEF D
  <2>2. PICK k : k = Len(L[d])
    OBVIOUS
  <2>3. k \in Nat /\ k >= 1
    BY <1>4, <2>1, <2>2
  <2>4. k <= 1
    BY <2>1, <2>2
  <2>5. k = 1
    BY <2>3, <2>4
  <2> QED
    BY <2>1, <2>2, <2>5
<1>11. \A n \in 1 .. d : Len(L[n - 1]) > 1 /\ L[n] = fold_level(L[n - 1])
  <2> SUFFICES ASSUME NEW n \in 1 .. d
               PROVE  Len(L[n - 1]) > 1 /\ L[n] = fold_level(L[n - 1])
    OBVIOUS
  <2>1. n - 1 \in 0 .. m /\ n \in 1 .. m /\ ~ d <= n - 1
    BY <1>10
  <2>2. n - 1 \notin D
    BY <1>9, <2>1
  <2>3. Len(L[n - 1]) > 1
    BY <1>4, <2>1, <2>2 DEF D
  <2>4. L[n] = Above(L[n - 1])
    BY <1>3, <2>1
  <2> QED
    BY <2>3, <2>4 DEF Above
<1>12. L[m] = L[d]
  <2> DEFINE S == {k \in 0 .. m - d : L[d + k] = L[d]}
  <2>1. 0 \in S
    BY <1>10
  <2>2. ASSUME NEW k \in 1 .. m - d, k - 1 \in S PROVE k \in S
    <3>1. L[d + (k - 1)] = L[d]
      BY <2>2
    <3>2. d + k \in 1 .. m /\ d + (k - 1) = (d + k) - 1
      BY <1>10
    <3>3. L[d + k] = Above(L[(d + k) - 1])
      BY <1>3, <3>2
    <3>a. ~ Len(L[d]) > 1
      BY <1>10
    <3>b. L[d + k] = Above(L[d])
      BY <3>1, <3>2, <3>3
    <3>4. L[d + k] = L[d]
      BY <3>a, <3>b DEF Above
    <3> QED
      BY <3>4
  <2> HIDE DEF S
  <2>3. m - d \in Nat /\ m - d \in 0 .. m - d
    BY <1>10
  <2>4. \A k \in 0 .. m - d : k \in S
    BY <2>1, <2>2, <2>3, StepsReach
  <2>5. m - d \in S
    BY <2>3, <2>4
  <2>6. L[d + (m - d)] = L[d]
    BY <2>5 DEF S
  <2>7. d + (m - d) = m
    BY <1>10
  <2> QED
    BY <2>6, <2>7
<1> QED
  BY <1>2, <1>9, <1>10, <1>11, <1>12, <1>r DEF L

\* Depth is a number for the empty list too, and its root is the zero node.
LEMMA EmptyTree ==
    /\ merkle_root(<<>>) = ZERO
    /\ Leaves(<<>>) = <<>>
BY DEF merkle_root, Leaves

\* The leaves of a list are nodes, one per script.
LEMMA LeavesAreNodes ==
    ASSUME NEW S, NEW policies \in Seq(S)
    PROVE  /\ Nodes(Leaves(policies))
           /\ Len(Leaves(policies)) = Len(policies)
           /\ Len(policies) \in Nat
           /\ DOMAIN policies = 1 .. Len(policies)
           /\ \A i \in 1 .. Len(policies) : Leaves(policies)[i] = policy_leaf(policies[i])
<1> DEFINE X == {policy_leaf(s) : s \in S}
<1>1. \A x \in X : IsNode(x)
  BY DEF IsNode
<1>2. Len(policies) \in Nat /\ policies \in [1 .. Len(policies) -> S]
  BY LenProperties
<1>3. Leaves(policies) \in [1 .. Len(policies) -> X]
  BY <1>2 DEF Leaves
<1> HIDE DEF X
<1>4. Leaves(policies) \in Seq(X) /\ Len(Leaves(policies)) = Len(policies)
  BY <1>2, <1>3
<1>5. Nodes(Leaves(policies))
  BY <1>1, <1>4 DEF Nodes
<1> QED
  BY <1>2, <1>4, <1>5 DEF Leaves

-----------------------------------------------------------------------------
(***************************************************************************)
(* Proofs of membership.                                                   *)
(***************************************************************************)
\* f is the way from a leaf up, along the siblings of a proof.
Climbs(f, leaf, proof) ==
    /\ f[0] = leaf
    /\ \A n \in 1 .. Len(proof) : f[n] = pair(f[n - 1], proof[n])

\* What merkle_verify compares with the root is the end of that way.
LEMMA VerifyClimbs ==
    ASSUME NEW leaf, NEW proof, Len(proof) \in Nat
    PROVE  \E f : /\ Climbs(f, leaf, proof)
                  /\ \A root : merkle_verify(root, leaf, proof) <=> f[Len(proof)] = root
<1> DEFINE Is(f, m) == f = [n \in 0 .. m |-> IF n = 0 THEN leaf ELSE pair(f[n - 1], proof[n])]
           S == {m \in 0 .. Len(proof) : \E f : Is(f, m)}
<1>1. 0 \in S
  <2> DEFINE f == [n \in 0 .. 0 |-> leaf]
  <2>1. Is(f, 0)
    OBVIOUS
  <2> HIDE DEF Is, f
  <2> QED
    BY <2>1
<1>2. ASSUME NEW m \in 1 .. Len(proof), m - 1 \in S PROVE m \in S
  <2>1. PICK f : Is(f, m - 1)
    BY <1>2
  <2> DEFINE g == [n \in 0 .. m |-> IF n = m THEN pair(f[m - 1], proof[m]) ELSE f[n]]
  <2>2. \A n \in 0 .. m - 1 : g[n] = f[n]
    OBVIOUS
  <2>3. g[m] = pair(f[m - 1], proof[m])
    OBVIOUS
  <2>4. DOMAIN g = 0 .. m /\ g = [n \in DOMAIN g |-> g[n]]
    OBVIOUS
  <2> HIDE DEF g
  <2>5. \A n \in 0 .. m - 1 : f[n] = IF n = 0 THEN leaf ELSE pair(f[n - 1], proof[n])
    BY <2>1
  <2>6. \A n \in 0 .. m : g[n] = IF n = 0 THEN leaf ELSE pair(g[n - 1], proof[n])
    <3> SUFFICES ASSUME NEW n \in 0 .. m
                 PROVE  g[n] = IF n = 0 THEN leaf ELSE pair(g[n - 1], proof[n])
      OBVIOUS
    <3>1. CASE n = m
      <4>1. m # 0 /\ m - 1 \in 0 .. m - 1
        OBVIOUS
      <4> QED
        BY <2>2, <2>3, <3>1, <4>1
    <3>2. CASE n # m
      <4>1. n \in 0 .. m - 1 /\ (n # 0 => n - 1 \in 0 .. m - 1)
        BY <3>2
      <4> QED
        BY <2>2, <2>5, <4>1
    <3> QED
      BY <3>1, <3>2
  <2>7. Is(g, m)
    BY <2>4, <2>6
  <2> QED
    BY <2>7
<1>3. Len(proof) \in S
  <2> HIDE DEF S
  <2>1. \A m \in 0 .. Len(proof) : m \in S
    BY <1>1, <1>2, StepsReach
  <2> QED
    BY <2>1
<1>4. PICK f : f = CHOOSE k : Is(k, Len(proof))
  OBVIOUS
<1>5. Is(f, Len(proof))
  BY <1>3, <1>4
<1>6. Climbs(f, leaf, proof)
  BY <1>5 DEF Climbs
<1>7. \A root : merkle_verify(root, leaf, proof) <=> f[Len(proof)] = root
  BY <1>4 DEF merkle_verify
<1> QED
  BY <1>6, <1>7

\* Every step of that way is a node.
LEMMA ClimbNodes ==
    ASSUME NEW leaf, IsNode(leaf), NEW proof, Len(proof) \in Nat, NEW f, Climbs(f, leaf, proof)
    PROVE  \A n \in 0 .. Len(proof) : IsNode(f[n])
<1> SUFFICES ASSUME NEW n \in 0 .. Len(proof) PROVE IsNode(f[n])
  OBVIOUS
<1>1. CASE n = 0
  BY <1>1 DEF Climbs
<1>2. CASE n # 0
  <2>1. f[n] = pair(f[n - 1], proof[n])
    BY <1>2 DEF Climbs
  <2> QED
    BY <2>1 DEF IsNode
<1> QED
  BY <1>1, <1>2

\* A node of one of the levels that are folded.
Within(x, leaves) ==
    \E n \in 0 .. Depth(leaves) : \E i \in 1 .. Len(Levels(leaves)[n]) : x = Levels(leaves)[n][i]

\* What a node of the tree was made of is in the tree.
LEMMA WithinBelow ==
    ASSUME NEW leaves, Nodes(leaves), leaves # <<>>,
           \A i \in 1 .. Len(leaves) : \E s : leaves[i] = policy_leaf(s),
           NEW x, IsNode(x), NEW y, Within(pair(x, y), leaves)
    PROVE  Within(x, leaves)
<1>1. PICK n \in 0 .. Depth(leaves) : \E i \in 1 .. Len(Levels(leaves)[n]) :
         pair(x, y) = Levels(leaves)[n][i]
  BY DEF Within
<1>i. PICK i \in 1 .. Len(Levels(leaves)[n]) : pair(x, y) = Levels(leaves)[n][i]
  BY <1>1
<1>2. /\ Depth(leaves) \in 0 .. Len(leaves) /\ Len(leaves) \in Nat
      /\ \A k \in 1 .. Depth(leaves) : Levels(leaves)[k] = fold_level(Levels(leaves)[k - 1])
  BY DepthShape
<1>3. n # 0
  <2> SUFFICES ASSUME n = 0 PROVE FALSE
    OBVIOUS
  <2>1. Levels(leaves)[0] = leaves
    BY <1>2, LevelsAt
  <2>2. PICK s : leaves[i] = policy_leaf(s)
    BY <1>i, <2>1
  <2> QED
    BY <1>i, <2>1, <2>2, LeafOf
<1>4. n \in 1 .. Depth(leaves) /\ n - 1 \in 0 .. Depth(leaves) /\ n - 1 \in 0 .. Len(leaves)
  BY <1>2, <1>3
<1>5. PICK below : below = Levels(leaves)[n - 1]
  OBVIOUS
<1>6. Nodes(below)
  BY <1>4, <1>5, LevelShape
<1>7. PICK p : p = Padded(below)
  OBVIOUS
<1>8. PICK l : l = fold_level(below)
  OBVIOUS
<1>9. Levels(leaves)[n] = l
  BY <1>2, <1>4, <1>5, <1>8
<1>10. /\ Len(p) = 2 * Len(l) /\ Len(l) \in Nat /\ Len(below) \in Nat
       /\ \A j \in 1 .. Len(below) : p[j] = below[j] /\ IsNode(below[j])
       /\ \A j \in 1 .. Len(p) : j > Len(below) => p[j] = ZERO
       /\ \A j \in 1 .. Len(l) : l[j] = pair(p[2 * j - 1], p[2 * j])
  BY <1>6, <1>7, <1>8, FoldShape
<1>11. i \in 1 .. Len(l) /\ pair(x, y) = pair(p[2 * i - 1], p[2 * i])
  BY <1>i, <1>9, <1>10
<1>12. 2 * i - 1 \in 1 .. Len(p) /\ 2 * i \in 1 .. Len(p)
  BY <1>10, <1>11
<1>13. PICK j \in 1 .. Len(p) : x = p[j]
  <2>1. ASSUME NEW j \in 1 .. Len(p)
        PROVE  IsNode(p[j]) \/ p[j] = ZERO
    <3>1. PICK m \in Nat : m = Len(below)
      BY <1>10
    <3>2. CASE j > m
      BY <1>10, <3>1, <3>2
    <3>3. CASE j <= m
      <4>1. PICK h \in Nat : h = Len(l)
        BY <1>10
      <4>2. Len(p) = 2 * h
        BY <1>10, <4>1
      <4>3. j \in 1 .. m
        BY <3>3, <4>1, <4>2
      <4> QED
        BY <1>10, <3>1, <4>3
    <3>4. j > m \/ j <= m
      <4>1. PICK h \in Nat : h = Len(l)
        BY <1>10
      <4>2. Len(p) = 2 * h
        BY <1>10, <4>1
      <4> QED
        BY <3>1, <4>1, <4>2
    <3> QED
      BY <3>2, <3>3, <3>4
  <2> QED
    <3>1. IsNode(p[2 * i - 1]) \/ p[2 * i - 1] = ZERO
      BY <1>12, <2>1
    <3>2. IsNode(p[2 * i]) \/ p[2 * i] = ZERO
      BY <1>12, <2>1
    <3>3. x = p[2 * i - 1] \/ x = p[2 * i]
      BY <1>11, <3>1, <3>2, PairOf
    <3> QED
      BY <1>12, <3>3
<1>14. j \in 1 .. Len(below) /\ x = below[j]
  BY <1>10, <1>13, NodeIsDigest
<1> QED
  BY <1>4, <1>5, <1>14 DEF Within

\* Soundness of the membership proof: only a script on the list has one, and
\* nothing is proved of the empty list.
THEOREM ProvedIsListed ==
    ASSUME NEW S, NEW policies \in Seq(S), NEW s, NEW proof, Len(proof) \in Nat,
           merkle_verify(merkle_root(Leaves(policies)), policy_leaf(s), proof)
    PROVE  \E i \in DOMAIN policies : policies[i] = s
<1> DEFINE leaves == Leaves(policies)
<1>1. PICK f : /\ Climbs(f, policy_leaf(s), proof)
               /\ f[Len(proof)] = merkle_root(leaves)
  BY VerifyClimbs
<1>2. IsNode(policy_leaf(s))
  BY DEF IsNode
<1>3. \A n \in 0 .. Len(proof) : IsNode(f[n])
  BY <1>1, <1>2, ClimbNodes
<1>4. /\ Nodes(leaves)
      /\ Len(leaves) = Len(policies)
      /\ Len(policies) \in Nat
      /\ DOMAIN policies = 1 .. Len(policies)
      /\ \A i \in 1 .. Len(policies) : leaves[i] = policy_leaf(policies[i])
  BY LeavesAreNodes
<1> HIDE DEF leaves
<1>5. leaves # <<>>
  <2> SUFFICES ASSUME leaves = <<>> PROVE FALSE
    OBVIOUS
  <2>1. IsNode(f[Len(proof)])
    BY <1>3
  <2> QED
    BY <1>1, <2>1, EmptyTree, NodeIsDigest
<1>6. \A i \in 1 .. Len(leaves) : \E t : leaves[i] = policy_leaf(t)
  BY <1>4
<1>7. PICK m \in Nat : m = Len(proof)
  OBVIOUS
<1> DEFINE T == {k \in 0 .. m : Within(f[m - k], leaves)}
<1>8. 0 \in T
  <2>1. /\ Depth(leaves) \in 0 .. Len(leaves) /\ Len(leaves) \in Nat
        /\ Len(Levels(leaves)[Depth(leaves)]) = 1
        /\ merkle_root(leaves) = Levels(leaves)[Depth(leaves)][1]
    BY <1>4, <1>5, DepthShape
  <2>2. Depth(leaves) \in 0 .. Depth(leaves) /\ 1 \in 1 .. Len(Levels(leaves)[Depth(leaves)])
    BY <2>1
  <2>3. Within(f[m], leaves)
    BY <1>1, <1>7, <2>1, <2>2 DEF Within
  <2>4. m - 0 = m
    OBVIOUS
  <2> QED
    BY <2>3, <2>4
<1>9. ASSUME NEW k \in 1 .. m, k - 1 \in T PROVE k \in T
  <2>1. PICK j : j = m - (k - 1)
    OBVIOUS
  <2>2. j \in 1 .. m /\ j - 1 = m - k /\ j - 1 \in 0 .. m
    BY <2>1
  <2>3. Within(f[j], leaves)
    BY <1>9, <2>1
  <2>4. f[j] = pair(f[j - 1], proof[j])
    BY <1>1, <1>7, <2>2 DEF Climbs
  <2>5. IsNode(f[j - 1])
    BY <1>3, <1>7, <2>2
  <2>6. Within(f[j - 1], leaves)
    BY <1>4, <1>5, <1>6, <2>3, <2>4, <2>5, WithinBelow
  <2> QED
    BY <2>2, <2>6
<1> HIDE DEF T
<1>10. m \in T
  <2>1. \A k \in 0 .. m : k \in T
    BY <1>8, <1>9, StepsReach
  <2> QED
    BY <2>1
<1>11. Within(policy_leaf(s), leaves)
  <2>1. Within(f[m - m], leaves) /\ m - m = 0
    BY <1>10 DEF T
  <2> QED
    BY <1>1, <2>1 DEF Climbs
<1>12. PICK n \in 0 .. Depth(leaves) : \E i \in 1 .. Len(Levels(leaves)[n]) :
          policy_leaf(s) = Levels(leaves)[n][i]
  BY <1>11 DEF Within
<1>i. PICK i \in 1 .. Len(Levels(leaves)[n]) : policy_leaf(s) = Levels(leaves)[n][i]
  BY <1>12
<1>13. /\ Depth(leaves) \in 0 .. Len(leaves) /\ Len(leaves) \in Nat
       /\ \A k \in 1 .. Depth(leaves) : Levels(leaves)[k] = fold_level(Levels(leaves)[k - 1])
  BY <1>4, <1>5, DepthShape
<1>14. n = 0
  <2> SUFFICES ASSUME n # 0 PROVE FALSE
    OBVIOUS
  <2>1. n \in 1 .. Depth(leaves) /\ n - 1 \in 0 .. Len(leaves)
    BY <1>13
  <2>2. Nodes(Levels(leaves)[n - 1]) /\ Levels(leaves)[n] = fold_level(Levels(leaves)[n - 1])
    BY <1>4, <1>13, <2>1, LevelShape
  <2>3. PICK a, b : Levels(leaves)[n][i] = pair(a, b)
    BY <1>i, <2>2, FoldShape
  <2> QED
    BY <1>i, <2>3, LeafOf
<1>15. Levels(leaves)[0] = leaves
  BY <1>13, LevelsAt
<1>16. i \in 1 .. Len(policies) /\ policy_leaf(s) = policy_leaf(policies[i])
  BY <1>4, <1>i, <1>14, <1>15
<1> QED
  BY <1>4, <1>16, LeafOf

\* The places on the way from leaf number place up, each half of the one below.
Halves(f, d, place) ==
    /\ f[0] = place
    /\ \A n \in 0 .. d : f[n] \in Nat
    /\ \A n \in 1 .. d : f[n] = f[n - 1] \div 2

\* merkle_proof has one sibling per level below the root, each that of the place
\* reached at its level.
LEMMA ProofAt ==
    ASSUME NEW leaves, NEW place \in Nat, Depth(leaves) \in Nat
    PROVE  \E f : /\ Halves(f, Depth(leaves), place)
                  /\ merkle_proof(leaves, place) =
                       [n \in 1 .. Depth(leaves) |->
                          Padded(Levels(leaves)[n - 1])[Sibling(f[n - 1]) + 1]]
<1> DEFINE d == Depth(leaves)
           Is(f) == f = [n \in 0 .. d |-> IF n = 0 THEN place ELSE f[n - 1] \div 2]
           step == [k \in 1 .. d |-> [x \in Nat |-> x \div 2]]
<1>1. \A k \in 1 .. d : \A x \in Nat : step[k][x] = x \div 2 /\ step[k][x] \in Nat
  OBVIOUS
<1> HIDE DEF d, step
<1>2. d \in Nat
  BY DEF d
<1>3. PICK g : Takes(g, d, Nat, place, step)
  <2>1. \E g : Takes(g, d, Nat, place, step)
    BY <1>1, <1>2, StepsExist
  <2> QED
    BY <2>1
<1>4. Is(g)
  <2>1. /\ g \in [0 .. d -> Nat] /\ g[0] = place
        /\ \A n \in 1 .. d : g[n] = step[n][g[n - 1]]
    BY <1>3 DEF Takes
  <2>2. \A n \in 1 .. d : g[n] = g[n - 1] \div 2
    <3> SUFFICES ASSUME NEW n \in 1 .. d PROVE g[n] = g[n - 1] \div 2
      OBVIOUS
    <3>1. n - 1 \in 0 .. d
      BY <1>2
    <3>2. g[n - 1] \in Nat
      BY <2>1, <3>1
    <3> QED
      BY <1>1, <2>1, <3>2
  <2>3. g = [n \in 0 .. d |-> g[n]]
    BY <2>1
  <2>4. \A n \in 0 .. d : g[n] = IF n = 0 THEN place ELSE g[n - 1] \div 2
    BY <1>2, <2>1, <2>2
  <2> QED
    BY <2>3, <2>4
<1>5. PICK f : f = CHOOSE k : Is(k)
  OBVIOUS
<1>6. Is(f)
  BY <1>4, <1>5
<1>7. Halves(f, d, place)
  <2>1. \A n \in 0 .. d : f[n] = IF n = 0 THEN place ELSE f[n - 1] \div 2
    BY <1>6
  <2> DEFINE S == {k \in 0 .. d : f[k] \in Nat}
  <2>2. 0 \in S
    BY <1>2, <2>1
  <2>3. ASSUME NEW k \in 1 .. d, k - 1 \in S PROVE k \in S
    <3>1. f[k] = f[k - 1] \div 2 /\ f[k - 1] \in Nat /\ k \in 0 .. d
      BY <1>2, <2>1, <2>3
    <3>2. \A x \in Nat : x \div 2 \in Nat
      OBVIOUS
    <3> QED
      BY <3>1, <3>2
  <2> HIDE DEF S
  <2>4. \A k \in 0 .. d : k \in S
    BY <1>2, <2>2, <2>3, StepsReach
  <2>5. \A k \in 0 .. d : f[k] \in Nat
    BY <2>4 DEF S
  <2>6. f[0] = place
    BY <1>2, <2>1
  <2>7. \A n \in 1 .. d : f[n] = f[n - 1] \div 2
    BY <1>2, <2>1
  <2> QED
    BY <2>5, <2>6, <2>7 DEF Halves
<1>8. merkle_proof(leaves, place) =
         [n \in 1 .. d |-> Padded(Levels(leaves)[n - 1])[Sibling(f[n - 1]) + 1]]
  BY <1>5 DEF merkle_proof, d
<1> QED
  BY <1>7, <1>8 DEF d

\* Two neighbours: one has the place a, the other that of its sibling.
LEMMA Neighbours ==
    ASSUME NEW a \in Nat
    PROVE  /\ a \div 2 \in Nat
           /\ a \in {2 * (a \div 2), 2 * (a \div 2) + 1}
           /\ a = 2 * (a \div 2) => Sibling(a) = 2 * (a \div 2) + 1
           /\ a = 2 * (a \div 2) + 1 => Sibling(a) = 2 * (a \div 2)
<1>1. a % 2 \in {0, 1} /\ a \div 2 \in Nat /\ a = 2 * (a \div 2) + (a % 2)
  OBVIOUS
<1> QED
  BY <1>1 DEF Sibling

\* One step up from place a of a level: its node and the sibling's make the node
\* of place a \div 2.
LEMMA StepUp ==
    ASSUME NEW level, Nodes(level), NEW a \in Nat, a < Len(level)
    PROVE  /\ a \div 2 \in Nat
           /\ a \div 2 < Len(fold_level(level))
           /\ Sibling(a) + 1 \in 1 .. Len(Padded(level))
           /\ fold_level(level)[a \div 2 + 1] = pair(level[a + 1], Padded(level)[Sibling(a) + 1])
<1>1. PICK q \in Nat : q = a \div 2
  BY Neighbours
<1>2. /\ a \in {2 * q, 2 * q + 1}
      /\ a = 2 * q => Sibling(a) = 2 * q + 1
      /\ a = 2 * q + 1 => Sibling(a) = 2 * q
  BY <1>1, Neighbours
<1>3. PICK p : p = Padded(level)
  OBVIOUS
<1>4. PICK l : l = fold_level(level)
  OBVIOUS
<1>5. /\ Len(p) = 2 * Len(l) /\ Len(l) \in Nat /\ Len(level) \in Nat
      /\ Len(p) \in {Len(level), Len(level) + 1}
      /\ \A j \in 1 .. Len(level) : p[j] = level[j]
      /\ \A j \in 1 .. Len(l) : l[j] = pair(p[2 * j - 1], p[2 * j])
  BY <1>3, <1>4, FoldShape
<1>6. a + 1 \in 1 .. Len(level) /\ p[a + 1] = level[a + 1]
  BY <1>5
<1>7. q + 1 \in 1 .. Len(l) /\ q < Len(l)
  BY <1>2, <1>5, <1>6
<1>8. 2 * (q + 1) - 1 = 2 * q + 1 /\ 2 * (q + 1) = 2 * q + 2
  OBVIOUS
<1>9. l[q + 1] = pair(p[2 * q + 1], p[2 * q + 2])
  BY <1>5, <1>7, <1>8
<1>10. Sibling(a) + 1 \in 1 .. Len(p)
  BY <1>2, <1>5, <1>7
<1>11. l[q + 1] = pair(p[a + 1], p[Sibling(a) + 1])
  <2>1. CASE a = 2 * q
    <3>1. a + 1 = 2 * q + 1 /\ Sibling(a) + 1 = 2 * q + 2
      BY <1>2, <2>1
    <3> QED
      BY <1>9, <3>1
  <2>2. CASE a = 2 * q + 1
    <3>1. a + 1 = 2 * q + 2 /\ Sibling(a) + 1 = 2 * q + 1
      BY <1>2, <2>2
    <3> QED
      BY <1>9, <3>1, PairSymmetric
  <2> QED
    BY <1>2, <2>1, <2>2
<1> QED
  BY <1>1, <1>3, <1>4, <1>6, <1>7, <1>10, <1>11

\* What a proof holds: nodes, or zero nodes where a level was padded.
IsSibling(x) == IsNode(x) \/ x = ZERO

\* Completeness of the membership proof: the one the SDK makes for a script of the
\* list verifies, and is as long as the tree is deep.
THEOREM ListedIsProved ==
    ASSUME NEW S, NEW policies \in Seq(S), NEW i \in DOMAIN policies, NEW proof,
           proof = merkle_proof(Leaves(policies), i - 1)
    PROVE  /\ Len(proof) = Depth(Leaves(policies)) /\ Len(proof) \in Nat
           /\ \E X : proof \in Seq(X) /\ \A x \in X : IsSibling(x)
           /\ merkle_verify(merkle_root(Leaves(policies)), policy_leaf(policies[i]), proof)
<1> DEFINE leaves == Leaves(policies)
<1>1. /\ Nodes(leaves)
      /\ Len(leaves) = Len(policies)
      /\ Len(policies) \in Nat
      /\ i \in 1 .. Len(policies)
      /\ leaves[i] = policy_leaf(policies[i])
  BY LeavesAreNodes
<1> HIDE DEF leaves
<1>2. leaves # <<>>
  <2>1. PICK X : leaves \in Seq(X)
    BY <1>1 DEF Nodes
  <2> QED
    BY <1>1, <2>1, EmptySeq
<1>3. PICK d : d = Depth(leaves)
  OBVIOUS
<1>4. /\ d \in 0 .. Len(leaves) /\ d \in Nat
      /\ Len(Levels(leaves)[d]) = 1
      /\ \A n \in 1 .. d : Levels(leaves)[n] = fold_level(Levels(leaves)[n - 1])
      /\ merkle_root(leaves) = Levels(leaves)[d][1]
  BY <1>1, <1>2, <1>3, DepthShape
<1>5. i - 1 \in Nat
  BY <1>1
<1>6. PICK at : /\ Halves(at, d, i - 1)
               /\ proof = [n \in 1 .. d |->
                            Padded(Levels(leaves)[n - 1])[Sibling(at[n - 1]) + 1]]
  <2>1. Depth(leaves) \in Nat /\ proof = merkle_proof(leaves, i - 1)
    BY <1>3, <1>4 DEF leaves
  <2> HIDE DEF leaves
  <2>2. \E f : /\ Halves(f, Depth(leaves), i - 1)
               /\ merkle_proof(leaves, i - 1) =
                    [n \in 1 .. Depth(leaves) |->
                       Padded(Levels(leaves)[n - 1])[Sibling(f[n - 1]) + 1]]
    BY <1>5, <2>1, ProofAt
  <2> QED
    BY <1>3, <2>1, <2>2
<1>7. \A n \in 0 .. d : Nodes(Levels(leaves)[n]) /\ Len(Levels(leaves)[n]) \in Nat
  <2>1. \A n \in 0 .. Len(leaves) :
           Nodes(Levels(leaves)[n]) /\ Len(Levels(leaves)[n]) \in Nat
    BY <1>1, LevelShape
  <2>2. \A n \in 0 .. d : n \in 0 .. Len(leaves)
    <3>1. PICK h \in Nat : h = Len(leaves)
      BY <1>1
    <3>2. d \in 0 .. h
      BY <1>4, <3>1
    <3>3. \A n \in 0 .. d : n \in 0 .. h
      BY <3>2
    <3> QED
      BY <3>1, <3>3
  <2> QED
    BY <2>1, <2>2
<1> DEFINE T == {n \in 0 .. d : at[n] < Len(Levels(leaves)[n])}
<1>8. 0 \in T
  <2>1. Levels(leaves)[0] = leaves
    BY <1>1, LevelsAt
  <2>2. at[0] = i - 1
    BY <1>6 DEF Halves
  <2> QED
    BY <1>1, <1>4, <2>1, <2>2
<1>9. ASSUME NEW n \in 1 .. d, n - 1 \in T PROVE n \in T
  <2>0. n - 1 \in 0 .. d
    BY <1>4
  <2>1. PICK a \in Nat : a = at[n - 1]
    <3>1. \A m \in 0 .. d : at[m] \in Nat
      BY <1>6 DEF Halves
    <3> QED
      BY <2>0, <3>1
  <2>2. n - 1 \in 0 .. d /\ a < Len(Levels(leaves)[n - 1])
    BY <1>9, <2>0, <2>1
  <2>3. a \div 2 < Len(fold_level(Levels(leaves)[n - 1]))
    BY <1>7, <2>2, StepUp
  <2>4. at[n] = a \div 2
    BY <1>6, <2>1 DEF Halves
  <2> QED
    BY <1>4, <2>3, <2>4
<1> HIDE DEF T
<1>10. \A n \in 0 .. d : n \in T
  BY <1>4, <1>8, <1>9, StepsReach
<1>11. \A n \in 0 .. d : at[n] \in Nat /\ at[n] < Len(Levels(leaves)[n])
  BY <1>6, <1>10 DEF T, Halves
<1>12. \A n \in 1 .. d :
         /\ IsSibling(proof[n])
         /\ Levels(leaves)[n][at[n] + 1] = pair(Levels(leaves)[n - 1][at[n - 1] + 1], proof[n])
  <2> SUFFICES ASSUME NEW n \in 1 .. d
               PROVE  /\ IsSibling(proof[n])
                      /\ Levels(leaves)[n][at[n] + 1] =
                           pair(Levels(leaves)[n - 1][at[n - 1] + 1], proof[n])
    OBVIOUS
  <2>1. n - 1 \in 0 .. d
    BY <1>4
  <2>2. PICK a \in Nat : a = at[n - 1]
    BY <1>11, <2>1
  <2>3. PICK below : below = Levels(leaves)[n - 1]
    OBVIOUS
  <2>4. Nodes(below) /\ a < Len(below)
    BY <1>7, <1>11, <2>1, <2>2, <2>3
  <2>5. /\ Sibling(a) + 1 \in 1 .. Len(Padded(below))
        /\ fold_level(below)[a \div 2 + 1] = pair(below[a + 1], Padded(below)[Sibling(a) + 1])
    BY <2>4, StepUp
  <2>6. proof[n] = Padded(below)[Sibling(a) + 1]
    BY <1>6, <2>2, <2>3
  <2>7. at[n] = a \div 2
    BY <1>6, <2>2 DEF Halves
  <2>8. Levels(leaves)[n] = fold_level(below)
    BY <1>4, <2>3
  <2>9. \A j \in 1 .. Len(Padded(below)) : IsSibling(Padded(below)[j])
    <3>1. /\ Len(Padded(below)) \in {Len(below), Len(below) + 1} /\ Len(below) \in Nat
          /\ \A j \in 1 .. Len(below) : Padded(below)[j] = below[j] /\ IsNode(below[j])
          /\ \A j \in 1 .. Len(Padded(below)) : j > Len(below) => Padded(below)[j] = ZERO
      BY <2>4, FoldShape
    <3> QED
      BY <3>1 DEF IsSibling
  <2>10. IsSibling(proof[n])
    BY <2>5, <2>6, <2>9
  <2>11. Levels(leaves)[n][at[n] + 1] = pair(below[a + 1], proof[n])
    BY <2>5, <2>6, <2>7, <2>8
  <2> QED
    BY <2>2, <2>3, <2>10, <2>11
<1>13. /\ Len(proof) = d
       /\ \E X : proof \in Seq(X) /\ \A x \in X : IsSibling(x)
  <2> DEFINE X == {proof[n] : n \in 1 .. d}
  <2>1. \A x \in X : IsSibling(x)
    BY <1>12
  <2>2. proof = [n \in 1 .. d |-> proof[n]]
    BY <1>6
  <2>3. proof \in [1 .. d -> X]
    BY <2>2
  <2> HIDE DEF X
  <2>4. proof \in Seq(X) /\ Len(proof) = d
    BY <1>4, <2>3
  <2> QED
    BY <2>1, <2>4
<1>14. PICK f : /\ Climbs(f, policy_leaf(policies[i]), proof)
                /\ \A root : merkle_verify(root, policy_leaf(policies[i]), proof) <=> f[d] = root
  <2>1. Len(proof) \in Nat
    BY <1>4, <1>13
  <2>2. PICK leaf : leaf = policy_leaf(policies[i])
    OBVIOUS
  <2>3. PICK f : /\ Climbs(f, leaf, proof)
                 /\ \A root : merkle_verify(root, leaf, proof) <=> f[Len(proof)] = root
    BY <2>1, VerifyClimbs
  <2> QED
    BY <1>13, <2>2, <2>3
<1> DEFINE U == {n \in 0 .. d : f[n] = Levels(leaves)[n][at[n] + 1]}
<1>15. 0 \in U
  <2>1. Levels(leaves)[0] = leaves
    BY <1>1, LevelsAt
  <2>2. at[0] = i - 1 /\ (i - 1) + 1 = i
    BY <1>1, <1>6 DEF Halves
  <2>3. f[0] = policy_leaf(policies[i])
    BY <1>14 DEF Climbs
  <2> QED
    BY <1>1, <1>4, <2>1, <2>2, <2>3
<1>16. ASSUME NEW n \in 1 .. d, n - 1 \in U PROVE n \in U
  <2>1. f[n] = pair(f[n - 1], proof[n])
    BY <1>13, <1>14 DEF Climbs
  <2>2. f[n - 1] = Levels(leaves)[n - 1][at[n - 1] + 1]
    BY <1>16
  <2>3. f[n] = Levels(leaves)[n][at[n] + 1]
    BY <1>12, <2>1, <2>2
  <2> QED
    BY <1>4, <2>3
<1> HIDE DEF U
<1>17. d \in U
  <2>1. \A n \in 0 .. d : n \in U
    BY <1>4, <1>15, <1>16, StepsReach
  <2> QED
    BY <1>4, <2>1
<1>18. f[d] = Levels(leaves)[d][1]
  <2>1. d \in 0 .. d
    BY <1>4
  <2>2. at[d] \in Nat /\ at[d] < 1
    BY <1>4, <1>11, <2>1
  <2>3. at[d] + 1 = 1
    BY <2>2
  <2> QED
    BY <1>17, <2>3 DEF U
<1> QED
  BY <1>3, <1>4, <1>13, <1>14, <1>18 DEF leaves

-----------------------------------------------------------------------------
(***************************************************************************)
(* Byte strings.                                                           *)
(***************************************************************************)
\* A number, or part of a digest, of a key's hash, or of one of the signatures.
Fair(b, signatures) ==
    /\ b[1] = "num" => b[2] \in Nat
    /\ b[1] = "sig" => \E s \in signatures : b[2] = <<KeyHash(s[1]), s[2]>>

\* A byte string that has no part of any signature but these.
Vouched(s, signatures) == \E S : s \in Seq(S) /\ \A b \in S : Fair(b, signatures)

\* More signatures vouch for no less.
LEMMA VouchedMore ==
    ASSUME NEW s, NEW sigs, NEW more, Vouched(s, sigs), sigs \subseteq more
    PROVE  Vouched(s, more)
BY DEF Vouched, Fair

\* A string of two parts.
LEMMA VouchedConcat ==
    ASSUME NEW s, NEW t, NEW sigs, Vouched(s, sigs), Vouched(t, sigs)
    PROVE  /\ Vouched(s \o t, sigs)
           /\ Len(s) \in Nat /\ Len(t) \in Nat
           /\ Len(s \o t) = Len(s) + Len(t)
<1>1. PICK S : s \in Seq(S) /\ \A b \in S : Fair(b, sigs)
  BY DEF Vouched
<1>2. PICK T : t \in Seq(T) /\ \A b \in T : Fair(b, sigs)
  BY DEF Vouched
<1>3. s \in Seq(S \cup T) /\ t \in Seq(S \cup T)
  BY <1>1, <1>2, SeqMonotonic
<1>4. s \o t \in Seq(S \cup T) /\ Len(s \o t) = Len(s) + Len(t)
  BY <1>3, ConcatProperties
<1>5. \A b \in S \cup T : Fair(b, sigs)
  BY <1>1, <1>2
<1> QED
  BY <1>3, <1>4, <1>5 DEF Vouched

\* The bytes from m to n.
LEMMA VouchedSlice ==
    ASSUME NEW s, NEW sigs, Vouched(s, sigs), NEW m \in Nat \ {0}, NEW n \in Nat, n <= Len(s)
    PROVE  Vouched(SubSeq(s, m, n), sigs)
<1>1. PICK S : s \in Seq(S) /\ \A b \in S : Fair(b, sigs)
  BY DEF Vouched
<1>2. \A i \in m .. n : s[i] \in S
  <2> SUFFICES ASSUME NEW i \in m .. n PROVE s[i] \in S
    OBVIOUS
  <2>1. i \in 1 .. Len(s)
    BY <1>1
  <2> QED
    BY <1>1, <2>1, ElementOfSeq
<1>3. SubSeq(s, m, n) \in Seq(S)
  BY <1>2, SubSeqProperties
<1> QED
  BY <1>1, <1>3 DEF Vouched

\* The bytes of a string.
LEMMA VouchedByte ==
    ASSUME NEW s, NEW sigs, Vouched(s, sigs)
    PROVE  /\ Len(s) \in Nat
           /\ \A i \in 1 .. Len(s) : Fair(s[i], sigs)
<1>1. PICK S : s \in Seq(S) /\ \A b \in S : Fair(b, sigs)
  BY DEF Vouched
<1> QED
  BY <1>1, ElementOfSeq

\* The first and the last part of a string of two.
LEMMA Parts ==
    ASSUME NEW S, NEW s \in Seq(S), NEW t \in Seq(S)
    PROVE  /\ SubSeq(s \o t, 1, Len(s)) = s
           /\ SubSeq(s \o t, Len(s) + 1, Len(s \o t)) = t
<1>1. PICK m \in Nat : m = Len(s)
  OBVIOUS
<1>2. PICK n \in Nat : n = Len(t)
  OBVIOUS
<1>3. PICK u : u = s \o t
  OBVIOUS
<1>4. /\ u \in Seq(S) /\ Len(u) = m + n
      /\ \A i \in 1 .. m + n : u[i] = IF i <= m THEN s[i] ELSE t[i - m]
  BY <1>1, <1>2, <1>3, ConcatProperties
<1>5. \A i \in 1 .. m + n : u[i] \in S
  BY <1>4
<1>6. SubSeq(u, 1, m) = s
  <2>1. \A i \in 1 .. m : u[i] \in S /\ u[i] = s[i]
    BY <1>4, <1>5
  <2>2. /\ SubSeq(u, 1, m) \in Seq(S)
        /\ Len(SubSeq(u, 1, m)) = IF 1 <= m THEN m - 1 + 1 ELSE 0
        /\ \A i \in 1 .. m - 1 + 1 : SubSeq(u, 1, m)[i] = u[1 + i - 1]
    BY <2>1, SubSeqProperties
  <2>3. Len(SubSeq(u, 1, m)) = m /\ \A i \in 1 .. m : SubSeq(u, 1, m)[i] = s[i]
    BY <2>1, <2>2
  <2> QED
    BY <1>1, <2>2, <2>3, SeqEqual
<1>7. SubSeq(u, m + 1, m + n) = t
  <2>1. \A i \in m + 1 .. m + n : u[i] \in S /\ u[i] = t[i - m]
    BY <1>4, <1>5
  <2>2. /\ SubSeq(u, m + 1, m + n) \in Seq(S)
        /\ Len(SubSeq(u, m + 1, m + n)) = IF m + 1 <= m + n THEN m + n - (m + 1) + 1 ELSE 0
        /\ \A i \in 1 .. m + n - (m + 1) + 1 :
             SubSeq(u, m + 1, m + n)[i] = u[m + 1 + i - 1]
    BY <2>1, SubSeqProperties
  <2>3. Len(SubSeq(u, m + 1, m + n)) = n
    BY <2>2
  <2>4. \A i \in 1 .. n : SubSeq(u, m + 1, m + n)[i] = t[i]
    <3> SUFFICES ASSUME NEW i \in 1 .. n PROVE SubSeq(u, m + 1, m + n)[i] = t[i]
      OBVIOUS
    <3>1. i \in 1 .. m + n - (m + 1) + 1 /\ m + 1 + i - 1 = m + i
      OBVIOUS
    <3>2. m + i \in m + 1 .. m + n /\ (m + i) - m = i
      OBVIOUS
    <3> QED
      BY <2>1, <2>2, <3>1, <3>2
  <2> QED
    BY <1>2, <2>2, <2>3, <2>4, SeqEqual
<1> QED
  BY <1>1, <1>2, <1>3, <1>4, <1>6, <1>7

\* What is read from a string of two parts.
LEMMA ReadParts ==
    ASSUME NEW s, NEW t, NEW sigs, Vouched(s, sigs), Vouched(t, sigs)
    PROVE  /\ SubSeq(s \o t, 1, Len(s)) = s
           /\ SubSeq(s \o t, Len(s) + 1, Len(s \o t)) = t
           /\ \A m \in 1 .. Len(s), n \in 1 .. Len(s) : SubSeq(s \o t, m, n) = SubSeq(s, m, n)
           /\ \A i \in 1 .. Len(s) : (s \o t)[i] = s[i]
<1>1. PICK S : s \in Seq(S) /\ \A b \in S : Fair(b, sigs)
  BY DEF Vouched
<1>2. PICK T : t \in Seq(T) /\ \A b \in T : Fair(b, sigs)
  BY DEF Vouched
<1>3. s \in Seq(S \cup T) /\ t \in Seq(S \cup T)
  BY <1>1, <1>2, SeqMonotonic
<1>4. \A m \in 1 .. Len(s), n \in 1 .. Len(s) : SubSeq(s \o t, m, n) = SubSeq(s, m, n)
  BY <1>3, SubSeqOfConcat1
<1>5. \A i \in 1 .. Len(s) : (s \o t)[i] = s[i]
  BY <1>3, ConcatProperties
<1> QED
  BY <1>3, <1>4, <1>5, Parts

\* Three parts, put together from either end.
LEMMA Regroup ==
    ASSUME NEW s, NEW t, NEW u, NEW sigs, Vouched(s, sigs), Vouched(t, sigs), Vouched(u, sigs)
    PROVE  (s \o t) \o u = s \o (t \o u)
<1>1. PICK S : s \in Seq(S)
  BY DEF Vouched
<1>2. PICK T : t \in Seq(T)
  BY DEF Vouched
<1>3. PICK U : u \in Seq(U)
  BY DEF Vouched
<1>4. PICK V : V = S \cup T \cup U
  OBVIOUS
<1>5. s \in Seq(V) /\ t \in Seq(V) /\ u \in Seq(V)
  BY <1>1, <1>2, <1>3, <1>4, SeqMonotonic
<1> QED
  BY <1>5, ConcatAssociative

\* Nothing before or after a string.
LEMMA NothingMore ==
    ASSUME NEW s, NEW sigs, Vouched(s, sigs)
    PROVE  /\ Vouched(<<>>, sigs) /\ Len(<<>>) = 0
           /\ s \o <<>> = s /\ <<>> \o s = s
           /\ (s = <<>>) = (Len(s) = 0)
           /\ SubSeq(s, 1, Len(s)) = s
<1>1. PICK S : s \in Seq(S) /\ \A b \in S : Fair(b, sigs)
  BY DEF Vouched
<1>2. <<>> \in Seq(S) /\ Len(<<>>) = 0
  BY EmptySeq
<1>3. Vouched(<<>>, sigs)
  BY <1>1, <1>2 DEF Vouched
<1>4. s # <<>> => Len(s) \in Nat \ {0}
  BY <1>1, EmptySeq
<1>5. s \o <<>> = s /\ <<>> \o s = s
  BY <1>1, ConcatEmptySeq
<1>6. SubSeq(s, 1, Len(s)) = s
  BY <1>1, SubSeqFull
<1> QED
  BY <1>2, <1>3, <1>4, <1>5, <1>6

-----------------------------------------------------------------------------
(***************************************************************************)
(* Encodings.                                                              *)
(***************************************************************************)
\* Hashes and signatures have lengths.
LEMMA Lengths ==
    /\ KEY_LEN \in Nat /\ KEY_LEN >= 1
    /\ SIGNATURE_LEN \in Nat /\ SIGNATURE_LEN >= 1
    /\ HASH_LEN = 2
    /\ SESSION_PARAMS_LEN = KEY_LEN + KEY_LEN + 4
<1>1. KEY_LEN \in Nat \ {0} /\ SIGNATURE_LEN \in Nat \ {0}
  BY SessionWitnessAssumption
<1>2. HASH_LEN = 2
  BY DEF HASH_LEN
<1>3. PICK k \in Nat : k = KEY_LEN
  BY <1>1
<1>4. SESSION_PARAMS_LEN = 2 * k + 2 + 2
  BY <1>2, <1>3 DEF SESSION_PARAMS_LEN
<1>5. 2 * k + 2 + 2 = k + k + 4
  OBVIOUS
<1>6. PICK l \in Nat \ {0} : l = SIGNATURE_LEN
  BY <1>1
<1>7. k >= 1 /\ l >= 1
  BY <1>1, <1>3
<1> QED
  BY <1>2, <1>3, <1>4, <1>5, <1>6, <1>7

\* A byte that is a number.
LEMMA NumByte ==
    ASSUME NEW n \in Nat, NEW sigs
    PROVE  Vouched(<<Num(n)>>, sigs) /\ Len(<<Num(n)>>) = 1
<1>1. Num(n)[1] = "num" /\ Num(n)[2] = n
  BY DEF Num
<1>2. Fair(Num(n), sigs)
  BY <1>1 DEF Fair
<1>3. PICK b : b = Num(n)
  OBVIOUS
<1>4. <<b>> \in Seq({b}) /\ Len(<<b>>) = 1
  OBVIOUS
<1>5. PICK s : s = <<b>>
  OBVIOUS
<1>6. s \in Seq({b}) /\ Len(s) = 1 /\ \A c \in {b} : Fair(c, sigs)
  BY <1>2, <1>3, <1>4, <1>5
<1>7. Vouched(s, sigs)
  BY <1>6 DEF Vouched
<1> QED
  BY <1>3, <1>5, <1>6, <1>7

\* Two bytes.
LEMMA TwoBytes ==
    ASSUME NEW a, NEW b, NEW sigs, Fair(a, sigs), Fair(b, sigs)
    PROVE  Vouched(<<a, b>>, sigs) /\ Len(<<a, b>>) = 2
<1>1. <<a, b>> \in Seq({a, b}) /\ Len(<<a, b>>) = 2
  OBVIOUS
<1>2. PICK s : s = <<a, b>>
  OBVIOUS
<1>3. s \in Seq({a, b}) /\ Len(s) = 2 /\ \A c \in {a, b} : Fair(c, sigs)
  BY <1>1, <1>2
<1>4. Vouched(s, sigs)
  BY <1>3 DEF Vouched
<1> QED
  BY <1>2, <1>3, <1>4

\* A digest is as long as the hash and has no part of a signature.
LEMMA DigestBytes ==
    ASSUME NEW x, IsSibling(x) \/ x = WILDCARD_ROOT, NEW sigs
    PROVE  Vouched(x, sigs) /\ Len(x) = HASH_LEN
<1>1. \A n \in Nat : Fair(Num(n), sigs)
  <2> SUFFICES ASSUME NEW n \in Nat PROVE Fair(Num(n), sigs)
    OBVIOUS
  <2>1. Num(n)[1] = "num" /\ Num(n)[2] = n
    BY DEF Num
  <2> QED
    BY <2>1 DEF Fair
<1>2. HASH_LEN = 2
  BY DEF HASH_LEN
<1>3. CASE x = ZERO \/ x = WILDCARD_ROOT
  <2>1. PICK n \in Nat : x = <<Num(n), Num(n)>>
    BY <1>3 DEF ZERO, WILDCARD_ROOT
  <2> QED
    BY <1>1, <1>2, <2>1, TwoBytes
<1>4. CASE IsNode(x)
  <2>1. PICK p : x = blake2b_256(p)
    BY <1>4, PreimageOfNode
  <2>2. \A i : <<"digest", p, i>>[1] = "digest"
    OBVIOUS
  <2>3. \A i : Fair(<<"digest", p, i>>, sigs)
    BY <2>2 DEF Fair
  <2>4. x = << <<"digest", p, 1>>, <<"digest", p, 2>> >>
    BY <2>1 DEF blake2b_256
  <2> QED
    BY <1>2, <2>3, <2>4, TwoBytes
<1> QED
  BY <1>3, <1>4 DEF IsSibling

\* The hash of a key, or zero bytes for none.
LEMMA KeyBytes ==
    ASSUME NEW k, NEW sigs
    PROVE  Vouched(KeyHash(k), sigs) /\ Len(KeyHash(k)) = KEY_LEN
<1> DEFINE S == {KeyHash(k)[i] : i \in 1 .. KEY_LEN}
<1>1. \A i \in 1 .. KEY_LEN : KeyHash(k)[i] = IF k = NoKey THEN Num(0) ELSE <<"key", k, i>>
  BY DEF KeyHash, Zeros
<1>2. KeyHash(k) = [i \in 1 .. KEY_LEN |-> KeyHash(k)[i]]
  BY DEF KeyHash, Zeros
<1>3. \A i : Fair(<<"key", k, i>>, sigs)
  <2>1. \A i : <<"key", k, i>>[1] = "key"
    OBVIOUS
  <2> QED
    BY <2>1 DEF Fair
<1>4. Fair(Num(0), sigs)
  <2>1. Num(0)[1] = "num" /\ Num(0)[2] = 0
    BY DEF Num
  <2> QED
    BY <2>1 DEF Fair
<1>5. \A b \in S : Fair(b, sigs)
  BY <1>1, <1>3, <1>4
<1>6. KeyHash(k) \in [1 .. KEY_LEN -> S]
  BY <1>2
<1> HIDE DEF S
<1>7. KeyHash(k) \in Seq(S) /\ Len(KeyHash(k)) = KEY_LEN
  BY <1>6, Lengths
<1> QED
  BY <1>5, <1>7 DEF Vouched

\* Two keys have two hashes, neither of them zero.
LEMMA KeyOfHash ==
    ASSUME NEW k, NEW l, KeyHash(k) = KeyHash(l)
    PROVE  k = l
<1>1. 1 \in 1 .. KEY_LEN
  BY Lengths
<1>2. \A j : KeyHash(j)[1] = IF j = NoKey THEN Num(0) ELSE <<"key", j, 1>>
  BY <1>1 DEF KeyHash, Zeros
<1>3. \A j : Num(0) # <<"key", j, 1>>
  <2>1. Num(0)[1] = "num" /\ \A j : <<"key", j, 1>>[1] = "key"
    BY DEF Num
  <2> QED
    BY <2>1
<1>4. \A i, j : <<"key", i, 1>> = <<"key", j, 1>> => i = j
  OBVIOUS
<1>5. (IF k = NoKey THEN Num(0) ELSE <<"key", k, 1>>)
        = (IF l = NoKey THEN Num(0) ELSE <<"key", l, 1>>)
  BY <1>2
<1> QED
  BY <1>3, <1>4, <1>5

\* The zero hash is that of no key.
LEMMA NoKeyHash == KeyHash(NoKey) = Zeros(KEY_LEN)
BY DEF KeyHash

\* A signature has its length, and is vouched for by itself.
LEMMA SignatureBytes ==
    ASSUME NEW k, NEW m, NEW sigs, <<k, m>> \in sigs
    PROVE  /\ Vouched(Signature(KeyHash(k), m), sigs)
           /\ Len(Signature(KeyHash(k), m)) = SIGNATURE_LEN
<1>1. PICK t : t = <<KeyHash(k), m>>
  OBVIOUS
<1>2. PICK s : s = Signature(KeyHash(k), m)
  OBVIOUS
<1>3. s = [i \in 1 .. SIGNATURE_LEN |-> <<"sig", t, i>>]
  BY <1>1, <1>2 DEF Signature
<1> DEFINE S == {<<"sig", t, i>> : i \in 1 .. SIGNATURE_LEN}
<1>4. \A i : Fair(<<"sig", t, i>>, sigs)
  <2>1. \A i : <<"sig", t, i>>[1] = "sig" /\ <<"sig", t, i>>[2] = t
    OBVIOUS
  <2>2. <<k, m>>[1] = k /\ <<k, m>>[2] = m
    OBVIOUS
  <2> QED
    BY <1>1, <2>1, <2>2 DEF Fair
<1>5. \A b \in S : Fair(b, sigs)
  BY <1>4
<1>6. s \in [1 .. SIGNATURE_LEN -> S]
  BY <1>3
<1> HIDE DEF S
<1>7. s \in Seq(S) /\ Len(s) = SIGNATURE_LEN
  BY <1>6, Lengths
<1> QED
  BY <1>2, <1>5, <1>7 DEF Vouched

\* What reads as a signature was signed: no other field of the witness does.
LEMMA ReadsAsSigned ==
    ASSUME NEW s, NEW sigs, Vouched(s, sigs), NEW k, NEW m, NEW i \in 1 .. Len(s),
           s[i] = Signature(KeyHash(k), m)[1], \A t \in sigs : t = <<t[1], t[2]>>
    PROVE  <<k, m>> \in sigs
<1>1. 1 \in 1 .. SIGNATURE_LEN
  BY Lengths
<1>2. s[i] = <<"sig", <<KeyHash(k), m>>, 1>>
  BY <1>1 DEF Signature
<1>3. s[i][1] = "sig" /\ s[i][2] = <<KeyHash(k), m>>
  BY <1>2
<1>4. Fair(s[i], sigs)
  BY VouchedByte
<1>5. PICK t \in sigs : s[i][2] = <<KeyHash(t[1]), t[2]>>
  BY <1>3, <1>4 DEF Fair
<1>6. KeyHash(k) = KeyHash(t[1]) /\ m = t[2]
  <2>1. <<KeyHash(k), m>> = <<KeyHash(t[1]), t[2]>>
    BY <1>3, <1>5
  <2> QED
    BY <2>1
<1>7. k = t[1]
  BY <1>6, KeyOfHash
<1> QED
  BY <1>5, <1>6, <1>7

\* A root is a node, or the zero node.
LEMMA RootShape ==
    ASSUME NEW S, NEW policies \in Seq(S)
    PROVE  IsSibling(merkle_root(Leaves(policies)))
<1>1. PICK leaves : leaves = Leaves(policies)
  OBVIOUS
<1>2. Nodes(leaves)
  BY <1>1, LeavesAreNodes
<1>3. CASE leaves = <<>>
  BY <1>1, <1>3, EmptyTree DEF IsSibling
<1>4. CASE leaves # <<>>
  <2>1. PICK d : d = Depth(leaves)
    OBVIOUS
  <2>2. /\ d \in 0 .. Len(leaves) /\ Len(Levels(leaves)[d]) = 1
        /\ merkle_root(leaves) = Levels(leaves)[d][1]
    BY <1>2, <1>4, <2>1, DepthShape
  <2>3. Nodes(Levels(leaves)[d])
    BY <1>2, <2>2, LevelShape
  <2>4. IsNode(Levels(leaves)[d][1])
    <3>1. PICK level : level = Levels(leaves)[d]
      OBVIOUS
    <3>2. \A i \in 1 .. Len(level) : IsNode(level[i])
      BY <2>3, <3>1, FoldShape
    <3>3. 1 \in 1 .. Len(level)
      BY <2>2, <3>1
    <3> QED
      BY <3>1, <3>2, <3>3
  <2> QED
    BY <1>1, <2>2, <2>4 DEF IsSibling
<1> QED
  BY <1>3, <1>4

\* The root in the params of an account.
LEMMA RootBytes ==
    ASSUME NEW a \in Accounts, NEW sigs
    PROVE  /\ a.scope.policies \in Seq(Script)
           /\ a.scope.policies \in Policies
           /\ Vouched(PoliciesRoot(a.scope), sigs) /\ Len(PoliciesRoot(a.scope)) = HASH_LEN
           /\ PoliciesRoot(a.scope) # WILDCARD_ROOT =>
                /\ ~ a.scope.wildcard
                /\ PoliciesRoot(a.scope) = merkle_root(Leaves(a.scope.policies))
           /\ PoliciesRoot(a.scope) = WILDCARD_ROOT => a.scope.wildcard
<1>1. a.scope.policies \in Policies /\ Policies \subseteq Seq(Script) /\ a.scope.wildcard \in BOOLEAN
  BY SessionWitnessAssumption DEF AccountLayout
<1>2. IsSibling(merkle_root(Leaves(a.scope.policies)))
  BY <1>1, RootShape
<1>3. merkle_root(Leaves(a.scope.policies)) # WILDCARD_ROOT
  <2>1. ZERO # WILDCARD_ROOT
    <3>1. ZERO[1] = <<"num", 0>> /\ WILDCARD_ROOT[1] = <<"num", 255>>
      BY DEF ZERO, WILDCARD_ROOT, Num
    <3>2. <<"num", 0>> # <<"num", 255>>
      OBVIOUS
    <3> QED
      BY <3>1, <3>2
  <2> QED
    BY <1>2, <2>1, NodeIsDigest DEF IsSibling
<1>4. IsSibling(PoliciesRoot(a.scope)) \/ PoliciesRoot(a.scope) = WILDCARD_ROOT
  BY <1>2 DEF PoliciesRoot
<1>5. Vouched(PoliciesRoot(a.scope), sigs) /\ Len(PoliciesRoot(a.scope)) = HASH_LEN
  BY <1>4, DigestBytes
<1> QED
  BY <1>1, <1>3, <1>5 DEF PoliciesRoot

\* The params the lock reads are those that were written.
LEMMA ParamsRead ==
    ASSUME NEW a \in Accounts, NEW sigs
    PROVE  /\ Vouched(session_params(a), sigs)
           /\ Len(session_params(a)) = SESSION_PARAMS_LEN
           /\ parse_session_params(session_params(a)) =
                [session_pubkey_hash |-> KeyHash(a.session),
                 policies_root |-> PoliciesRoot(a.scope),
                 guardian_pubkey_hash |-> KeyHash(a.guardian)]
<1>1. PICK k : k = KeyHash(a.session)
  OBVIOUS
<1>2. PICK r : r = PoliciesRoot(a.scope)
  OBVIOUS
<1>3. PICK g : g = KeyHash(a.guardian)
  OBVIOUS
<1>4. PICK one : one = <<Num(1)>>
  OBVIOUS
<1>5. PICK two : two = <<Num(2)>>
  OBVIOUS
<1>6. /\ Vouched(k, sigs) /\ Len(k) = KEY_LEN /\ Vouched(g, sigs) /\ Len(g) = KEY_LEN
      /\ Vouched(r, sigs) /\ Len(r) = 2
      /\ Vouched(one, sigs) /\ Len(one) = 1 /\ Vouched(two, sigs) /\ Len(two) = 1
  BY <1>1, <1>2, <1>3, <1>4, <1>5, KeyBytes, RootBytes, NumByte, Lengths
<1>7. PICK u1 : u1 = k \o one
  OBVIOUS
<1>8. PICK u2 : u2 = u1 \o r
  OBVIOUS
<1>9. PICK u3 : u3 = u2 \o two
  OBVIOUS
<1>10. PICK u4 : u4 = u3 \o g
  OBVIOUS
<1>11. u4 = session_params(a)
  BY <1>1, <1>2, <1>3, <1>4, <1>5, <1>7, <1>8, <1>9, <1>10 DEF session_params
<1>12. Vouched(u1, sigs) /\ Len(u1) = KEY_LEN + 1
  BY <1>6, <1>7, VouchedConcat
<1>13. Vouched(u2, sigs) /\ Len(u2) = KEY_LEN + 3
  <2>1. Vouched(u2, sigs) /\ Len(u2) = Len(u1) + Len(r)
    BY <1>6, <1>8, <1>12, VouchedConcat
  <2> QED
    BY <1>6, <1>8, <1>12, <2>1, Lengths
<1>14. Vouched(u3, sigs) /\ Len(u3) = KEY_LEN + 4
  <2>1. Vouched(u3, sigs) /\ Len(u3) = Len(u2) + Len(two)
    BY <1>6, <1>9, <1>13, VouchedConcat
  <2> QED
    BY <1>6, <1>9, <1>13, <2>1, Lengths
<1>15. Vouched(u4, sigs) /\ Len(u4) = KEY_LEN + KEY_LEN + 4
  <2>1. Vouched(u4, sigs) /\ Len(u4) = Len(u3) + Len(g)
    BY <1>6, <1>10, <1>14, VouchedConcat
  <2> QED
    BY <1>6, <1>10, <1>14, <2>1, Lengths
<1>16. SubSeq(u4, 1, KEY_LEN) = k
  <2>1. 1 \in 1 .. KEY_LEN /\ KEY_LEN \in 1 .. KEY_LEN
    BY Lengths
  <2>2. 1 \in 1 .. Len(u3) /\ KEY_LEN \in 1 .. Len(u3)
    BY <1>14, Lengths
  <2>3. 1 \in 1 .. Len(u2) /\ KEY_LEN \in 1 .. Len(u2)
    BY <1>13, Lengths
  <2>4. 1 \in 1 .. Len(u1) /\ KEY_LEN \in 1 .. Len(u1)
    BY <1>12, Lengths
  <2>5. SubSeq(u4, 1, KEY_LEN) = SubSeq(u3, 1, KEY_LEN)
    BY <1>6, <1>10, <1>14, <2>2, ReadParts
  <2>6. SubSeq(u3, 1, KEY_LEN) = SubSeq(u2, 1, KEY_LEN)
    BY <1>6, <1>9, <1>13, <2>3, ReadParts
  <2>7. SubSeq(u2, 1, KEY_LEN) = SubSeq(u1, 1, KEY_LEN)
    BY <1>6, <1>8, <1>12, <2>4, ReadParts
  <2>8. SubSeq(u1, 1, KEY_LEN) = k
    BY <1>6, <1>7, ReadParts
  <2> QED
    BY <2>5, <2>6, <2>7, <2>8
<1>17. SubSeq(u4, KEY_LEN + 2, KEY_LEN + 3) = r
  <2>1. KEY_LEN + 2 \in 1 .. Len(u3) /\ KEY_LEN + 3 \in 1 .. Len(u3)
    BY <1>14, Lengths
  <2>2. KEY_LEN + 2 \in 1 .. Len(u2) /\ KEY_LEN + 3 \in 1 .. Len(u2)
    BY <1>13, Lengths
  <2>3. SubSeq(u4, KEY_LEN + 2, KEY_LEN + 3) = SubSeq(u3, KEY_LEN + 2, KEY_LEN + 3)
    <3>1. \A m \in 1 .. Len(u3), n \in 1 .. Len(u3) : SubSeq(u3 \o g, m, n) = SubSeq(u3, m, n)
      BY <1>6, <1>14, ReadParts
    <3> QED
      BY <1>10, <2>1, <3>1
  <2>4. SubSeq(u3, KEY_LEN + 2, KEY_LEN + 3) = SubSeq(u2, KEY_LEN + 2, KEY_LEN + 3)
    <3>1. \A m \in 1 .. Len(u2), n \in 1 .. Len(u2) : SubSeq(u2 \o two, m, n) = SubSeq(u2, m, n)
      BY <1>6, <1>13, ReadParts
    <3> QED
      BY <1>9, <2>2, <3>1
  <2>5. SubSeq(u2, Len(u1) + 1, Len(u2)) = r
    BY <1>6, <1>8, <1>12, ReadParts
  <2>6. Len(u1) + 1 = KEY_LEN + 2
    BY <1>12, Lengths
  <2> QED
    BY <1>13, <2>3, <2>4, <2>5, <2>6
<1>18. SubSeq(u4, KEY_LEN + 5, KEY_LEN + KEY_LEN + 4) = g
  <2>1. SubSeq(u4, Len(u3) + 1, Len(u4)) = g
    BY <1>6, <1>10, <1>14, ReadParts
  <2>2. Len(u3) + 1 = KEY_LEN + 5
    BY <1>14, Lengths
  <2> QED
    BY <1>15, <2>1, <2>2
<1>19. /\ KEY_LEN + 1 + HASH_LEN = KEY_LEN + 3
       /\ KEY_LEN + HASH_LEN + 3 = KEY_LEN + 5
       /\ SESSION_PARAMS_LEN = KEY_LEN + KEY_LEN + 4
  BY Lengths
<1>20. parse_session_params(u4) =
         [session_pubkey_hash |-> k, policies_root |-> r, guardian_pubkey_hash |-> g]
  BY <1>16, <1>17, <1>18, <1>19 DEF parse_session_params
<1> QED
  BY <1>1, <1>2, <1>3, <1>11, <1>15, <1>19, <1>20

-----------------------------------------------------------------------------
(***************************************************************************)
(* Strings put together from many.                                         *)
(***************************************************************************)
\* f joins the first strings of ss, one more each time.
Joins(f, ss, S) ==
    /\ ss \in Seq(Seq(S))
    /\ f \in [0 .. Len(ss) -> Seq(S)]
    /\ f[0] = <<>>
    /\ \A i \in 1 .. Len(ss) : f[i] = f[i - 1] \o ss[i]

\* FlattenSeq is where that ends.
LEMMA FlattenJoins ==
    ASSUME NEW S, NEW ss \in Seq(Seq(S))
    PROVE  \E f : Joins(f, ss, S) /\ FlattenSeq(ss) = f[Len(ss)]
<1>1. PICK n \in Nat : n = Len(ss)
  OBVIOUS
<1>2. \A i \in 1 .. n : ss[i] \in Seq(S)
  BY <1>1, ElementOfSeq
<1>3. <<>> \in Seq(S)
  OBVIOUS
<1> DEFINE step == [k \in 1 .. n |-> [x \in Seq(S) |-> x \o ss[k]]]
<1>4. \A k \in 1 .. n : \A x \in Seq(S) : step[k][x] = x \o ss[k] /\ step[k][x] \in Seq(S)
  BY <1>2, ConcatProperties
<1> HIDE DEF step
<1>5. \E f : Takes(f, n, Seq(S), <<>>, step)
  BY <1>3, <1>4, StepsExist
<1>6. PICK f : Takes(f, n, Seq(S), <<>>, step)
  BY <1>5
<1>7. /\ f \in [0 .. n -> Seq(S)]
      /\ f[0] = <<>>
      /\ \A i \in 1 .. n : f[i] = f[i - 1] \o ss[i]
  <2>1. /\ f \in [0 .. n -> Seq(S)] /\ f[0] = <<>>
        /\ \A i \in 1 .. n : f[i] = step[i][f[i - 1]]
    BY <1>6 DEF Takes
  <2>2. ASSUME NEW i \in 1 .. n PROVE f[i] = f[i - 1] \o ss[i]
    <3>1. f[i - 1] \in Seq(S)
      BY <2>1
    <3> QED
      BY <1>4, <2>1, <3>1
  <2> QED
    BY <2>1, <2>2
<1>8. Joins(f, ss, S)
  BY <1>1, <1>7 DEF Joins
<1>9. FlattenSeq(ss) = f[n]
  <2>1. CASE n = 0
    <3>1. ss = <<>>
      BY <1>1, <2>1, EmptySeq
    <3>2. FlattenSeq(ss) = ss
      BY <1>1, <2>1 DEF FlattenSeq
    <3> QED
      BY <1>7, <2>1, <3>1, <3>2
  <2>2. CASE n # 0
    <3> DEFINE Is(h) == h = [i \in 1 .. n |-> IF i = 1 THEN ss[i] ELSE h[i - 1] \o ss[i]]
               g == [i \in 1 .. n |-> f[i]]
    <3>1. Is(g)
      <4>1. \A i \in 1 .. n : g[i] = f[i]
        OBVIOUS
      <4>2. g = [i \in 1 .. n |-> g[i]]
        OBVIOUS
      <4> HIDE DEF g
      <4>3. f[1] = ss[1]
        <5>1. 1 \in 1 .. n /\ 1 - 1 = 0
          BY <2>2
        <5>2. f[1] = <<>> \o ss[1]
          BY <1>7, <5>1
        <5> QED
          BY <1>2, <5>1, <5>2, ConcatEmptySeq
      <4>4. \A i \in 1 .. n : g[i] = IF i = 1 THEN ss[i] ELSE g[i - 1] \o ss[i]
        <5> SUFFICES ASSUME NEW i \in 1 .. n
                     PROVE  g[i] = IF i = 1 THEN ss[i] ELSE g[i - 1] \o ss[i]
          OBVIOUS
        <5>1. CASE i = 1
          BY <4>1, <4>3, <5>1
        <5>2. CASE i # 1
          <6>1. i - 1 \in 1 .. n
            BY <5>2
          <6> QED
            BY <1>7, <4>1, <5>2, <6>1
        <5> QED
          BY <5>1, <5>2
      <4> QED
        BY <4>2, <4>4
    <3> HIDE DEF g
    <3>2. PICK h : h = CHOOSE k : Is(k)
      OBVIOUS
    <3>3. Is(h)
      BY <3>1, <3>2
    <3>4. FlattenSeq(ss) = h[n]
      BY <1>1, <2>2, <3>2 DEF FlattenSeq
    <3>5. \A i \in 1 .. n : h[i] = IF i = 1 THEN ss[i] ELSE h[i - 1] \o ss[i]
      BY <3>3
    <3> HIDE DEF Is
    <3> DEFINE T == {k \in 0 .. n - 1 : h[k + 1] = f[k + 1]}
    <3>6. 0 \in T
      <4>1. 1 \in 1 .. n /\ 0 \in 0 .. n - 1 /\ 0 + 1 = 1 /\ 1 - 1 = 0
        BY <2>2
      <4>2. h[1] = ss[1]
        BY <3>5, <4>1
      <4>3. f[1] = <<>> \o ss[1]
        BY <1>7, <4>1
      <4>4. f[1] = ss[1]
        BY <1>2, <4>1, <4>3, ConcatEmptySeq
      <4> QED
        BY <4>1, <4>2, <4>4
    <3>7. ASSUME NEW k \in 1 .. n - 1, k - 1 \in T PROVE k \in T
      <4>1. k + 1 \in 1 .. n /\ k + 1 # 1 /\ (k + 1) - 1 = k /\ (k - 1) + 1 = k /\ k \in 0 .. n - 1
        OBVIOUS
      <4>2. h[k + 1] = h[k] \o ss[k + 1] /\ f[k + 1] = f[k] \o ss[k + 1]
        BY <1>7, <3>5, <4>1
      <4>3. h[k] = f[k]
        BY <3>7, <4>1
      <4> QED
        BY <4>1, <4>2, <4>3
    <3> HIDE DEF T
    <3>8. n - 1 \in Nat /\ n - 1 \in 0 .. n - 1 /\ (n - 1) + 1 = n
      BY <2>2
    <3>9. \A k \in 0 .. n - 1 : k \in T
      BY <3>6, <3>7, <3>8, StepsReach
    <3> QED
      BY <3>4, <3>8, <3>9 DEF T
  <2> QED
    BY <2>1, <2>2
<1> QED
  BY <1>1, <1>8, <1>9

\* Strings vouched for have their bytes from one set that is.
LEMMA OneAlphabet ==
    ASSUME NEW X, NEW ss \in Seq(X), NEW sigs, \A x \in X : Vouched(x, sigs)
    PROVE  \E S : ss \in Seq(Seq(S)) /\ \A b \in S : Fair(b, sigs)
<1> DEFINE S == UNION {{x[i] : i \in 1 .. Len(x)} : x \in X}
<1>1. \A b \in S : Fair(b, sigs)
  <2> SUFFICES ASSUME NEW x \in X, NEW i \in 1 .. Len(x) PROVE Fair(x[i], sigs)
    OBVIOUS
  <2> QED
    BY VouchedByte
<1>2. ASSUME NEW x \in X PROVE x \in Seq(S)
  <2>1. \A i \in 1 .. Len(x) : x[i] \in S
    OBVIOUS
  <2> HIDE DEF S
  <2>2. PICK U : x \in Seq(U)
    BY DEF Vouched
  <2>3. Len(x) \in Nat /\ x \in [1 .. Len(x) -> U]
    BY <2>2, LenProperties
  <2>4. x \in [1 .. Len(x) -> S]
    BY <2>1, <2>3
  <2> QED
    BY <2>3, <2>4
<1> HIDE DEF S
<1>3. X \subseteq Seq(S)
  BY <1>2
<1>4. ss \in Seq(Seq(S))
  BY <1>3, SeqMonotonic
<1> QED
  BY <1>1, <1>4

\* What strings vouched for make is vouched for.
LEMMA FlattenVouched ==
    ASSUME NEW X, NEW ss \in Seq(X), NEW sigs, \A x \in X : Vouched(x, sigs)
    PROVE  /\ Vouched(FlattenSeq(ss), sigs)
           /\ \E f, S : /\ ss \in Seq(Seq(S)) /\ \A b \in S : Fair(b, sigs)
                        /\ Joins(f, ss, S) /\ FlattenSeq(ss) = f[Len(ss)]
<1>1. PICK S : ss \in Seq(Seq(S)) /\ \A b \in S : Fair(b, sigs)
  BY OneAlphabet
<1>2. PICK f : Joins(f, ss, S) /\ FlattenSeq(ss) = f[Len(ss)]
  BY <1>1, FlattenJoins
<1>3. Len(ss) \in Nat
  OBVIOUS
<1>4. FlattenSeq(ss) \in Seq(S)
  <2>1. Len(ss) \in 0 .. Len(ss)
    BY <1>3
  <2> QED
    BY <1>2, <2>1 DEF Joins
<1>5. Vouched(FlattenSeq(ss), sigs)
  BY <1>1, <1>4 DEF Vouched
<1> QED
  BY <1>1, <1>2, <1>5

Splits(f, ss, S) == \A m \in 0 .. Len(ss) : \E r \in Seq(S) : f[Len(ss)] = f[m] \o r

\* What was joined first stays in front.
LEMMA JoinsSplit ==
    ASSUME NEW S, NEW ss, NEW f, Joins(f, ss, S)
    PROVE  Splits(f, ss, S)
<1> SUFFICES ASSUME NEW m \in 0 .. Len(ss)
             PROVE  \E r \in Seq(S) : f[Len(ss)] = f[m] \o r
  BY DEF Splits
<1>0. ss \in Seq(Seq(S))
  BY DEF Joins
<1>1. PICK n \in Nat : n = Len(ss)
  BY <1>0
<1>2. /\ f \in [0 .. n -> Seq(S)]
      /\ \A i \in 1 .. n : f[i] = f[i - 1] \o ss[i]
  BY <1>1 DEF Joins
<1>a. \A i \in 1 .. n : ss[i] \in Seq(S)
  BY <1>0, <1>1, ElementOfSeq
<1> DEFINE T == {k \in 0 .. n - m : \E r \in Seq(S) : f[n] = f[n - k] \o r}
<1>3. 0 \in T
  <2>1. n - 0 = n /\ n \in 0 .. n /\ 0 \in 0 .. n - m
    BY <1>1
  <2>2. f[n] \in Seq(S) /\ <<>> \in Seq(S)
    BY <1>2, <2>1
  <2>3. f[n] = f[n] \o <<>>
    BY <2>2, ConcatEmptySeq
  <2> QED
    BY <2>1, <2>2, <2>3
<1>4. ASSUME NEW k \in 1 .. n - m, k - 1 \in T PROVE k \in T
  <2>1. PICK r \in Seq(S) : f[n] = f[n - (k - 1)] \o r
    BY <1>4
  <2>2. PICK i : i = n - (k - 1)
    OBVIOUS
  <2>3. i \in 1 .. n /\ i - 1 = n - k /\ i - 1 \in 0 .. n /\ i \in 0 .. n /\ k \in 0 .. n - m
    BY <1>1, <2>2
  <2>4. f[i] = f[i - 1] \o ss[i] /\ f[i - 1] \in Seq(S) /\ f[i] \in Seq(S)
    BY <1>2, <2>3
  <2>5. PICK q \in Seq(S) : f[i] = f[i - 1] \o q
    BY <1>a, <2>3, <2>4
  <2>6. (f[i - 1] \o q) \o r = f[i - 1] \o (q \o r)
    <3>1. PICK p \in Seq(S) : p = f[i - 1]
      BY <2>4
    <3>2. (p \o q) \o r = p \o (q \o r)
      BY ConcatAssociative, SMTT(30)
    <3> QED
      BY <3>1, <3>2
  <2>7. q \o r \in Seq(S)
    BY ConcatProperties
  <2>8. f[n] = f[n - k] \o (q \o r)
    BY <2>1, <2>2, <2>3, <2>5, <2>6
  <2> QED
    BY <2>3, <2>7, <2>8
<1> HIDE DEF T
<1>5. n - m \in T
  <2>1. n - m \in Nat /\ n - m \in 0 .. n - m
    BY <1>1
  <2>2. \A k \in 0 .. n - m : k \in T
    BY <1>3, <1>4, <2>1, StepsReach
  <2> QED
    BY <2>1, <2>2
<1>6. n - (n - m) = m
  BY <1>1
<1> QED
  BY <1>1, <1>5, <1>6 DEF T

-----------------------------------------------------------------------------
(***************************************************************************)
(* Proof regions.                                                          *)
(***************************************************************************)
\* A sequence of bounded length is one.
LEMMA SeqOfIsSeq ==
    ASSUME NEW S, NEW n \in Nat, NEW s \in SeqOf(S, n)
    PROVE  s \in Seq(S)
<1>1. PICK m \in 0 .. n : s \in [1 .. m -> S]
  BY DEF SeqOf
<1> QED
  BY <1>1

\* The proof of an entry is a sequence of digests.
LEMMA EntryShape ==
    ASSUME NEW S, NEW policies \in Seq(S), NEW e \in Entry(policies)
    PROVE  /\ e.kind \in {POLICY_KIND_TYPE, POLICY_KIND_LOCK}
           /\ \E X : e.proof \in Seq(X) /\ \A x \in X : IsSibling(x)
<1>1. e.kind \in {POLICY_KIND_TYPE, POLICY_KIND_LOCK} /\ e.proof \in Proofs(policies)
  BY DEF Entry
<1>2. CASE e.proof = <<>>
  <2>1. PICK p : p = e.proof
    OBVIOUS
  <2>2. PICK X : X = {ZERO}
    OBVIOUS
  <2>3. p \in Seq(X) /\ \A x \in X : IsSibling(x)
    BY <1>2, <2>1, <2>2 DEF IsSibling
  <2> QED
    BY <1>1, <2>1, <2>3
<1>3. CASE \E i \in DOMAIN policies : e.proof = merkle_proof(Leaves(policies), i - 1)
  BY <1>1, <1>3, ListedIsProved
<1> QED
  BY <1>1, <1>2, <1>3 DEF Proofs

\* The bytes of an entry: its kind, the number of its siblings, the siblings.
LEMMA FrameBytes ==
    ASSUME NEW S, NEW policies \in Seq(S), NEW e \in Entry(policies), NEW sigs
    PROVE  Vouched(Framed(e), sigs)
<1>1. PICK X : e.proof \in Seq(X) /\ \A x \in X : IsSibling(x)
  BY EntryShape
<1>2. \A x \in X : Vouched(x, sigs)
  BY <1>1, DigestBytes
<1>3. Vouched(FlattenSeq(e.proof), sigs)
  BY <1>1, <1>2, FlattenVouched
<1>4. \A n \in Nat : Fair(Num(n), sigs)
  <2>1. \A n \in Nat : Num(n)[1] = "num" /\ Num(n)[2] = n
    BY DEF Num
  <2> QED
    BY <2>1 DEF Fair
<1>5. e.kind \in Nat
  BY EntryShape DEF POLICY_KIND_TYPE, POLICY_KIND_LOCK
<1>6. PICK n \in Nat : n = Len(e.proof)
  BY <1>1
<1>7. n % 256 \in Nat
  OBVIOUS
<1>8. PICK h : h = <<Num(e.kind), Num(Len(e.proof) % 256)>>
  OBVIOUS
<1>9. Vouched(h, sigs)
  BY <1>4, <1>5, <1>6, <1>7, <1>8, TwoBytes
<1>10. Vouched(h \o FlattenSeq(e.proof), sigs)
  BY <1>3, <1>9, VouchedConcat
<1> QED
  BY <1>8, <1>10 DEF Framed

\* The entries of a region, framed.
Frames(es) == [i \in DOMAIN es |-> Framed(es[i])]

\* A region has no part of a signature.
LEMMA RegionBytes ==
    ASSUME NEW S, NEW policies \in Seq(S), NEW es \in Seq(Entry(policies)), NEW sigs
    PROVE  /\ Vouched(proof_region(es), sigs)
           /\ Len(Frames(es)) = Len(es) /\ Len(es) \in Nat
           /\ \A i \in 1 .. Len(es) : Frames(es)[i] = Framed(es[i])
           /\ \E f, B : /\ Frames(es) \in Seq(Seq(B)) /\ \A b \in B : Fair(b, sigs)
                        /\ Joins(f, Frames(es), B) /\ proof_region(es) = f[Len(es)]
<1> DEFINE X == {Framed(e) : e \in Entry(policies)}
<1>1. \A x \in X : Vouched(x, sigs)
  BY FrameBytes
<1>2. PICK n \in Nat : n = Len(es) /\ es \in [1 .. n -> Entry(policies)]
  BY LenProperties
<1>3. Frames(es) \in [1 .. n -> X]
  BY <1>2 DEF Frames
<1> HIDE DEF X
<1>4. Frames(es) \in Seq(X) /\ Len(Frames(es)) = n
  BY <1>2, <1>3
<1>5. \A i \in 1 .. n : Frames(es)[i] = Framed(es[i])
  BY <1>2 DEF Frames
<1>6. PICK ss : ss = Frames(es)
  OBVIOUS
<1>7. proof_region(es) = FlattenSeq(ss)
  BY <1>6 DEF proof_region, Frames
<1>8. ss \in Seq(X) /\ Len(ss) = n
  BY <1>4, <1>6
<1>9. /\ Vouched(FlattenSeq(ss), sigs)
      /\ \E f, B : /\ ss \in Seq(Seq(B)) /\ \A b \in B : Fair(b, sigs)
                   /\ Joins(f, ss, B) /\ FlattenSeq(ss) = f[Len(ss)]
  BY <1>1, <1>8, FlattenVouched
<1> QED
  BY <1>2, <1>4, <1>5, <1>6, <1>7, <1>8, <1>9

-----------------------------------------------------------------------------
(***************************************************************************)
(* What the lock can rely on.                                              *)
(***************************************************************************)
\* The witness as it was submitted and what of it is left: the params are the
\* account's, and no byte is part of a signature nobody made.
Kept ==
    /\ WitnessTypeOK
    /\ args = session_params(account)
    /\ params = parse_session_params(args)
    /\ entries \in Seq(Entry(account.scope.policies))
    /\ \A s \in signed :
         s = <<s[1], s[2]>> /\ (s[2] = tx_message \/ s[2] = params_auth_message(args))
    /\ Vouched(rest, signed)
    /\ builder.fn = "none" => signed = {}
    /\ pc \notin {"policies", "done"} => index = 1
    /\ pc # "done" => verdict = "none"

InSession == {"resolve", "session", "guardian", "policies"}

\* What the lock has checked when it gets to a place of the witness.
Checked ==
    /\ pc = "auth" /\ rest # <<>> /\ rest[1] = MODE_OWNER => builder.fn \in {"owner", "none"}
    /\ pc = "auth" /\ rest # <<>> /\ rest[1] = MODE_SESSION => builder.fn # "owner"
    /\ pc = "owner" => builder.fn \in {"owner", "none"}
    /\ pc \in InSession => builder.fn # "owner"
    /\ pc \in InSession \ {"resolve"} /\ account.model = "carried" =>
         <<OWNER, params_auth_message(args)>> \in signed
    /\ pc \in {"guardian", "policies"} =>
         account.session # NoKey /\ <<account.session, tx_message>> \in signed
    /\ pc = "policies" /\ account.guardian # NoKey => <<account.guardian, tx_message>> \in signed
    /\ pc = "policies" /\ ~ account.scope.wildcard =>
         \A j \in 1 .. index - 1 : outputs[j] = SelfOutput \/ Listed(outputs[j])

\* The inductive invariant behind Authorised and OnlyListed.
Sound == Kept /\ Checked /\ Authorised /\ OnlyListed

-----------------------------------------------------------------------------
(***************************************************************************)
(* Submitting a witness.                                                   *)
(***************************************************************************)
\* The two modes are two bytes.
LEMMA Modes == MODE_OWNER # MODE_SESSION
<1>1. <<"num", 0>> # <<"num", 1>>
  OBVIOUS
<1> QED
  BY <1>1 DEF MODE_OWNER, MODE_SESSION, Num

\* A mode in front of what follows it.
LEMMA Headed ==
    ASSUME NEW n \in Nat, NEW s, NEW sigs, Vouched(s, sigs)
    PROVE  /\ Vouched(<<Num(n)>> \o s, sigs)
           /\ (<<Num(n)>> \o s)[1] = Num(n)
           /\ <<Num(n)>> \o s # <<>>
           /\ SubSeq(<<Num(n)>> \o s, 2, Len(<<Num(n)>> \o s)) = s
<1>1. PICK h : h = <<Num(n)>>
  OBVIOUS
<1>2. Vouched(h, sigs) /\ Len(h) = 1 /\ h[1] = Num(n)
  BY <1>1, NumByte
<1>3. PICK u : u = h \o s
  OBVIOUS
<1>4. Vouched(u, sigs) /\ Len(u) = 1 + Len(s) /\ Len(s) \in Nat
  BY <1>2, <1>3, VouchedConcat
<1>5. \A i \in 1 .. Len(h) : u[i] = h[i]
  BY <1>2, <1>3, ReadParts
<1>6. u[1] = Num(n)
  BY <1>2, <1>5
<1>7. SubSeq(u, 2, Len(u)) = s
  <2>1. SubSeq(u, Len(h) + 1, Len(u)) = s
    BY <1>2, <1>3, ReadParts
  <2> QED
    BY <1>2, <2>1
<1>8. u # <<>>
  BY <1>4, NothingMore
<1> QED
  BY <1>1, <1>3, <1>4, <1>6, <1>7, <1>8

\* The fields a witness of either session ends with.
PartsVouched(s, g, r, sigs) == Vouched(s, sigs) /\ Vouched(g, sigs) /\ Vouched(r, sigs)

\* The witness of a session, part by part.
LEMMA RegisteredShape ==
    ASSUME NEW sigs, NEW s, NEW g, NEW r, PartsVouched(s, g, r, sigs)
    PROVE  /\ session_witness_registered(s, g, r) = <<MODE_SESSION>> \o (s \o (g \o r))
           /\ Vouched(s \o (g \o r), sigs)
           /\ Vouched(session_witness_registered(s, g, r), sigs)
           /\ session_witness_registered(s, g, r) # <<>>
           /\ session_witness_registered(s, g, r)[1] = MODE_SESSION
<1>1. PICK h : h = <<MODE_SESSION>>
  OBVIOUS
<1>2. PICK hs : hs = h \o s
  OBVIOUS
<1>3. PICK gr : gr = g \o r
  OBVIOUS
<1>4. Vouched(h, sigs) /\ Vouched(s, sigs) /\ Vouched(g, sigs) /\ Vouched(r, sigs)
  BY <1>1, NumByte DEF MODE_SESSION, PartsVouched
<1>5. Vouched(gr, sigs) /\ Vouched(hs, sigs)
  BY <1>2, <1>3, <1>4, VouchedConcat
<1>6. PICK w : w = s \o gr
  OBVIOUS
<1>7. Vouched(w, sigs)
  BY <1>4, <1>5, <1>6, VouchedConcat
<1>8. (hs \o g) \o r = hs \o gr
  <2>1. (hs \o g) \o r = hs \o (g \o r)
    BY <1>4, <1>5, Regroup, SMTT(30)
  <2> QED
    BY <1>3, <2>1
<1>9. hs \o gr = h \o w
  <2>1. Vouched(h, sigs) /\ Vouched(s, sigs) /\ Vouched(gr, sigs)
    BY <1>4, <1>5
  <2> QED
    BY <1>2, <1>6, <2>1, Regroup, SMTT(30)
<1>10. session_witness_registered(s, g, r) = h \o w
  BY <1>1, <1>2, <1>8, <1>9 DEF session_witness_registered
<1>11. Vouched(h \o w, sigs) /\ h \o w # <<>> /\ (h \o w)[1] = MODE_SESSION
  BY <1>1, <1>7, Headed DEF MODE_SESSION
<1> QED
  BY <1>1, <1>3, <1>6, <1>7, <1>10, <1>11

\* The five fields of the witness of a carried session.
FieldsVouched(p, b, s, g, r, sigs) ==
    /\ Vouched(p, sigs) /\ Vouched(b, sigs) /\ Vouched(s, sigs)
    /\ Vouched(g, sigs) /\ Vouched(r, sigs)

\* The witness of a carried session, part by part.
LEMMA CarriedShape ==
    ASSUME NEW sigs, NEW p, NEW b, NEW s, NEW g, NEW r, FieldsVouched(p, b, s, g, r, sigs)
    PROVE  /\ session_witness_carried(p, b, s, g, r) =
                <<MODE_SESSION>> \o (p \o (b \o (s \o (g \o r))))
           /\ Vouched(s \o (g \o r), sigs)
           /\ Vouched(b \o (s \o (g \o r)), sigs)
           /\ Vouched(p \o (b \o (s \o (g \o r))), sigs)
           /\ Vouched(session_witness_carried(p, b, s, g, r), sigs)
           /\ session_witness_carried(p, b, s, g, r) # <<>>
           /\ session_witness_carried(p, b, s, g, r)[1] = MODE_SESSION
<1>1. PICK h : h = <<MODE_SESSION>>
  OBVIOUS
<1>2. PICK gr : gr = g \o r
  OBVIOUS
<1>3. PICK w1 : w1 = s \o gr
  OBVIOUS
<1>4. PICK w2 : w2 = b \o w1
  OBVIOUS
<1>5. PICK w3 : w3 = p \o w2
  OBVIOUS
<1>6. PICK h1 : h1 = h \o p
  OBVIOUS
<1>7. PICK h2 : h2 = h1 \o b
  OBVIOUS
<1>8. PICK h3 : h3 = h2 \o s
  OBVIOUS
<1>9. /\ Vouched(p, sigs) /\ Vouched(b, sigs) /\ Vouched(s, sigs)
      /\ Vouched(g, sigs) /\ Vouched(r, sigs) /\ Vouched(h, sigs)
  BY <1>1, NumByte DEF MODE_SESSION, FieldsVouched
<1>10. Vouched(gr, sigs) /\ Vouched(h1, sigs)
  BY <1>2, <1>6, <1>9, VouchedConcat
<1>11. Vouched(w1, sigs) /\ Vouched(h2, sigs)
  BY <1>3, <1>7, <1>9, <1>10, VouchedConcat
<1>12. Vouched(w2, sigs) /\ Vouched(h3, sigs)
  BY <1>4, <1>8, <1>9, <1>11, VouchedConcat
<1>13. Vouched(w3, sigs)
  BY <1>5, <1>9, <1>12, VouchedConcat
<1>14. (h3 \o g) \o r = h3 \o gr
  <2>1. Vouched(h3, sigs) /\ Vouched(g, sigs) /\ Vouched(r, sigs)
    BY <1>9, <1>12
  <2> QED
    BY <1>2, <2>1, Regroup, SMTT(30)
<1>15. h3 \o gr = h2 \o w1
  <2>1. Vouched(h2, sigs) /\ Vouched(s, sigs) /\ Vouched(gr, sigs)
    BY <1>9, <1>10, <1>11
  <2> QED
    BY <1>3, <1>8, <2>1, Regroup, SMTT(30)
<1>16. h2 \o w1 = h1 \o w2
  <2>1. Vouched(h1, sigs) /\ Vouched(b, sigs) /\ Vouched(w1, sigs)
    BY <1>9, <1>10, <1>11
  <2> QED
    BY <1>4, <1>7, <2>1, Regroup, SMTT(30)
<1>17. h1 \o w2 = h \o w3
  <2>1. Vouched(h, sigs) /\ Vouched(p, sigs) /\ Vouched(w2, sigs)
    BY <1>9, <1>12
  <2> QED
    BY <1>5, <1>6, <2>1, Regroup, SMTT(30)
<1>18. session_witness_carried(p, b, s, g, r) = h \o w3
  BY <1>1, <1>6, <1>7, <1>8, <1>14, <1>15, <1>16, <1>17 DEF session_witness_carried
<1>19. Vouched(h \o w3, sigs) /\ h \o w3 # <<>> /\ (h \o w3)[1] = MODE_SESSION
  BY <1>1, <1>13, Headed DEF MODE_SESSION
<1> QED
  BY <1>1, <1>2, <1>3, <1>4, <1>5, <1>11, <1>12, <1>13, <1>18, <1>19

\* The signatures of a session transaction.
LEMMA SignersBytes ==
    ASSUME NEW k \in Key, NEW g \in Key \cup {NoKey}, NEW sigs, Signatures(k, g) \subseteq sigs
    PROVE  /\ Vouched(TxSig(k), sigs) /\ Len(TxSig(k)) = SIGNATURE_LEN
           /\ Vouched(GuardianSig(g), sigs)
           /\ g # NoKey => GuardianSig(g) = TxSig(g) /\ Len(TxSig(g)) = SIGNATURE_LEN
           /\ g = NoKey => GuardianSig(g) = <<>>
<1>1. k # NoKey
  BY SessionLockAssumption
<1>2. <<k, tx_message>> \in sigs /\ (g # NoKey => <<g, tx_message>> \in sigs)
  BY <1>1 DEF Signatures
<1>3. Vouched(TxSig(k), sigs) /\ Len(TxSig(k)) = SIGNATURE_LEN
  BY <1>2, SignatureBytes DEF TxSig
<1>4. CASE g = NoKey
  BY <1>3, <1>4, NothingMore DEF GuardianSig
<1>5. CASE g # NoKey
  <2>1. Vouched(TxSig(g), sigs) /\ Len(TxSig(g)) = SIGNATURE_LEN
    BY <1>2, <1>5, SignatureBytes DEF TxSig
  <2> QED
    BY <1>3, <1>5, <2>1 DEF GuardianSig
<1> QED
  BY <1>4, <1>5

\* The initial states satisfy the invariant.
LEMMA SoundInit == WitnessInit => Sound
<1> SUFFICES ASSUME WitnessInit PROVE Sound
  OBVIOUS
<1>1. /\ account \in Accounts /\ args = session_params(account)
      /\ outputs = <<>> /\ signed = {} /\ entries = <<>>
      /\ builder.fn = "none"
      /\ pc = "build" /\ rest = <<>> /\ index = 1 /\ verdict = "none"
      /\ params = parse_session_params(args)
  BY DEF WitnessInit, By
<1>2. WitnessTypeOK
  <2>1. outputs \in Seq(Foreign \cup {SelfOutput}) /\ Len(outputs) = 0
    BY <1>1
  <2> QED
    BY <1>1, <2>1 DEF WitnessTypeOK
<1>3. Vouched(rest, signed)
  <2>1. <<>> \in Seq({}) /\ \A b \in {} : Fair(b, signed)
    OBVIOUS
  <2> QED
    BY <1>1, <2>1, SMTT(30) DEF Vouched
<1>4. Kept
  <2>1. entries \in Seq(Entry(account.scope.policies))
    BY <1>1
  <2> QED
    BY <1>1, <1>2, <1>3, <2>1 DEF Kept
<1>5. Checked
  BY <1>1 DEF Checked, InSession
<1> QED
  BY <1>1, <1>4, <1>5 DEF Sound, Authorised, OnlyListed

\* A witness is submitted.
LEMMA SubmitSound ==
    ASSUME Sound, pc = "build", NEW how, NEW sigs, NEW es, NEW witness,
           Submit(how, sigs, es, witness),
           es \in Seq(Entry(account.scope.policies)),
           \A s \in sigs : s = <<s[1], s[2]>> /\ (s[2] = tx_message \/ s[2] = params_auth_message(args)),
           Vouched(witness, sigs),
           how.fn = "none" => sigs = {},
           witness # <<>> /\ witness[1] = MODE_OWNER => how.fn \in {"owner", "none"},
           witness # <<>> /\ witness[1] = MODE_SESSION => how.fn # "owner"
    PROVE  Sound'
<1>1. /\ builder' = how /\ signed' = sigs /\ entries' = es /\ rest' = witness
      /\ outputs' \in SeqOf(Foreign \cup {SelfOutput}, MAX_OUTPUTS)
      /\ pc' = "auth" /\ account' = account /\ args' = args /\ params' = params
      /\ index' = index /\ verdict' = verdict
  BY DEF Submit
<1>2. Kept
  BY DEF Sound
<1>3. index = 1 /\ verdict = "none"
  BY <1>2 DEF Kept
<1>4. WitnessTypeOK'
  <2>1. MAX_OUTPUTS \in Nat
    BY SessionWitnessAssumption
  <2>2. PICK o : o = outputs'
    OBVIOUS
  <2>3. o \in Seq(Foreign \cup {SelfOutput}) /\ Len(o) \in Nat
    BY <1>1, <2>1, <2>2, SeqOfIsSeq
  <2>4. index' \in 1 .. Len(outputs') + 1
    BY <1>1, <1>3, <2>2, <2>3
  <2> QED
    BY <1>1, <1>2, <1>3, <2>2, <2>3, <2>4 DEF Kept, WitnessTypeOK
<1>5. Kept'
  BY <1>1, <1>2, <1>3, <1>4 DEF Kept
<1>6. Checked'
  BY <1>1 DEF Checked, InSession
<1>7. Authorised' /\ OnlyListed'
  BY <1>1, <1>3 DEF Authorised, OnlyListed
<1> QED
  BY <1>5, <1>6, <1>7 DEF Sound

-----------------------------------------------------------------------------
(***************************************************************************)
(* The client.                                                             *)
(***************************************************************************)
\* The signatures a client makes are pairs of a key and one of the two messages.
Paired(sigs) ==
    \A s \in sigs :
        s = <<s[1], s[2]>> /\ (s[2] = tx_message \/ s[2] = params_auth_message(args))

\* One signature, over the transaction or over the params, is such a pair.
LEMMA PairedOne ==
    ASSUME NEW k, NEW m, m = tx_message \/ m = params_auth_message(args)
    PROVE  Paired({<<k, m>>})
<1>1. <<k, m>>[1] = k /\ <<k, m>>[2] = m
  OBVIOUS
<1> QED
  BY <1>1 DEF Paired

\* So are those of the session key and its guardian.
LEMMA PairedSession ==
    ASSUME NEW k, NEW g
    PROVE  Paired(Signatures(k, g))
<1> SUFFICES ASSUME NEW s \in Signatures(k, g)
             PROVE  s = <<s[1], s[2]>> /\ s[2] = tx_message
  BY DEF Paired
<1>1. PICK x \in {k, g} \ {NoKey} : s = <<x, tx_message>>
  BY DEF Signatures
<1>2. <<x, tx_message>>[1] = x /\ <<x, tx_message>>[2] = tx_message
  OBVIOUS
<1> QED
  BY <1>1, <1>2

\* The record of who built a witness.
LEMMA Builder ==
    ASSUME NEW f, NEW k, NEW g
    PROVE  By(f, k, g).fn = f /\ By(f, k, g).key = k /\ By(f, k, g).guardian = g
BY DEF By

\* The owner signs, whoever is taken for the owner.
LEMMA OwnerSignsSound ==
    ASSUME Sound, pc = "build", NEW k \in Signer, OwnerSigns(k)
    PROVE  Sound'
<1>1. PICK sigs : sigs = {<<k, tx_message>>}
  OBVIOUS
<1>2. PICK how : how = By("owner", k, NoKey)
  OBVIOUS
<1>3. PICK w : w = owner_witness(TxSig(k))
  OBVIOUS
<1>4. Submit(how, sigs, <<>>, w)
  BY <1>1, <1>2, <1>3 DEF OwnerSigns
<1>5. how.fn = "owner"
  BY <1>2, Builder
<1>6. Paired(sigs)
  BY <1>1, PairedOne
<1>7. Vouched(TxSig(k), sigs)
  BY <1>1, SignatureBytes DEF TxSig
<1>8. PICK s : s = TxSig(k)
  OBVIOUS
<1>9. Vouched(w, sigs) /\ w[1] = MODE_OWNER
  BY <1>3, <1>7, <1>8, Headed DEF owner_witness, MODE_OWNER
<1>10. <<>> \in Seq(Entry(account.scope.policies))
  OBVIOUS
<1>11. \A x \in sigs : x = <<x[1], x[2]>> /\ (x[2] = tx_message \/ x[2] = params_auth_message(args))
  BY <1>6 DEF Paired
<1> QED
  BY <1>4, <1>5, <1>9, <1>10, <1>11, Modes, SubmitSound

\* A list of entries is one of entries, and its region has no part of a signature.
LEMMA EntriesShape ==
    ASSUME Kept, NEW es \in Seq(Entry(account.scope.policies)), NEW sigs
    PROVE  Vouched(proof_region(es), sigs)
<1>1. account \in Accounts
  BY DEF Kept, WitnessTypeOK
<1>2. account.scope.policies \in Seq(Script)
  BY <1>1, RootBytes
<1> QED
  BY <1>2, RegionBytes

\* The entries a session is asked to sign for are a sequence of entries.
LEMMA EntriesWithShape ==
    ASSUME NEW k, NEW g, NEW es \in EntriesWith(k, g)
    PROVE  es \in Seq(Entry(account.scope.policies))
<1>1. MAX_ENTRIES \in Nat
  BY SessionWitnessAssumption
<1>2. PICK n \in Nat : es \in SeqOf(Entry(account.scope.policies), n)
  BY <1>1 DEF EntriesWith
<1> QED
  BY <1>2, SeqOfIsSeq

\* The session key signs for a registered session, with a guardian or without.
LEMMA SessionSignsSound ==
    ASSUME Sound, pc = "build", NEW k \in Signer, NEW g \in Cosigner,
           NEW es \in Seq(Entry(account.scope.policies)), SessionSigns(k, g, es)
    PROVE  Sound'
<1>1. PICK sigs : sigs = Signatures(k, g)
  OBVIOUS
<1>2. PICK how : how = By("registered", k, g)
  OBVIOUS
<1>3. PICK w : w = session_witness_registered(TxSig(k), GuardianSig(g), proof_region(es))
  OBVIOUS
<1>4. Submit(how, sigs, es, w)
  BY <1>1, <1>2, <1>3 DEF SessionSigns
<1>5. how.fn = "registered"
  BY <1>2, Builder
<1>6. \A x \in sigs : x = <<x[1], x[2]>> /\ (x[2] = tx_message \/ x[2] = params_auth_message(args))
  BY <1>1, PairedSession DEF Paired
<1>7. k \in Key /\ g \in Key \cup {NoKey}
  BY SessionWitnessAssumption
<1>8. Vouched(TxSig(k), sigs) /\ Vouched(GuardianSig(g), sigs)
  BY <1>1, <1>7, SignersBytes
<1>9. Vouched(proof_region(es), sigs)
  BY EntriesShape DEF Sound
<1>10. Vouched(w, sigs) /\ w[1] = MODE_SESSION
  <2>1. PICK s : s = TxSig(k)
    OBVIOUS
  <2>2. PICK c : c = GuardianSig(g)
    OBVIOUS
  <2>3. PICK r : r = proof_region(es)
    OBVIOUS
  <2>4. PartsVouched(s, c, r, sigs)
    BY <1>8, <1>9, <2>1, <2>2, <2>3 DEF PartsVouched
  <2>5. w = session_witness_registered(s, c, r)
    BY <1>3, <2>1, <2>2, <2>3
  <2> QED
    BY <2>4, <2>5, RegisteredShape
<1> QED
  BY <1>4, <1>5, <1>6, <1>10, Modes, SubmitSound

\* The session key signs for a carried session, whose params the owner blessed.
LEMMA SessionSignsCarriedSound ==
    ASSUME Sound, pc = "build", NEW k \in Signer, NEW g \in Cosigner,
           NEW es \in Seq(Entry(account.scope.policies)), SessionSignsCarried(k, g, es)
    PROVE  Sound'
<1>1. PICK m : m = params_auth_message(args)
  OBVIOUS
<1>2. PICK sigs : sigs = Signatures(k, g) \cup {<<OWNER, m>>}
  OBVIOUS
<1>3. PICK how : how = By("carried", k, g)
  OBVIOUS
<1>4. PICK w : w = session_witness_carried(args, Signature(KeyHash(OWNER), m), TxSig(k),
                                          GuardianSig(g), proof_region(es))
  OBVIOUS
<1>5. Submit(how, sigs, es, w)
  BY <1>1, <1>2, <1>3, <1>4 DEF SessionSignsCarried
<1>6. how.fn = "carried"
  BY <1>3, Builder
<1>7. \A x \in sigs : x = <<x[1], x[2]>> /\ (x[2] = tx_message \/ x[2] = params_auth_message(args))
  BY <1>1, <1>2, PairedSession, PairedOne DEF Paired
<1>8. k \in Key /\ g \in Key \cup {NoKey}
  BY SessionWitnessAssumption
<1>9. Vouched(TxSig(k), sigs) /\ Vouched(GuardianSig(g), sigs)
  BY <1>2, <1>8, SignersBytes
<1>10. Vouched(proof_region(es), sigs)
  BY EntriesShape DEF Sound
<1>11. Vouched(Signature(KeyHash(OWNER), m), sigs)
  BY <1>2, SignatureBytes
<1>12. Vouched(args, sigs)
  BY ParamsRead DEF Sound, Kept, WitnessTypeOK
<1>13. Vouched(w, sigs) /\ w[1] = MODE_SESSION
  <2>1. FieldsVouched(args, Signature(KeyHash(OWNER), m), TxSig(k), GuardianSig(g),
                      proof_region(es), sigs)
    BY <1>9, <1>10, <1>11, <1>12 DEF FieldsVouched
  <2> QED
    BY <1>4, <2>1, CarriedShape
<1> QED
  BY <1>5, <1>6, <1>7, <1>13, Modes, SubmitSound

\* A funding transaction of a channel is signed.
LEMMA FundingSound ==
    ASSUME Sound, pc = "build", NEW k \in Signer, signFundingTx(k)
    PROVE  Sound'
<1>1. PICK es : es = <<[kind |-> POLICY_KIND_LOCK, proof |-> <<>>]>>
  OBVIOUS
<1>2. PICK sigs : sigs = {<<k, tx_message>>}
  OBVIOUS
<1>3. PICK how : how = By("registered", k, NoKey)
  OBVIOUS
<1>4. PICK w : w = session_witness_registered(TxSig(k), <<>>, proof_region(es))
  OBVIOUS
<1>5. Submit(how, sigs, es, w)
  BY <1>1, <1>2, <1>3, <1>4 DEF signFundingTx, channel_proof_region
<1>6. how.fn = "registered"
  BY <1>3, Builder
<1>7. \A x \in sigs : x = <<x[1], x[2]>> /\ (x[2] = tx_message \/ x[2] = params_auth_message(args))
  BY <1>2, PairedOne DEF Paired
<1>8. es \in Seq(Entry(account.scope.policies))
  <2>1. <<>> \in Proofs(account.scope.policies)
    BY DEF Proofs
  <2>2. [kind |-> POLICY_KIND_LOCK, proof |-> <<>>] \in Entry(account.scope.policies)
    BY <2>1 DEF Entry
  <2>3. PICK e \in Entry(account.scope.policies) : es = <<e>>
    BY <1>1, <2>2
  <2> QED
    BY <2>3
<1>9. Vouched(TxSig(k), sigs)
  BY <1>2, SignatureBytes DEF TxSig
<1>10. Vouched(proof_region(es), sigs)
  BY <1>8, EntriesShape DEF Sound
<1>11. Vouched(<<>>, sigs)
  BY <1>9, NothingMore
<1>12. Vouched(w, sigs) /\ w[1] = MODE_SESSION
  <2>1. PICK s : s = TxSig(k)
    OBVIOUS
  <2>2. PICK r : r = proof_region(es)
    OBVIOUS
  <2>3. PartsVouched(s, <<>>, r, sigs)
    BY <1>9, <1>10, <1>11, <2>1, <2>2 DEF PartsVouched
  <2>4. w = session_witness_registered(s, <<>>, r)
    BY <1>4, <2>1, <2>2
  <2> QED
    BY <2>3, <2>4, RegisteredShape
<1> QED
  BY <1>5, <1>6, <1>7, <1>8, <1>12, Modes, SubmitSound

\* No signature in the slot.
LEMMA UnsignedSound ==
    ASSUME Sound, pc = "build", Unsigned
    PROVE  Sound'
<1>1. PICK how : how = By("none", NoKey, NoKey)
  OBVIOUS
<1>2. how.fn = "none"
  BY <1>1, Builder
<1>3. PICK w \in {<<>>, <<MODE_OWNER>>, <<MODE_SESSION>>, <<Num(2)>>} : Submit(how, {}, <<>>, w)
  BY <1>1 DEF Unsigned
<1>4. Vouched(w, {})
  <2>1. Vouched(<<Num(0)>>, {}) /\ Vouched(<<Num(1)>>, {}) /\ Vouched(<<Num(2)>>, {})
    BY NumByte
  <2>2. Vouched(<<>>, {})
    BY <2>1, NothingMore
  <2> QED
    BY <2>1, <2>2 DEF MODE_OWNER, MODE_SESSION
<1>5. <<>> \in Seq(Entry(account.scope.policies))
  OBVIOUS
<1>6. \A x \in {} : x = <<x[1], x[2]>> /\ (x[2] = tx_message \/ x[2] = params_auth_message(args))
  OBVIOUS
<1> QED
  BY <1>2, <1>3, <1>4, <1>5, <1>6, SubmitSound

\* Whatever the client does.
LEMMA ClientSound ==
    ASSUME Sound, Client
    PROVE  Sound'
<1>1. pc = "build"
  BY DEF Client
<1>2. CASE Unsigned
  BY <1>1, <1>2, UnsignedSound
<1>3. ASSUME NEW k \in Signer, OwnerSigns(k) PROVE Sound'
  BY <1>1, <1>3, OwnerSignsSound
<1>4. ASSUME NEW k \in Signer, signFundingTx(k) PROVE Sound'
  BY <1>1, <1>4, FundingSound
<1>5. ASSUME NEW k \in Signer, NEW g \in Cosigner, NEW es \in EntriesWith(k, g),
             SessionSigns(k, g, es) \/ SessionSignsCarried(k, g, es)
      PROVE  Sound'
  <2>1. es \in Seq(Entry(account.scope.policies))
    BY EntriesWithShape
  <2> QED
    BY <1>1, <1>5, <2>1, SessionSignsSound, SessionSignsCarriedSound
<1> QED
  BY <1>2, <1>3, <1>4, <1>5 DEF Client

-----------------------------------------------------------------------------
(***************************************************************************)
(* The lock.                                                               *)
(***************************************************************************)
\* The codes the lock answers with.
Codes == {"accept", "EmptyWitnessError", "InvalidMode", "WitnessLenError",
          "AuthError", "SessionDisabled", "PolicyProofMissing",
          "PolicyProofMalformed", "PolicyNotAllowed"}

\* What follows the first n bytes is a string as good.
LEMMA AfterBytes ==
    ASSUME Kept, NEW n \in Nat, n <= Len(rest)
    PROVE  Vouched(After(n), signed) /\ Len(rest) \in Nat
<1>1. Vouched(rest, signed) /\ Len(rest) \in Nat
  BY VouchedByte DEF Kept
<1>2. n + 1 \in Nat \ {0} /\ Len(rest) <= Len(rest)
  BY <1>1
<1>3. Vouched(SubSeq(rest, n + 1, Len(rest)), signed)
  BY <1>1, <1>2, VouchedSlice
<1> QED
  BY <1>1, <1>3 DEF After

\* The lock answers.
LEMMA AnswerSound ==
    ASSUME Sound, NEW v \in Codes, Answer(v), v = "accept" => Authorised' /\ OnlyListed'
    PROVE  Sound'
<1>1. /\ verdict' = v /\ pc' = "done" /\ rest' = rest /\ params' = params /\ index' = index
      /\ account' = account /\ args' = args /\ outputs' = outputs /\ signed' = signed
      /\ entries' = entries /\ builder' = builder
  BY DEF Answer, clientVars
<1>2. v # "none"
  BY DEF Codes
<1>3. WitnessTypeOK'
  BY <1>1, <1>2 DEF Sound, Kept, WitnessTypeOK, Codes
<1>4. Kept'
  BY <1>1, <1>3 DEF Sound, Kept
<1>5. Checked'
  BY <1>1 DEF Checked, InSession
<1>6. Authorised' /\ OnlyListed'
  BY <1>1 DEF Authorised, OnlyListed
<1> QED
  BY <1>4, <1>5, <1>6 DEF Sound

\* The lock goes on with its params and the output it was at.
LEMMA GoToSound ==
    ASSUME Sound, NEW label, NEW n \in Nat, GoTo(label, n), n <= Len(rest),
           label \in {"owner", "resolve", "session", "guardian", "policies"}, index = 1,
           verdict = "none", Checked'
    PROVE  Sound'
<1>1. /\ pc' = label /\ rest' = After(n) /\ params' = params /\ index' = index
      /\ account' = account /\ args' = args /\ outputs' = outputs /\ signed' = signed
      /\ entries' = entries /\ builder' = builder /\ verdict' = verdict
  BY DEF GoTo, clientVars
<1>2. Vouched(rest', signed')
  <2>1. Vouched(After(n), signed)
    BY AfterBytes DEF Sound
  <2> QED
    BY <1>1, <2>1
<1>3. WitnessTypeOK'
  BY <1>1 DEF Sound, Kept, WitnessTypeOK
<1>4. Kept'
  BY <1>1, <1>2, <1>3 DEF Sound, Kept
<1>5. Authorised' /\ OnlyListed'
  BY <1>1 DEF Authorised, OnlyListed
<1> QED
  BY <1>4, <1>5 DEF Sound

\* What the lock takes for a signature is one.
LEMMA SignedRead ==
    ASSUME Kept, NEW k, NEW m, NEW a \in Nat, a + SIGNATURE_LEN <= Len(rest),
           SubSeq(rest, a + 1, a + SIGNATURE_LEN) = Signature(KeyHash(k), m)
    PROVE  <<k, m>> \in signed
<1>1. Vouched(rest, signed) /\ Len(rest) \in Nat
  BY VouchedByte DEF Kept
<1>2. PICK S : rest \in Seq(S)
  BY <1>1 DEF Vouched
<1>3. PICK n \in Nat : n = a + SIGNATURE_LEN
  BY Lengths
<1>4. a + 1 \in 1 .. Len(rest) /\ n <= Len(rest) /\ 1 \in 1 .. n - (a + 1) + 1 /\ (a + 1) + 1 - 1 = a + 1
  BY <1>1, <1>3, Lengths
<1>5. \A i \in a + 1 .. n : rest[i] \in S
  <2> SUFFICES ASSUME NEW i \in a + 1 .. n PROVE rest[i] \in S
    OBVIOUS
  <2>1. i \in 1 .. Len(rest)
    BY <1>1, <1>3, <1>4
  <2> QED
    BY <1>2, <2>1, ElementOfSeq
<1>6. \A i \in 1 .. n - (a + 1) + 1 : SubSeq(rest, a + 1, n)[i] = rest[(a + 1) + i - 1]
  BY <1>5, SubSeqProperties
<1>7. rest[a + 1] = Signature(KeyHash(k), m)[1]
  <2>1. SubSeq(rest, a + 1, n)[1] = rest[(a + 1) + 1 - 1]
    BY <1>4, <1>6
  <2> QED
    BY <1>3, <1>4, <2>1
<1>8. \A t \in signed : t = <<t[1], t[2]>>
  BY DEF Kept
<1> QED
  BY <1>1, <1>4, <1>7, <1>8, ReadsAsSigned

\* A good signature over the transaction was made by the key it is checked against.
LEMMA GoodSigned ==
    ASSUME Kept, NEW k, Good(KeyHash(k))
    PROVE  <<k, tx_message>> \in signed /\ SIGNATURE_LEN <= Len(rest)
<1>1. Len(rest) \in Nat
  BY VouchedByte DEF Kept
<1>2. SIGNATURE_LEN <= Len(rest)
  BY <1>1, Lengths DEF Good, Short
<1>3. SubSeq(rest, 1, SIGNATURE_LEN) = Signature(KeyHash(k), tx_message)
  BY DEF Good, First, signature_matches
<1>4. 0 + 1 = 1 /\ 0 + SIGNATURE_LEN = SIGNATURE_LEN /\ 0 \in Nat
  BY Lengths
<1>5. SubSeq(rest, 0 + 1, 0 + SIGNATURE_LEN) = Signature(KeyHash(k), tx_message)
  BY <1>3, <1>4
<1>6. 0 + SIGNATURE_LEN <= Len(rest)
  BY <1>2, <1>4
<1> QED
  BY <1>2, <1>4, <1>5, <1>6, SignedRead

\* The params the lock reads are those of the account.
LEMMA ParamsAre ==
    ASSUME Kept
    PROVE  /\ params.session_pubkey_hash = KeyHash(account.session)
           /\ params.policies_root = PoliciesRoot(account.scope)
           /\ params.guardian_pubkey_hash = KeyHash(account.guardian)
           /\ account.scope.policies \in Seq(Script)
           /\ account.scope.policies \in Policies
           /\ account \in Accounts
<1>1. account \in Accounts /\ params = parse_session_params(session_params(account))
  BY DEF Kept, WitnessTypeOK
<1>2. params = [session_pubkey_hash |-> KeyHash(account.session),
                policies_root |-> PoliciesRoot(account.scope),
                guardian_pubkey_hash |-> KeyHash(account.guardian)]
  BY <1>1, ParamsRead
<1>3. account.scope.policies \in Seq(Script) /\ account.scope.policies \in Policies
  BY <1>1, RootBytes
<1> QED
  BY <1>1, <1>2, <1>3

\* The mode byte decides who must have signed.
LEMMA AuthSound ==
    ASSUME Sound, auth
    PROVE  Sound'
<1>1. Kept /\ Checked /\ pc = "auth" /\ index = 1 /\ verdict = "none"
  BY DEF Sound, Kept, auth
<1>2. CASE Answer("EmptyWitnessError") \/ Answer("InvalidMode")
  BY <1>2, AnswerSound DEF Codes
<1>3. rest # <<>> => 1 <= Len(rest)
  <2>1. Vouched(rest, signed)
    BY <1>1 DEF Kept
  <2>2. Len(rest) \in Nat /\ ((rest = <<>>) = (Len(rest) = 0))
    BY <2>1, VouchedByte, NothingMore
  <2> QED
    BY <2>2
<1>4. CASE rest # <<>> /\ rest[1] = MODE_OWNER /\ GoTo("owner", 1)
  <2>1. builder.fn \in {"owner", "none"}
    BY <1>1, <1>4 DEF Checked
  <2>2. Checked'
    BY <1>4, <2>1 DEF Checked, GoTo, clientVars, InSession
  <2> QED
    BY <1>1, <1>3, <1>4, <2>2, GoToSound
<1>5. CASE rest # <<>> /\ rest[1] = MODE_SESSION /\ GoTo("resolve", 1)
  <2>1. builder.fn # "owner"
    BY <1>1, <1>5 DEF Checked
  <2>2. Checked'
    BY <1>5, <2>1 DEF Checked, GoTo, clientVars, InSession
  <2> QED
    BY <1>1, <1>3, <1>5, <2>2, GoToSound
<1> QED
  BY <1>2, <1>4, <1>5 DEF auth

\* The owner's signature is checked.
LEMMA OwnerSignatureSound ==
    ASSUME Sound, OwnerSignature
    PROVE  Sound'
<1>1. Kept /\ Checked /\ pc = "owner"
  BY DEF Sound, OwnerSignature
<1>2. CASE Answer("WitnessLenError") \/ Answer("AuthError")
  BY <1>2, AnswerSound DEF Codes
<1>3. CASE Good(KeyHash(OWNER)) /\ Answer("accept")
  <2>1. <<OWNER, tx_message>> \in signed
    BY <1>1, <1>3, GoodSigned
  <2>2. builder.fn = "owner"
    BY <1>1, <2>1 DEF Checked, Kept
  <2>3. signed' = signed /\ builder' = builder
    BY <1>3 DEF Answer, clientVars
  <2>4. Authorised' /\ OnlyListed'
    BY <2>1, <2>2, <2>3 DEF Authorised, OnlyListed
  <2> QED
    BY <1>3, <2>4, AnswerSound DEF Codes
<1> QED
  BY <1>2, <1>3 DEF OwnerSignature

\* The params are in the args.
LEMMA ResolveRegisteredSound ==
    ASSUME Sound, ResolveRegistered
    PROVE  Sound'
<1>1. Kept /\ Checked /\ pc = "resolve" /\ account.model = "registered"
  BY DEF Sound, ResolveRegistered
<1>2. /\ params' = params /\ pc' = "session" /\ rest' = rest /\ index' = index /\ verdict' = verdict
      /\ account' = account /\ args' = args /\ outputs' = outputs /\ signed' = signed
      /\ entries' = entries /\ builder' = builder
  BY <1>1 DEF ResolveRegistered, clientVars, Kept
<1>3. verdict = "none" /\ index = 1
  BY <1>1 DEF Kept
<1>4. WitnessTypeOK'
  BY <1>1, <1>2, <1>3 DEF Kept, WitnessTypeOK
<1>5. Kept'
  BY <1>1, <1>2, <1>3, <1>4 DEF Kept
<1>6. Checked'
  BY <1>1, <1>2 DEF Checked, InSession
<1>7. Authorised' /\ OnlyListed'
  BY <1>2, <1>3 DEF Authorised, OnlyListed
<1> QED
  BY <1>5, <1>6, <1>7 DEF Sound

\* The params are in the witness, and the owner blessed no others.
LEMMA BlessedParams ==
    ASSUME Kept, NEW block,
           SESSION_PARAMS_LEN + SIGNATURE_LEN <= Len(rest),
           signature_matches(SubSeq(rest, SESSION_PARAMS_LEN + 1, SESSION_PARAMS_LEN + SIGNATURE_LEN),
                             params_auth_message(block), KeyHash(OWNER))
    PROVE  <<OWNER, params_auth_message(args)>> \in signed /\ block = args
<1>1. SESSION_PARAMS_LEN \in Nat
  BY Lengths
<1>2. <<OWNER, params_auth_message(block)>> \in signed
  BY <1>1, SignedRead DEF signature_matches
<1>3. <<OWNER, params_auth_message(block)>>[2] = params_auth_message(block)
  OBVIOUS
<1>4. params_auth_message(block) = tx_message \/ params_auth_message(block) = params_auth_message(args)
  BY <1>2, <1>3 DEF Kept
<1>5. params_auth_message(block) # tx_message
  <2>1. params_auth_message(block)[1] = "session-auth" /\ tx_message[1] = "tx"
    BY DEF params_auth_message, tx_message
  <2> QED
    BY <2>1
<1>6. params_auth_message(block)[2] = block /\ params_auth_message(args)[2] = args
  BY DEF params_auth_message
<1> QED
  BY <1>2, <1>4, <1>5, <1>6

\* verify_session takes carried params only as the owner blessed them.
LEMMA ResolveCarriedSound ==
    ASSUME Sound, ResolveCarried
    PROVE  Sound'
<1> DEFINE block == First(SESSION_PARAMS_LEN)
           fields == SESSION_PARAMS_LEN + SIGNATURE_LEN
           blessed == signature_matches(SubSeq(rest, SESSION_PARAMS_LEN + 1, fields),
                                        params_auth_message(block), KeyHash(OWNER))
<1>1. Kept /\ Checked /\ pc = "resolve"
  BY DEF Sound, ResolveCarried
<1>2. CASE Answer("WitnessLenError") \/ Answer("AuthError")
  BY <1>2, AnswerSound DEF Codes
<1>3. CASE /\ ~Short(fields) /\ blessed
           /\ params' = parse_session_params(block)
           /\ rest' = After(fields)
           /\ pc' = "session"
           /\ UNCHANGED <<clientVars, index, verdict>>
  <2>1. fields \in Nat /\ fields <= Len(rest)
    <3>1. Len(rest) \in Nat
      BY <1>1, VouchedByte DEF Kept
    <3> QED
      BY <1>3, <3>1, Lengths DEF Short
  <2>2. <<OWNER, params_auth_message(args)>> \in signed /\ block = args
    BY <1>1, <1>3, <2>1, BlessedParams
  <2>3. /\ pc' = "session" /\ index' = index /\ verdict' = verdict
        /\ account' = account /\ args' = args /\ outputs' = outputs /\ signed' = signed
        /\ entries' = entries /\ builder' = builder
    BY <1>3 DEF clientVars
  <2>4. params' = params
    BY <1>1, <1>3, <2>2 DEF Kept
  <2>5. Vouched(rest', signed')
    <3>1. Vouched(After(fields), signed)
      BY <1>1, <2>1, AfterBytes
    <3> QED
      BY <1>3, <2>3, <3>1
  <2>6. verdict = "none" /\ index = 1
    BY <1>1 DEF Kept
  <2>7. WitnessTypeOK'
    BY <1>1, <2>3, <2>6 DEF Kept, WitnessTypeOK
  <2>8. Kept'
    BY <1>1, <2>3, <2>4, <2>5, <2>6, <2>7 DEF Kept
  <2>9. Checked'
    BY <1>1, <2>2, <2>3 DEF Checked, InSession
  <2>10. Authorised' /\ OnlyListed'
    BY <2>3, <2>6 DEF Authorised, OnlyListed
  <2> QED
    BY <2>8, <2>9, <2>10 DEF Sound
<1> QED
  BY <1>2, <1>3 DEF ResolveCarried

\* The session key's signature is checked.
LEMMA SessionSignatureSound ==
    ASSUME Sound, SessionSignature
    PROVE  Sound'
<1>1. Kept /\ Checked /\ pc = "session"
  BY DEF Sound, SessionSignature
<1>2. CASE Answer("SessionDisabled") \/ Answer("WitnessLenError") \/ Answer("AuthError")
  BY <1>2, AnswerSound DEF Codes
<1>3. CASE /\ params.session_pubkey_hash # Zeros(KEY_LEN)
           /\ Good(params.session_pubkey_hash)
           /\ GoTo("guardian", SIGNATURE_LEN)
  <2>1. params.session_pubkey_hash = KeyHash(account.session)
    BY <1>1, ParamsAre
  <2>2. <<account.session, tx_message>> \in signed /\ SIGNATURE_LEN <= Len(rest)
    BY <1>1, <1>3, <2>1, GoodSigned
  <2>3. account.session # NoKey
    BY <1>3, <2>1, NoKeyHash
  <2>4. /\ pc' = "guardian" /\ index' = index /\ builder' = builder
        /\ account' = account /\ args' = args /\ outputs' = outputs /\ signed' = signed
    BY <1>3 DEF GoTo, clientVars
  <2>5. Checked'
    BY <1>1, <2>2, <2>3, <2>4 DEF Checked, InSession
  <2>6. verdict = "none" /\ index = 1
    BY <1>1 DEF Kept
  <2>7. SIGNATURE_LEN \in Nat
    BY Lengths
  <2> QED
    BY <1>3, <2>2, <2>5, <2>6, <2>7, GoToSound
<1> QED
  BY <1>2, <1>3 DEF SessionSignature

\* The guardian's signature is checked, where there is a guardian.
LEMMA GuardianSignatureSound ==
    ASSUME Sound, GuardianSignature
    PROVE  Sound'
<1>1. Kept /\ Checked /\ pc = "guardian"
  BY DEF Sound, GuardianSignature
<1>2. CASE Answer("WitnessLenError") \/ Answer("AuthError")
  BY <1>2, AnswerSound DEF Codes
<1>3. params.guardian_pubkey_hash = KeyHash(account.guardian)
  BY <1>1, ParamsAre
<1>4. verdict = "none" /\ index = 1
  BY <1>1 DEF Kept
<1>5. Len(rest) \in Nat
  BY <1>1, VouchedByte DEF Kept
<1>6. CASE ~Guarded /\ GoTo("policies", 0)
  <2>1. account.guardian = NoKey
    BY <1>3, <1>6, NoKeyHash, KeyOfHash DEF Guarded
  <2>2. /\ pc' = "policies" /\ index' = index /\ builder' = builder
        /\ account' = account /\ args' = args /\ outputs' = outputs /\ signed' = signed
    BY <1>6 DEF GoTo, clientVars
  <2>3. Checked'
    BY <1>1, <1>4, <2>1, <2>2 DEF Checked, InSession
  <2> QED
    BY <1>4, <1>5, <1>6, <2>3, GoToSound
<1>7. CASE Guarded /\ Good(params.guardian_pubkey_hash) /\ GoTo("policies", SIGNATURE_LEN)
  <2>1. <<account.guardian, tx_message>> \in signed /\ SIGNATURE_LEN <= Len(rest)
    BY <1>1, <1>3, <1>7, GoodSigned
  <2>2. /\ pc' = "policies" /\ index' = index /\ builder' = builder
        /\ account' = account /\ args' = args /\ outputs' = outputs /\ signed' = signed
    BY <1>7 DEF GoTo, clientVars
  <2>3. Checked'
    BY <1>1, <1>4, <2>1, <2>2 DEF Checked, InSession
  <2>4. SIGNATURE_LEN \in Nat
    BY Lengths
  <2> QED
    BY <1>4, <1>7, <2>1, <2>3, <2>4, GoToSound
<1> QED
  BY <1>2, <1>6, <1>7 DEF GuardianSignature

\* An output the lock let through is on the list.
LEMMA AllowedIsListed ==
    ASSUME Kept, pc = "policies", Scoped, index <= Len(outputs), outputs[index] # SelfOutput,
           NEW kind, NEW n \in Nat, Allowed(kind, outputs[index], SiblingsRead(n))
    PROVE  Listed(outputs[index])
<1>1. /\ params.policies_root = PoliciesRoot(account.scope)
      /\ account.scope.policies \in Seq(Script) /\ account \in Accounts
  BY ParamsAre
<1>2. PoliciesRoot(account.scope) = merkle_root(Leaves(account.scope.policies))
  BY <1>1, RootBytes DEF Scoped
<1>3. PICK s : /\ s = IF kind = POLICY_KIND_TYPE THEN outputs[index].type ELSE outputs[index].lock
               /\ merkle_verify(params.policies_root, policy_leaf(s), SiblingsRead(n))
  BY DEF Allowed
<1>4. PICK proof : proof = SiblingsRead(n)
  OBVIOUS
<1>5. Len(proof) = n
  BY <1>4 DEF SiblingsRead
<1>6. PICK policies : policies = account.scope.policies
  OBVIOUS
<1>7. merkle_verify(merkle_root(Leaves(policies)), policy_leaf(s), proof)
  BY <1>1, <1>2, <1>3, <1>4, <1>6
<1>8. \E i \in DOMAIN policies : policies[i] = s
  BY <1>1, <1>5, <1>6, <1>7, ProvedIsListed
<1>9. s \in {outputs[index].lock, outputs[index].type}
  BY <1>3
<1> QED
  BY <1>6, <1>8, <1>9 DEF Listed

\* The lock goes on to the next output.
LEMMA NextOutputSound ==
    ASSUME Sound, pc = "policies", index <= Len(outputs), NEW n \in Nat, n <= Len(rest),
           NextOutput(n),
           ~ account.scope.wildcard => outputs[index] = SelfOutput \/ Listed(outputs[index])
    PROVE  Sound'
<1>1. /\ index' = index + 1 /\ rest' = After(n) /\ pc' = pc /\ params' = params
      /\ account' = account /\ args' = args /\ outputs' = outputs /\ signed' = signed
      /\ entries' = entries /\ builder' = builder /\ verdict' = verdict
  BY DEF NextOutput, clientVars
<1>2. Kept /\ Checked /\ verdict = "none"
  BY DEF Sound, Kept
<1>3. Vouched(rest', signed')
  <2>1. Vouched(After(n), signed)
    BY <1>2, AfterBytes
  <2> QED
    BY <1>1, <2>1
<1>4. index \in 1 .. Len(outputs) + 1 /\ Len(outputs) \in Nat
  BY <1>2 DEF Kept, WitnessTypeOK
<1>5. WitnessTypeOK'
  BY <1>1, <1>2, <1>4 DEF Kept, WitnessTypeOK
<1>6. Kept'
  BY <1>1, <1>2, <1>3, <1>5 DEF Kept
<1>7. Checked'
  <2>1. ~ account.scope.wildcard =>
           \A j \in 1 .. index : outputs[j] = SelfOutput \/ Listed(outputs[j])
    <3> SUFFICES ASSUME ~ account.scope.wildcard, NEW j \in 1 .. index
                 PROVE  outputs[j] = SelfOutput \/ Listed(outputs[j])
      OBVIOUS
    <3>1. CASE j = index
      BY <3>1
    <3>2. CASE j # index
      <4>1. j \in 1 .. index - 1
        BY <1>4, <3>2
      <4> QED
        BY <1>2, <4>1 DEF Checked
    <3> QED
      BY <3>1, <3>2
  <2>2. index' - 1 = index
    BY <1>1, <1>4
  <2>3. \A j : Listed(outputs[j])' <=> Listed(outputs[j])
    BY <1>1 DEF Listed
  <2>4. ~ account'.scope.wildcard =>
           \A j \in 1 .. index' - 1 : outputs'[j] = SelfOutput \/ Listed(outputs[j])'
    BY <1>1, <2>1, <2>2, <2>3
  <2> QED
    BY <1>1, <1>2, <2>4 DEF Checked, InSession
<1>8. Authorised' /\ OnlyListed'
  BY <1>1, <1>2 DEF Authorised, OnlyListed
<1> QED
  BY <1>6, <1>7, <1>8 DEF Sound

\* The session's signatures were read before its outputs are.
LEMMA AcceptAuthorised ==
    ASSUME Sound, pc = "policies", Answer("accept")
    PROVE  Authorised'
<1>1. Checked
  BY DEF Sound
<1>2. account' = account /\ signed' = signed /\ args' = args
  BY DEF Answer, clientVars
<1> QED
  BY <1>1, <1>2 DEF Checked, InSession, Authorised

\* Each output is the account's own, or proved to be listed.
LEMMA ProveOutputsSound ==
    ASSUME Sound, ProveOutputs
    PROVE  Sound'
<1>1. Kept /\ Checked /\ pc = "policies" /\ Scoped
  BY DEF Sound, ProveOutputs
<1>2. index \in 1 .. Len(outputs) + 1 /\ Len(outputs) \in Nat
  BY <1>1 DEF Kept, WitnessTypeOK
<1>3. Len(rest) \in Nat /\ \A i \in 1 .. Len(rest) : Fair(rest[i], signed)
  BY <1>1, VouchedByte DEF Kept
<1>4. CASE index > Len(outputs) /\ Answer("accept")
  <2>1. index - 1 = Len(outputs)
    BY <1>2, <1>4
  <2>2. ~ account.scope.wildcard =>
           \A j \in 1 .. Len(outputs) : outputs[j] = SelfOutput \/ Listed(outputs[j])
    BY <1>1, <2>1 DEF Checked
  <2>3. account' = account /\ outputs' = outputs /\ builder' = builder
    BY <1>4 DEF Answer, clientVars
  <2>4. DOMAIN outputs = 1 .. Len(outputs)
    BY <1>1 DEF Kept, WitnessTypeOK
  <2>5. OnlyListed'
    <3>1. \A j : Listed(outputs[j])' <=> Listed(outputs[j])
      BY <2>3 DEF Listed
    <3>2. ~ account'.scope.wildcard =>
             \A j \in DOMAIN outputs' : outputs'[j] = SelfOutput \/ Listed(outputs[j])'
      BY <2>2, <2>3, <2>4, <3>1
    <3> QED
      BY <3>2 DEF OnlyListed
  <2>6. Authorised'
    BY <1>1, <1>4, AcceptAuthorised
  <2> QED
    BY <1>4, <2>5, <2>6, AnswerSound DEF Codes
<1>5. CASE index <= Len(outputs) /\ SkipSelf
  <2>1. outputs[index] = SelfOutput /\ NextOutput(0)
    BY <1>5 DEF SkipSelf
  <2> QED
    BY <1>1, <1>3, <1>5, <2>1, NextOutputSound
<1>6. CASE index <= Len(outputs) /\ ProveForeign
  <2>1. outputs[index] # SelfOutput
    BY <1>6 DEF ProveForeign
  <2>2. CASE \/ Answer("PolicyProofMissing") \/ Answer("PolicyProofMalformed")
             \/ Answer("PolicyNotAllowed")
    BY <2>2, AnswerSound DEF Codes
  <2>3. ASSUME Len(rest) >= 2, NEW kind \in Values(rest[1]), NEW proof_len \in Values(rest[2]),
               Len(rest) >= 2 + proof_len * HASH_LEN,
               Allowed(kind, outputs[index], SiblingsRead(proof_len)),
               NextOutput(2 + proof_len * HASH_LEN)
        PROVE  Sound'
    <3>1. Fair(rest[2], signed)
      <4>1. 2 \in 1 .. Len(rest)
        BY <1>3, <2>3
      <4> QED
        BY <1>3, <4>1
    <3>2. proof_len \in Nat
      <4>1. MAX_BYTE \in Nat
        BY SessionWitnessAssumption
      <4> QED
        BY <3>1, <4>1 DEF Values, Fair
    <3>3. PICK n \in Nat : n = 2 + proof_len * HASH_LEN
      BY <3>2 DEF HASH_LEN
    <3>4. Listed(outputs[index])
      BY <1>1, <1>6, <2>1, <2>3, <3>2, AllowedIsListed
    <3>5. NextOutput(n) /\ n <= Len(rest)
      BY <1>3, <2>3, <3>3
    <3> QED
      BY <1>1, <1>6, <3>4, <3>5, NextOutputSound
  <2> QED
    BY <1>6, <2>2, <2>3 DEF ProveForeign
<1> QED
  BY <1>4, <1>5, <1>6 DEF ProveOutputs

\* A session without a list may pay anyone.
LEMMA UnscopedSound ==
    ASSUME Sound, Unscoped
    PROVE  Sound'
<1>1. Kept /\ pc = "policies" /\ ~Scoped /\ Answer("accept")
  BY DEF Sound, Unscoped
<1>2. account.scope.wildcard
  BY <1>1, ParamsAre, RootBytes DEF Scoped
<1>3. account' = account
  BY <1>1 DEF Answer, clientVars
<1>4. OnlyListed'
  BY <1>2, <1>3 DEF OnlyListed
<1>5. Authorised'
  BY <1>1, AcceptAuthorised
<1> QED
  BY <1>1, <1>4, <1>5, AnswerSound DEF Codes

\* Every step keeps the invariant.
LEMMA NextSound == Sound /\ [WitnessNext]_witnessVars => Sound'
<1> SUFFICES ASSUME Sound, [WitnessNext]_witnessVars PROVE Sound'
  OBVIOUS
<1>1. CASE Client
  BY <1>1, ClientSound
<1>2. CASE auth
  BY <1>2, AuthSound
<1>3. CASE OwnerSignature
  BY <1>3, OwnerSignatureSound
<1>4. CASE ResolveRegistered
  BY <1>4, ResolveRegisteredSound
<1>5. CASE ResolveCarried
  BY <1>5, ResolveCarriedSound
<1>6. CASE SessionSignature
  BY <1>6, SessionSignatureSound
<1>7. CASE GuardianSignature
  BY <1>7, GuardianSignatureSound
<1>8. CASE ProveOutputs
  BY <1>8, ProveOutputsSound
<1>9. CASE Unscoped
  BY <1>9, UnscopedSound
<1>10. CASE UNCHANGED witnessVars
  <2>1. /\ account' = account /\ args' = args /\ outputs' = outputs /\ signed' = signed
        /\ entries' = entries /\ builder' = builder /\ pc' = pc /\ rest' = rest
        /\ params' = params /\ index' = index /\ verdict' = verdict
    BY <1>10 DEF witnessVars
  <2>2. Kept'
    BY <2>1 DEF Sound, Kept, WitnessTypeOK
  <2>3. Checked'
    BY <2>1 DEF Sound, Checked, InSession, Listed
  <2>4. Authorised' /\ OnlyListed'
    BY <2>1 DEF Sound, Authorised, OnlyListed, Listed
  <2> QED
    BY <2>2, <2>3, <2>4 DEF Sound
<1> QED
  BY <1>1, <1>2, <1>3, <1>4, <1>5, <1>6, <1>7, <1>8, <1>9, <1>10 DEF WitnessNext, Lock

\* The invariant holds of every transaction: what the lock has read so far was signed
\* by those it was checked against, and every output it passed is listed.
THEOREM WitnessSound == WitnessSpec => []Sound
<1>1. WitnessInit => Sound
  BY SoundInit
<1>2. Sound /\ [WitnessNext]_witnessVars => Sound'
  BY NextSound
<1> QED
  BY <1>1, <1>2, PTL DEF WitnessSpec

\* The walk of check_output_policies stays within the outputs, and every answer
\* is a code of the lock.
THEOREM WitnessTypeCorrect == WitnessSpec => []WitnessTypeOK
<1>1. Sound => WitnessTypeOK
  BY DEF Sound, Kept
<1> QED
  BY <1>1, WitnessSound, PTL

\* No transaction is accepted that the owner, or the session's key and its
\* guardian, did not sign: whatever keys, lists, lengths and witnesses there are.
THEOREM WitnessAuthorised == WitnessSpec => []Authorised
<1>1. Sound => Authorised
  BY DEF Sound
<1> QED
  BY <1>1, WitnessSound, PTL

\* Nothing leaves a scoped account but to what is listed.
THEOREM WitnessOnlyListed == WitnessSpec => []OnlyListed
<1>1. Sound => OnlyListed
  BY DEF Sound
<1> QED
  BY <1>1, WitnessSound, PTL

-----------------------------------------------------------------------------
(***************************************************************************)
(* A witness made as documented.                                           *)
(***************************************************************************)
\* The proof region of the witness, and its parts.
Region == proof_region(entries)
Blessing == Signature(KeyHash(OWNER), params_auth_message(args))
Signed == TxSig(account.session) \o (GuardianSig(account.guardian) \o Region)
AfterMode == IF account.model = "registered" THEN Signed ELSE args \o (Blessing \o Signed)

\* What joins the frames of the region, up to the one the lock is at.
RegionFrom(i) ==
    \E f, B : /\ Frames(entries) \in Seq(Seq(B)) /\ \A b \in B : Fair(b, signed)
              /\ Joins(f, Frames(entries), B)
              /\ f[Len(entries)] = f[Place(i)] \o rest

\* What the lock has still to read of a witness made as documented.
Remaining ==
    /\ PartsVouched(TxSig(account.session), GuardianSig(account.guardian), Region, signed)
    /\ account.model = "carried" => Vouched(Blessing, signed)
    /\ pc # "owner"
    /\ pc = "auth" => rest = <<MODE_SESSION>> \o AfterMode
    /\ pc = "resolve" => rest = AfterMode
    /\ pc = "session" => rest = Signed
    /\ pc = "guardian" => rest = GuardianSig(account.guardian) \o Region
    /\ pc = "policies" /\ ~ account.scope.wildcard => RegionFrom(index - 1)
    /\ pc = "done" => verdict = "accept" /\ (account.scope.wildcard \/ rest = <<>>)

\* The inductive invariant behind BuiltIsAccepted.
Whole == WellBuilt /\ pc # "build" => Remaining

-----------------------------------------------------------------------------
\* How many of the outputs are foreign.
LEMMA PlaceCounts ==
    /\ Place(0) = 0
    /\ \A i \in Nat : Place(i) \in Nat
    /\ \A i \in Nat : outputs[i + 1] = SelfOutput => Place(i + 1) = Place(i)
    /\ \A i \in Nat : outputs[i + 1] # SelfOutput => Place(i + 1) = Place(i) + 1
    /\ \A i \in Nat, n \in Nat : i <= n => Place(i) <= Place(n)
<1> DEFINE F(i) == {j \in 1 .. i : outputs[j] # SelfOutput}
<1>1. \A i : Place(i) = Cardinality(F(i))
  BY DEF Place
<1>2. \A i \in Nat : IsFiniteSet(F(i))
  <2> SUFFICES ASSUME NEW i \in Nat PROVE IsFiniteSet(F(i))
    OBVIOUS
  <2>1. IsFiniteSet(1 .. i)
    BY FS_Interval
  <2>2. F(i) \in SUBSET (1 .. i)
    OBVIOUS
  <2> HIDE DEF F
  <2> QED
    BY <2>1, <2>2, FS_Subset
<1>3. F(0) = {}
  OBVIOUS
<1>4. \A i \in Nat : outputs[i + 1] = SelfOutput => F(i + 1) = F(i)
  OBVIOUS
<1>5. \A i \in Nat : outputs[i + 1] # SelfOutput => F(i + 1) = F(i) \cup {i + 1} /\ i + 1 \notin F(i)
  OBVIOUS
<1>6. \A i \in Nat, n \in Nat : i <= n => F(i) \in SUBSET F(n)
  OBVIOUS
<1> HIDE DEF F
<1>7. \A i \in Nat : Place(i) \in Nat
  BY <1>1, <1>2, FS_CardinalityType
<1>8. Place(0) = 0
  BY <1>1, <1>3, FS_EmptySet
<1>9. \A i \in Nat : outputs[i + 1] # SelfOutput => Place(i + 1) = Place(i) + 1
  <2> SUFFICES ASSUME NEW i \in Nat, outputs[i + 1] # SelfOutput PROVE Place(i + 1) = Place(i) + 1
    OBVIOUS
  <2>1. Cardinality(F(i) \cup {i + 1}) = Cardinality(F(i)) + 1
    BY <1>2, <1>5, FS_AddElement
  <2> QED
    BY <1>1, <1>5, <2>1
<1>10. \A i \in Nat, n \in Nat : i <= n => Place(i) <= Place(n)
  <2> SUFFICES ASSUME NEW i \in Nat, NEW n \in Nat, i <= n PROVE Place(i) <= Place(n)
    OBVIOUS
  <2>1. Cardinality(F(i)) <= Cardinality(F(n))
    BY <1>2, <1>6, FS_Subset
  <2> QED
    BY <1>1, <2>1
<1>11. \A i \in Nat : outputs[i + 1] = SelfOutput => Place(i + 1) = Place(i)
  BY <1>1, <1>4
<1> QED
  BY <1>7, <1>8, <1>9, <1>10, <1>11

\* The siblings of a proof of n.
IsProof(proof, n) ==
    \E X : proof \in Seq(X) /\ (\A x \in X : IsSibling(x)) /\ n = Len(proof)

\* A small number fits a byte.
Byte(n) == n % 256

\* Below 256 it is the number.
LEMMA FitsByte ==
    ASSUME NEW n \in 0 .. 255
    PROVE  Byte(n) = n /\ n \in Nat
BY DEF Byte

\* Siblings are of one length: the lock finds each where it was put.
LEMMA Uniform ==
    ASSUME NEW n \in Nat, NEW proof, IsProof(proof, n)
    PROVE  /\ Vouched(FlattenSeq(proof), {})
           /\ Len(FlattenSeq(proof)) = 2 * n
           /\ \A i \in 1 .. n :
                SubSeq(FlattenSeq(proof), 2 * (i - 1) + 1, 2 * i) = proof[i]
<1>0. PICK X : proof \in Seq(X) /\ \A x \in X : IsSibling(x)
  BY DEF IsProof
<1>1. \A x \in X : Vouched(x, {}) /\ Len(x) = 2
  BY <1>0, DigestBytes DEF HASH_LEN
<1>2. n = Len(proof)
  BY DEF IsProof
<1>3. /\ Vouched(FlattenSeq(proof), {})
      /\ \E f, B : /\ proof \in Seq(Seq(B)) /\ \A b \in B : Fair(b, {})
                   /\ Joins(f, proof, B) /\ FlattenSeq(proof) = f[Len(proof)]
  <2>1. \A x \in X : Vouched(x, {})
    BY <1>1
  <2> QED
    BY <1>0, <2>1, FlattenVouched
<1>4. PICK f, B : /\ proof \in Seq(Seq(B)) /\ \A b \in B : Fair(b, {})
                  /\ Joins(f, proof, B) /\ FlattenSeq(proof) = f[n]
  BY <1>2, <1>3
<1>5. /\ f \in [0 .. n -> Seq(B)] /\ f[0] = <<>>
      /\ \A i \in 1 .. n : f[i] = f[i - 1] \o proof[i]
  BY <1>2, <1>4 DEF Joins
<1>6. \A i \in 1 .. n : proof[i] \in Seq(B) /\ proof[i] \in X
  BY <1>0, <1>2, <1>4, ElementOfSeq
<1>7. \A s \in Seq(B) : Vouched(s, {})
  BY <1>4 DEF Vouched
<1> DEFINE T == {k \in 0 .. n : Len(f[k]) = 2 * k}
<1>8. 0 \in T
  <2>1. 0 \in 0 .. n /\ Len(<<>>) = 0 /\ 2 * 0 = 0
    OBVIOUS
  <2> QED
    BY <1>5, <2>1
<1>9. ASSUME NEW k \in 1 .. n, k - 1 \in T PROVE k \in T
  <2>1. PICK p : p = f[k - 1]
    OBVIOUS
  <2>2. PICK q : q = proof[k]
    OBVIOUS
  <2>3. k - 1 \in 0 .. n /\ k \in 0 .. n
    OBVIOUS
  <2>4. Vouched(p, {}) /\ Vouched(q, {}) /\ Len(q) = 2 /\ Len(p) = 2 * (k - 1)
    BY <1>1, <1>5, <1>6, <1>7, <1>9, <2>1, <2>2, <2>3
  <2>5. f[k] = p \o q
    BY <1>5, <2>1, <2>2
  <2>6. Len(p \o q) = 2 * (k - 1) + 2
    BY <2>4, VouchedConcat
  <2>7. 2 * (k - 1) + 2 = 2 * k
    OBVIOUS
  <2> QED
    BY <2>3, <2>5, <2>6, <2>7
<1> HIDE DEF T
<1>10. \A k \in 0 .. n : Len(f[k]) = 2 * k
  <2>1. \A k \in 0 .. n : k \in T
    BY <1>8, <1>9, StepsReach
  <2> QED
    BY <2>1 DEF T
<1>11. ASSUME NEW i \in 1 .. n PROVE SubSeq(FlattenSeq(proof), 2 * (i - 1) + 1, 2 * i) = proof[i]
  <2>1. i \in 0 .. n /\ i - 1 \in 0 .. n
    OBVIOUS
  <2>2. PICK r \in Seq(B) : f[n] = f[i] \o r
    <3>1. PICK ss : ss = proof
      OBVIOUS
    <3>2. Joins(f, ss, B) /\ i \in 0 .. Len(ss)
      BY <1>2, <1>4, <2>1, <3>1
    <3>3. \A m \in 0 .. Len(ss) : \E r \in Seq(B) : f[Len(ss)] = f[m] \o r
      <4>1. Splits(f, ss, B)
        BY <3>2, JoinsSplit
      <4> QED
        BY <4>1 DEF Splits
    <3> QED
      BY <1>2, <3>1, <3>2, <3>3
  <2>3. PICK p : p = f[i - 1]
    OBVIOUS
  <2>4. PICK q : q = proof[i]
    OBVIOUS
  <2>5. PICK u : u = p \o q
    OBVIOUS
  <2>6. f[i] = u /\ f[n] = u \o r
    BY <1>5, <2>2, <2>3, <2>4, <2>5
  <2>7. /\ Vouched(p, {}) /\ Vouched(q, {}) /\ Vouched(u, {}) /\ Vouched(r, {})
        /\ Len(p) = 2 * (i - 1) /\ Len(u) = 2 * i
    BY <1>5, <1>6, <1>7, <1>10, <2>1, <2>2, <2>3, <2>4, <2>6
  <2>8. SubSeq(u, Len(p) + 1, Len(u)) = q
    BY <2>5, <2>7, ReadParts
  <2>9. \A m \in 1 .. Len(u), k \in 1 .. Len(u) : SubSeq(u \o r, m, k) = SubSeq(u, m, k)
    BY <2>7, ReadParts
  <2>10. 2 * (i - 1) + 1 \in 1 .. 2 * i /\ 2 * i \in 1 .. 2 * i
    OBVIOUS
  <2>11. SubSeq(u \o r, 2 * (i - 1) + 1, 2 * i) = SubSeq(u, 2 * (i - 1) + 1, 2 * i)
    BY <2>7, <2>9, <2>10
  <2> QED
    BY <1>4, <2>4, <2>6, <2>7, <2>8, <2>11
<1>12. Len(FlattenSeq(proof)) = 2 * n
  <2>1. n \in 0 .. n
    OBVIOUS
  <2> QED
    BY <1>4, <1>10, <2>1
<1> QED
  BY <1>2, <1>3, <1>11, <1>12

\* h and t are the two bytes and the siblings of an entry.
IsFrame(h, t, kind, n, proof, sigs) ==
    /\ Vouched(h, sigs) /\ Len(h) = 2 /\ h[1] = Num(kind) /\ h[2] = Num(n)
    /\ Vouched(t, sigs) /\ Len(t) = 2 * n
    /\ \A i \in 1 .. n : SubSeq(t, 2 * (i - 1) + 1, 2 * i) = proof[i]

\* What an entry is framed to.
LEMMA FrameIs ==
    ASSUME NEW e, e.kind \in Nat, NEW n \in 0 .. 255, IsProof(e.proof, n), NEW sigs
    PROVE  \E h, t : Framed(e) = h \o t /\ IsFrame(h, t, e.kind, n, e.proof, sigs)
<1>0. Byte(n) = n /\ n \in Nat
  BY FitsByte
<1>1. n = Len(e.proof) /\ n \in Nat /\ n % 256 = n
  <2>1. n = Len(e.proof)
    BY DEF IsProof
  <2>2. n % 256 = n
    BY <1>0 DEF Byte
  <2> QED
    BY <1>0, <2>1, <2>2
<1>2. PICK k \in Nat : k = e.kind
  OBVIOUS
<1>3. PICK h : h = <<Num(k), Num(n)>>
  OBVIOUS
<1>4. PICK t : t = FlattenSeq(e.proof)
  OBVIOUS
<1>5. Framed(e) = h \o t
  BY <1>1, <1>2, <1>3, <1>4 DEF Framed
<1>6. Vouched(h, sigs) /\ Len(h) = 2 /\ h[1] = Num(k) /\ h[2] = Num(n)
  <2>1. \A m \in Nat : Fair(Num(m), sigs)
    <3>1. \A m \in Nat : Num(m)[1] = "num" /\ Num(m)[2] = m
      BY DEF Num
    <3> QED
      BY <3>1 DEF Fair
  <2>2. Vouched(h, sigs) /\ Len(h) = 2
    BY <1>3, <2>1, TwoBytes
  <2> QED
    BY <1>3, <2>2
<1>7. /\ Vouched(t, sigs) /\ Len(t) = 2 * n
      /\ \A i \in 1 .. n : SubSeq(t, 2 * (i - 1) + 1, 2 * i) = e.proof[i]
  <2>1. /\ Vouched(t, {}) /\ Len(t) = 2 * n
        /\ \A i \in 1 .. n : SubSeq(t, 2 * (i - 1) + 1, 2 * i) = e.proof[i]
    BY <1>1, <1>4, Uniform
  <2>2. {} \subseteq sigs
    OBVIOUS
  <2> QED
    BY <2>1, <2>2, VouchedMore
<1> QED
  BY <1>2, <1>5, <1>6, <1>7 DEF IsFrame

\* w reads as an entry with r after it.
ReadsAs(w, kind, n, proof, r) ==
    /\ Len(w) \in Nat /\ Len(w) >= 2 + 2 * n
    /\ w[1] = Num(kind) /\ w[2] = Num(n)
    /\ \A i \in 1 .. n : SubSeq(w, 3 + 2 * (i - 1), 2 + 2 * i) = proof[i]
    /\ SubSeq(w, 2 + 2 * n + 1, Len(w)) = r

\* What the lock reads of an entry that was framed, with anything after it.
LEMMA FrameRead ==
    ASSUME NEW h, NEW t, NEW kind, NEW n \in Nat, NEW proof, NEW sigs,
           IsFrame(h, t, kind, n, proof, sigs), NEW r, Vouched(r, sigs)
    PROVE  ReadsAs((h \o t) \o r, kind, n, proof, r)
<1>1. /\ Vouched(h, sigs) /\ Len(h) = 2 /\ h[1] = Num(kind) /\ h[2] = Num(n)
      /\ Vouched(t, sigs) /\ Len(t) = 2 * n
  BY DEF IsFrame
<1>2. PICK u : u = h \o t
  OBVIOUS
<1>3. Vouched(u, sigs) /\ Len(u) = 2 + 2 * n
  BY <1>1, <1>2, VouchedConcat
<1>4. PICK w : w = u \o r
  OBVIOUS
<1>5. Len(w) = (2 + 2 * n) + Len(r) /\ Len(r) \in Nat
  BY <1>3, <1>4, VouchedConcat
<1>6. /\ SubSeq(w, Len(u) + 1, Len(w)) = r
      /\ \A m \in 1 .. Len(u), k \in 1 .. Len(u) : SubSeq(w, m, k) = SubSeq(u, m, k)
      /\ \A i \in 1 .. Len(u) : w[i] = u[i]
  <2>1. Vouched(u, sigs) /\ Vouched(r, sigs)
    BY <1>3
  <2> QED
    BY <1>4, <2>1, ReadParts
<1>7. w[1] = Num(kind) /\ w[2] = Num(n)
  <2>1. \A i \in 1 .. Len(h) : u[i] = h[i]
    <3>1. Vouched(h, sigs) /\ Vouched(t, sigs)
      BY <1>1
    <3> QED
      BY <1>2, <3>1, ReadParts
  <2>2. 1 \in 1 .. Len(u) /\ 2 \in 1 .. Len(u) /\ 1 \in 1 .. Len(h) /\ 2 \in 1 .. Len(h)
    BY <1>1, <1>3
  <2> QED
    BY <1>1, <1>6, <2>1, <2>2
<1>8. ASSUME NEW i \in 1 .. n PROVE SubSeq(w, 3 + 2 * (i - 1), 2 + 2 * i) = proof[i]
  <2>1. PICK c : c = 2 * (i - 1) + 1
    OBVIOUS
  <2>2. PICK d : d = 2 * i
    OBVIOUS
  <2>3. PICK l : l = 2 * n
    OBVIOUS
  <2>4. c \in 1 .. l /\ d \in 1 .. l /\ l \in Nat
    BY <2>1, <2>2, <2>3
  <2>5. 3 + 2 * (i - 1) = 2 + c /\ 2 + 2 * i = 2 + d
    BY <2>1, <2>2
  <2>6. SubSeq(t, c, d) = proof[i]
    BY <2>1, <2>2 DEF IsFrame
  <2>7. Len(u) = 2 + l /\ Len(t) = l
    BY <1>1, <1>3, <2>3
  <2>8. 2 + c \in 1 .. Len(u) /\ 2 + d \in 1 .. Len(u)
    BY <2>4, <2>7
  <2>9. SubSeq(w, 2 + c, 2 + d) = SubSeq(u, 2 + c, 2 + d)
    BY <1>6, <2>8
  <2>10. PICK S : h \in Seq(S) /\ t \in Seq(S)
    <3>1. PICK A : h \in Seq(A)
      BY <1>1 DEF Vouched
    <3>2. PICK C : t \in Seq(C)
      BY <1>1 DEF Vouched
    <3>3. h \in Seq(A \cup C) /\ t \in Seq(A \cup C)
      BY <3>1, <3>2, SeqMonotonic
    <3> QED
      BY <3>3
  <2>11. SubSeq(u, 2 + c, 2 + d) = SubSeq(t, c, d)
    <3>1. PICK a : a = 2 + c
      OBVIOUS
    <3>2. PICK b : b = 2 + d
      OBVIOUS
    <3>3. /\ a \in 2 + 1 .. 2 + l /\ b \in 2 + 1 .. 2 + l
          /\ a - 2 = c /\ b - 2 = d
      BY <2>4, <3>1, <3>2
    <3>4. a \in Len(h) + 1 .. Len(h) + Len(t) /\ b \in Len(h) + 1 .. Len(h) + Len(t)
      BY <1>1, <2>7, <3>3
    <3>5. SubSeq(h \o t, a, b) = SubSeq(t, a - Len(h), b - Len(h))
      BY <2>10, <3>4, SubSeqOfConcat2
    <3> QED
      BY <1>1, <1>2, <3>1, <3>2, <3>3, <3>5
  <2> QED
    BY <2>5, <2>6, <2>9, <2>11
<1>9. Len(w) \in Nat /\ Len(w) >= 2 + 2 * n
  BY <1>5
<1>10. SubSeq(w, 2 + 2 * n + 1, Len(w)) = r
  BY <1>3, <1>6
<1>11. ReadsAs(w, kind, n, proof, r)
  BY <1>7, <1>8, <1>9, <1>10 DEF ReadsAs
<1> QED
  BY <1>2, <1>4, <1>11

-----------------------------------------------------------------------------
\* The lock changes nothing of what the client sent.
LEMMA SameBuilt ==
    ASSUME UNCHANGED clientVars
    PROVE  /\ account' = account /\ args' = args /\ outputs' = outputs /\ signed' = signed
           /\ entries' = entries /\ builder' = builder
           /\ WellBuilt' = WellBuilt
           /\ Region' = Region /\ Blessing' = Blessing /\ Signed' = Signed
           /\ AfterMode' = AfterMode
           /\ \A i : Place(i)' = Place(i)
<1>1. /\ account' = account /\ args' = args /\ outputs' = outputs /\ signed' = signed
      /\ entries' = entries /\ builder' = builder
  BY DEF clientVars
<1>2. \A i : Place(i)' = Place(i)
  BY <1>1 DEF Place
<1>3. \A e, o : Proves(e, o)' <=> Proves(e, o)
  BY <1>1 DEF Proves
<1>4. Region' = Region /\ Blessing' = Blessing
  BY <1>1 DEF Region, Blessing
<1>5. Signed' = Signed
  BY <1>1, <1>4 DEF Signed
<1>6. AfterMode' = AfterMode
  BY <1>1, <1>4, <1>5 DEF AfterMode
<1>7. WellBuilt' <=> WellBuilt
  BY <1>1, <1>2, <1>3 DEF WellBuilt
<1>8. WellBuilt \in BOOLEAN /\ WellBuilt' \in BOOLEAN
  BY DEF WellBuilt
<1> QED
  BY <1>1, <1>2, <1>4, <1>5, <1>6, <1>7, <1>8

\* What the parts of a witness made as documented are.
LEMMA FieldsShape ==
    ASSUME Kept, Remaining
    PROVE  /\ Vouched(TxSig(account.session), signed)
           /\ Vouched(GuardianSig(account.guardian), signed)
           /\ Vouched(Region, signed)
           /\ Vouched(GuardianSig(account.guardian) \o Region, signed)
           /\ Vouched(Signed, signed)
           /\ Vouched(args, signed) /\ Len(args) = SESSION_PARAMS_LEN
           /\ Vouched(AfterMode, signed)
           /\ account.model \in {"registered", "carried"}
           /\ account.model = "carried" => Vouched(Blessing, signed)
<1>1. /\ Vouched(TxSig(account.session), signed)
      /\ Vouched(GuardianSig(account.guardian), signed)
      /\ Vouched(Region, signed)
  BY DEF Remaining, PartsVouched
<1>2. PICK s : s = TxSig(account.session)
  OBVIOUS
<1>3. PICK gr : gr = GuardianSig(account.guardian) \o Region
  OBVIOUS
<1>4. Vouched(gr, signed)
  BY <1>1, <1>3, VouchedConcat
<1>5. Vouched(s \o gr, signed)
  BY <1>1, <1>2, <1>4, VouchedConcat
<1>6. Signed = s \o gr
  BY <1>2, <1>3 DEF Signed
<1>7. account \in Accounts /\ args = session_params(account)
  BY DEF Kept, WitnessTypeOK
<1>8. Vouched(args, signed) /\ Len(args) = SESSION_PARAMS_LEN
  BY <1>7, ParamsRead
<1>9. account.model \in {"registered", "carried"}
  BY <1>7, SessionWitnessAssumption DEF AccountLayout
<1>10. CASE account.model = "registered"
  BY <1>1, <1>3, <1>4, <1>5, <1>6, <1>8, <1>9, <1>10 DEF AfterMode
<1>11. CASE account.model = "carried"
  <2>1. Vouched(Blessing, signed)
    BY <1>11 DEF Remaining
  <2>2. PICK b : b = Blessing \o Signed
    OBVIOUS
  <2>3. Vouched(b, signed)
    BY <1>5, <1>6, <2>1, <2>2, VouchedConcat
  <2>4. Vouched(args \o b, signed)
    BY <1>8, <2>3, VouchedConcat
  <2>5. AfterMode = args \o b
    BY <1>11, <2>2 DEF AfterMode
  <2> QED
    BY <1>1, <1>3, <1>4, <1>5, <1>6, <1>8, <1>9, <2>1, <2>4, <2>5
<1> QED
  BY <1>9, <1>10, <1>11

\* A signature is as long as any.
LEMMA SignatureLen ==
    ASSUME NEW k, NEW m
    PROVE  Len(Signature(KeyHash(k), m)) = SIGNATURE_LEN
<1>1. PICK sigs : sigs = {<<k, m>>}
  OBVIOUS
<1>2. <<k, m>> \in sigs
  BY <1>1
<1> QED
  BY <1>2, SignatureBytes

\* The lock finds the signature that was put first.
LEMMA GoodFirst ==
    ASSUME NEW k, NEW t, rest = TxSig(k) \o t, Vouched(TxSig(k), signed), Vouched(t, signed)
    PROVE  /\ ~Short(SIGNATURE_LEN) /\ Good(KeyHash(k)) /\ ~Wrong(KeyHash(k))
           /\ After(SIGNATURE_LEN) = t
<1>1. PICK s : s = TxSig(k)
  OBVIOUS
<1>2. Len(s) = SIGNATURE_LEN
  BY <1>1, SignatureLen DEF TxSig
<1>3. PICK w : w = s \o t
  OBVIOUS
<1>4. Vouched(s, signed) /\ Vouched(t, signed) /\ rest = w
  BY <1>1, <1>3
<1>5. Len(w) = Len(s) + Len(t) /\ Len(t) \in Nat
  BY <1>3, <1>4, VouchedConcat
<1>6. SubSeq(w, 1, Len(s)) = s /\ SubSeq(w, Len(s) + 1, Len(w)) = t
  BY <1>3, <1>4, ReadParts
<1>7. ~Short(SIGNATURE_LEN)
  BY <1>2, <1>4, <1>5, Lengths DEF Short
<1>8. First(SIGNATURE_LEN) = s /\ After(SIGNATURE_LEN) = t
  BY <1>2, <1>4, <1>6 DEF First, After
<1>9. Good(KeyHash(k))
  BY <1>1, <1>7, <1>8 DEF Good, signature_matches, TxSig
<1> QED
  BY <1>7, <1>8, <1>9 DEF Wrong

\* What the lock has read changes nothing but where it is.
LEMMA StillVouched ==
    ASSUME Remaining, UNCHANGED clientVars
    PROVE  /\ PartsVouched(TxSig(account.session), GuardianSig(account.guardian), Region, signed)'
           /\ (account.model = "carried" => Vouched(Blessing, signed))'
           /\ WellBuilt' = WellBuilt
<1>1. /\ account' = account /\ signed' = signed /\ Region' = Region /\ Blessing' = Blessing
      /\ WellBuilt' = WellBuilt
  BY SameBuilt
<1> QED
  BY <1>1 DEF Remaining

\* The mode of a session is read.
LEMMA AuthWhole ==
    ASSUME Kept, Remaining, auth
    PROVE  Remaining' /\ UNCHANGED clientVars
<1>1. rest = <<MODE_SESSION>> \o AfterMode /\ pc = "auth"
  BY DEF Remaining, auth
<1>2. PICK a : a = AfterMode
  OBVIOUS
<1>3. Vouched(a, signed)
  BY <1>2, FieldsShape
<1>4. PICK w : w = rest
  OBVIOUS
<1>5. w # <<>> /\ w[1] = MODE_SESSION /\ SubSeq(w, 2, Len(w)) = a
  BY <1>1, <1>2, <1>3, <1>4, Headed DEF MODE_SESSION
<1>6. rest # <<>> /\ rest[1] = MODE_SESSION /\ After(1) = AfterMode
  <2>1. 1 + 1 = 2
    OBVIOUS
  <2> QED
    BY <1>2, <1>4, <1>5, <2>1 DEF After
<1>7. GoTo("resolve", 1)
  BY <1>6, Modes DEF auth
<1>8. pc' = "resolve" /\ rest' = AfterMode /\ UNCHANGED clientVars
  BY <1>6, <1>7 DEF GoTo
<1>9. AfterMode' = AfterMode
  BY <1>8, SameBuilt
<1> QED
  BY <1>8, <1>9, StillVouched DEF Remaining

\* The params in the args, or those the owner blessed.
LEMMA ResolveRegisteredWhole ==
    ASSUME Kept, Remaining, ResolveRegistered
    PROVE  Remaining' /\ UNCHANGED clientVars
<1>1. pc = "resolve" /\ pc' = "session" /\ rest' = rest /\ UNCHANGED clientVars
  BY DEF ResolveRegistered
<1>2. rest = Signed
  BY <1>1 DEF Remaining, ResolveRegistered, AfterMode
<1>3. Signed' = Signed
  BY <1>1, SameBuilt
<1> QED
  BY <1>1, <1>2, <1>3, StillVouched DEF Remaining

\* The lock finds the carried params and the owner's blessing of them.
LEMMA ResolveCarriedWhole ==
    ASSUME Kept, Remaining, ResolveCarried
    PROVE  Remaining' /\ UNCHANGED clientVars
<1> DEFINE block == First(SESSION_PARAMS_LEN)
           fields == SESSION_PARAMS_LEN + SIGNATURE_LEN
           blessed == signature_matches(SubSeq(rest, SESSION_PARAMS_LEN + 1, fields),
                                        params_auth_message(block), KeyHash(OWNER))
<1>1. pc = "resolve" /\ account.model = "carried"
  BY DEF ResolveCarried
<1>2. PICK a : a = args
  OBVIOUS
<1>3. PICK b : b = Blessing
  OBVIOUS
<1>4. PICK s : s = Signed
  OBVIOUS
<1>5. Vouched(a, signed) /\ Vouched(b, signed) /\ Vouched(s, signed) /\ Len(a) = SESSION_PARAMS_LEN
  BY <1>1, <1>2, <1>3, <1>4, FieldsShape
<1>6. Len(b) = SIGNATURE_LEN
  BY <1>3, SignatureLen DEF Blessing
<1>7. rest = a \o (b \o s)
  BY <1>1, <1>2, <1>3, <1>4 DEF Remaining, AfterMode
<1>8. PICK u : u = a \o b
  OBVIOUS
<1>9. PICK w : w = u \o s
  OBVIOUS
<1>10. rest = w
  <2>1. Vouched(a, signed) /\ Vouched(b, signed) /\ Vouched(s, signed)
    BY <1>5
  <2>2. (a \o b) \o s = a \o (b \o s)
    BY <2>1, Regroup, SMTT(30)
  <2> QED
    BY <1>7, <1>8, <1>9, <2>2
<1>11. Vouched(u, signed) /\ Len(u) = SESSION_PARAMS_LEN + SIGNATURE_LEN
  BY <1>5, <1>6, <1>8, VouchedConcat
<1>12. Len(w) = Len(u) + Len(s) /\ Len(s) \in Nat /\ Len(u) \in Nat
  BY <1>5, <1>9, <1>11, VouchedConcat
<1>13. /\ SubSeq(w, Len(u) + 1, Len(w)) = s
       /\ \A m \in 1 .. Len(u), n \in 1 .. Len(u) : SubSeq(w, m, n) = SubSeq(u, m, n)
  <2>1. Vouched(u, signed) /\ Vouched(s, signed)
    BY <1>5, <1>11
  <2> QED
    BY <1>9, <2>1, ReadParts
<1>14. SubSeq(u, 1, Len(a)) = a /\ SubSeq(u, Len(a) + 1, Len(u)) = b
  <2>1. Vouched(a, signed) /\ Vouched(b, signed)
    BY <1>5
  <2> QED
    BY <1>8, <2>1, ReadParts
<1>15. PICK p \in Nat : p = SESSION_PARAMS_LEN /\ p >= 1
  BY Lengths
<1>16. PICK q \in Nat : q = SIGNATURE_LEN /\ q >= 1
  BY Lengths
<1>17. Len(a) = p /\ Len(u) = p + q
  BY <1>5, <1>11, <1>15, <1>16
<1>18. 1 \in 1 .. Len(u) /\ p \in 1 .. Len(u) /\ p + 1 \in 1 .. Len(u) /\ p + q \in 1 .. Len(u)
  BY <1>15, <1>16, <1>17
<1>19. SubSeq(w, 1, p) = a /\ SubSeq(w, p + 1, p + q) = b
  BY <1>13, <1>14, <1>17, <1>18
<1>20. block = args /\ blessed
  <2>1. block = args
    BY <1>2, <1>10, <1>15, <1>19 DEF First
  <2>2. SubSeq(rest, SESSION_PARAMS_LEN + 1, fields) = Blessing
    BY <1>3, <1>10, <1>15, <1>16, <1>19
  <2> QED
    BY <2>1, <2>2 DEF signature_matches, Blessing
<1>21. ~Short(fields)
  <2>1. Len(w) >= p + q
    BY <1>12, <1>17
  <2>2. ~(Len(w) < p + q)
    BY <1>12, <1>17, <2>1
  <2> QED
    BY <1>10, <1>15, <1>16, <2>2 DEF Short
<1>22. After(fields) = Signed
  BY <1>4, <1>10, <1>13, <1>15, <1>16, <1>17 DEF After
<1>23. rest' = After(fields) /\ pc' = "session" /\ UNCHANGED clientVars
  BY <1>20, <1>21 DEF ResolveCarried
<1>24. Signed' = Signed
  BY <1>23, SameBuilt
<1> QED
  BY <1>22, <1>23, <1>24, StillVouched DEF Remaining

\* The session's signature is found.
LEMMA SessionSignatureWhole ==
    ASSUME Kept, Remaining, WellBuilt, SessionSignature
    PROVE  Remaining' /\ UNCHANGED clientVars
<1>1. pc = "session" /\ rest = Signed
  BY DEF Remaining, SessionSignature
<1>2. PICK t : t = GuardianSig(account.guardian) \o Region
  OBVIOUS
<1>3. rest = TxSig(account.session) \o t
  BY <1>1, <1>2 DEF Signed
<1>4. Vouched(TxSig(account.session), signed) /\ Vouched(t, signed)
  BY <1>2, FieldsShape
<1>5. params.session_pubkey_hash = KeyHash(account.session)
  BY ParamsAre
<1>6. /\ ~Short(SIGNATURE_LEN) /\ Good(params.session_pubkey_hash)
      /\ ~Wrong(params.session_pubkey_hash) /\ After(SIGNATURE_LEN) = t
  BY <1>3, <1>4, <1>5, GoodFirst
<1>7. params.session_pubkey_hash # Zeros(KEY_LEN)
  <2>1. account.session # NoKey
    BY DEF WellBuilt
  <2> QED
    BY <1>5, <2>1, NoKeyHash, KeyOfHash
<1>8. GoTo("guardian", SIGNATURE_LEN)
  BY <1>6, <1>7 DEF SessionSignature
<1>9. pc' = "guardian" /\ rest' = t /\ UNCHANGED clientVars
  BY <1>6, <1>8 DEF GoTo
<1>10. account' = account /\ Region' = Region
  BY <1>9, SameBuilt
<1>11. rest' = (GuardianSig(account.guardian) \o Region)'
  BY <1>2, <1>9, <1>10
<1> QED
  BY <1>9, <1>11, StillVouched DEF Remaining

\* The guardian's signature is found, where there is one.
LEMMA GuardianSignatureWhole ==
    ASSUME Kept, Remaining, GuardianSignature
    PROVE  Remaining' /\ UNCHANGED clientVars
<1>1. pc = "guardian" /\ rest = GuardianSig(account.guardian) \o Region
  BY DEF Remaining, GuardianSignature
<1>2. PICK r : r = Region
  OBVIOUS
<1>3. Vouched(r, signed) /\ Vouched(GuardianSig(account.guardian), signed)
  BY <1>2, FieldsShape
<1>4. params.guardian_pubkey_hash = KeyHash(account.guardian)
  BY ParamsAre
<1>5. pc' = "policies" /\ rest' = r /\ index' = index /\ UNCHANGED clientVars
  <2>1. CASE account.guardian = NoKey
    <3>1. ~Guarded
      BY <1>4, <2>1, NoKeyHash DEF Guarded
    <3>2. GoTo("policies", 0)
      BY <3>1 DEF GuardianSignature
    <3>3. rest = r
      <4>1. rest = <<>> \o r
        BY <1>1, <1>2, <2>1 DEF GuardianSig
      <4> QED
        BY <1>3, <4>1, NothingMore
    <3>4. SubSeq(r, 1, Len(r)) = r
      BY <1>3, NothingMore
    <3>5. After(0) = r
      <4>1. 0 + 1 = 1
        OBVIOUS
      <4> QED
        BY <3>3, <3>4, <4>1 DEF After
    <3> QED
      BY <3>2, <3>5 DEF GoTo
  <2>2. CASE account.guardian # NoKey
    <3>1. Guarded
      BY <1>4, <2>2, NoKeyHash, KeyOfHash DEF Guarded
    <3>2. GuardianSig(account.guardian) = TxSig(account.guardian)
      BY <2>2 DEF GuardianSig
    <3>3. rest = TxSig(account.guardian) \o r /\ Vouched(TxSig(account.guardian), signed)
      BY <1>1, <1>2, <1>3, <3>2
    <3>4. /\ ~Short(SIGNATURE_LEN) /\ ~Wrong(params.guardian_pubkey_hash)
          /\ After(SIGNATURE_LEN) = r
      BY <1>3, <1>4, <3>3, GoodFirst
    <3>5. GoTo("policies", SIGNATURE_LEN)
      BY <3>1, <3>4 DEF GuardianSignature
    <3> QED
      BY <3>4, <3>5 DEF GoTo
  <2> QED
    BY <2>1, <2>2
<1>6. index = 1
  BY <1>1 DEF Kept
<1>7. RegionFrom(index - 1)'
  <2>1. account.scope.policies \in Seq(Script) /\ entries \in Seq(Entry(account.scope.policies))
    BY ParamsAre DEF Kept
  <2>2. PICK f, B : /\ Frames(entries) \in Seq(Seq(B)) /\ \A b \in B : Fair(b, signed)
                    /\ Joins(f, Frames(entries), B) /\ proof_region(entries) = f[Len(entries)]
    BY <2>1, RegionBytes
  <2>3. f[0] = <<>>
    BY <2>2 DEF Joins
  <2>4. Place(0) = 0
    BY PlaceCounts
  <2>5. <<>> \o r = r
    BY <1>3, NothingMore
  <2>6. f[Len(entries)] = f[Place(0)] \o r
    BY <1>2, <2>2, <2>3, <2>4, <2>5 DEF Region
  <2>7. entries' = entries /\ signed' = signed /\ Place(0)' = Place(0)
    BY <1>5, SameBuilt
  <2>8. index' - 1 = 0
    BY <1>5, <1>6
  <2>9. RegionFrom(0)'
    BY <1>5, <2>2, <2>6, <2>7 DEF RegionFrom
  <2>10. Place(index - 1)' = Place(0)'
    BY <2>8 DEF Place
  <2> QED
    BY <2>9, <2>10 DEF RegionFrom
<1> QED
  BY <1>5, <1>7, StillVouched DEF Remaining

\* The output has an entry at its place, which is a proof of its type or lock.
LEMMA EntryAt ==
    ASSUME Kept, WellBuilt, ~ account.scope.wildcard, index <= Len(outputs),
           outputs[index] # SelfOutput
    PROVE  /\ Place(index) = Place(index - 1) + 1
           /\ Place(index - 1) \in Nat
           /\ Place(index) \in 1 .. Len(entries)
           /\ Proves(entries[Place(index)], outputs[index])
<1>1. index \in 1 .. Len(outputs) + 1 /\ Len(outputs) \in Nat /\ DOMAIN outputs = 1 .. Len(outputs)
  BY DEF Kept, WitnessTypeOK
<1>2. /\ Len(entries) = Place(Len(outputs))
      /\ \A i \in DOMAIN outputs : outputs[i] # SelfOutput => Proves(entries[Place(i)], outputs[i])
  BY DEF WellBuilt
<1>3. PICK i \in Nat : i = index - 1 /\ i + 1 = index
  BY <1>1
<1>4. Place(i) \in Nat /\ Place(i + 1) = Place(i) + 1 /\ Place(i + 1) <= Place(Len(outputs))
  <2>1. i + 1 \in Nat /\ i + 1 <= Len(outputs)
    BY <1>1, <1>3
  <2> QED
    BY <1>1, <1>3, <2>1, PlaceCounts
<1>5. Len(entries) \in Nat
  BY DEF Kept
<1>6. Place(index) \in 1 .. Len(entries)
  BY <1>2, <1>3, <1>4, <1>5
<1>7. Proves(entries[Place(index)], outputs[index])
  BY <1>1, <1>2
<1> QED
  BY <1>3, <1>4, <1>6, <1>7

\* The lock lets an output with such an entry through.
Passes(e, o) ==
    /\ e.kind \in {POLICY_KIND_TYPE, POLICY_KIND_LOCK} /\ e.kind \in Nat
    /\ \E n \in 0 .. 255 : IsProof(e.proof, n)
    /\ Allowed(e.kind, o, e.proof)

\* An entry that proves an output says which of its hashes is listed, and how.
LEMMA EntryProves ==
    ASSUME Kept, WellBuilt, Scoped, NEW e \in Entry(account.scope.policies), NEW o \in ForeignOutput,
           Proves(e, o)
    PROVE  Passes(e, o)
<1>1. /\ params.policies_root = PoliciesRoot(account.scope)
      /\ account.scope.policies \in Seq(Script) /\ account \in Accounts
      /\ account.scope.policies \in Policies
  BY ParamsAre
<1>2. PoliciesRoot(account.scope) = merkle_root(Leaves(account.scope.policies))
  BY <1>1, RootBytes DEF Scoped
<1>3. PICK policies : policies = account.scope.policies
  OBVIOUS
<1>4. policies \in Seq(Script) /\ policies \in Policies
  BY <1>1, <1>3
<1>5. PICK i \in DOMAIN policies :
           /\ policies[i] = (IF e.kind = POLICY_KIND_TYPE THEN o.type ELSE o.lock)
           /\ e.proof = merkle_proof(Leaves(policies), i - 1)
  BY <1>3 DEF Proves
<1>6. PICK proof : proof = e.proof
  OBVIOUS
<1>7. /\ Len(proof) = Depth(Leaves(policies)) /\ Len(proof) \in Nat
      /\ \E X : proof \in Seq(X) /\ \A x \in X : IsSibling(x)
      /\ merkle_verify(merkle_root(Leaves(policies)), policy_leaf(policies[i]), proof)
  BY <1>4, <1>5, <1>6, ListedIsProved
<1>8. Depth(Leaves(policies)) < 256
  BY <1>4, SessionWitnessAssumption
<1>9. PICK n : n = Len(proof)
  OBVIOUS
<1>10. n \in 0 .. 255 /\ IsProof(proof, n)
  <2>1. PICK d : d = Depth(Leaves(policies))
    OBVIOUS
  <2>2. d = n /\ n \in Nat /\ d < 256
    BY <1>7, <1>8, <1>9, <2>1
  <2>3. n \in 0 .. 255
    BY <2>2
  <2> QED
    BY <1>7, <1>9, <2>3 DEF IsProof
<1>11. policies[i] \in Script
  BY <1>4, <1>5
<1>12. e.kind = POLICY_KIND_TYPE => o.type # NoScript
  BY <1>5, <1>11, SessionLockAssumption
<1>13. Allowed(e.kind, o, e.proof)
  BY <1>1, <1>2, <1>3, <1>5, <1>6, <1>7, <1>12 DEF Allowed
<1>14. e.kind \in {POLICY_KIND_TYPE, POLICY_KIND_LOCK}
  BY <1>1, EntryShape
<1>15. e.kind \in Nat
  BY <1>14 DEF POLICY_KIND_TYPE, POLICY_KIND_LOCK
<1> QED
  BY <1>6, <1>10, <1>13, <1>14, <1>15 DEF Passes

Grouped(s, t, u) == (s \o t) \o u = s \o (t \o u)

\* Three parts, put together from either end, whoever vouches for them.
LEMMA PartsGrouped ==
    ASSUME NEW sigs, NEW s, NEW t, NEW u, PartsVouched(s, t, u, sigs)
    PROVE  Grouped(s, t, u)
<1>1. Vouched(s, sigs) /\ Vouched(t, sigs) /\ Vouched(u, sigs)
  BY DEF PartsVouched
<1> QED
  BY <1>1, Regroup, SMTT(30) DEF Grouped

\* The next frame is in front of what is left of the region.
LEMMA NextFrame ==
    ASSUME Kept, NEW i \in Nat, Place(i + 1) = Place(i) + 1, Place(i) \in Nat,
           Place(i + 1) \in 1 .. Len(entries), RegionFrom(i)
    PROVE  \E f, B, r : /\ Frames(entries) \in Seq(Seq(B)) /\ \A b \in B : Fair(b, signed)
                        /\ Joins(f, Frames(entries), B)
                        /\ f[Len(entries)] = f[Place(i + 1)] \o r
                        /\ Vouched(r, signed)
                        /\ rest = Framed(entries[Place(i + 1)]) \o r
<1>1. PICK f, B : /\ Frames(entries) \in Seq(Seq(B)) /\ \A b \in B : Fair(b, signed)
                  /\ Joins(f, Frames(entries), B)
                  /\ f[Len(entries)] = f[Place(i)] \o rest
  BY DEF RegionFrom
<1>2. PICK q \in Nat : q = Place(i)
  OBVIOUS
<1>3. /\ Len(Frames(entries)) = Len(entries) /\ Len(entries) \in Nat
      /\ \A j \in 1 .. Len(entries) : Frames(entries)[j] = Framed(entries[j])
  <2>1. PICK policies \in Seq(Script) : policies = account.scope.policies
    BY ParamsAre
  <2>2. PICK es \in Seq(Entry(policies)) : es = entries
    BY <2>1 DEF Kept
  <2>3. /\ Len(Frames(es)) = Len(es) /\ Len(es) \in Nat
        /\ \A j \in 1 .. Len(es) : Frames(es)[j] = Framed(es[j])
    BY RegionBytes
  <2> QED
    BY <2>2, <2>3
<1>4. PICK n \in Nat : n = Len(entries)
  BY <1>3
<1>5. PICK ss : ss = Frames(entries)
  OBVIOUS
<1>6. q + 1 \in 1 .. n /\ q \in 0 .. n /\ q + 1 \in 0 .. n /\ (q + 1) - 1 = q
  BY <1>2, <1>4
<1>7. Joins(f, ss, B) /\ Len(ss) = n
  BY <1>1, <1>3, <1>4, <1>5
<1>8. PICK r \in Seq(B) : f[n] = f[q + 1] \o r
  <2>1. Splits(f, ss, B)
    BY <1>7, JoinsSplit
  <2> QED
    BY <1>6, <1>7, <2>1 DEF Splits
<1>9. /\ f \in [0 .. n -> Seq(B)] /\ ss \in Seq(Seq(B))
      /\ \A j \in 1 .. n : f[j] = f[j - 1] \o ss[j]
  BY <1>7 DEF Joins
<1>10. PICK p : p = f[q]
  OBVIOUS
<1>11. PICK u : u = ss[q + 1]
  OBVIOUS
<1>12. f[q + 1] = p \o u
  BY <1>6, <1>9, <1>10, <1>11
<1>13. p \in Seq(B) /\ u \in Seq(B)
  BY <1>6, <1>7, <1>9, <1>10, <1>11, ElementOfSeq
<1>14. Vouched(p, signed) /\ Vouched(u, signed) /\ Vouched(r, signed)
  BY <1>1, <1>13 DEF Vouched
<1>15. (p \o u) \o r = p \o (u \o r)
  <2>1. PartsVouched(p, u, r, signed)
    BY <1>14 DEF PartsVouched
  <2>2. Grouped(p, u, r)
    BY <2>1, PartsGrouped
  <2> QED
    BY <2>2 DEF Grouped
<1>16. PICK x : x = u \o r
  OBVIOUS
<1>17. PICK y : y = rest
  OBVIOUS
<1>18. p \o y = p \o x
  BY <1>1, <1>2, <1>4, <1>8, <1>10, <1>12, <1>15, <1>16, <1>17
<1>19. Vouched(x, signed) /\ Vouched(y, signed)
  BY <1>14, <1>16, <1>17, VouchedConcat DEF Kept
<1>20. y = x
  <2>1. SubSeq(p \o y, Len(p) + 1, Len(p \o y)) = y
    BY <1>14, <1>19, ReadParts
  <2>2. SubSeq(p \o x, Len(p) + 1, Len(p \o x)) = x
    BY <1>14, <1>19, ReadParts
  <2> QED
    BY <1>18, <2>1, <2>2
<1>21. u = Framed(entries[q + 1])
  BY <1>3, <1>4, <1>5, <1>6, <1>11
<1>22. rest = Framed(entries[q + 1]) \o r
  BY <1>16, <1>17, <1>20, <1>21
<1> QED
  BY <1>1, <1>2, <1>4, <1>8, <1>14, <1>22

\* The entry that was framed for an output is read, and lets it through.
LEMMA EntryRead ==
    ASSUME Kept, NEW e, Passes(e, outputs[index]),
           NEW r, Vouched(r, signed), rest = Framed(e) \o r, ProveForeign
    PROVE  rest' = r /\ index' = index + 1 /\ pc' = pc /\ UNCHANGED clientVars
<1>a. /\ e.kind \in {POLICY_KIND_TYPE, POLICY_KIND_LOCK} /\ e.kind \in Nat
      /\ Allowed(e.kind, outputs[index], e.proof)
  BY DEF Passes
<1>b. PICK n \in 0 .. 255 : IsProof(e.proof, n)
  BY DEF Passes
<1>1. PICK h, t : Framed(e) = h \o t /\ IsFrame(h, t, e.kind, n, e.proof, signed)
  BY <1>a, <1>b, FrameIs
<1>2. PICK w : w = (h \o t) \o r
  OBVIOUS
<1>3. PICK k \in Nat : k = e.kind
  BY <1>a
<1>4. PICK proof : proof = e.proof
  OBVIOUS
<1>5. n \in Nat
  OBVIOUS
<1>6. /\ Len(w) \in Nat /\ Len(w) >= 2 + 2 * n
      /\ w[1] = Num(k) /\ w[2] = Num(n)
      /\ \A i \in 1 .. n : SubSeq(w, 3 + 2 * (i - 1), 2 + 2 * i) = proof[i]
      /\ SubSeq(w, 2 + 2 * n + 1, Len(w)) = r
  <2>1. IsFrame(h, t, k, n, proof, signed)
    BY <1>1, <1>3, <1>4
  <2>2. ReadsAs((h \o t) \o r, k, n, proof, r)
    BY <1>5, <2>1, FrameRead
  <2>3. ReadsAs(w, k, n, proof, r)
    BY <1>2, <2>2
  <2> QED
    BY <2>3 DEF ReadsAs
<1>7. rest = w
  BY <1>1, <1>2
<1>8. SiblingsRead(n) = proof
  <2>1. SiblingsRead(n) = [i \in 1 .. n |-> SubSeq(w, 3 + 2 * (i - 1), 2 + 2 * i)]
    BY <1>7 DEF SiblingsRead, HASH_LEN
  <2>2. proof = [i \in 1 .. n |-> proof[i]]
    BY <1>4, <1>b, LenProperties DEF IsProof
  <2> QED
    BY <1>6, <2>1, <2>2
<1>9. Values(rest[1]) = {k} /\ Values(rest[2]) = {n}
  <2>1. Num(k)[1] = "num" /\ Num(k)[2] = k /\ Num(n)[1] = "num" /\ Num(n)[2] = n
    BY DEF Num
  <2> QED
    BY <1>6, <1>7, <2>1 DEF Values
<1>10. PICK b : b = n * HASH_LEN
  OBVIOUS
<1>11. b = 2 * n
  BY <1>5, <1>10 DEF HASH_LEN
<1>12. ~(Len(rest) < 2) /\ ~(Len(rest) < 2 + b)
  <2>1. PICK l \in Nat : l = Len(w) /\ l >= 2 + 2 * n
    BY <1>6
  <2>2. ~(l < 2) /\ ~(l < 2 + 2 * n)
    BY <1>5, <2>1
  <2> QED
    BY <1>7, <1>11, <2>1, <2>2
<1>13. Allowed(k, outputs[index], SiblingsRead(n)) /\ k \in {POLICY_KIND_TYPE, POLICY_KIND_LOCK}
  BY <1>3, <1>4, <1>8, <1>a
<1>14. NextOutput(2 + b)
  BY <1>9, <1>10, <1>12, <1>13 DEF ProveForeign
<1>15. After(2 + b) = r
  BY <1>6, <1>7, <1>11 DEF After
<1> QED
  BY <1>14, <1>15 DEF NextOutput

\* Every output is let through, and the region is read to its end.
LEMMA ProveOutputsWhole ==
    ASSUME Kept, Remaining, WellBuilt, ProveOutputs
    PROVE  Remaining' /\ UNCHANGED clientVars
<1>1. pc = "policies" /\ Scoped
  BY DEF ProveOutputs
<1>2. ~ account.scope.wildcard
  BY <1>1, ParamsAre, RootBytes DEF Scoped, PoliciesRoot
<1>3. RegionFrom(index - 1)
  BY <1>1, <1>2 DEF Remaining
<1>4. /\ index \in 1 .. Len(outputs) + 1 /\ Len(outputs) \in Nat
      /\ \A i \in 1 .. Len(outputs) : outputs[i] \in Foreign \cup {SelfOutput}
  BY ElementOfSeq DEF Kept, WitnessTypeOK
<1>5. PICK i \in Nat : i = index - 1 /\ i + 1 = index
  BY <1>4
<1>6. ASSUME index' = index + 1, pc' = pc, UNCHANGED clientVars, NEW f, NEW B, NEW r,
             Frames(entries) \in Seq(Seq(B)), \A b \in B : Fair(b, signed),
             Joins(f, Frames(entries), B), f[Len(entries)] = f[Place(index)] \o r, rest' = r
      PROVE  Remaining'
  <2>1. /\ entries' = entries /\ signed' = signed /\ Place(index)' = Place(index')
        /\ account' = account
    BY <1>6, SameBuilt
  <2>2. \A j : Place(j)' = Place(j)
    BY <1>6, SameBuilt
  <2>3. index' - 1 = index
    BY <1>4, <1>6
  <2>4. RegionFrom(index - 1)'
    BY <1>6, <2>1, <2>2, <2>3 DEF RegionFrom
  <2> QED
    BY <1>1, <1>6, <2>4, StillVouched DEF Remaining
<1>7. CASE index > Len(outputs) /\ Answer("accept")
  <2>1. index - 1 = Len(outputs)
    BY <1>4, <1>7
  <2>2. Place(Len(outputs)) = Len(entries)
    BY <1>2 DEF WellBuilt
  <2>3. PICK f, B : /\ \A b \in B : Fair(b, signed)
                    /\ Joins(f, Frames(entries), B)
                    /\ f[Len(entries)] = f[Len(entries)] \o rest
    BY <1>3, <2>1, <2>2 DEF RegionFrom
  <2>4. Len(Frames(entries)) = Len(entries) /\ Len(entries) \in Nat
    BY ParamsAre, RegionBytes DEF Kept
  <2>5. PICK p : p = f[Len(entries)]
    OBVIOUS
  <2>6. p \in Seq(B)
    <3>1. PICK n \in Nat : n = Len(entries)
      BY <2>4
    <3>2. f \in [0 .. n -> Seq(B)] /\ n \in 0 .. n
      BY <2>3, <2>4, <3>1 DEF Joins
    <3> QED
      BY <2>5, <3>1, <3>2
  <2>7. Vouched(p, signed) /\ Vouched(rest, signed)
    BY <2>3, <2>6 DEF Vouched, Kept
  <2>8. Len(p) = Len(p) + Len(rest) /\ Len(p) \in Nat /\ Len(rest) \in Nat
    <3>1. p = p \o rest
      BY <2>3, <2>5
    <3>2. Len(p \o rest) = Len(p) + Len(rest) /\ Len(p) \in Nat /\ Len(rest) \in Nat
      BY <2>7, VouchedConcat
    <3> QED
      BY <3>1, <3>2
  <2>9. Len(rest) = 0
    BY <2>8
  <2>10. rest = <<>>
    BY <2>7, <2>9, NothingMore
  <2>11. pc' = "done" /\ verdict' = "accept" /\ rest' = rest /\ UNCHANGED clientVars
    BY <1>7 DEF Answer
  <2> QED
    BY <2>10, <2>11, StillVouched DEF Remaining
<1>8. CASE index <= Len(outputs) /\ SkipSelf
  <2>1. outputs[index] = SelfOutput /\ NextOutput(0)
    BY <1>8 DEF SkipSelf
  <2>2. Place(index) = Place(index - 1)
    BY <1>5, <2>1, PlaceCounts
  <2>3. rest' = rest
    <3>1. Vouched(rest, signed)
      BY DEF Kept
    <3>2. SubSeq(rest, 1, Len(rest)) = rest
      BY <3>1, NothingMore
    <3>3. 0 + 1 = 1
      OBVIOUS
    <3> QED
      BY <2>1, <3>2, <3>3 DEF NextOutput, After
  <2>4. index' = index + 1 /\ pc' = pc /\ UNCHANGED clientVars
    BY <2>1 DEF NextOutput
  <2>5. PICK f, B : /\ Frames(entries) \in Seq(Seq(B)) /\ \A b \in B : Fair(b, signed)
                    /\ Joins(f, Frames(entries), B)
                    /\ f[Len(entries)] = f[Place(index)] \o rest
    BY <1>3, <2>2 DEF RegionFrom
  <2> QED
    BY <1>6, <2>3, <2>4, <2>5
<1>9. CASE index <= Len(outputs) /\ ProveForeign
  <2>1. outputs[index] # SelfOutput
    BY <1>9 DEF ProveForeign
  <2>2. /\ Place(index) = Place(index - 1) + 1
        /\ Place(index - 1) \in Nat
        /\ Place(index) \in 1 .. Len(entries)
        /\ Proves(entries[Place(index)], outputs[index])
    BY <1>2, <1>9, <2>1, EntryAt
  <2>3. PICK f, B, r : /\ Frames(entries) \in Seq(Seq(B)) /\ \A b \in B : Fair(b, signed)
                       /\ Joins(f, Frames(entries), B)
                       /\ f[Len(entries)] = f[Place(i + 1)] \o r
                       /\ Vouched(r, signed)
                       /\ rest = Framed(entries[Place(i + 1)]) \o r
    <3>1. Place(i + 1) = Place(i) + 1 /\ Place(i) \in Nat /\ Place(i + 1) \in 1 .. Len(entries)
      BY <1>5, <2>2
    <3>2. RegionFrom(i)
      BY <1>3, <1>5
    <3> QED
      BY <3>1, <3>2, NextFrame
  <2>4. PICK e : e = entries[Place(index)]
    OBVIOUS
  <2>5. outputs[index] \in ForeignOutput
    <3>1. index \in 1 .. Len(outputs)
      BY <1>4, <1>9
    <3> QED
      BY <1>4, <2>1, <3>1, SessionLockAssumption
  <2>6. e \in Entry(account.scope.policies)
    BY <2>2, <2>4, ElementOfSeq DEF Kept
  <2>7. Passes(e, outputs[index])
    BY <1>1, <2>2, <2>4, <2>5, <2>6, EntryProves
  <2>9. rest = Framed(e) \o r
    BY <1>5, <2>3, <2>4
  <2>10. rest' = r /\ index' = index + 1 /\ pc' = pc /\ UNCHANGED clientVars
    BY <1>9, <2>3, <2>7, <2>9, EntryRead
  <2> QED
    BY <1>5, <1>6, <2>3, <2>10
<1> QED
  <2>1. CASE index > Len(outputs) /\ Answer("accept")
    BY <1>7, <2>1 DEF Answer
  <2>2. CASE index <= Len(outputs) /\ SkipSelf
    BY <1>8, <2>2 DEF SkipSelf, NextOutput
  <2>3. CASE index <= Len(outputs) /\ ProveForeign
    BY <1>9, <2>3 DEF ProveForeign, NextOutput, Answer
  <2> QED
    BY <2>1, <2>2, <2>3 DEF ProveOutputs

\* Without a list nothing more is read.
LEMMA UnscopedWhole ==
    ASSUME Kept, Remaining, Unscoped
    PROVE  Remaining' /\ UNCHANGED clientVars
<1>1. ~Scoped /\ Answer("accept")
  BY DEF Unscoped
<1>2. account.scope.wildcard
  BY <1>1, ParamsAre, RootBytes DEF Scoped
<1>3. pc' = "done" /\ verdict' = "accept" /\ UNCHANGED clientVars
  BY <1>1 DEF Answer
<1>4. account' = account
  BY <1>3, SameBuilt
<1> QED
  BY <1>2, <1>3, <1>4, StillVouched DEF Remaining

-----------------------------------------------------------------------------
\* A session's key and guardian sign a witness of its own model.
LEMMA SubmitWhole ==
    ASSUME Sound, NEW model \in {"registered", "carried"}, NEW k \in Key, NEW g \in Key \cup {NoKey},
           NEW sigs, NEW es, NEW witness, Submit(By(model, k, g), sigs, es, witness),
           PartsVouched(TxSig(k), GuardianSig(g), proof_region(es), sigs),
           model = "carried" => Vouched(Blessing, sigs),
           model = "registered" =>
             witness = <<MODE_SESSION>> \o (TxSig(k) \o (GuardianSig(g) \o proof_region(es))),
           model = "carried" =>
             witness = <<MODE_SESSION>> \o (args \o (Blessing \o
                         (TxSig(k) \o (GuardianSig(g) \o proof_region(es)))))
    PROVE  Whole'
<1>1. /\ builder' = By(model, k, g) /\ signed' = sigs /\ entries' = es /\ rest' = witness
      /\ pc' = "auth" /\ account' = account /\ args' = args
  BY DEF Submit
<1> SUFFICES ASSUME WellBuilt' PROVE Remaining'
  BY DEF Whole
<1>2. model = account.model /\ k = account.session /\ g = account.guardian
  <2>1. By(model, k, g) = By(account.model, account.session, account.guardian)
    BY <1>1 DEF WellBuilt
  <2> QED
    BY <2>1, Builder
<1>3. Region' = proof_region(es) /\ Blessing' = Blessing
  BY <1>1 DEF Region, Blessing
<1>4. Signed' = TxSig(k) \o (GuardianSig(g) \o proof_region(es))
  BY <1>1, <1>2, <1>3 DEF Signed
<1>5. rest' = <<MODE_SESSION>> \o AfterMode'
  BY <1>1, <1>2, <1>3, <1>4 DEF AfterMode
<1>6. PartsVouched(TxSig(account.session), GuardianSig(account.guardian), Region, signed)'
  BY <1>1, <1>2, <1>3
<1>7. (account.model = "carried" => Vouched(Blessing, signed))'
  BY <1>1, <1>2, <1>3
<1> QED
  BY <1>1, <1>5, <1>6, <1>7 DEF Remaining

\* A witness of no session is not one made as documented.
LEMMA OtherWhole ==
    ASSUME Sound, NEW f \in {"owner", "none"}, NEW k, NEW g, NEW sigs, NEW es, NEW witness,
           Submit(By(f, k, g), sigs, es, witness)
    PROVE  Whole'
<1>1. builder' = By(f, k, g) /\ account' = account
  BY DEF Submit
<1>2. account.model \in {"registered", "carried"}
  BY SessionWitnessAssumption DEF Sound, Kept, WitnessTypeOK, AccountLayout
<1>3. By(f, k, g) # By(account.model, account.session, account.guardian)
  BY <1>2, Builder
<1> QED
  BY <1>1, <1>3 DEF Whole, WellBuilt

\* session_witness_registered puts down what the lock is to read.
LEMMA SessionSignsWhole ==
    ASSUME Sound, NEW k \in Signer, NEW g \in Cosigner,
           NEW es \in Seq(Entry(account.scope.policies)), SessionSigns(k, g, es)
    PROVE  Whole'
<1>1. PICK sigs : sigs = Signatures(k, g)
  OBVIOUS
<1>2. PICK w : w = session_witness_registered(TxSig(k), GuardianSig(g), proof_region(es))
  OBVIOUS
<1>3. Submit(By("registered", k, g), sigs, es, w)
  BY <1>1, <1>2 DEF SessionSigns
<1>4. k \in Key /\ g \in Key \cup {NoKey}
  BY SessionWitnessAssumption
<1>5. PartsVouched(TxSig(k), GuardianSig(g), proof_region(es), sigs)
  <2>1. Vouched(TxSig(k), sigs) /\ Vouched(GuardianSig(g), sigs)
    BY <1>1, <1>4, SignersBytes
  <2>2. Vouched(proof_region(es), sigs)
    BY EntriesShape DEF Sound
  <2> QED
    BY <2>1, <2>2 DEF PartsVouched
<1>6. w = <<MODE_SESSION>> \o (TxSig(k) \o (GuardianSig(g) \o proof_region(es)))
  BY <1>2, <1>5, RegisteredShape
<1> QED
  BY <1>3, <1>4, <1>5, <1>6, SubmitWhole

\* So does session_witness_carried.
LEMMA SessionSignsCarriedWhole ==
    ASSUME Sound, NEW k \in Signer, NEW g \in Cosigner,
           NEW es \in Seq(Entry(account.scope.policies)), SessionSignsCarried(k, g, es)
    PROVE  Whole'
<1>1. PICK sigs : sigs = Signatures(k, g) \cup {<<OWNER, params_auth_message(args)>>}
  OBVIOUS
<1>2. PICK w : w = session_witness_carried(args, Blessing, TxSig(k), GuardianSig(g), proof_region(es))
  OBVIOUS
<1>3. Submit(By("carried", k, g), sigs, es, w)
  BY <1>1, <1>2 DEF SessionSignsCarried, Blessing
<1>4. k \in Key /\ g \in Key \cup {NoKey}
  BY SessionWitnessAssumption
<1>5. Vouched(TxSig(k), sigs) /\ Vouched(GuardianSig(g), sigs)
  BY <1>1, <1>4, SignersBytes
<1>6. Vouched(proof_region(es), sigs)
  BY EntriesShape DEF Sound
<1>7. Vouched(Blessing, sigs)
  BY <1>1, SignatureBytes DEF Blessing
<1>8. Vouched(args, sigs)
  BY ParamsRead DEF Sound, Kept, WitnessTypeOK
<1>9. /\ PartsVouched(TxSig(k), GuardianSig(g), proof_region(es), sigs)
      /\ FieldsVouched(args, Blessing, TxSig(k), GuardianSig(g), proof_region(es), sigs)
  BY <1>5, <1>6, <1>7, <1>8 DEF PartsVouched, FieldsVouched
<1>10. w = <<MODE_SESSION>> \o (args \o (Blessing \o
             (TxSig(k) \o (GuardianSig(g) \o proof_region(es)))))
  BY <1>2, <1>9, CarriedShape, SMTT(30)
<1> QED
  BY <1>3, <1>4, <1>7, <1>9, <1>10, SubmitWhole

\* A funding transaction is a session's without a guardian.
LEMMA FundingWhole ==
    ASSUME Sound, NEW k \in Signer, signFundingTx(k)
    PROVE  Whole'
<1>1. PICK es : es = <<[kind |-> POLICY_KIND_LOCK, proof |-> <<>>]>>
  OBVIOUS
<1>2. PICK sigs : sigs = {<<k, tx_message>>}
  OBVIOUS
<1>3. PICK w : w = session_witness_registered(TxSig(k), GuardianSig(NoKey), proof_region(es))
  OBVIOUS
<1>4. Submit(By("registered", k, NoKey), sigs, es, w)
  BY <1>1, <1>2, <1>3 DEF signFundingTx, channel_proof_region, GuardianSig
<1>5. k \in Key /\ NoKey \in Key \cup {NoKey}
  BY SessionWitnessAssumption
<1>6. es \in Seq(Entry(account.scope.policies))
  <2>1. <<>> \in Proofs(account.scope.policies)
    BY DEF Proofs
  <2>2. [kind |-> POLICY_KIND_LOCK, proof |-> <<>>] \in Entry(account.scope.policies)
    BY <2>1 DEF Entry
  <2>3. PICK e \in Entry(account.scope.policies) : es = <<e>>
    BY <1>1, <2>2
  <2> QED
    BY <2>3
<1>7. PartsVouched(TxSig(k), GuardianSig(NoKey), proof_region(es), sigs)
  <2>1. Signatures(k, NoKey) \subseteq sigs
    BY <1>2 DEF Signatures
  <2>2. Vouched(TxSig(k), sigs) /\ Vouched(GuardianSig(NoKey), sigs)
    BY <1>5, <2>1, SignersBytes
  <2>3. Vouched(proof_region(es), sigs)
    BY <1>6, EntriesShape DEF Sound
  <2> QED
    BY <2>2, <2>3 DEF PartsVouched
<1>8. w = <<MODE_SESSION>> \o (TxSig(k) \o (GuardianSig(NoKey) \o proof_region(es)))
  BY <1>3, <1>7, RegisteredShape
<1> QED
  BY <1>4, <1>5, <1>7, <1>8, SubmitWhole

\* Whatever the client sends, the lock has all of it to read.
LEMMA ClientWhole ==
    ASSUME Sound, Client
    PROVE  Whole'
<1>1. CASE Unsigned
  <2>1. PICK w : Submit(By("none", NoKey, NoKey), {}, <<>>, w)
    BY <1>1 DEF Unsigned
  <2> QED
    BY <2>1, OtherWhole
<1>2. ASSUME NEW k \in Signer, OwnerSigns(k) PROVE Whole'
  BY <1>2, OtherWhole DEF OwnerSigns
<1>3. ASSUME NEW k \in Signer, signFundingTx(k) PROVE Whole'
  BY <1>3, FundingWhole
<1>4. ASSUME NEW k \in Signer, NEW g \in Cosigner, NEW es \in EntriesWith(k, g),
             SessionSigns(k, g, es) \/ SessionSignsCarried(k, g, es)
      PROVE  Whole'
  <2>1. es \in Seq(Entry(account.scope.policies))
    BY EntriesWithShape
  <2> QED
    BY <1>4, <2>1, SessionSignsWhole, SessionSignsCarriedWhole
<1> QED
  BY <1>1, <1>2, <1>3, <1>4 DEF Client

\* The lock reads what was built.
LEMMA LockWhole ==
    ASSUME Sound, Whole, Lock
    PROVE  Whole'
<1>1. Kept
  BY DEF Sound
<1>2. pc # "build"
  BY DEF Lock, auth, OwnerSignature, ResolveRegistered, ResolveCarried, SessionSignature,
         GuardianSignature, ProveOutputs, Unscoped
<1>3. UNCHANGED clientVars
  BY DEF Lock, auth, OwnerSignature, ResolveRegistered, ResolveCarried, SessionSignature,
         GuardianSignature, ProveOutputs, Unscoped, SkipSelf, ProveForeign, NextOutput, Answer, GoTo
<1>4. WellBuilt' = WellBuilt
  BY <1>3, SameBuilt
<1> SUFFICES ASSUME WellBuilt PROVE Remaining'
  BY <1>4 DEF Whole
<1>5. Remaining
  BY <1>2 DEF Whole
<1>6. CASE OwnerSignature
  BY <1>5, <1>6 DEF Remaining, OwnerSignature
<1> QED
  BY <1>1, <1>5, <1>6, AuthWhole, ResolveRegisteredWhole, ResolveCarriedWhole,
     SessionSignatureWhole, GuardianSignatureWhole, ProveOutputsWhole, UnscopedWhole DEF Lock

\* Every step of the lock leaves what follows the part it has read.
LEMMA NextWhole == Sound /\ Whole /\ [WitnessNext]_witnessVars => Whole'
<1> SUFFICES ASSUME Sound, Whole, [WitnessNext]_witnessVars PROVE Whole'
  OBVIOUS
<1>1. CASE Client
  BY <1>1, ClientWhole
<1>2. CASE Lock
  BY <1>2, LockWhole
<1>3. CASE UNCHANGED witnessVars
  <2>1. /\ UNCHANGED clientVars /\ pc' = pc /\ rest' = rest
        /\ params' = params /\ index' = index /\ verdict' = verdict
    BY <1>3 DEF witnessVars, clientVars
  <2>2. /\ account' = account /\ entries' = entries /\ signed' = signed /\ WellBuilt' = WellBuilt
        /\ Region' = Region /\ Signed' = Signed /\ AfterMode' = AfterMode
        /\ \A i : Place(i)' = Place(i)
    BY <2>1, SameBuilt
  <2>3. Place(index - 1)' = Place(index - 1)
    BY <2>1, <2>2 DEF Place
  <2>4. RegionFrom(index - 1) => RegionFrom(index - 1)'
    BY <2>1, <2>2, <2>3 DEF RegionFrom
  <2>5. Remaining => Remaining'
    BY <2>1, <2>2, <2>4, StillVouched DEF Remaining
  <2> QED
    BY <2>1, <2>2, <2>5 DEF Whole
<1> QED
  BY <1>1, <1>2, <1>3 DEF WitnessNext

\* At every step of the lock, a witness made as documented has left exactly the parts
\* the lock is still to read, and the lock has refused nothing of it.
THEOREM WitnessWhole == WitnessSpec => []Whole
<1>1. WitnessInit => Whole
  BY DEF WitnessInit, Whole
<1>2. Sound /\ Whole /\ [WitnessNext]_witnessVars => Whole'
  BY NextWhole
<1> QED
  BY <1>1, <1>2, WitnessSound, PTL DEF WitnessSpec

\* What the SDK frames is what the lock reads, for any keys, accounts, lists, lengths
\* of keys and signatures, and any number and order of the outputs.
THEOREM WitnessBuiltIsAccepted == WitnessSpec => []BuiltIsAccepted
<1>1. Sound /\ Whole => BuiltIsAccepted
  <2> SUFFICES ASSUME Sound, Whole, verdict # "none", WellBuilt
               PROVE  verdict = "accept" /\ (account.scope.wildcard \/ rest = <<>>)
    BY DEF BuiltIsAccepted
  <2>1. pc = "done"
    BY DEF Sound, Kept, WitnessTypeOK
  <2> QED
    BY <2>1 DEF Whole, Remaining
<1> QED
  BY <1>1, WitnessSound, WitnessWhole, PTL
=============================================================================
