-------------------------- MODULE RailPagesProofs --------------------------
(***************************************************************************)
(* Theorems about RailPages for any pages, budgets, prices and fees: type  *)
(* correctness, that the shooter never overcommits its channel, and that   *)
(* what a settlement shows comes back, less the fee of the closing         *)
(* transaction.                                                            *)
(***************************************************************************)
EXTENDS RailPages, DataLemmas

-----------------------------------------------------------------------------
(***************************************************************************)
(* Types and finiteness.                                                   *)
(***************************************************************************)
\* Calls are numbered from one.
LEMMA CallsType ==
    ASSUME NEW c, c \in Seq(RailCall)
    PROVE  /\ Len(c) \in Nat /\ DOMAIN c = 1 .. Len(c) /\ IsFiniteSet(DOMAIN c)
           /\ \A k \in DOMAIN c : /\ c[k] \in RailCall /\ c[k].page \in Page
                                  /\ c[k].channel \in Nat /\ c[k].out \in Nat
<1>1. Len(c) \in Nat /\ DOMAIN c = 1 .. Len(c) /\ \A k \in DOMAIN c : c[k] \in RailCall
  OBVIOUS
<1>2. IsFiniteSet(1 .. Len(c))
  BY <1>1, FS_Interval
<1> QED
  BY <1>1, <1>2 DEF RailCall

\* Channels are numbered from one, and their balances are numbers.
LEMMA ChannelsType ==
    ASSUME NEW c, c \in Seq(FiberChannel)
    PROVE  /\ Len(c) \in Nat /\ DOMAIN c = 1 .. Len(c) /\ IsFiniteSet(DOMAIN c)
           /\ \A i \in DOMAIN c : /\ c[i] \in FiberChannel /\ c[i].local \in Nat
                                  /\ c[i].remote \in Nat /\ c[i].amount \in Nat
<1>1. Len(c) \in Nat /\ DOMAIN c = 1 .. Len(c) /\ \A i \in DOMAIN c : c[i] \in FiberChannel
  OBVIOUS
<1>2. IsFiniteSet(1 .. Len(c))
  BY <1>1, FS_Interval
<1> QED
  BY <1>1, <1>2 DEF FiberChannel

\* The account has finitely many cells, at numbered out points.
LEMMA AccountFinite ==
    ASSUME TypeOK, CellsKnown
    PROVE  /\ DOMAIN account \subseteq Nat /\ IsFiniteSet(DOMAIN account)
           /\ \A x \in DOMAIN account : account[x] \in Nat
<1>1. channels \in Seq(FiberChannel) /\ account \in [DOMAIN account -> Nat]
  BY DEF TypeOK, RailTypeOK
<1>2. Len(channels) \in Nat /\ DOMAIN channels = 1 .. Len(channels)
  BY <1>1, ChannelsType
<1>3. DOMAIN account \subseteq 0 .. 2 * Len(channels)
  BY <1>2 DEF CellsKnown, Change, Refund
<1>4. IsFiniteSet(0 .. 2 * Len(channels))
  BY <1>2, FS_Interval
<1> QED
  BY <1>1, <1>2, <1>3, <1>4, FS_Subset

-----------------------------------------------------------------------------
(***************************************************************************)
(* What a set of payments takes out of channels.                           *)
(***************************************************************************)
\* The amounts of the calls.
outs(c) == [k \in DOMAIN c |-> c[k].out]

\* Calls in a sequence of them are finitely many, and their amounts are numbers.
LEMMA OutsType ==
    ASSUME NEW c, c \in Seq(RailCall), NEW S, S \subseteq DOMAIN c
    PROVE  /\ IsFiniteSet(S) /\ OutOf(c, S) = SumFunctionOnSet(outs(c), S)
           /\ \A k \in S : outs(c)[k] = c[k].out /\ outs(c)[k] \in Nat
<1>1. IsFiniteSet(S)
  BY CallsType, FS_Subset
<1> QED
  BY <1>1, CallsType DEF outs, OutOf

\* It is a number.
LEMMA OutNat ==
    ASSUME NEW c, c \in Seq(RailCall), NEW S, S \subseteq DOMAIN c
    PROVE  OutOf(c, S) \in Nat
BY OutsType, SumNat

\* Nothing is taken out by no payment.
LEMMA OutNone ==
    ASSUME NEW c
    PROVE  OutOf(c, {}) = 0
BY SumEmpty DEF OutOf

\* It depends on the amounts only.
LEMMA OutEqual ==
    ASSUME NEW c, c \in Seq(RailCall), NEW d, d \in Seq(RailCall), NEW S,
           S \subseteq DOMAIN c, S \subseteq DOMAIN d, \A k \in S : d[k].out = c[k].out
    PROVE  OutOf(d, S) = OutOf(c, S)
<1>1. \A k \in S : outs(d)[k] = outs(c)[k]
  BY DEF outs
<1> QED
  BY <1>1, OutsType, SumEqual

\* One payment less.
LEMMA OutRemove ==
    ASSUME NEW c, c \in Seq(RailCall), NEW S, S \subseteq DOMAIN c, NEW k, k \in S
    PROVE  OutOf(c, S) = OutOf(c, S \ {k}) + c[k].out
<1>1. /\ IsFiniteSet(S) /\ OutOf(c, S) = SumFunctionOnSet(outs(c), S)
      /\ \A j \in S : outs(c)[j] = c[j].out
  BY OutsType
<1>2. \A j \in S : outs(c)[j] \in Int
  <2>1. \A j \in S : outs(c)[j] \in Nat
    BY OutsType
  <2> QED
    BY <2>1
<1>3. SumFunctionOnSet(outs(c), S) = outs(c)[k] + SumFunctionOnSet(outs(c), S \ {k})
  BY <1>1, <1>2, SumRemove
<1> DEFINE R == S \ {k}
<1>4. R \subseteq DOMAIN c
  OBVIOUS
<1> HIDE DEF R
<1>5. OutOf(c, R) = SumFunctionOnSet(outs(c), R) /\ OutOf(c, R) \in Nat
  BY <1>4, OutsType, OutNat
<1> QED
  BY <1>1, <1>2, <1>3, <1>5 DEF R

\* A set of payments with one more.
LEMMA OutAdd ==
    ASSUME NEW c, c \in Seq(RailCall), NEW d, d \in Seq(RailCall), NEW S, NEW k,
           S \subseteq DOMAIN c, S \subseteq DOMAIN d, k \in DOMAIN d, k \notin S,
           \A j \in S : d[j].out = c[j].out
    PROVE  OutOf(d, S \cup {k}) = OutOf(c, S) + d[k].out
<1> DEFINE U == S \cup {k}
<1>1. U \subseteq DOMAIN d /\ k \in U /\ U \ {k} = S
  OBVIOUS
<1> HIDE DEF U
<1>2. OutOf(d, U) = OutOf(d, S) + d[k].out
  BY <1>1, OutRemove
<1>3. OutOf(d, S) = OutOf(c, S)
  BY OutEqual
<1> QED
  BY <1>2, <1>3 DEF U

\* What two sets of payments cover takes no more than the two.
LEMMA OutCovered ==
    ASSUME NEW c, c \in Seq(RailCall), NEW S, NEW A, NEW B,
           A \subseteq DOMAIN c, B \subseteq DOMAIN c, S \subseteq A \cup B
    PROVE  OutOf(c, S) <= OutOf(c, A) + OutOf(c, B)
<1>1. IsFiniteSet(A) /\ IsFiniteSet(B) /\ S \subseteq DOMAIN c
  BY OutsType
<1>2. \A k \in A \cup B : outs(c)[k] \in Nat
  BY OutsType
<1>3. /\ OutOf(c, A) = SumFunctionOnSet(outs(c), A)
      /\ OutOf(c, B) = SumFunctionOnSet(outs(c), B)
      /\ OutOf(c, S) = SumFunctionOnSet(outs(c), S)
  BY <1>1, OutsType
<1> QED
  BY <1>1, <1>2, <1>3, SumCovered

\* Fewer payments take no more.
LEMMA OutSubset ==
    ASSUME NEW c, c \in Seq(RailCall), NEW S, NEW T, S \subseteq T, T \subseteq DOMAIN c
    PROVE  OutOf(c, S) <= OutOf(c, T)
<1>1. IsFiniteSet(T) /\ S \subseteq DOMAIN c /\ \A k \in T : outs(c)[k] \in Nat
  BY OutsType
<1>2. /\ OutOf(c, T) = SumFunctionOnSet(outs(c), T)
      /\ OutOf(c, S) = SumFunctionOnSet(outs(c), S)
  BY <1>1, OutsType
<1> QED
  BY <1>1, <1>2, SumSubset

\* Whole CKB in shannons, and back.
LEMMA WholeCKB ==
    ASSUME NEW n \in Nat
    PROVE  n * CKB \in Nat /\ (n * CKB) \div CKB = n
<1>1. CKB \in Nat \ {0}
  BY RailAssumption
<1> QED
  BY <1>1

\* More CKB are more shannons.
LEMMA InShannons ==
    ASSUME NEW m \in Nat, NEW n \in Nat, m <= n
    PROVE  m * CKB \in Nat /\ m * CKB <= n * CKB
<1>1. CKB \in Nat
  BY RailAssumption
<1> DEFINE d == n - m
<1>2. d \in Nat /\ n = m + d
  OBVIOUS
<1> HIDE DEF d
<1>3. n * CKB = m * CKB + d * CKB /\ d * CKB \in Nat /\ m * CKB \in Nat
  BY <1>1, <1>2
<1> QED
  BY <1>3

\* What a payment counts for is at least what it takes.
LEMMA CostCovers ==
    ASSUME NEW out \in Nat
    PROVE  Cost(out) \in Nat /\ out <= Cost(out) * CKB
<1>1. CKB \in Nat \ {0}
  BY RailAssumption
<1> DEFINE n == out + CKB - 1
<1>2. n \in Nat
  BY <1>1
<1> HIDE DEF n
<1>3. n \div CKB \in Nat /\ n = CKB * (n \div CKB) + (n % CKB) /\ (n % CKB) \in 0 .. CKB - 1
  BY <1>1, <1>2
<1> DEFINE q == n \div CKB
           r == n % CKB
<1>4. q \in Nat /\ n = CKB * q + r /\ r \in Nat /\ r <= CKB - 1
  BY <1>1, <1>3
<1> HIDE DEF q, r
<1>5. CKB * q = q * CKB /\ q * CKB \in Nat
  BY <1>1, <1>4
<1>6. out <= q * CKB
  BY <1>1, <1>4, <1>5 DEF n
<1> QED
  BY <1>4, <1>6 DEF Cost, q, n

-----------------------------------------------------------------------------
(***************************************************************************)
(* The initial states, and the pages a step leaves alone.                  *)
(***************************************************************************)
\* One cell, no channel, no call and idle pages satisfy the invariant.
LEMMA InitIndInv == Init => IndInv
<1> SUFFICES ASSUME Init PROVE IndInv
  OBVIOUS
<1>1. /\ account = [x \in {0} |-> DEPOSIT] /\ channels = << >> /\ calls = << >>
      /\ rail = [p \in Page |-> NoRail]
      /\ DOMAIN account = {0} /\ DOMAIN channels = {} /\ DOMAIN calls = {}
  BY DEF Init, RailInit
<1>2. /\ pc = [p \in Page |-> "idle"] /\ wish = [p \in Page |-> 0] /\ fired = [p \in Page |-> 0]
      /\ loops = [p \in Page |-> {}] /\ on = [p \in Page |-> {}] /\ tries = [p \in Page |-> 0]
      /\ report = [p \in Page |-> NoReport] /\ shows \in [Page -> {"shooter", "troops"}]
  BY DEF Init
<1>3. TypeOK
  <2>1. RailTypeOK
    <3>1. DEPOSIT \in Nat
      BY RailAssumption
    <3>2. channels \in Seq(FiberChannel) /\ calls \in Seq(RailCall)
      BY <1>1
    <3>3. rail \in [Page -> Rail]
      BY <1>1 DEF NoRail, Rail
    <3> QED
      BY <1>1, <3>1, <3>2, <3>3 DEF RailTypeOK
  <2>2. {wish, fired, tries} \subseteq [Page -> Nat]
    BY <1>2
  <2>3. report \in [Page -> [local : Int, remote : Nat, unseen : Nat]]
    BY <1>2 DEF NoReport
  <2> QED
    BY <1>2, <2>1, <2>2, <2>3 DEF TypeOK
<1>4. \A p \in Page : CallsOf(p) = {} /\ Counted(p) = {} /\ Out({}) = 0 /\ ~ Connected(p) /\ pc[p] = "idle"
  BY <1>1, <1>2, OutNone DEF CallsOf, Counted, Out, Connected
<1>5. RailInv /\ OwnChannels
  BY <1>1, <1>4 DEF RailInv, CellsKnown, OwnChannels
<1>6. \A p \in Page : PageInv(p) /\ SafeReport(p)
  <2> TAKE p \in Page
  <2>1. rail[p].spent * CKB = 0
    <3>1. rail[p].spent = 0 /\ CKB \in Nat
      BY <1>1, RailAssumption DEF NoRail
    <3> QED
      BY <3>1
  <2>2. Out(Counted(p)) = 0 /\ loops[p] = {}
    BY <1>2, <1>4
  <2> QED
    BY <1>4, <2>1, <2>2 DEF PageInv, SafeReport
<1>7. \A p \in Shooter : ShooterInv(p)
  <2> TAKE p \in Shooter
  <2>1. p \in Page
    BY DEF Shooter
  <2>2. COST \in Nat /\ CKB \in Nat
    BY RailAssumption, PagesAssumption
  <2>3. fired[p] = 0 /\ wish[p] = 0 /\ loops[p] = {} /\ on[p] = {}
    BY <1>2, <2>1
  <2>4. fired[p] * COST * CKB = 0 /\ fired[p] * COST = 0
    BY <2>2, <2>3
  <2> QED
    BY <1>4, <2>1, <2>3, <2>4 DEF ShooterInv
<1> QED
  BY <1>3, <1>5, <1>6, <1>7 DEF IndInv

\* A step that leaves a page, its calls and its channel as they are leaves what is
\* known of it.
LEMMA Undisturbed ==
    ASSUME IndInv, TypeOK', NEW q \in Page, shows' = shows,
           pc'[q] = pc[q], rail'[q] = rail[q], loops'[q] = loops[q], on'[q] = on[q],
           fired'[q] = fired[q], wish'[q] = wish[q], report'[q] = report[q],
           CallsOf(q)' = CallsOf(q), \A k \in CallsOf(q) : calls'[k] = calls[k],
           Connected(q) =>
              /\ rail[q].channel \in DOMAIN channels'
              /\ channels'[rail[q].channel] = channels[rail[q].channel]
    PROVE  PageInv(q)' /\ SafeReport(q)' /\ (q \in Shooter => ShooterInv(q)')
<1>1. calls \in Seq(RailCall) /\ calls' \in Seq(RailCall)
  BY DEF IndInv, TypeOK, RailTypeOK
<1>2. CallsOf(q) \subseteq DOMAIN calls /\ CallsOf(q) \subseteq DOMAIN calls'
  <2>1. CallsOf(q)' \subseteq DOMAIN calls'
    BY DEF CallsOf
  <2> QED
    BY <2>1 DEF CallsOf
<1>3. ASSUME NEW S, S \subseteq CallsOf(q)
      PROVE  OutOf(calls', S) = OutOf(calls, S)
  BY <1>1, <1>2, <1>3, OutEqual
<1>4. Connected(q)' = Connected(q)
  BY DEF Connected
<1>5. Sent(q)' = Sent(q) /\ Counted(q)' = Counted(q) /\ Pending(q)' = Pending(q)
  <2>1. \A k \in CallsOf(q) : /\ calls'[k].op = calls[k].op /\ calls'[k].pc = calls[k].pc
                              /\ calls'[k].status = calls[k].status
    OBVIOUS
  <2> QED
    BY <2>1 DEF Sent, Counted, Pending
<1>6. /\ Out(Sent(q))' = Out(Sent(q)) /\ Out(Counted(q))' = Out(Counted(q))
      /\ Out(CallsOf(q))' = Out(CallsOf(q))
  <2>1. Sent(q) \subseteq CallsOf(q) /\ Counted(q) \subseteq CallsOf(q)
    BY DEF Sent, Counted
  <2> QED
    BY <1>3, <1>5, <2>1 DEF Out
<1>7. PageInv(q)'
  <2>1. PageInv(q)
    BY DEF IndInv
  <2>2. Connected(q)' => HasChannel(q)'
    <3> SUFFICES ASSUME Connected(q) PROVE HasChannel(q)'
      BY <1>4
    <3>1. HasChannel(q)
      BY <2>1 DEF PageInv
    <3> QED
      BY <1>6, <3>1 DEF HasChannel
  <2> QED
    BY <1>6, <2>1, <2>2 DEF PageInv
<1>8. SafeReport(q)'
  <2>1. SafeReport(q)
    BY DEF IndInv
  <2>2. pc[q] = "settled" => Connected(q)
    BY DEF Connected
  <2> QED
    BY <2>1, <2>2 DEF SafeReport, Shooter
<1>9. ASSUME q \in Shooter PROVE ShooterInv(q)'
  <2>1. ShooterInv(q)
    BY <1>9 DEF IndInv
  <2>2. \A k \in CallsOf(q) : calls'[k].op = "pay"
    BY <2>1 DEF ShooterInv
  <2> QED
    BY <1>4, <1>5, <1>6, <2>1, <2>2 DEF ShooterInv
<1> QED
  BY <1>7, <1>8, <1>9

-----------------------------------------------------------------------------
(***************************************************************************)
(* Steps of a page that leave its rail alone.                              *)
(***************************************************************************)
\* Nothing of the rails, of Fiber or of the chain changes, nor of another page.
OnlyPage(p) ==
    /\ UNCHANGED <<railVars, shows>>
    /\ \A q \in Page \ {p} :
          /\ pc'[q] = pc[q] /\ wish'[q] = wish[q] /\ fired'[q] = fired[q]
          /\ loops'[q] = loops[q] /\ on'[q] = on[q] /\ report'[q] = report[q]

\* Such a step keeps the invariant if the page stays as connected as its calls
\* and its channel allow.
LEMMA QuietStep ==
    ASSUME IndInv, TypeOK', NEW p \in Page, OnlyPage(p), fired'[p] = fired[p],
           Connected(p)' => Connected(p),
           CallsOf(p) = {} \/ pc'[p] \notin {"idle", "opening", "waiting"},
           Connected(p)' /\ pc'[p] # "waiting" => channels[rail[p].channel].st # "pending",
           pc'[p] \in {"closing", "settled"} =>
              channels[rail[p].channel].st \in {"closing", "closed"},
           loops'[p] \subseteq loops[p],
           SafeReport(p)',
           p \in Shooter =>
              /\ on'[p] = {} /\ fired[p] * COST <= wish'[p]
              /\ Connected(p)' => wish'[p] = wish[p]
              /\ pc'[p] \in {"closing", "settled"} => Pending(p) = {}
    PROVE  IndInv'
<1>1. /\ account' = account /\ channels' = channels /\ calls' = calls /\ rail' = rail
      /\ shows' = shows
  BY DEF OnlyPage, railVars
<1>2. RailInv'
  <2>1. RailInv
    BY DEF IndInv
  <2> QED
    BY <1>1, <2>1 DEF RailInv, CellsKnown, CallInv
<1>3. /\ \A q \in Page : CallsOf(q)' = CallsOf(q) /\ Pending(q)' = Pending(q)
      /\ \A q \in Page : Out(CallsOf(q))' = Out(CallsOf(q)) /\ Out(Sent(q))' = Out(Sent(q))
      /\ \A q \in Page : Out(Counted(q))' = Out(Counted(q))
  BY <1>1 DEF CallsOf, Pending, Out, Sent, Counted
<1>4. \A q \in Page : Connected(q)' => Connected(q)
  BY DEF Connected, OnlyPage
<1>5. OwnChannels'
  BY <1>1, <1>4 DEF OwnChannels, IndInv
<1>6. ASSUME NEW q \in Page \ {p}
      PROVE  PageInv(q)' /\ SafeReport(q)' /\ (q \in Shooter => ShooterInv(q)')
  <2>1. Connected(q) => rail[q].channel \in DOMAIN channels
    BY DEF IndInv, PageInv, HasChannel
  <2> QED
    BY <1>1, <1>3, <2>1, Undisturbed DEF OnlyPage
<1>7. PageInv(p)'
  <2>1. PageInv(p)
    BY DEF IndInv
  <2>2. Connected(p)' => HasChannel(p)'
    <3> SUFFICES ASSUME Connected(p)' PROVE HasChannel(p)'
      OBVIOUS
    <3>1. HasChannel(p)
      BY <2>1 DEF PageInv
    <3>2. pc'[p] # "waiting" => channels[rail[p].channel].st # "pending"
      OBVIOUS
    <3> QED
      BY <1>1, <1>3, <3>1, <3>2 DEF HasChannel
  <2>3. \A k \in CallsOf(p) : pc'[p] \notin {"idle", "opening", "waiting"}
    OBVIOUS
  <2> QED
    BY <1>1, <1>3, <2>1, <2>2, <2>3 DEF PageInv
<1>8. ASSUME p \in Shooter PROVE ShooterInv(p)'
  <2>1. ShooterInv(p)
    BY <1>8 DEF IndInv
  <2>2. Connected(p)' => wish'[p] = wish[p]
    BY <1>8
  <2> QED
    BY <1>1, <1>3, <1>4, <1>8, <2>1, <2>2 DEF ShooterInv
<1>9. Shooter' = Shooter /\ Shooter \subseteq Page
  BY <1>1 DEF Shooter
<1> QED
  BY <1>2, <1>5, <1>6, <1>7, <1>8, <1>9 DEF IndInv

\* The larger of two numbers, and the smaller.
LEMMA MaxOfPair ==
    ASSUME NEW a \in Int, NEW b \in Int
    PROVE  /\ Max({a, b}) \in {a, b} /\ Max({a, b}) >= a /\ Max({a, b}) >= b
           /\ Min({a, b}) \in {a, b}
<1>1. \E x \in {a, b} : \A y \in {a, b} : x >= y
  OBVIOUS
<1>2. \E x \in {a, b} : \A y \in {a, b} : x =< y
  OBVIOUS
<1>3. Max({a, b}) \in {a, b} /\ \A y \in {a, b} : Max({a, b}) >= y
  BY <1>1 DEF Max
<1>4. Min({a, b}) \in {a, b}
  BY <1>2 DEF Min
<1> QED
  BY <1>3, <1>4

\* The budget connect goes by is a number: the shooter has seen a cell.
LEMMA ClampedType ==
    ASSUME TypeOK, CellsKnown, NEW p \in Page, NEW budget \in Budget, Preflight(p)
    PROVE  Clamped(p, budget) \in Nat
<1>1. budget \in Nat /\ MIN_FUNDING \in Nat /\ RESERVE \in Nat
  BY PagesAssumption
<1>2. CASE p \notin Shooter
  BY <1>1, <1>2 DEF Clamped
<1>3. CASE p \in Shooter
  <2>1. PICK x : DOMAIN account = {x}
    BY <1>3, AccountFinite, FS_Singleton DEF Preflight
  <2>2. account[x] \in Nat /\ Range(account) = {account[x]}
    BY <2>1, AccountFinite DEF Range
  <2>3. Max(Range(account)) = account[x]
    <3> DEFINE a == account[x]
    <3>1. a \in Int /\ Range(account) = {a, a}
      BY <2>2
    <3> HIDE DEF a
    <3>2. Max({a, a}) \in {a, a}
      BY <3>1, MaxOfPair
    <3>3. Max({a, a}) = a
      BY <3>2
    <3> QED
      BY <3>1, <3>3 DEF a
  <2>4. Max(Range(account)) \div CKB - RESERVE \in Int
    <3>1. CKB \in Nat \ {0}
      BY RailAssumption
    <3> DEFINE m == Max(Range(account))
    <3>2. m \in Nat
      BY <2>2, <2>3
    <3> HIDE DEF m
    <3>3. m \div CKB - RESERVE \in Int
      BY <1>1, <3>1, <3>2
    <3> QED
      BY <3>3 DEF m
  <2>5. maxFundable \in Nat
    <3> DEFINE m == Max(Range(account)) \div CKB - RESERVE
    <3>1. m \in Int /\ 0 \in Int
      BY <2>4
    <3> HIDE DEF m
    <3>2. Max({m, 0}) \in {m, 0} /\ Max({m, 0}) >= 0
      BY <3>1, MaxOfPair
    <3>3. Max({m, 0}) \in Nat
      BY <3>1, <3>2
    <3> QED
      BY <3>3 DEF maxFundable, m
  <2> DEFINE least == Min({budget, maxFundable})
  <2>6. least \in Nat
    <3>1. budget \in Int /\ maxFundable \in Int
      BY <1>1, <2>5
    <3>2. least \in {budget, maxFundable}
      BY <3>1, MaxOfPair
    <3> HIDE DEF least
    <3> QED
      BY <1>1, <2>5, <3>2
  <2> HIDE DEF least
  <2>7. Max({least, MIN_FUNDING}) \in Nat
    BY <1>1, <2>6, MaxOfPair
  <2> QED
    BY <1>3, <2>7 DEF Clamped, least
<1> QED
  BY <1>2, <1>3

\* A shooter with no payment has fired nothing.
LEMMA NothingFired ==
    ASSUME IndInv, NEW p \in Shooter, CallsOf(p) = {}
    PROVE  fired[p] * COST = 0
<1>1. fired[p] \in Nat /\ COST \in Nat
  BY PagesAssumption DEF IndInv, TypeOK, Shooter
<1>2. fired[p] * COST * CKB = 0
  BY OutNone DEF IndInv, ShooterInv, Out
<1> DEFINE m == fired[p] * COST
<1>3. m \in Nat
  BY <1>1
<1> HIDE DEF m
<1>4. (m * CKB) \div CKB = m
  BY <1>3, WholeCKB
<1>5. 0 \div CKB = 0
  BY RailAssumption
<1> QED
  BY <1>2, <1>4, <1>5 DEF m

\* A user asks to connect.
LEMMA ConnectStep ==
    ASSUME IndInv, NEW p \in Page, NEW budget \in Budget, connect(p, budget)
    PROVE  IndInv'
<1>1. Clamped(p, budget) \in Nat
  BY ClampedType DEF connect, IndInv, RailInv
<1>2. /\ pc[p] = "idle" /\ wish' = [wish EXCEPT ![p] = Clamped(p, budget)]
      /\ pc' = [pc EXCEPT ![p] = "opening"]
      /\ UNCHANGED <<railVars, shows, fired, loops, on, tries, report>>
  BY DEF connect, Goto
<1>3. TypeOK /\ PageInv(p) /\ SafeReport(p)
  BY DEF IndInv
<1>4. TypeOK'
  <2>1. wish' \in [Page -> Nat] /\ pc' \in [Page -> {"idle", "opening", "waiting", "playing",
                                             "over", "settling", "closing", "settled"}]
    BY <1>1, <1>2, <1>3 DEF TypeOK
  <2>2. RailTypeOK'
    BY <1>2, <1>3 DEF TypeOK, RailTypeOK, railVars
  <2>3. /\ fired' \in [Page -> Nat] /\ tries' \in [Page -> Nat]
        /\ shows' \in [Page -> {"shooter", "troops"}]
        /\ loops' \in [Page -> SUBSET [call : Nat, left : Nat]]
        /\ on' \in [Page -> SUBSET {1, BATCH}]
        /\ report' \in [Page -> [local : Int, remote : Nat, unseen : Nat]]
    BY <1>2, <1>3 DEF TypeOK
  <2> QED
    BY <2>1, <2>2, <2>3 DEF TypeOK
<1>5. pc'[p] = "opening" /\ OnlyPage(p)
  BY <1>2, <1>3 DEF TypeOK, OnlyPage
<1>6. CallsOf(p) = {}
  BY <1>2, <1>3 DEF PageInv
<1>7. p \in Shooter => on'[p] = {} /\ fired[p] * COST <= wish'[p]
  <2> SUFFICES ASSUME p \in Shooter PROVE on'[p] = {} /\ fired[p] * COST <= wish'[p]
    OBVIOUS
  <2>1. fired[p] * COST = 0 /\ wish'[p] \in Nat
    BY <1>4, <1>6, NothingFired DEF TypeOK
  <2>2. on[p] = {}
    BY DEF IndInv, ShooterInv
  <2> QED
    BY <1>2, <2>1, <2>2
<1>8. ~ Connected(p)' /\ SafeReport(p)' /\ loops'[p] \subseteq loops[p] /\ fired'[p] = fired[p]
  BY <1>2, <1>5 DEF Connected, SafeReport
<1> QED
  BY <1>4, <1>5, <1>6, <1>7, <1>8, QuietStep

\* The rail waits for its channel, one way or the other.
LEMMA WaitStep ==
    ASSUME IndInv, NEW p \in Page, Ready(p) \/ NotReady(p)
    PROVE  IndInv'
<1>1. /\ pc[p] = "waiting" /\ UNCHANGED <<railVars, shows, wish, fired, loops, tries, report>>
      /\ \/ /\ Routable(p, COST) /\ pc' = [pc EXCEPT ![p] = "playing"]
            /\ on' = [on EXCEPT ![p] = refresh(p, rail[p])]
         \/ pc' = [pc EXCEPT ![p] = "idle"] /\ on' = on
  BY DEF Ready, NotReady, Goto
<1>2. TypeOK /\ PageInv(p) /\ SafeReport(p)
  BY DEF IndInv
<1>3. TypeOK'
  <2>1. on' \in [Page -> SUBSET {1, BATCH}]
    BY <1>1, <1>2 DEF TypeOK, refresh
  <2>2. pc' \in [Page -> {"idle", "opening", "waiting", "playing",
                         "over", "settling", "closing", "settled"}]
    BY <1>1, <1>2 DEF TypeOK
  <2> QED
    BY <1>1, <1>2, <2>1, <2>2 DEF TypeOK, RailTypeOK, railVars
<1>4. /\ OnlyPage(p) /\ pc'[p] \in {"playing", "idle"}
      /\ pc'[p] = "playing" => channels[rail[p].channel].st # "pending"
  BY <1>1, <1>2 DEF TypeOK, OnlyPage, Routable
<1>5. CallsOf(p) = {} /\ Connected(p)
  BY <1>1, <1>2 DEF PageInv, Connected
<1>6. p \in Shooter => on'[p] = {} /\ fired[p] * COST <= wish'[p] /\ wish'[p] = wish[p]
  <2> SUFFICES ASSUME p \in Shooter
               PROVE  on'[p] = {} /\ fired[p] * COST <= wish'[p] /\ wish'[p] = wish[p]
    OBVIOUS
  <2>1. ShooterInv(p)
    BY DEF IndInv
  <2>2. refresh(p, rail[p]) = {}
    BY DEF refresh
  <2>3. on'[p] = {}
    BY <1>1, <1>2, <2>1, <2>2 DEF ShooterInv, TypeOK
  <2> QED
    BY <1>1, <2>1, <2>3 DEF ShooterInv
<1>7. Connected(p)' /\ pc'[p] # "waiting" => channels[rail[p].channel].st # "pending"
  BY <1>4 DEF Connected
<1>8. SafeReport(p)' /\ loops'[p] \subseteq loops[p] /\ fired'[p] = fired[p]
  BY <1>1, <1>4 DEF SafeReport
<1> QED
  BY <1>3, <1>4, <1>5, <1>6, <1>7, <1>8, QuietStep

\* A game ends, is to be settled, or is refused its settlement.
LEMMA OverStep ==
    ASSUME IndInv, NEW p \in Page, onOver(p) \/ settle(p) \/ CloseRefused(p)
    PROVE  IndInv'
<1>1. /\ pc[p] \in {"playing", "over", "settling"}
      /\ UNCHANGED <<railVars, shows, wish, fired, loops, on, report>>
      /\ \E l \in {"playing", "over", "settling"} : pc' = [pc EXCEPT ![p] = l]
      /\ tries' \in {tries, [tries EXCEPT ![p] = 0], [tries EXCEPT ![p] = tries[p] + 1]}
  <2>1. CASE onOver(p)
    BY <2>1 DEF onOver, Goto
  <2>2. CASE settle(p)
    BY <2>2 DEF settle, Goto
  <2>3. CASE CloseRefused(p)
    <3>1. pc' = pc => pc' = [pc EXCEPT ![p] = "settling"]
      BY <2>3 DEF CloseRefused, IndInv, TypeOK
    <3> QED
      BY <2>3, <3>1 DEF CloseRefused, Goto
  <2> QED
    BY <2>1, <2>2, <2>3
<1>2. TypeOK /\ PageInv(p) /\ SafeReport(p)
  BY DEF IndInv
<1>3. TypeOK'
  <2>1. pc' \in [Page -> {"idle", "opening", "waiting", "playing",
                         "over", "settling", "closing", "settled"}]
    BY <1>1, <1>2 DEF TypeOK
  <2>2. tries' \in [Page -> Nat]
    BY <1>1, <1>2 DEF TypeOK
  <2> QED
    BY <1>1, <1>2, <2>1, <2>2 DEF TypeOK, RailTypeOK, railVars
<1>4. OnlyPage(p) /\ pc'[p] \in {"playing", "over", "settling"}
  BY <1>1, <1>2 DEF TypeOK, OnlyPage
<1>5. Connected(p) /\ channels[rail[p].channel].st # "pending"
  BY <1>1, <1>2 DEF PageInv, HasChannel, Connected
<1>6. p \in Shooter => on'[p] = {} /\ fired[p] * COST <= wish'[p]
  BY <1>1 DEF IndInv, ShooterInv
<1>7. SafeReport(p)' /\ loops'[p] \subseteq loops[p] /\ fired'[p] = fired[p] /\ wish'[p] = wish[p]
  BY <1>1, <1>4 DEF SafeReport
<1> QED
  BY <1>3, <1>4, <1>5, <1>6, <1>7, QuietStep

\* What is sent and not locked any more was counted or is unseen, and the shooter
\* has seen everything once nothing is pending: what a page that closes reports
\* is in its channel.
LEMMA SettlementCovered ==
    ASSUME IndInv, NEW p \in Page, pc[p] = "closing"
    PROVE  remainingCkb(p) * CKB <=
              Refunded(channels[rail[p].channel]) + CLOSE_FEE
                 + (IF p \in Shooter THEN 0 ELSE Out(Unseen(p)))
<1> DEFINE i == rail[p].channel
           held == channels[i].local + CHANNEL_RESERVE
<1>1. TypeOK /\ PageInv(p) /\ HasChannel(p) /\ \A k \in DOMAIN calls : CallInv(k)
  BY DEF IndInv, RailInv, PageInv, Connected
<1>2. calls \in Seq(RailCall) /\ channels \in Seq(FiberChannel) /\ rail[p] \in Rail
  BY <1>1 DEF TypeOK, RailTypeOK
<1>3. i \in DOMAIN channels /\ channels[i].st \in {"closing", "closed"}
  BY <1>1 DEF HasChannel
<1>4. Sent(p) \subseteq Counted(p) \cup Unseen(p)
  <2> SUFFICES ASSUME NEW k \in Sent(p) PROVE k \in Counted(p) \cup Unseen(p)
    OBVIOUS
  <2>1. k \in DOMAIN calls /\ calls[k].channel = i
    BY <1>1 DEF Sent, CallsOf, PageInv
  <2>2. calls[k].status # "inflight"
    BY <1>1, <1>3, <2>1 DEF CallInv
  <2> QED
    BY <2>2 DEF Sent, Counted, Unseen
<1>5. Counted(p) \subseteq DOMAIN calls /\ Unseen(p) \subseteq DOMAIN calls /\ Sent(p) \subseteq DOMAIN calls
  BY DEF Counted, Unseen, Sent, CallsOf
<1>6. Out(Sent(p)) <= Out(Counted(p)) + Out(Unseen(p))
  BY <1>2, <1>4, <1>5, OutCovered DEF Out
<1>7. /\ Out(Sent(p)) \in Nat /\ Out(Counted(p)) \in Nat /\ Out(Unseen(p)) \in Nat
      /\ channels[i].local \in Nat /\ rail[p].budget \in Nat /\ rail[p].spent \in Nat /\ CKB \in Nat
  BY <1>2, <1>3, <1>5, OutNat, ChannelsType, RailAssumption DEF Out, Rail
<1>8. rail[p].budget * CKB <= held + Out(Sent(p)) /\ held \in Nat
  BY <1>1, <1>3, <1>7, RailAssumption DEF HasChannel
<1>9. Out(Counted(p)) <= rail[p].spent * CKB
  BY <1>1 DEF PageInv
<1>10. remainingCkb(p) * CKB <= held + Out(Unseen(p))
  <2> DEFINE b == rail[p].budget * CKB
             s == rail[p].spent * CKB
  <2>1. (rail[p].budget - rail[p].spent) * CKB = b - s /\ b \in Int /\ s \in Int
    BY <1>7
  <2>2. b <= held + Out(Sent(p)) /\ Out(Counted(p)) <= s
    BY <1>8, <1>9
  <2> HIDE DEF b, s, held
  <2>3. b - s <= held + Out(Unseen(p))
    BY <1>6, <1>7, <1>8, <2>1, <2>2
  <2> QED
    BY <2>1, <2>3 DEF remainingCkb
<1>11. p \in Shooter => Out(Unseen(p)) = 0
  <2> SUFFICES ASSUME p \in Shooter PROVE Out(Unseen(p)) = 0
    OBVIOUS
  <2>1. /\ \A k \in CallsOf(p) : calls[k].op = "pay" /\ k \in DOMAIN calls
        /\ Pending(p) = {}
    BY DEF IndInv, ShooterInv, CallsOf
  <2>2. \A k \in CallsOf(p) : calls[k].pc \in {"resolved", "rejected"}
    <3> TAKE k \in CallsOf(p)
    <3>1. calls[k].pc \notin {"sending", "answered"}
      BY <2>1 DEF Pending
    <3>2. calls[k].pc \notin {"waiting", "timedout"}
      BY <1>1, <2>1 DEF CallInv
    <3>3. calls[k].pc \in {"sending", "answered", "waiting", "resolved", "rejected", "timedout"}
      BY <1>2, <2>1, CallsType DEF RailCall
    <3> QED
      BY <3>1, <3>2, <3>3
  <2>3. Unseen(p) = {}
    <3> SUFFICES ASSUME NEW k \in Unseen(p) PROVE FALSE
      OBVIOUS
    <3>1. k \in CallsOf(p) /\ calls[k].status = "success" /\ calls[k].pc = "rejected"
      BY <2>2 DEF Unseen
    <3> QED
      BY <1>1, <2>1, <3>1 DEF CallInv
  <2> QED
    BY <2>3, OutNone DEF Out
<1>12. Refunded(channels[i]) + CLOSE_FEE = held
  BY <1>7, RailAssumption DEF Refunded
<1> HIDE DEF held
<1> QED
  BY <1>7, <1>8, <1>10, <1>11, <1>12

\* close() answers and the page shows the settlement.
LEMMA ClosedStep ==
    ASSUME IndInv, NEW p \in Page, Closed(p)
    PROVE  IndInv'
<1> DEFINE r == [local |-> remainingCkb(p), remote |-> rail[p].spent, unseen |-> Out(Unseen(p))]
<1>1. /\ pc[p] = "closing" /\ pc' = [pc EXCEPT ![p] = "settled"]
      /\ report' = [report EXCEPT ![p] = r] /\ on' = [on EXCEPT ![p] = {}]
      /\ UNCHANGED <<railVars, shows, wish, fired, loops, tries>>
  BY DEF Closed, Goto, Settlement
<1>2. TypeOK /\ PageInv(p) /\ SafeReport(p)
  BY DEF IndInv
<1>3. r \in [local : Int, remote : Nat, unseen : Nat]
  <2>1. rail[p] \in Rail /\ calls \in Seq(RailCall)
    BY <1>2 DEF TypeOK, RailTypeOK
  <2>2. Out(Unseen(p)) \in Nat
    BY <2>1, OutNat DEF Out, Unseen, CallsOf
  <2>3. rail[p].spent \in Nat /\ remainingCkb(p) \in Int
    BY <2>1 DEF remainingCkb, Rail
  <2> QED
    BY <2>2, <2>3
<1> HIDE DEF r
<1>4. TypeOK'
  <2>1. pc' \in [Page -> {"idle", "opening", "waiting", "playing",
                         "over", "settling", "closing", "settled"}]
    BY <1>1, <1>2 DEF TypeOK
  <2>2. report' \in [Page -> [local : Int, remote : Nat, unseen : Nat]]
    BY <1>1, <1>2, <1>3 DEF TypeOK
  <2>3. on' \in [Page -> SUBSET {1, BATCH}]
    BY <1>1, <1>2 DEF TypeOK
  <2> QED
    BY <1>1, <1>2, <2>1, <2>2, <2>3 DEF TypeOK, RailTypeOK, railVars
<1>5. OnlyPage(p) /\ pc'[p] = "settled" /\ on'[p] = {} /\ report'[p] = r
  BY <1>1, <1>2 DEF TypeOK, OnlyPage
<1>6. Connected(p) /\ channels[rail[p].channel].st \in {"closing", "closed"}
  BY <1>1, <1>2 DEF PageInv, HasChannel, Connected
<1>7. p \in Shooter => fired[p] * COST <= wish'[p] /\ Pending(p) = {}
  BY <1>1 DEF IndInv, ShooterInv
<1>8. SafeReport(p)'
  <2>1. report'[p].local = remainingCkb(p) /\ report'[p].unseen = Out(Unseen(p))
    BY <1>5 DEF r
  <2>2. channels' = channels /\ rail' = rail /\ Shooter' = Shooter
    BY <1>1 DEF railVars, Shooter
  <2> QED
    BY <1>1, <2>1, <2>2, SettlementCovered DEF SafeReport
<1>9. loops'[p] \subseteq loops[p] /\ fired'[p] = fired[p] /\ wish'[p] = wish[p]
  BY <1>1
<1> QED
  BY <1>4, <1>5, <1>6, <1>7, <1>8, <1>9, QuietStep

-----------------------------------------------------------------------------
(***************************************************************************)
(* Steps that open a channel, or fail to.                                  *)
(***************************************************************************)
\* Either way the page, which had no call, has a rail with a new budget.
LEMMA NewRail ==
    ASSUME IndInv, TypeOK', NEW p \in Page, pc[p] = "opening",
           NEW i \in Nat, NEW l \in {"idle", "waiting"},
           rail' = [rail EXCEPT ![p] = [budget |-> wish[p], spent |-> 0, channel |-> i]],
           pc' = [pc EXCEPT ![p] = l],
           \A j \in DOMAIN channels : j \in DOMAIN channels' /\ channels'[j] = channels[j],
           UNCHANGED <<calls, shows, wish, fired, loops, on, report>>,
           Connected(p)' => HasChannel(p)'
    PROVE  /\ \A q \in Page : PageInv(q)' /\ SafeReport(q)'
           /\ \A q \in Shooter' : ShooterInv(q)'
<1>1. TypeOK /\ PageInv(p) /\ rail \in [Page -> Rail] /\ pc'[p] = l
  <2>1. TypeOK /\ PageInv(p)
    BY DEF IndInv
  <2>2. rail \in [Page -> Rail]
    BY <2>1 DEF TypeOK, RailTypeOK
  <2>3. p \in DOMAIN pc
    BY <2>1 DEF TypeOK
  <2> QED
    BY <2>1, <2>2, <2>3
<1>2. \A q \in Page : CallsOf(q)' = CallsOf(q)
  BY DEF CallsOf
<1>3. ASSUME NEW q \in Page \ {p}
      PROVE  PageInv(q)' /\ SafeReport(q)' /\ (q \in Shooter => ShooterInv(q)')
  <2>1. Connected(q) => rail[q].channel \in DOMAIN channels
    BY DEF IndInv, PageInv, HasChannel
  <2>2. rail'[q] = rail[q] /\ pc'[q] = pc[q]
    BY <1>1 DEF TypeOK
  <2> QED
    BY <1>2, <2>1, <2>2, Undisturbed
<1>4. CallsOf(p) = {} /\ loops[p] = {}
  BY <1>1 DEF PageInv
<1>5. PageInv(p)'
  <2>1. Counted(p)' = {}
    BY <1>2, <1>4 DEF Counted
  <2>2. Out(Counted(p))' = 0
    BY <2>1, OutNone DEF Out
  <2>3. rail'[p].spent * CKB = 0
    <3>1. rail'[p].spent = 0 /\ CKB \in Nat
      BY <1>1, RailAssumption
    <3> QED
      BY <3>1
  <2>4. Out(Counted(p))' <= rail'[p].spent * CKB
    BY <2>2, <2>3
  <2> QED
    BY <1>2, <1>4, <2>4 DEF PageInv
<1>6. SafeReport(p)'
  BY <1>1 DEF SafeReport
<1>7. ASSUME p \in Shooter PROVE ShooterInv(p)'
  <2>1. ShooterInv(p) /\ wish' = wish /\ fired' = fired /\ loops' = loops /\ on' = on /\ calls' = calls
    BY <1>7 DEF IndInv
  <2>2. rail'[p].budget = wish[p]
    BY <1>1
  <2>3. Out(CallsOf(p))' = Out(CallsOf(p))
    BY <1>2 DEF Out
  <2> QED
    BY <1>1, <1>2, <1>4, <2>1, <2>2, <2>3 DEF ShooterInv
<1> QED
  BY <1>3, <1>5, <1>6, <1>7 DEF Shooter

\* A channel that Fiber agrees on is a new one, which waits for its funding.
LEMMA Negotiating ==
    ASSUME IndInv, NEW p \in Page, NEW ins \in SUBSET DOMAIN account, Negotiated(wish[p], ins)
    PROVE  LET n == Len(channels) + 1
           IN  /\ channels' \in Seq(FiberChannel) /\ DOMAIN channels' = DOMAIN channels \cup {n}
               /\ n \in Nat /\ n \notin DOMAIN channels
               /\ channels'[n].st = "pending" /\ channels'[n].local = 0
               /\ channels'[n].amount = wish[p] * CKB
               /\ \A i \in DOMAIN channels : channels'[i] = channels[i]
<1> DEFINE c == [st |-> "pending", local |-> 0, remote |-> 0, amount |-> wish[p] * CKB, ins |-> ins]
           n == Len(channels) + 1
<1>1. TypeOK /\ RailInv /\ channels \in Seq(FiberChannel)
  BY DEF IndInv, TypeOK, RailTypeOK
<1>3. channels' = Append(channels, c)
  BY DEF Negotiated
<1>4. c \in FiberChannel
  <2>1. wish[p] * CKB \in Nat
    BY <1>1, RailAssumption DEF TypeOK
  <2>2. ins \subseteq Nat
    BY <1>1, AccountFinite DEF RailInv
  <2> QED
    BY <2>1, <2>2 DEF FiberChannel
<1>5. c.st = "pending" /\ c.local = 0 /\ c.amount = wish[p] * CKB
  OBVIOUS
<1> HIDE DEF c
<1>6. /\ channels' \in Seq(FiberChannel) /\ DOMAIN channels' = DOMAIN channels \cup {n}
      /\ n \in Nat /\ n \notin DOMAIN channels
      /\ channels'[n] = c /\ \A i \in DOMAIN channels : channels'[i] = channels[i]
  <2>1. DOMAIN channels = 1 .. Len(channels) /\ Len(channels) \in Nat
    BY <1>1, ChannelsType
  <2>2. /\ channels' \in Seq(FiberChannel) /\ Len(channels') = n
        /\ \A i \in 1 .. n : channels'[i] = IF i = n THEN c ELSE channels[i]
    BY <1>1, <1>3, <1>4
  <2>3. DOMAIN channels' = 1 .. n
    BY <2>2, ChannelsType
  <2> QED
    BY <2>1, <2>2, <2>3
<1> HIDE DEF n
<1> QED
  BY <1>5, <1>6 DEF n

\* The page has a rail without a channel; Fiber has refused, or it has a channel of
\* which the rail does not know.
LEMMA ConnectFailsStep ==
    ASSUME IndInv, NEW p \in Page, ConnectFails(p)
    PROVE  IndInv'
<1>1. /\ pc[p] = "opening" /\ pc' = [pc EXCEPT ![p] = "idle"]
      /\ rail' = [rail EXCEPT ![p] = [budget |-> wish[p], spent |-> 0, channel |-> 0]]
      /\ UNCHANGED <<account, calls, shows, wish, fired, loops, on, tries, report>>
  BY DEF ConnectFails, OpenFails, Goto
<1>2. TypeOK /\ RailInv /\ OwnChannels
  BY DEF IndInv
<1>a. /\ channels' \in Seq(FiberChannel)
      /\ \A i \in DOMAIN channels : i \in DOMAIN channels' /\ channels'[i] = channels[i]
      /\ \A i \in DOMAIN channels' \ DOMAIN channels :
            channels'[i].st = "pending" /\ channels'[i].local = 0
  <2>1. CASE channels' = channels
    BY <1>2, <2>1 DEF TypeOK, RailTypeOK
  <2>2. CASE \E ins \in SUBSET DOMAIN account : Negotiated(wish[p], ins)
    BY <2>2, Negotiating
  <2> QED
    BY <2>1, <2>2 DEF ConnectFails, OpenFails
<1>3. TypeOK'
  <2>1. RailTypeOK'
    <3>1. rail' \in [Page -> Rail]
      BY <1>1, <1>2 DEF TypeOK, RailTypeOK, Rail
    <3> QED
      BY <1>1, <1>2, <1>a, <3>1 DEF TypeOK, RailTypeOK
  <2>2. pc' \in [Page -> {"idle", "opening", "waiting", "playing",
                         "over", "settling", "closing", "settled"}]
    BY <1>1, <1>2 DEF TypeOK
  <2> QED
    BY <1>1, <1>2, <2>1, <2>2 DEF TypeOK
<1>4. RailInv'
  <2>1. CellsKnown'
    BY <1>1, <1>2, <1>a DEF RailInv, CellsKnown
  <2>2. \A i \in DOMAIN channels' : channels'[i].st = "pending" => channels'[i].local = 0
    BY <1>2, <1>a DEF RailInv
  <2>3. \A k \in DOMAIN calls' : CallInv(k)'
    BY <1>1, <1>2, <1>a DEF RailInv, CallInv
  <2> QED
    BY <2>1, <2>2, <2>3 DEF RailInv
<1>5. \A q \in Page : Connected(q)' => q # p /\ Connected(q) /\ rail'[q] = rail[q]
  BY <1>1, <1>2 DEF Connected, TypeOK, RailTypeOK
<1>6. OwnChannels'
  BY <1>2, <1>5 DEF OwnChannels
<1>7. Connected(p)' => HasChannel(p)'
  BY <1>5
<1>8. /\ \A q \in Page : PageInv(q)' /\ SafeReport(q)'
      /\ \A q \in Shooter' : ShooterInv(q)'
  BY <1>1, <1>3, <1>7, <1>a, NewRail
<1> QED
  BY <1>3, <1>4, <1>6, <1>8 DEF IndInv

\* A funding transaction is on its way.
LEMMA OpenedStep ==
    ASSUME IndInv, NEW p \in Page, Opened(p)
    PROVE  IndInv'
<1>1. TypeOK /\ RailInv /\ OwnChannels /\ channels \in Seq(FiberChannel)
  BY DEF IndInv, TypeOK, RailTypeOK
<1>2. PICK ins \in SUBSET DOMAIN account : open(p, wish[p], ins)
  BY DEF Opened
<1> DEFINE n == Len(channels) + 1
<1>3. /\ pc[p] = "opening" /\ pc' = [pc EXCEPT ![p] = "waiting"]
      /\ rail' = [rail EXCEPT ![p] = [budget |-> wish[p], spent |-> 0, channel |-> n]]
      /\ UNCHANGED <<account, calls, shows, wish, fired, loops, on, tries, report>>
  BY <1>2 DEF Opened, open, Goto
<1>6. /\ channels' \in Seq(FiberChannel) /\ DOMAIN channels' = DOMAIN channels \cup {n}
      /\ n \in Nat /\ n \notin DOMAIN channels
      /\ channels'[n].st = "pending" /\ channels'[n].local = 0
      /\ channels'[n].amount = wish[p] * CKB
      /\ \A i \in DOMAIN channels : channels'[i] = channels[i]
  BY <1>2, Negotiating DEF open
<1> HIDE DEF n
<1>7. TypeOK'
  <2>1. RailTypeOK'
    <3>1. rail' \in [Page -> Rail]
      BY <1>1, <1>3, <1>6 DEF TypeOK, RailTypeOK, Rail
    <3> QED
      BY <1>1, <1>3, <1>6, <3>1 DEF TypeOK, RailTypeOK
  <2>2. pc' \in [Page -> {"idle", "opening", "waiting", "playing",
                         "over", "settling", "closing", "settled"}]
    BY <1>1, <1>3 DEF TypeOK
  <2> QED
    BY <1>1, <1>3, <2>1, <2>2 DEF TypeOK
<1>8. RailInv'
  <2>1. CellsKnown'
    BY <1>1, <1>3, <1>6 DEF RailInv, CellsKnown
  <2>2. \A i \in DOMAIN channels' : channels'[i].st = "pending" => channels'[i].local = 0
    BY <1>1, <1>6 DEF RailInv
  <2>3. \A k \in DOMAIN calls' : CallInv(k)'
    BY <1>1, <1>3, <1>6 DEF RailInv, CallInv
  <2> QED
    BY <2>1, <2>2, <2>3 DEF RailInv
<1>9. \A q \in Page \ {p} : /\ rail'[q] = rail[q] /\ Connected(q)' = Connected(q)
                            /\ Connected(q) => rail[q].channel \in DOMAIN channels
  BY <1>1, <1>3 DEF Connected, IndInv, PageInv, HasChannel, TypeOK, RailTypeOK
<1>10. rail'[p] = [budget |-> wish[p], spent |-> 0, channel |-> n] /\ pc'[p] = "waiting"
  BY <1>1, <1>3 DEF TypeOK, RailTypeOK
<1>11. OwnChannels'
  <2>1. rail'[p].channel = n
    BY <1>10
  <2> QED
    BY <1>1, <1>6, <1>9, <2>1 DEF OwnChannels
<1>12. HasChannel(p)'
  <2>1. rail'[p].channel = n /\ rail'[p].budget = wish[p]
    BY <1>10
  <2> QED
    BY <1>6, <1>10, <2>1 DEF HasChannel
<1>13. /\ \A q \in Page : PageInv(q)' /\ SafeReport(q)'
       /\ \A q \in Shooter' : ShooterInv(q)'
  BY <1>3, <1>6, <1>7, <1>12, NewRail
<1> QED
  BY <1>7, <1>8, <1>11, <1>13 DEF IndInv

-----------------------------------------------------------------------------
(***************************************************************************)
(* Steps that begin a call.                                                *)
(***************************************************************************)
\* A call is added after the others.
LEMMA CallAdded ==
    ASSUME TypeOK, NEW c \in RailCall, calls' = Append(calls, c)
    PROVE  LET n == Len(calls) + 1
           IN  /\ calls' \in Seq(RailCall) /\ DOMAIN calls' = DOMAIN calls \cup {n}
               /\ n \in Nat /\ n \notin DOMAIN calls
               /\ calls'[n] = c /\ \A k \in DOMAIN calls : calls'[k] = calls[k]
<1>1. calls \in Seq(RailCall)
  BY DEF TypeOK, RailTypeOK
<1> DEFINE n == Len(calls) + 1
<1>2. DOMAIN calls = 1 .. Len(calls) /\ Len(calls) \in Nat
  BY <1>1, CallsType
<1>3. /\ calls' \in Seq(RailCall) /\ Len(calls') = n
      /\ \A k \in 1 .. n : calls'[k] = IF k = n THEN c ELSE calls[k]
  BY <1>1
<1>4. DOMAIN calls' = 1 .. n
  BY <1>3, CallsType
<1> QED
  BY <1>2, <1>3, <1>4

\* What a set of calls takes out, before it and with it.
LEMMA CallAddedOut ==
    ASSUME TypeOK, NEW c \in RailCall, calls' = Append(calls, c), NEW S, S \subseteq DOMAIN calls
    PROVE  /\ OutOf(calls', S) = OutOf(calls, S)
           /\ OutOf(calls', S \cup {Len(calls) + 1}) = OutOf(calls, S) + c.out
<1> DEFINE n == Len(calls) + 1
           U == S \cup {n}
<1>1. /\ calls \in Seq(RailCall) /\ calls' \in Seq(RailCall) /\ DOMAIN calls' = DOMAIN calls \cup {n}
      /\ n \notin DOMAIN calls /\ calls'[n] = c /\ \A k \in DOMAIN calls : calls'[k] = calls[k]
  BY CallAdded DEF TypeOK, RailTypeOK
<1> HIDE DEF n
<1>2. U \subseteq DOMAIN calls' /\ n \in U /\ U \ {n} = S
  BY <1>1
<1>3. OutOf(calls', S) = OutOf(calls, S)
  BY <1>1, OutEqual
<1> HIDE DEF U
<1>4. OutOf(calls', U) = OutOf(calls', S) + calls'[n].out
  BY <1>1, <1>2, OutRemove
<1> QED
  BY <1>1, <1>3, <1>4 DEF U, n

\* A page that plays begins a call over its channel: a payment of one price, a
\* payment of an invoice, or an invoice.
LEMMA BeginStep ==
    ASSUME IndInv, NEW p \in Page, NEW op, NEW out \in Nat, NEW status, NEW l,
           \/ op \in {"pay", "payInvoice"} /\ status = "none" /\ l = "sending"
           \/ op = "waitInvoicePaid" /\ status = "open" /\ l = "waiting",
           op = "pay" => out = COST * CKB,
           Begin(p, op, out, status, l),
           pc[p] \notin {"idle", "opening", "waiting"},
           UNCHANGED <<shows, pc, wish, tries, report>>,
           fired' \in [Page -> Nat], on' \in [Page -> SUBSET {1, BATCH}],
           loops' \in [Page -> SUBSET [call : Nat, left : Nat]],
           \A q \in Page \ {p} : fired'[q] = fired[q] /\ loops'[q] = loops[q] /\ on'[q] = on[q],
           \A x \in loops'[p] : x \in loops[p] \/ x.call = Len(calls) + 1,
           p \in Shooter => /\ pc[p] = "playing" /\ op = "pay"
                            /\ loops'[p] = {} /\ on'[p] = {}
                            /\ fired'[p] = fired[p] + 1 /\ fired'[p] * COST <= wish[p]
    PROVE  IndInv'
<1> DEFINE c == [page |-> p, op |-> op, channel |-> rail[p].channel, out |-> out,
                 status |-> status, pc |-> l]
           n == Len(calls) + 1
<1>1. /\ calls' = Append(calls, c) /\ UNCHANGED <<account, channels, rail>>
  BY DEF Begin
<1>2. TypeOK /\ RailInv /\ OwnChannels /\ PageInv(p) /\ rail \in [Page -> Rail]
      /\ calls \in Seq(RailCall)
  BY DEF IndInv, TypeOK, RailTypeOK
<1>3. Connected(p) /\ rail[p].channel \in DOMAIN channels
  BY <1>2 DEF Connected, PageInv, HasChannel
<1>4. c \in RailCall
  <2>1. rail[p].channel \in Nat
    BY <1>2 DEF Rail
  <2> QED
    BY <2>1 DEF RailCall
<1>5. /\ c.page = p /\ c.op = op /\ c.channel = rail[p].channel /\ c.out = out
      /\ c.status = status /\ c.pc = l
  OBVIOUS
<1> HIDE DEF c
<1>6. /\ calls' \in Seq(RailCall) /\ DOMAIN calls' = DOMAIN calls \cup {n}
      /\ n \in Nat /\ n \notin DOMAIN calls
      /\ calls'[n] = c /\ \A k \in DOMAIN calls : calls'[k] = calls[k]
  BY <1>1, <1>2, <1>4, CallAdded
<1>7. \A x \in loops'[p] : x \in loops[p] \/ x.call = n
  OBVIOUS
<1> HIDE DEF n
<1>8. TypeOK'
  <2>1. {wish', fired', tries'} \subseteq [Page -> Nat]
    BY <1>2 DEF TypeOK
  <2>2. RailTypeOK'
    BY <1>1, <1>2, <1>6 DEF TypeOK, RailTypeOK
  <2> QED
    BY <1>2, <2>1, <2>2 DEF TypeOK
<1>9. RailInv'
  <2>1. CellsKnown' /\ \A i \in DOMAIN channels' : channels'[i].st = "pending" => channels'[i].local = 0
    BY <1>1, <1>2 DEF RailInv, CellsKnown
  <2>2. \A k \in DOMAIN calls' : CallInv(k)'
    <3> TAKE k \in DOMAIN calls'
    <3>1. CASE k \in DOMAIN calls
      BY <1>1, <1>2, <1>6, <3>1 DEF RailInv, CallInv
    <3>2. CASE k = n
      BY <1>1, <1>3, <1>5, <1>6, <3>2 DEF CallInv
    <3> QED
      BY <1>6, <3>1, <3>2
  <2> QED
    BY <2>1, <2>2 DEF RailInv
<1>10. OwnChannels'
  BY <1>1, <1>2 DEF OwnChannels, Connected
<1>11. \A q \in Page : CallsOf(q)' = IF q = p THEN CallsOf(q) \cup {n} ELSE CallsOf(q)
  BY <1>5, <1>6 DEF CallsOf
<1>12. ASSUME NEW q \in Page \ {p}
       PROVE  PageInv(q)' /\ SafeReport(q)' /\ (q \in Shooter => ShooterInv(q)')
  <2>1. Connected(q) => rail[q].channel \in DOMAIN channels
    BY DEF IndInv, PageInv, HasChannel
  <2>2. \A k \in CallsOf(q) : calls'[k] = calls[k]
    BY <1>6 DEF CallsOf
  <2> QED
    BY <1>1, <1>8, <1>11, <2>1, <2>2, Undisturbed
<1>13. Sent(p)' = Sent(p) /\ Counted(p)' = Counted(p)
  <2>1. \A k \in CallsOf(p) : calls'[k] = calls[k]
    BY <1>6 DEF CallsOf
  <2>2. n \notin Sent(p)' /\ n \notin Counted(p)'
    BY <1>5, <1>6 DEF Sent, Counted
  <2>3. Sent(p)' \subseteq CallsOf(p) \cup {n} /\ Counted(p)' \subseteq CallsOf(p) \cup {n}
    BY <1>11 DEF Sent, Counted
  <2>4. CallsOf(p) \subseteq CallsOf(p)' /\ n \notin CallsOf(p)
    BY <1>6, <1>11 DEF CallsOf
  <2> QED
    BY <2>1, <2>2, <2>3, <2>4 DEF Sent, Counted
<1>14. ASSUME NEW S, S \subseteq DOMAIN calls
       PROVE  OutOf(calls', S) = OutOf(calls, S)
  BY <1>1, <1>2, <1>4, <1>14, CallAddedOut
<1>15. Out(Sent(p))' = Out(Sent(p)) /\ Out(Counted(p))' = Out(Counted(p))
  <2>1. Sent(p) \subseteq DOMAIN calls /\ Counted(p) \subseteq DOMAIN calls
    BY DEF Sent, Counted, CallsOf
  <2> QED
    BY <1>13, <1>14, <2>1 DEF Out
<1>16. PageInv(p)'
  <2>1. HasChannel(p)'
    <3>1. HasChannel(p)
      BY <1>2, <1>3 DEF PageInv
    <3> QED
      BY <1>1, <1>15, <3>1 DEF HasChannel
  <2>2. \A k \in CallsOf(p)' : calls'[k].channel = rail'[p].channel
    <3> TAKE k \in CallsOf(p)'
    <3>1. CASE k = n
      BY <1>1, <1>5, <1>6, <3>1
    <3>2. CASE k \in CallsOf(p)
      <4>1. calls'[k] = calls[k]
        BY <1>6, <3>2 DEF CallsOf
      <4> QED
        BY <1>1, <1>2, <3>2, <4>1 DEF PageInv
    <3> QED
      BY <1>11, <3>1, <3>2
  <2>3. \A x \in loops'[p] : x.call \in CallsOf(p)'
    BY <1>2, <1>7, <1>11 DEF PageInv
  <2>4. Out(Counted(p))' <= rail'[p].spent * CKB
    BY <1>1, <1>2, <1>15 DEF PageInv
  <2> QED
    BY <2>1, <2>2, <2>3, <2>4 DEF PageInv
<1>17. SafeReport(p)'
  <2>1. SafeReport(p) /\ Shooter' = Shooter
    BY DEF IndInv, Shooter
  <2> QED
    BY <1>1, <2>1 DEF SafeReport
<1>18. ASSUME p \in Shooter PROVE ShooterInv(p)'
  <2>1. ShooterInv(p)
    BY <1>18 DEF IndInv
  <2>2. /\ op = "pay" /\ loops'[p] = {} /\ on'[p] = {}
        /\ fired'[p] = fired[p] + 1 /\ fired'[p] * COST <= wish[p]
    BY <1>18
  <2>3. \A k \in CallsOf(p)' : calls'[k].op = "pay"
    <3> TAKE k \in CallsOf(p)'
    <3>1. CASE k = n
      BY <1>5, <1>6, <2>2, <3>1
    <3>2. CASE k \in CallsOf(p)
      <4>1. calls'[k] = calls[k]
        BY <1>6, <3>2 DEF CallsOf
      <4> QED
        BY <2>1, <3>2, <4>1 DEF ShooterInv
    <3> QED
      BY <1>11, <3>1, <3>2
  <2>4. Out(CallsOf(p))' = fired'[p] * COST * CKB
    <3>1. CallsOf(p) \subseteq DOMAIN calls
      BY DEF CallsOf
    <3>2. OutOf(calls', CallsOf(p) \cup {n}) = OutOf(calls, CallsOf(p)) + c.out
      BY <1>1, <1>2, <1>4, <3>1, CallAddedOut DEF n
    <3>3. Out(CallsOf(p))' = Out(CallsOf(p)) + out
      BY <1>5, <1>6, <1>11, <3>2 DEF Out
    <3>4. Out(CallsOf(p)) = fired[p] * COST * CKB
      BY <2>1 DEF ShooterInv
    <3>5. fired[p] \in Nat /\ COST \in Nat /\ CKB \in Nat
      BY <1>2, RailAssumption, PagesAssumption DEF TypeOK
    <3>6. (fired[p] + 1) * COST * CKB = fired[p] * COST * CKB + COST * CKB
      BY <3>5
    <3> QED
      BY <2>2, <3>3, <3>4, <3>6
  <2>5. pc'[p] \notin {"closing", "settled"}
    BY <1>18
  <2> QED
    BY <1>1, <2>1, <2>2, <2>3, <2>4, <2>5 DEF ShooterInv, Connected
<1> QED
  BY <1>8, <1>9, <1>10, <1>12, <1>16, <1>17, <1>18 DEF IndInv, Shooter

\* A shot.
LEMMA ShootStep ==
    ASSUME IndInv, NEW p \in Page, tryShoot(p)
    PROVE  IndInv'
<1>1. /\ p \in Shooter /\ pc[p] = "playing" /\ (fired[p] + 1) * COST <= wish[p]
      /\ fired' = [fired EXCEPT ![p] = fired[p] + 1]
      /\ Begin(p, "pay", COST * CKB, "none", "sending")
      /\ UNCHANGED <<shows, pc, wish, loops, on, tries, report>>
  BY DEF tryShoot, CanShoot, pay
<1>2. TypeOK /\ ShooterInv(p)
  BY <1>1 DEF IndInv
<1>3. fired' \in [Page -> Nat] /\ fired'[p] = fired[p] + 1 /\ \A q \in Page \ {p} : fired'[q] = fired[q]
  BY <1>1, <1>2 DEF TypeOK
<1>4. COST * CKB \in Nat
  BY PagesAssumption, RailAssumption
<1>5. loops'[p] = {} /\ on'[p] = {} /\ fired'[p] * COST <= wish[p]
  BY <1>1, <1>2, <1>3 DEF ShooterInv
<1>6. loops' \in [Page -> SUBSET [call : Nat, left : Nat]] /\ on' \in [Page -> SUBSET {1, BATCH}]
  BY <1>1, <1>2 DEF TypeOK
<1> QED
  BY <1>1, <1>3, <1>4, <1>5, <1>6, BeginStep

\* A page other than the shooter's pays in a round of a loop.
LEMMA RoundStep ==
    ASSUME IndInv, NEW p \in Page, p \notin Shooter, pc[p] \notin {"idle", "opening", "waiting"},
           NEW others, others \subseteq loops[p], NEW left \in Nat, Round(p, others, left),
           UNCHANGED <<shows, pc, wish, fired, tries, report>>,
           on' = on \/ on' = [on EXCEPT ![p] = {}]
    PROVE  IndInv'
<1> DEFINE x == [call |-> Len(calls) + 1, left |-> left]
<1>1. /\ Begin(p, "pay", COST * CKB, "none", "sending")
      /\ loops' = [loops EXCEPT ![p] = others \cup {x}]
  BY DEF Round, pay
<1>2. TypeOK /\ calls \in Seq(RailCall)
  BY DEF IndInv, TypeOK, RailTypeOK
<1>3. x \in [call : Nat, left : Nat] /\ x.call = Len(calls) + 1
  BY <1>2
<1> HIDE DEF x
<1>4. loops' \in [Page -> SUBSET [call : Nat, left : Nat]] /\ loops'[p] = others \cup {x}
      /\ \A q \in Page \ {p} : loops'[q] = loops[q]
  BY <1>1, <1>2, <1>3 DEF TypeOK
<1>5. fired' \in [Page -> Nat] /\ on' \in [Page -> SUBSET {1, BATCH}]
      /\ \A q \in Page \ {p} : on'[q] = on[q] /\ fired'[q] = fired[q]
  BY <1>2 DEF TypeOK
<1>6. COST * CKB \in Nat
  BY PagesAssumption, RailAssumption
<1>7. \A y \in loops'[p] : y \in loops[p] \/ y.call = Len(calls) + 1
  BY <1>3, <1>4
<1> QED
  BY <1>1, <1>4, <1>5, <1>6, <1>7, BeginStep

\* A page other than the shooter's redraws its buttons; a loop may have ended.
LEMMA RedrawStep ==
    ASSUME IndInv, NEW p \in Page, p \notin Shooter,
           on' = [on EXCEPT ![p] = refresh(p, rail[p])],
           NEW left, left \subseteq loops[p], loops' = [loops EXCEPT ![p] = left],
           UNCHANGED <<railVars, shows, pc, wish, fired, tries, report>>
    PROVE  IndInv'
<1>1. TypeOK /\ PageInv(p) /\ SafeReport(p) /\ CellsKnown
  BY DEF IndInv, RailInv
<1>2. loops' \in [Page -> SUBSET [call : Nat, left : Nat]] /\ on' \in [Page -> SUBSET {1, BATCH}]
  BY <1>1 DEF TypeOK, refresh
<1>3. TypeOK'
  BY <1>1, <1>2 DEF TypeOK, RailTypeOK, railVars
<1>4. OnlyPage(p)
  BY <1>1 DEF OnlyPage, TypeOK
<1>5. loops'[p] \subseteq loops[p] /\ pc'[p] = pc[p] /\ Connected(p)' = Connected(p)
  BY <1>1 DEF TypeOK, Connected
<1>6. CallsOf(p) = {} \/ pc[p] \notin {"idle", "opening", "waiting"}
  BY <1>1 DEF PageInv
<1>7. Connected(p) /\ pc[p] # "waiting" => channels[rail[p].channel].st # "pending"
  BY <1>1 DEF PageInv, HasChannel
<1>8. pc[p] \in {"closing", "settled"} => channels[rail[p].channel].st \in {"closing", "closed"}
  BY <1>1 DEF PageInv, HasChannel, Connected
<1>9. SafeReport(p)'
  BY <1>1 DEF SafeReport, railVars, Shooter
<1> QED
  BY <1>3, <1>4, <1>5, <1>6, <1>7, <1>8, <1>9, QuietStep

\* A button, a round of a loop or its end, or an invoice.
LEMMA TradeStep ==
    ASSUME IndInv, NEW p \in Page,
           \/ \E n \in {1, BATCH} : buy(p, n)
           \/ \E l \in loops[p] : BuyNext(p, l)
           \/ \E s \in Invoices : payViaHub(p, s)
           \/ \E n \in Asked : requestInvoice(p, n)
    PROVE  IndInv'
<1>1. TypeOK /\ PageInv(p) /\ (p \in Shooter => loops[p] = {} /\ on[p] = {})
      /\ loops[p] \subseteq [call : Nat, left : Nat]
  BY DEF IndInv, ShooterInv, TypeOK
<1>2. ASSUME NEW n \in {1, BATCH}, buy(p, n) PROVE IndInv'
  <2>1. p \notin Shooter /\ pc[p] \in {"playing", "settling", "closing"}
        /\ UNCHANGED <<shows, pc, wish, fired, tries, report>>
    BY <1>1, <1>2 DEF buy
  <2>2. n - 1 \in Nat
    BY PagesAssumption
  <2>3. CASE Round(p, loops[p], n - 1) /\ on' = [on EXCEPT ![p] = {}]
    BY <2>1, <2>2, <2>3, RoundStep
  <2>4. CASE UNCHANGED <<railVars, loops>> /\ on' = [on EXCEPT ![p] = refresh(p, rail[p])]
    <3>1. loops' = [loops EXCEPT ![p] = loops[p]]
      BY <1>1, <2>4 DEF TypeOK
    <3> QED
      BY <2>1, <2>4, <3>1, RedrawStep
  <2> QED
    BY <1>2, <2>3, <2>4 DEF buy
<1>3. ASSUME NEW l \in loops[p], BuyNext(p, l) PROVE IndInv'
  <2>1. p \notin Shooter /\ pc[p] \notin {"idle", "opening", "waiting"}
        /\ UNCHANGED <<shows, pc, wish, fired, tries, report>>
    BY <1>1, <1>3 DEF BuyNext, PageInv
  <2>2. CASE GoesOn(p, l) /\ Round(p, loops[p] \ {l}, l.left - 1) /\ UNCHANGED on
    <3>1. l.left - 1 \in Nat
      <4>1. l.left \in Nat /\ l.left > 0
        BY <1>1, <2>2 DEF GoesOn
      <4> QED
        BY <4>1
    <3> QED
      BY <2>1, <2>2, <3>1, RoundStep
  <2>3. CASE /\ loops' = [loops EXCEPT ![p] = @ \ {l}] /\ UNCHANGED railVars
             /\ on' = [on EXCEPT ![p] = refresh(p, rail[p])]
    BY <2>1, <2>3, RedrawStep
  <2> QED
    BY <1>3, <2>2, <2>3 DEF BuyNext
<1>4. ASSUME NEW op \in {"payInvoice", "waitInvoicePaid"}, NEW out \in Nat, Clickable(p, op),
             \/ op = "payInvoice" /\ Begin(p, op, out, "none", "sending")
             \/ op = "waitInvoicePaid" /\ Begin(p, op, out, "open", "waiting"),
             UNCHANGED pageVars
      PROVE  IndInv'
  <2>1. p \notin Shooter /\ pc[p] \notin {"idle", "opening", "waiting"}
    BY <1>4 DEF Clickable
  <2>2. /\ UNCHANGED <<shows, pc, wish, tries, report>> /\ fired' = fired /\ on' = on /\ loops' = loops
    BY <1>4 DEF pageVars
  <2>3. /\ fired' \in [Page -> Nat] /\ on' \in [Page -> SUBSET {1, BATCH}]
        /\ loops' \in [Page -> SUBSET [call : Nat, left : Nat]]
    BY <1>1, <2>2 DEF TypeOK
  <2> QED
    BY <1>4, <2>1, <2>2, <2>3, BeginStep
<1>5. ASSUME NEW s \in Invoices, payViaHub(p, s) PROVE IndInv'
  <2>1. s \in Nat
    BY PagesAssumption
  <2> QED
    BY <1>4, <1>5, <2>1 DEF payViaHub, payInvoice
<1>6. ASSUME NEW n \in Asked, requestInvoice(p, n) PROVE IndInv'
  <2>1. n * CKB \in Nat
    BY PagesAssumption, WholeCKB
  <2> QED
    BY <1>4, <1>6, <2>1 DEF requestInvoice, newInvoice
<1> QED
  BY <1>2, <1>3, <1>5, <1>6

-----------------------------------------------------------------------------
(***************************************************************************)
(* Steps in which a call returns to its page.                              *)
(***************************************************************************)
\* One call is replaced by another of the same page.
LEMMA CallChanged ==
    ASSUME TypeOK, NEW k \in DOMAIN calls, NEW c \in RailCall, c.page = calls[k].page,
           calls' = [calls EXCEPT ![k] = c]
    PROVE  /\ calls' \in Seq(RailCall) /\ DOMAIN calls' = DOMAIN calls /\ calls'[k] = c
           /\ \A j \in DOMAIN calls \ {k} : calls'[j] = calls[j]
           /\ \A q \in Page : CallsOf(q)' = CallsOf(q)
<1>1. calls \in Seq(RailCall)
  BY DEF TypeOK, RailTypeOK
<1>2. /\ calls' \in Seq(RailCall) /\ DOMAIN calls' = DOMAIN calls /\ calls'[k] = c
      /\ \A j \in DOMAIN calls \ {k} : calls'[j] = calls[j]
  BY <1>1
<1>3. \A j \in DOMAIN calls : calls'[j].page = calls[j].page
  BY <1>2
<1> QED
  BY <1>2, <1>3 DEF CallsOf

\* n whole CKB are at least as much as out.
Covers(n, out) == out <= n * CKB

\* What is counted when call k is.
LEMMA CountedMore ==
    ASSUME TypeOK, NEW k \in DOMAIN calls, NEW S, S \subseteq DOMAIN calls, NEW T,
           T \subseteq S \cup {k}, NEW s \in Nat, NEW add \in Nat,
           Covers(s, Out(S)), k \in T => Covers(add, calls[k].out)
    PROVE  Covers(s + add, Out(T))
<1>1. calls \in Seq(RailCall) /\ calls[k].out \in Nat /\ CKB \in Nat
  BY CallsType, RailAssumption DEF TypeOK, RailTypeOK
<1> DEFINE one == {k}
<1>2. one \subseteq DOMAIN calls /\ k \in one /\ one \ {k} = {} /\ T \subseteq S \cup one
  OBVIOUS
<1> HIDE DEF one
<1>3. Out(one) = calls[k].out
  <2> DEFINE none == one \ {k}
  <2>1. none = {}
    BY <1>2
  <2> HIDE DEF none
  <2>2. OutOf(calls, one) = OutOf(calls, none) + calls[k].out
    BY <1>1, <1>2, OutRemove DEF none
  <2>3. OutOf(calls, none) = 0
    BY <2>1, OutNone
  <2> QED
    BY <1>1, <2>2, <2>3 DEF Out
<1>4. Out(S) \in Nat /\ Out(T) \in Nat
  <2>1. T \subseteq DOMAIN calls
    BY <1>2
  <2> QED
    BY <1>1, <2>1, OutNat DEF Out
<1>5. CASE k \in T
  <2>1. Out(T) <= Out(S) + Out(one)
    BY <1>1, <1>2, OutCovered DEF Out
  <2>2. Out(S) <= s * CKB /\ calls[k].out <= add * CKB
    BY <1>5 DEF Covers
  <2>3. (s + add) * CKB = s * CKB + add * CKB /\ s * CKB \in Nat /\ add * CKB \in Nat
    BY <1>1
  <2>4. PICK u \in Nat, v \in Nat : u = s * CKB /\ v = add * CKB
    BY <2>3
  <2>5. (s + add) * CKB = u + v
    BY <2>3, <2>4
  <2>6. Out(S) <= u /\ Out(one) <= v
    BY <1>3, <2>2, <2>4
  <2>7. Out(one) \in Nat
    BY <1>1, <1>3
  <2>8. Out(T) <= u + v
    BY <1>4, <2>1, <2>6, <2>7
  <2> QED
    BY <2>5, <2>8 DEF Covers
<1>6. CASE k \notin T
  <2>1. T \subseteq S
    BY <1>6
  <2>2. Out(T) <= Out(S)
    BY <1>1, <2>1, OutSubset DEF Out
  <2>3. Out(S) <= s * CKB
    BY DEF Covers
  <2>4. (s + add) * CKB = s * CKB + add * CKB /\ s * CKB \in Nat /\ add * CKB \in Nat
    BY <1>1
  <2> QED
    BY <1>4, <2>2, <2>3, <2>4 DEF Covers
<1> QED
  BY <1>5, <1>6

\* A call returns to page p with outcome l, which counts for add.
ReturnedTo(p, k, l, add) ==
    /\ calls' = [calls EXCEPT ![k].pc = l]
    /\ rail' \in [Page -> Rail] /\ \A q \in Page \ {p} : rail'[q] = rail[q]
    /\ rail'[p].budget = rail[p].budget /\ rail'[p].channel = rail[p].channel
    /\ rail'[p].spent = rail[p].spent + add
    /\ on' = on \/ on' = [on EXCEPT ![p] = refresh(p, rail'[p])]
    /\ UNCHANGED <<account, channels, shows, pc, wish, fired, loops, tries, report>>

\* The rail counts for a call that returns at least what it took, if it paid.
LEMMA ReturnStep ==
    ASSUME IndInv, NEW k \in DOMAIN calls, NEW p \in Page, p = calls[k].page,
           calls[k].pc \in {"answered", "waiting"}, NEW l \in {"resolved", "rejected", "timedout"},
           NEW add \in Nat, ReturnedTo(p, k, l, add),
           l = "resolved" /\ calls[k].op # "waitInvoicePaid" => Covers(add, calls[k].out),
           calls[k].op = "pay" => l = "resolved"
    PROVE  IndInv'
<1> DEFINE c == [calls[k] EXCEPT !.pc = l]
<1>1. TypeOK /\ RailInv /\ OwnChannels /\ calls \in Seq(RailCall) /\ rail \in [Page -> Rail]
  BY DEF IndInv, TypeOK, RailTypeOK
<1>2. calls[k] \in RailCall /\ k \in CallsOf(p)
  BY <1>1, CallsType DEF CallsOf
<1>3. /\ c \in RailCall /\ c.page = calls[k].page /\ c.op = calls[k].op /\ c.channel = calls[k].channel
      /\ c.out = calls[k].out /\ c.status = calls[k].status /\ c.pc = l
  BY <1>2 DEF RailCall
<1>4. calls' = [calls EXCEPT ![k] = c]
  BY DEF ReturnedTo
<1> HIDE DEF c
<1>5. /\ calls' \in Seq(RailCall) /\ DOMAIN calls' = DOMAIN calls /\ calls'[k] = c
      /\ \A j \in DOMAIN calls \ {k} : calls'[j] = calls[j]
      /\ \A q \in Page : CallsOf(q)' = CallsOf(q)
  BY <1>1, <1>3, <1>4, CallChanged
<1>same. UNCHANGED <<account, channels, shows, pc, wish, fired, loops, tries, report>>
  BY DEF ReturnedTo
<1>rails. /\ rail' \in [Page -> Rail] /\ \A q \in Page \ {p} : rail'[q] = rail[q]
      /\ rail'[p].budget = rail[p].budget /\ rail'[p].channel = rail[p].channel
      /\ rail'[p].spent = rail[p].spent + add
  BY DEF ReturnedTo
<1>6. on' \in [Page -> SUBSET {1, BATCH}] /\ (\A q \in Page \ {p} : on'[q] = on[q])
      /\ (p \in Shooter => on'[p] = {})
  <2>1. refresh(p, rail'[p]) \subseteq {1, BATCH} /\ (p \in Shooter => refresh(p, rail'[p]) = {})
    BY DEF refresh
  <2>2. p \in Shooter => on[p] = {}
    BY DEF IndInv, ShooterInv
  <2>3. on \in [Page -> SUBSET {1, BATCH}]
    BY <1>1 DEF TypeOK
  <2>4. CASE on' = on
    BY <2>2, <2>3, <2>4
  <2>5. CASE on' = [on EXCEPT ![p] = refresh(p, rail'[p])]
    BY <2>1, <2>3, <2>5
  <2> QED
    BY <2>4, <2>5 DEF ReturnedTo
<1>7. TypeOK'
  BY <1>1, <1>5, <1>same, <1>rails, <1>6 DEF TypeOK, RailTypeOK
<1>8. RailInv'
  <2>1. CellsKnown' /\ \A i \in DOMAIN channels' : channels'[i].st = "pending" => channels'[i].local = 0
    BY <1>1, <1>same DEF RailInv, CellsKnown
  <2>2. \A j \in DOMAIN calls' : CallInv(j)'
    <3> TAKE j \in DOMAIN calls'
    <3>1. CallInv(j) /\ channels' = channels
      BY <1>1, <1>5, <1>same DEF RailInv
    <3>2. CASE j = k
      BY <1>3, <1>5, <3>1, <3>2 DEF CallInv
    <3>3. CASE j # k
      BY <1>5, <3>1, <3>3 DEF CallInv
    <3> QED
      BY <3>2, <3>3
  <2> QED
    BY <2>1, <2>2 DEF RailInv
<1>9. \A q \in Page : rail'[q].channel = rail[q].channel /\ Connected(q)' = Connected(q)
  BY <1>same, <1>rails DEF Connected
<1>10. OwnChannels'
  BY <1>1, <1>9 DEF OwnChannels
<1>11. ASSUME NEW q \in Page \ {p}
       PROVE  PageInv(q)' /\ SafeReport(q)' /\ (q \in Shooter => ShooterInv(q)')
  <2>1. Connected(q) => rail[q].channel \in DOMAIN channels
    BY DEF IndInv, PageInv, HasChannel
  <2>2. \A j \in CallsOf(q) : calls'[j] = calls[j]
    BY <1>5 DEF CallsOf
  <2> QED
    BY <1>5, <1>same, <1>rails, <1>6, <1>7, <2>1, <2>2, Undisturbed
<1>12. \A j \in DOMAIN calls : /\ calls'[j].op = calls[j].op /\ calls'[j].status = calls[j].status
                               /\ calls'[j].out = calls[j].out /\ calls'[j].channel = calls[j].channel
  BY <1>3, <1>5
<1>13. ASSUME NEW S, S \subseteq DOMAIN calls
       PROVE  OutOf(calls', S) = OutOf(calls, S)
  BY <1>1, <1>5, <1>12, <1>13, OutEqual
<1>14. Sent(p)' = Sent(p) /\ CallsOf(p)' = CallsOf(p) /\ Pending(p)' \subseteq Pending(p)
  <2>1. CallsOf(p)' = CallsOf(p) /\ CallsOf(p) \subseteq DOMAIN calls
    BY <1>2, <1>5 DEF CallsOf
  <2>2. Sent(p)' = Sent(p)
    BY <1>12, <2>1 DEF Sent
  <2>3. k \notin Pending(p)'
    BY <1>3, <1>5 DEF Pending
  <2> QED
    BY <1>5, <2>1, <2>2, <2>3 DEF Pending
<1>15. Out(Sent(p))' = Out(Sent(p)) /\ Out(CallsOf(p))' = Out(CallsOf(p))
  <2>1. Sent(p) \subseteq DOMAIN calls /\ CallsOf(p) \subseteq DOMAIN calls
    BY DEF Sent, CallsOf
  <2> QED
    BY <1>13, <1>14, <2>1 DEF Out
<1>16. PageInv(p) /\ pc[p] \notin {"idle", "opening", "waiting"} /\ Connected(p) /\ HasChannel(p)
  BY <1>2 DEF IndInv, PageInv, Connected
<1>17. Out(Counted(p))' <= rail'[p].spent * CKB
  <2>1. Counted(p)' \subseteq Counted(p) \cup {k} /\ Counted(p)' \subseteq DOMAIN calls
        /\ Counted(p) \subseteq DOMAIN calls
    BY <1>5, <1>12, <1>14 DEF Counted, CallsOf
  <2>2. k \in Counted(p)' => Covers(add, calls[k].out)
    BY <1>3, <1>5 DEF Counted
  <2>3. PICK T : T = Counted(p)'
    OBVIOUS
  <2>4. Covers(rail[p].spent, Out(Counted(p))) /\ rail[p].spent \in Nat
    BY <1>1, <1>2, <1>16 DEF PageInv, Rail, Covers
  <2>5. Covers(rail[p].spent + add, Out(T))
    BY <1>1, <2>1, <2>2, <2>3, <2>4, CountedMore
  <2>6. Out(Counted(p))' = Out(T)
    BY <1>13, <2>1, <2>3 DEF Out
  <2> QED
    BY <1>rails, <2>5, <2>6 DEF Covers
<1>18. PageInv(p)'
  <2>1. HasChannel(p)'
    BY <1>same, <1>rails, <1>15, <1>16 DEF HasChannel
  <2>2. \A j \in CallsOf(p) : calls'[j].channel = rail'[p].channel
    BY <1>12, <1>rails, <1>16 DEF PageInv, CallsOf
  <2> QED
    BY <1>same, <1>14, <1>16, <1>17, <2>1, <2>2 DEF PageInv
<1>19. SafeReport(p)'
  <2>1. SafeReport(p) /\ Shooter' = Shooter
    BY <1>same DEF IndInv, Shooter
  <2> QED
    BY <1>same, <1>rails, <2>1 DEF SafeReport
<1>20. ASSUME p \in Shooter PROVE ShooterInv(p)'
  <2>1. ShooterInv(p)
    BY <1>20 DEF IndInv
  <2>2. \A j \in CallsOf(p) : calls'[j].op = "pay"
    BY <1>12, <2>1 DEF ShooterInv, CallsOf
  <2> QED
    BY <1>6, <1>9, <1>same, <1>rails, <1>14, <1>15, <1>20, <2>1, <2>2 DEF ShooterInv
<1> QED
  BY <1>same, <1>7, <1>8, <1>10, <1>11, <1>18, <1>19, <1>20 DEF IndInv, Shooter

\* sendPayment has answered, a poll finds the end, or the deadline passes.
LEMMA ReturnsStep ==
    ASSUME IndInv, NEW k \in DOMAIN calls, Returns(k)
    PROVE  IndInv'
<1> DEFINE p == calls[k].page
<1>1. TypeOK /\ CallInv(k) /\ calls \in Seq(RailCall) /\ rail \in [Page -> Rail]
  BY DEF IndInv, TypeOK, RailTypeOK, RailInv
<1>2. p \in Page /\ calls[k] \in RailCall /\ calls[k].out \in Nat
  BY <1>1, CallsType
<1>3. rail[p] \in Rail /\ rail[p].spent \in Nat
  BY <1>1, <1>2 DEF Rail
<1>4. /\ on' = on \/ on' = [on EXCEPT ![p] = refresh(p, rail'[p])]
      /\ UNCHANGED <<account, channels, shows, pc, wish, fired, loops, tries, report>>
  BY DEF Returns, PayAnswered, Polled, TimedOut
<1> HIDE DEF p
<1>5. ASSUME NEW add \in Nat, rail' = [rail EXCEPT ![p].spent = @ + add]
      PROVE  /\ rail' \in [Page -> Rail] /\ \A q \in Page \ {p} : rail'[q] = rail[q]
             /\ rail'[p].budget = rail[p].budget /\ rail'[p].channel = rail[p].channel
             /\ rail'[p].spent = rail[p].spent + add
  <2>1. rail' = [rail EXCEPT ![p] = [rail[p] EXCEPT !.spent = rail[p].spent + add]]
    BY <1>5
  <2>2. [rail[p] EXCEPT !.spent = rail[p].spent + add] \in Rail
    BY <1>3 DEF Rail
  <2> QED
    BY <1>1, <1>2, <1>3, <2>1, <2>2 DEF Rail
<1>6. ASSUME rail' = rail
      PROVE  /\ rail' \in [Page -> Rail] /\ \A q \in Page \ {p} : rail'[q] = rail[q]
             /\ rail'[p].budget = rail[p].budget /\ rail'[p].channel = rail[p].channel
             /\ rail'[p].spent = rail[p].spent + 0
  BY <1>1, <1>3, <1>6
<1>7. CASE PayAnswered(k)
  <2>1. /\ calls[k].pc = "answered" /\ calls' = [calls EXCEPT ![k].pc = "resolved"]
        /\ rail' = [rail EXCEPT ![p].spent = @ + calls[k].out \div CKB]
    BY <1>7 DEF PayAnswered, p
  <2>2. calls[k].out \div CKB \in Nat
    BY <1>2, RailAssumption
  <2>3. Covers(calls[k].out \div CKB, calls[k].out)
    <3>1. COST \in Nat /\ CKB \in Nat /\ COST * CKB \in Nat
      BY PagesAssumption, RailAssumption
    <3>2. calls[k].out = COST * CKB /\ (COST * CKB) \div CKB = COST
      BY <1>1, <2>1, <3>1, WholeCKB DEF CallInv
    <3> QED
      BY <3>1, <3>2 DEF Covers
  <2> QED
    BY <1>2, <1>4, <1>5, <2>1, <2>2, <2>3, ReturnStep DEF p, ReturnedTo
<1>8. CASE Polled(k)
  <2>1. calls[k].pc = "waiting" /\ calls[k].op # "pay"
    BY <1>1, <1>8 DEF Polled, CallInv
  <2>2. CASE calls' = [calls EXCEPT ![k].pc = "rejected"] /\ rail' = rail
    BY <1>2, <1>4, <1>6, <2>1, <2>2, ReturnStep DEF p, ReturnedTo
  <2>3. CASE calls[k].op # "payInvoice" /\ calls' = [calls EXCEPT ![k].pc = "resolved"] /\ rail' = rail
    <3>1. calls[k].op = "waitInvoicePaid"
      BY <1>2, <2>1, <2>3 DEF RailCall
    <3> QED
      BY <1>2, <1>4, <1>6, <2>1, <2>3, <3>1, ReturnStep DEF p, ReturnedTo
  <2>4. CASE /\ calls' = [calls EXCEPT ![k].pc = "resolved"]
             /\ rail' = [rail EXCEPT ![p].spent = @ + Cost(calls[k].out)]
    <3>1. Cost(calls[k].out) \in Nat /\ Covers(Cost(calls[k].out), calls[k].out)
      BY <1>2, CostCovers DEF Covers
    <3> QED
      BY <1>2, <1>4, <1>5, <2>1, <2>4, <3>1, ReturnStep DEF p, ReturnedTo
  <2> QED
    BY <1>8, <2>2, <2>3, <2>4 DEF Polled, p
<1>9. CASE TimedOut(k)
  <2>1. calls[k].pc = "waiting" /\ calls[k].op # "pay" /\ rail' = rail
        /\ calls' = [calls EXCEPT ![k].pc = "timedout"]
    BY <1>1, <1>9 DEF TimedOut, CallInv
  <2> QED
    BY <1>2, <1>4, <1>6, <2>1, ReturnStep DEF p, ReturnedTo
<1> QED
  BY <1>7, <1>8, <1>9 DEF Returns

-----------------------------------------------------------------------------
(***************************************************************************)
(* Steps on one channel: Fiber's, the chain's, and a page that closes.     *)
(***************************************************************************)
\* One channel is replaced by another.
LEMMA ChannelChanged ==
    ASSUME TypeOK, NEW i \in DOMAIN channels, NEW c \in FiberChannel,
           channels' = [channels EXCEPT ![i] = c]
    PROVE  /\ channels' \in Seq(FiberChannel) /\ DOMAIN channels' = DOMAIN channels /\ channels'[i] = c
           /\ \A j \in DOMAIN channels \ {i} : channels'[j] = channels[j]
<1>1. channels \in Seq(FiberChannel)
  BY DEF TypeOK, RailTypeOK
<1> QED
  BY <1>1

\* The channel of page p holds its budget, the reserve included, less what it sent.
Holds(p) ==
    rail[p].budget * CKB <= channels[rail[p].channel].local + CHANNEL_RESERVE + Out(Sent(p))

\* The step changes channel i and calls over it, and no page.
OnlyChannel(i) ==
    /\ UNCHANGED <<rail, shows, wish, fired, loops, on, report>>
    /\ DOMAIN channels' = DOMAIN channels /\ DOMAIN calls' = DOMAIN calls
    /\ \A j \in DOMAIN channels \ {i} : channels'[j] = channels[j]
    /\ \A k \in DOMAIN calls : /\ calls'[k] = calls[k] \/ calls[k].channel = i
                              /\ calls'[k].page = calls[k].page /\ calls'[k].op = calls[k].op
                              /\ calls'[k].channel = calls[k].channel

\* The page that is connected over a channel that changes keeps what is known of
\* it if the channel holds as much, and its rail has not counted more.
LEMMA OwnerKeeps ==
    ASSUME IndInv, TypeOK', NEW q \in Page, Connected(q), Connected(q)', NEW i, i = rail[q].channel,
           OnlyChannel(i),
           \A k \in CallsOf(q) : pc'[q] \notin {"idle", "opening", "waiting"},
           channels'[i].amount = channels[i].amount,
           channels'[i].st # "pending" => Holds(q)',
           pc'[q] # "waiting" => channels'[i].st # "pending",
           pc'[q] \in {"closing", "settled"} => channels'[i].st \in {"closing", "closed"},
           pc'[q] = "settled" => pc[q] = "settled" /\ channels'[i].local = channels[i].local,
           Out(Counted(q))' = Out(Counted(q)),
           q \in Shooter => /\ Out(CallsOf(q))' = Out(CallsOf(q))
                            /\ pc'[q] \in {"closing", "settled"} => Pending(q)' = {}
    PROVE  PageInv(q)' /\ SafeReport(q)' /\ (q \in Shooter => ShooterInv(q)')
<1>1. PageInv(q) /\ SafeReport(q) /\ HasChannel(q) /\ i \in DOMAIN channels
  BY DEF IndInv, PageInv, HasChannel
<1>2. /\ UNCHANGED <<rail, shows, wish, fired, loops, on, report>>
      /\ DOMAIN channels' = DOMAIN channels /\ CallsOf(q)' = CallsOf(q)
      /\ \A k \in CallsOf(q) : calls'[k].op = calls[k].op /\ calls'[k].channel = calls[k].channel
  BY DEF OnlyChannel, CallsOf
<1>3. HasChannel(q)'
  BY <1>1, <1>2 DEF HasChannel, Holds
<1>4. PageInv(q)'
  BY <1>1, <1>2, <1>3 DEF PageInv
<1>5. SafeReport(q)'
  BY <1>1, <1>2 DEF SafeReport, Shooter, Refunded
<1>6. ASSUME q \in Shooter PROVE ShooterInv(q)'
  <2>1. ShooterInv(q)
    BY <1>6 DEF IndInv
  <2>2. Out(CallsOf(q))' = Out(CallsOf(q)) /\ (pc'[q] \in {"closing", "settled"} => Pending(q)' = {})
    BY <1>6
  <2> QED
    BY <1>2, <2>1, <2>2 DEF ShooterInv
<1> QED
  BY <1>4, <1>5, <1>6

\* A step on one channel keeps the invariant if it does for the page, if any, that
\* is connected over it.
LEMMA ChannelStep ==
    ASSUME IndInv, TypeOK', RailInv', NEW i \in DOMAIN channels, OnlyChannel(i),
           \A q \in Page : pc'[q] = pc[q] \/ (Connected(q) /\ Connected(q)' /\ rail[q].channel = i),
           \A q \in Page : Connected(q) /\ rail[q].channel = i =>
              PageInv(q)' /\ SafeReport(q)' /\ (q \in Shooter => ShooterInv(q)')
    PROVE  IndInv'
<1>1. /\ UNCHANGED <<rail, shows, wish, fired, loops, on, report>>
      /\ DOMAIN channels' = DOMAIN channels /\ \A q \in Page : CallsOf(q)' = CallsOf(q)
  BY DEF OnlyChannel, CallsOf
<1>2. \A q \in Page : Connected(q)' = Connected(q)
  BY DEF Connected
<1>3. OwnChannels'
  BY <1>1, <1>2 DEF OwnChannels, IndInv
<1>4. ASSUME NEW q \in Page, ~ (Connected(q) /\ rail[q].channel = i)
      PROVE  PageInv(q)' /\ SafeReport(q)' /\ (q \in Shooter => ShooterInv(q)')
  <2>1. PageInv(q) /\ pc'[q] = pc[q]
    BY <1>4 DEF IndInv
  <2>2. Connected(q) => rail[q].channel \in DOMAIN channels /\ rail[q].channel # i
    BY <1>4, <2>1 DEF PageInv, HasChannel
  <2>3. \A k \in CallsOf(q) : Connected(q) /\ calls[k].channel = rail[q].channel
    BY <2>1 DEF PageInv, Connected
  <2>4. \A k \in CallsOf(q) : calls'[k] = calls[k]
    BY <2>2, <2>3 DEF OnlyChannel, CallsOf
  <2>5. Connected(q) => channels'[rail[q].channel] = channels[rail[q].channel]
    BY <2>2 DEF OnlyChannel
  <2> QED
    BY <1>1, <2>1, <2>2, <2>4, <2>5, Undisturbed
<1> QED
  BY <1>1, <1>3, <1>4 DEF IndInv, Shooter

\* Cells stay known while channels only come further.
LEMMA CellsStay ==
    ASSUME CellsKnown, DOMAIN account' \subseteq DOMAIN account,
           \A j \in DOMAIN channels :
              /\ j \in DOMAIN channels'
              /\ channels[j].st # "pending" => channels'[j].st # "pending"
              /\ channels[j].st = "closed" => channels'[j].st = "closed"
    PROVE  CellsKnown'
<1> SUFFICES ASSUME NEW x \in DOMAIN account, x # 0
             PROVE  \/ \E j \in DOMAIN channels' : x = Change(j) /\ channels'[j].st # "pending"
                    \/ \E j \in DOMAIN channels' : x = Refund(j) /\ channels'[j].st = "closed"
  BY DEF CellsKnown
<1>1. CASE \E j \in DOMAIN channels : x = Change(j) /\ channels[j].st # "pending"
  BY <1>1
<1>2. CASE \E j \in DOMAIN channels : x = Refund(j) /\ channels[j].st = "closed"
  BY <1>2
<1> QED
  BY <1>1, <1>2 DEF CellsKnown

\* A page closes its channel.
LEMMA ClosingStep ==
    ASSUME IndInv, NEW p \in Page, Closing(p)
    PROVE  IndInv'
<1> DEFINE i == rail[p].channel
           c == [channels[i] EXCEPT !.st = "closing"]
<1>1. /\ pc[p] = "settling" /\ pc' = [pc EXCEPT ![p] = "closing"] /\ MayClose(p)
      /\ channels[i].st = "ready" /\ Inflight(i) = {} /\ channels' = [channels EXCEPT ![i] = c]
      /\ UNCHANGED <<account, calls, rail, shows, wish, fired, loops, on, tries, report>>
  BY DEF Closing, Shutdown, ShutdownAccepted, Goto
<1>2. TypeOK /\ RailInv /\ PageInv(p) /\ HasChannel(p) /\ channels \in Seq(FiberChannel)
  BY <1>1 DEF IndInv, TypeOK, RailTypeOK, PageInv, Connected
<1>3. i \in DOMAIN channels /\ channels[i] \in FiberChannel
  BY <1>2, ChannelsType DEF HasChannel
<1>4. c \in FiberChannel /\ c.st = "closing" /\ c.local = channels[i].local /\ c.amount = channels[i].amount
  BY <1>3 DEF FiberChannel
<1> HIDE DEF c
<1>5. /\ channels' \in Seq(FiberChannel) /\ DOMAIN channels' = DOMAIN channels /\ channels'[i] = c
      /\ \A j \in DOMAIN channels \ {i} : channels'[j] = channels[j]
  BY <1>1, <1>2, <1>3, <1>4, ChannelChanged
<1>6. TypeOK' /\ pc'[p] = "closing" /\ \A q \in Page \ {p} : pc'[q] = pc[q]
  <2>1. pc' \in [Page -> {"idle", "opening", "waiting", "playing", "over", "settling", "closing",
                         "settled"}]
    BY <1>1, <1>2 DEF TypeOK
  <2>2. {wish', fired', tries'} \subseteq [Page -> Nat]
    BY <1>1, <1>2 DEF TypeOK
  <2>3. RailTypeOK'
    BY <1>1, <1>2, <1>5 DEF TypeOK, RailTypeOK
  <2> QED
    BY <1>1, <1>2, <2>1, <2>2, <2>3 DEF TypeOK
<1> HIDE DEF i
<1>7. RailInv'
  <2>1. CellsKnown'
    BY <1>1, <1>2, <1>4, <1>5, CellsStay DEF RailInv
  <2>2. \A j \in DOMAIN channels' : channels'[j].st = "pending" => channels'[j].local = 0
    BY <1>2, <1>4, <1>5 DEF RailInv
  <2>3. \A k \in DOMAIN calls' : CallInv(k)'
    <3> TAKE k \in DOMAIN calls'
    <3>1. CallInv(k) /\ calls' = calls /\ k \in DOMAIN calls
      BY <1>1, <1>2 DEF RailInv
    <3>2. calls[k].status = "inflight" => calls[k].channel # i
      BY <1>1, <3>1 DEF Inflight
    <3> QED
      BY <1>5, <3>1, <3>2 DEF CallInv
  <2> QED
    BY <2>1, <2>2, <2>3 DEF RailInv
<1>8. OnlyChannel(i)
  BY <1>1, <1>5 DEF OnlyChannel
<1>9. Connected(p) /\ Connected(p)' /\ rail[p].channel = i
  BY <1>1, <1>6 DEF Connected, i
<1>10. Holds(p)'
  <2>1. Out(Sent(p))' = Out(Sent(p)) /\ channels'[i].local = channels[i].local /\ rail' = rail
    BY <1>1, <1>4, <1>5 DEF Out, Sent, CallsOf
  <2>2. Holds(p)
    BY <1>1, <1>2, <1>9 DEF HasChannel, Holds
  <2> QED
    BY <1>9, <2>1, <2>2 DEF Holds
<1>11. Out(Counted(p))' = Out(Counted(p)) /\ Out(CallsOf(p))' = Out(CallsOf(p)) /\ Pending(p)' = Pending(p)
  BY <1>1 DEF Out, Counted, CallsOf, Pending
<1>12. PageInv(p)' /\ SafeReport(p)' /\ (p \in Shooter => ShooterInv(p)')
  <2>1. p \in Shooter => Pending(p)' = {}
    BY <1>1, <1>11 DEF MayClose
  <2>2. channels'[i].st = "closing" /\ channels'[i].amount = channels[i].amount
    BY <1>4, <1>5
  <2> QED
    BY <1>6, <1>8, <1>9, <1>10, <1>11, <2>1, <2>2, OwnerKeeps
<1>13. \A q \in Page : Connected(q) /\ rail[q].channel = i => q = p
  BY <1>9 DEF IndInv, OwnChannels
<1> QED
  BY <1>3, <1>6, <1>7, <1>8, <1>9, <1>12, <1>13, ChannelStep DEF i

\* The account is drained of a cell.
LEMMA DrainStep ==
    ASSUME IndInv, NEW x \in DOMAIN account, Drain(x), UNCHANGED pageVars
    PROVE  IndInv'
<1>1. /\ account' = [y \in DOMAIN account \ {x} |-> account[y]]
      /\ UNCHANGED <<channels, calls, rail, shows, pc, wish, fired, loops, on, tries, report>>
  BY DEF Drain, pageVars
<1>2. TypeOK /\ RailInv /\ OwnChannels
  BY DEF IndInv
<1>3. TypeOK'
  <2>3. account' \in [DOMAIN account' -> Nat]
    BY <1>1, <1>2 DEF TypeOK, RailTypeOK
  <2>4. RailTypeOK'
    BY <1>1, <1>2, <2>3 DEF TypeOK, RailTypeOK
  <2> QED
    BY <1>1, <1>2, <2>4 DEF TypeOK
<1>4. RailInv'
  <2>1. CellsKnown'
    BY <1>1, <1>2, CellsStay DEF RailInv
  <2> QED
    BY <1>1, <1>2, <2>1 DEF RailInv, CallInv
<1>5. OwnChannels'
  BY <1>1, <1>2 DEF OwnChannels, Connected
<1>6. ASSUME NEW q \in Page
      PROVE  PageInv(q)' /\ SafeReport(q)' /\ (q \in Shooter => ShooterInv(q)')
  <2>1. Connected(q) => rail[q].channel \in DOMAIN channels
    BY DEF IndInv, PageInv, HasChannel
  <2>2. CallsOf(q)' = CallsOf(q)
    BY <1>1 DEF CallsOf
  <2> QED
    BY <1>1, <1>3, <2>1, <2>2, Undisturbed
<1> QED
  BY <1>1, <1>3, <1>4, <1>5, <1>6 DEF IndInv, Shooter

\* What a call's step may change of it.
OnlyCall(k) ==
    /\ \A j \in DOMAIN calls \ {k} : calls'[j] = calls[j]
    /\ calls'[k].pc = "resolved" <=> calls[k].pc = "resolved"
    /\ calls[k].pc = "resolved" \/ calls[k].op = "pay" => calls'[k].out = calls[k].out
    /\ calls'[k].pc \in {"sending", "answered"} => calls[k].pc \in {"sending", "answered"}

\* A step on a call keeps the invariant if the channel and what was sent over it
\* hold no less together.
LEMMA CallStep ==
    ASSUME IndInv, TypeOK', RailInv', NEW k \in DOMAIN calls, NEW i, i = calls[k].channel,
           NEW p, p = calls[k].page, UNCHANGED pc, OnlyChannel(i), OnlyCall(k),
           channels'[i].amount = channels[i].amount, channels'[i].st = channels[i].st,
           channels[i].st # "ready" => channels'[i].local = channels[i].local,
           channels[i].st # "pending" =>
              channels[i].local + Out(Sent(p)) <= channels'[i].local + Out(Sent(p))'
    PROVE  IndInv'
<1>1. TypeOK /\ calls \in Seq(RailCall) /\ calls' \in Seq(RailCall) /\ DOMAIN calls' = DOMAIN calls
  BY DEF IndInv, TypeOK, RailTypeOK, OnlyChannel
<1>2. p \in Page /\ k \in CallsOf(p)
  BY <1>1, CallsType DEF CallsOf
<1>3. /\ PageInv(p) /\ Connected(p) /\ Connected(p)' /\ HasChannel(p) /\ rail[p].channel = i
      /\ i \in DOMAIN channels /\ pc[p] \notin {"idle", "opening", "waiting"}
  BY <1>2 DEF IndInv, PageInv, Connected, HasChannel
<1>4. \A q \in Page : Connected(q) /\ rail[q].channel = i => q = p
  BY <1>2, <1>3 DEF IndInv, OwnChannels
<1>5. CallsOf(p)' = CallsOf(p) /\ Counted(p)' = Counted(p) /\ Pending(p)' \subseteq Pending(p)
  <2>1. CallsOf(p)' = CallsOf(p)
    BY DEF CallsOf, OnlyChannel
  <2>2. \A j \in CallsOf(p) :
          /\ calls'[j].op = calls[j].op /\ (calls'[j].pc = "resolved" <=> calls[j].pc = "resolved")
          /\ calls'[j].pc \in {"sending", "answered"} => calls[j].pc \in {"sending", "answered"}
    BY DEF OnlyCall, OnlyChannel, CallsOf
  <2> QED
    BY <2>1, <2>2 DEF Counted, Pending
<1>6. ASSUME NEW S, S \subseteq DOMAIN calls, \A j \in S : calls'[j].out = calls[j].out
      PROVE  OutOf(calls', S) = OutOf(calls, S)
  BY <1>1, <1>6, OutEqual
<1>7. Out(Counted(p))' = Out(Counted(p))
  <2>1. Counted(p) \subseteq DOMAIN calls /\ \A j \in Counted(p) : calls'[j].out = calls[j].out
    BY DEF Counted, CallsOf, OnlyCall
  <2> QED
    BY <1>5, <1>6, <2>1 DEF Out
<1>8. p \in Shooter => /\ Out(CallsOf(p))' = Out(CallsOf(p))
                       /\ pc'[p] \in {"closing", "settled"} => Pending(p)' = {}
  <2> SUFFICES ASSUME p \in Shooter
               PROVE  /\ Out(CallsOf(p))' = Out(CallsOf(p))
                      /\ pc'[p] \in {"closing", "settled"} => Pending(p)' = {}
    OBVIOUS
  <2>1. ShooterInv(p)
    BY DEF IndInv
  <2>2. CallsOf(p) \subseteq DOMAIN calls /\ \A j \in CallsOf(p) : calls'[j].out = calls[j].out
    BY <2>1 DEF CallsOf, OnlyCall, ShooterInv
  <2>3. Out(CallsOf(p))' = Out(CallsOf(p))
    BY <1>5, <1>6, <2>2 DEF Out
  <2> QED
    BY <1>5, <2>1, <2>3 DEF ShooterInv
<1>9. channels'[i].st # "pending" => Holds(p)'
  <2> SUFFICES ASSUME channels[i].st # "pending" PROVE Holds(p)'
    OBVIOUS
  <2>1. Holds(p) /\ rail' = rail
    BY <1>3 DEF HasChannel, Holds, OnlyChannel
  <2> DEFINE b == rail[p].budget * CKB
             l == channels[i].local
             m == channels'[i].local
             o == Out(Sent(p))
             q == Out(Sent(p))'
  <2>2. b \in Int /\ l \in Nat /\ m \in Nat /\ o \in Nat /\ q \in Nat /\ CHANNEL_RESERVE \in Nat
    <3>1. rail[p].budget \in Nat /\ CKB \in Nat /\ CHANNEL_RESERVE \in Nat
      BY <1>1, <1>2, RailAssumption DEF TypeOK, RailTypeOK, Rail
    <3>2. channels[i].local \in Nat /\ channels'[i].local \in Nat
      BY <1>1, <1>3, ChannelsType DEF TypeOK, RailTypeOK, OnlyChannel
    <3>3. Sent(p) \subseteq DOMAIN calls /\ Sent(p)' \subseteq DOMAIN calls'
      BY DEF Sent, CallsOf
    <3>4. Out(Sent(p)) \in Nat /\ Out(Sent(p))' \in Nat
      BY <1>1, <3>3, OutNat DEF Out
    <3> QED
      BY <3>1, <3>2, <3>4
  <2>3. l + o <= m + q
    BY <1>3
  <2>4. b <= l + CHANNEL_RESERVE + o
    BY <1>3, <2>1 DEF Holds
  <2>5. b <= m + CHANNEL_RESERVE + q
    <3> HIDE DEF b, l, m, o, q
    <3> QED
      BY <2>2, <2>3, <2>4
  <2> QED
    BY <1>3, <2>1, <2>5 DEF Holds
<1>10. PageInv(p)' /\ SafeReport(p)' /\ (p \in Shooter => ShooterInv(p)')
  <2>1. pc[p] = "settled" => channels'[i].local = channels[i].local
    BY <1>3 DEF HasChannel
  <2>2. /\ pc[p] # "waiting" => channels'[i].st # "pending"
        /\ pc[p] \in {"closing", "settled"} => channels'[i].st \in {"closing", "closed"}
    BY <1>3 DEF HasChannel
  <2> QED
    BY <1>2, <1>3, <1>7, <1>8, <1>9, <2>1, <2>2, OwnerKeeps
<1> QED
  BY <1>3, <1>4, <1>10, ChannelStep

\* What a call takes out of its channel.
Taken(c) == IF c.op # "waitInvoicePaid" /\ c.status \in {"inflight", "success"} THEN c.out ELSE 0

\* What a page sent is what one of its calls takes, and the rest.
LEMMA SentSplit ==
    ASSUME NEW s, s \in Seq(RailCall), NEW k \in DOMAIN s, NEW S, S \subseteq DOMAIN s,
           k \in S <=> s[k].op # "waitInvoicePaid" /\ s[k].status \in {"inflight", "success"}
    PROVE  OutOf(s, S) = OutOf(s, S \ {k}) + Taken(s[k])
<1>1. CASE k \in S
  BY <1>1, OutRemove DEF Taken
<1>2. CASE k \notin S
  <2> DEFINE R == S \ {k}
  <2>1. R = S
    BY <1>2
  <2> HIDE DEF R
  <2>2. OutOf(s, S) \in Nat /\ Taken(s[k]) = 0
    BY <1>2, OutNat DEF Taken
  <2>3. OutOf(s, S) = OutOf(s, R) + Taken(s[k])
    BY <2>1, <2>2
  <2> QED
    BY <2>3 DEF R
<1> QED
  BY <1>1, <1>2

\* Call k becomes c and its channel d, which holds no less together with what the
\* call takes.
Moves(k, c, d) ==
    LET old == channels[calls[k].channel]
    IN  /\ calls' = [calls EXCEPT ![k] = c] /\ channels' = [channels EXCEPT ![calls[k].channel] = d]
        /\ UNCHANGED <<account, rail, pageVars>>
        /\ c.page = calls[k].page /\ c.op = calls[k].op /\ c.channel = calls[k].channel
        /\ c.pc = "resolved" <=> calls[k].pc = "resolved"
        /\ calls[k].pc = "resolved" \/ calls[k].op = "pay" => c.out = calls[k].out
        /\ c.pc \in {"sending", "answered"} => calls[k].pc \in {"sending", "answered"}
        /\ c.pc # "sending"
        /\ c.pc = "answered" => c.op = "pay"
        /\ c.op = "pay" => c.pc \notin {"waiting", "timedout"}
        /\ c.op = "pay" /\ c.pc = "rejected" => c.status = "none"
        /\ c.status = "inflight" => old.st = "ready" /\ c.op # "waitInvoicePaid"
        /\ c.status = "open" => c.op = "waitInvoicePaid"
        /\ d.st = old.st /\ d.amount = old.amount
        /\ old.st # "ready" => d.local = old.local
        /\ old.local + Taken(calls[k]) <= d.local + Taken(c)

\* Such a move keeps the invariant.
LEMMA MoveStep ==
    ASSUME IndInv, NEW k \in DOMAIN calls, NEW c \in RailCall, NEW d \in FiberChannel, Moves(k, c, d)
    PROVE  IndInv'
<1>0. PICK i, p : i = calls[k].channel /\ p = calls[k].page
  OBVIOUS
<1>1. TypeOK /\ RailInv /\ calls \in Seq(RailCall) /\ channels \in Seq(FiberChannel) /\ CallInv(k)
  BY DEF IndInv, TypeOK, RailTypeOK, RailInv
<1>2. i \in DOMAIN channels /\ calls[k] \in RailCall /\ channels[i] \in FiberChannel /\ p \in Page
  BY <1>0, <1>1, CallsType, ChannelsType DEF CallInv
<1>3. /\ calls' \in Seq(RailCall) /\ DOMAIN calls' = DOMAIN calls /\ calls'[k] = c
      /\ \A j \in DOMAIN calls \ {k} : calls'[j] = calls[j]
      /\ \A q \in Page : CallsOf(q)' = CallsOf(q)
  BY <1>1, CallChanged DEF Moves
<1>4. /\ channels' \in Seq(FiberChannel) /\ DOMAIN channels' = DOMAIN channels /\ channels'[i] = d
      /\ \A j \in DOMAIN channels \ {i} : channels'[j] = channels[j]
  BY <1>0, <1>1, <1>2, ChannelChanged DEF Moves
<1>5. UNCHANGED <<account, rail, shows, pc, wish, fired, loops, on, tries, report>>
  BY DEF Moves, pageVars
<1>6. TypeOK'
  BY <1>1, <1>3, <1>4, <1>5 DEF TypeOK, RailTypeOK
<1>7. /\ c.page = p /\ c.op = calls[k].op /\ c.channel = i
      /\ d.st = channels[i].st /\ d.amount = channels[i].amount
      /\ channels[i].st # "ready" => d.local = channels[i].local
  BY <1>0 DEF Moves
<1>8. RailInv'
  <2>1. \A j \in DOMAIN channels : channels'[j].st = channels[j].st
    BY <1>4, <1>7
  <2>2. CellsKnown'
    BY <1>1, <1>4, <1>5, <2>1, CellsStay DEF RailInv
  <2>3. \A j \in DOMAIN channels' : channels'[j].st = "pending" => channels'[j].local = 0
    BY <1>1, <1>4, <1>7 DEF RailInv
  <2>4. ASSUME NEW j \in DOMAIN calls \ {k} PROVE CallInv(j)'
    <3>1. CallInv(j)
      BY <1>1 DEF RailInv
    <3> QED
      BY <1>3, <1>4, <2>1, <3>1 DEF CallInv
  <2>5. CallInv(k)'
    BY <1>0, <1>1, <1>2, <1>3, <1>4, <1>7 DEF CallInv, Moves
  <2> QED
    BY <1>3, <2>2, <2>3, <2>4, <2>5 DEF RailInv
<1>9. OnlyChannel(i)
  BY <1>0, <1>3, <1>4, <1>5, <1>7 DEF OnlyChannel
<1>10. OnlyCall(k)
  BY <1>3 DEF OnlyCall, Moves
<1>11. channels[i].local + Out(Sent(p)) <= channels'[i].local + Out(Sent(p))'
  <2>1. Sent(p) \subseteq DOMAIN calls /\ Sent(p)' \subseteq DOMAIN calls'
    BY DEF Sent, CallsOf
  <2>2. k \in Sent(p) <=> calls[k].op # "waitInvoicePaid" /\ calls[k].status \in {"inflight", "success"}
    BY <1>0 DEF Sent, CallsOf
  <2>3. k \in Sent(p)' <=> calls'[k].op # "waitInvoicePaid" /\ calls'[k].status \in {"inflight", "success"}
    BY <1>3, <1>7 DEF Sent, CallsOf
  <2> DEFINE R == Sent(p) \ {k}
  <2>4. Sent(p)' \ {k} = R
    BY <1>2, <1>3 DEF Sent, CallsOf
  <2>5. OutOf(calls, Sent(p)) = OutOf(calls, R) + Taken(calls[k])
    BY <1>1, <2>1, <2>2, SentSplit
  <2>6. OutOf(calls', Sent(p)') = OutOf(calls', Sent(p)' \ {k}) + Taken(calls'[k])
    BY <1>3, <2>1, <2>3, SentSplit
  <2>7. OutOf(calls', R) = OutOf(calls, R) /\ OutOf(calls, R) \in Nat
    <3>1. R \subseteq DOMAIN calls /\ \A j \in R : calls'[j].out = calls[j].out
      BY <1>3, <2>1
    <3> HIDE DEF R
    <3> QED
      BY <1>1, <1>3, <3>1, OutEqual, OutNat
  <2>8. channels[i].local + Taken(calls[k]) <= d.local + Taken(c)
    BY <1>0 DEF Moves
  <2>9. /\ channels[i].local \in Nat /\ d.local \in Nat
        /\ Taken(calls[k]) \in Nat /\ Taken(c) \in Nat
    BY <1>2 DEF Taken, RailCall, FiberChannel
  <2> DEFINE rest == OutOf(calls, R)
  <2> HIDE DEF R
  <2>10. Out(Sent(p)) = rest + Taken(calls[k])
    BY <2>5 DEF Out
  <2>11. Out(Sent(p))' = rest + Taken(c)
    BY <1>3, <2>4, <2>6, <2>7 DEF Out
  <2>12. rest \in Nat /\ channels'[i].local = d.local
    BY <1>4, <2>7
  <2> HIDE DEF rest
  <2> QED
    BY <2>8, <2>9, <2>10, <2>11, <2>12
<1>12. channels'[i].amount = channels[i].amount /\ channels'[i].st = channels[i].st
       /\ (channels[i].st # "ready" => channels'[i].local = channels[i].local)
  BY <1>4, <1>7
<1> QED
  BY <1>0, <1>5, <1>6, <1>8, <1>9, <1>10, <1>11, <1>12, CallStep

\* The node takes a payment or refuses it, a payment ends, an invoice is paid or
\* expires.
LEMMA PaymentStep ==
    ASSUME IndInv, NEW k \in DOMAIN calls, UNCHANGED pageVars,
           (\E fee \in 0 .. MAX_FEE : NodeSends(k, fee)) \/ NodeSettles(k) \/ InvoiceEnds(k)
    PROVE  IndInv'
<1> DEFINE x == calls[k]
           i == calls[k].channel
           old == channels[i]
<1>1. calls \in Seq(RailCall) /\ channels \in Seq(FiberChannel) /\ CallInv(k)
  BY DEF IndInv, TypeOK, RailTypeOK, RailInv
<1>2. x \in RailCall /\ i \in DOMAIN channels /\ old \in FiberChannel
  BY <1>1, CallsType, ChannelsType DEF CallInv
<1>3. x.out \in Nat /\ old.local \in Nat /\ old.remote \in Nat
  BY <1>2 DEF RailCall, FiberChannel
<1>4. channels = [channels EXCEPT ![i] = old]
  BY <1>1, <1>2
<1>5. ASSUME NEW fee \in 0 .. MAX_FEE, NodeSends(k, fee) PROVE IndInv'
  <2>1. x.pc = "sending" /\ x.status = "none" /\ x.op # "waitInvoicePaid" /\ (x.op = "pay" => fee = 0)
        /\ UNCHANGED <<account, rail>>
    BY <1>1, <1>5 DEF NodeSends, CallInv
  <2>2. fee \in Nat /\ x.out + fee \in Nat
    BY <1>3, RailAssumption
  <2>3. CASE /\ old.st = "ready" /\ old.local >= x.out + fee
             /\ calls' = [calls EXCEPT ![k] = [@ EXCEPT !.out = x.out + fee, !.status = "inflight",
                             !.pc = IF x.op = "pay" THEN "answered" ELSE "waiting"]]
             /\ channels' = [channels EXCEPT ![i].local = @ - (x.out + fee)]
    <3> DEFINE c == [x EXCEPT !.out = x.out + fee, !.status = "inflight",
                              !.pc = IF x.op = "pay" THEN "answered" ELSE "waiting"]
               d == [old EXCEPT !.local = old.local - (x.out + fee)]
    <3>1. calls' = [calls EXCEPT ![k] = c] /\ channels' = [channels EXCEPT ![i] = d]
      BY <2>3
    <3>2. /\ c \in RailCall /\ c.page = x.page /\ c.op = x.op /\ c.channel = x.channel
          /\ c.out = x.out + fee /\ c.status = "inflight"
          /\ c.pc = IF x.op = "pay" THEN "answered" ELSE "waiting"
      BY <1>2, <2>2 DEF RailCall
    <3>3. old.local - (x.out + fee) \in Nat
      BY <1>3, <2>2, <2>3
    <3>4. /\ d \in FiberChannel /\ d.st = old.st /\ d.amount = old.amount
          /\ d.local = old.local - (x.out + fee)
      BY <1>2, <3>3 DEF FiberChannel
    <3> HIDE DEF c, d, x, old
    <3>5. Taken(x) = 0 /\ Taken(c) = x.out + fee
      BY <2>1, <3>2 DEF Taken
    <3>6. old.local + Taken(x) <= d.local + Taken(c)
      BY <1>3, <2>2, <3>4, <3>5
    <3>7. x.op = "pay" => c.out = x.out
      BY <1>3, <2>1, <3>2
    <3>8. Moves(k, c, d)
      BY <2>1, <2>3, <3>1, <3>2, <3>4, <3>6, <3>7 DEF Moves, x, old
    <3> QED
      BY <3>2, <3>4, <3>8, MoveStep
  <2>4. CASE calls' = [calls EXCEPT ![k].pc = "rejected"] /\ UNCHANGED channels
    <3> DEFINE c == [x EXCEPT !.pc = "rejected"]
    <3>1. calls' = [calls EXCEPT ![k] = c] /\ channels' = [channels EXCEPT ![i] = old]
      BY <1>4, <2>4
    <3>2. /\ c \in RailCall /\ c.page = x.page /\ c.op = x.op /\ c.channel = x.channel
          /\ c.out = x.out /\ c.status = x.status /\ c.pc = "rejected"
      BY <1>2 DEF RailCall
    <3> HIDE DEF c, x, old
    <3>3. Taken(x) = Taken(c) /\ Taken(x) \in Nat
      BY <1>3, <3>2 DEF Taken
    <3>4. old.local + Taken(x) <= old.local + Taken(c)
      BY <1>3, <3>3
    <3>5. Moves(k, c, old)
      BY <2>1, <3>1, <3>2, <3>4 DEF Moves, x, old
    <3> QED
      BY <1>2, <3>2, <3>5, MoveStep
  <2> QED
    BY <1>5, <2>3, <2>4 DEF NodeSends
<1>6. CASE NodeSettles(k)
  <2>1. x.status = "inflight" /\ x.op # "waitInvoicePaid" /\ old.st = "ready" /\ x.pc # "sending"
        /\ UNCHANGED <<account, rail>>
    BY <1>1, <1>6 DEF NodeSettles, CallInv
  <2>2. CASE /\ calls' = [calls EXCEPT ![k].status = "success"]
             /\ channels' = [channels EXCEPT ![i].remote = @ + x.out]
    <3> DEFINE c == [x EXCEPT !.status = "success"]
               d == [old EXCEPT !.remote = old.remote + x.out]
    <3>1. calls' = [calls EXCEPT ![k] = c] /\ channels' = [channels EXCEPT ![i] = d]
      BY <2>2
    <3>2. /\ c \in RailCall /\ c.page = x.page /\ c.op = x.op /\ c.channel = x.channel
          /\ c.out = x.out /\ c.status = "success" /\ c.pc = x.pc
      BY <1>2 DEF RailCall
    <3>3. old.remote + x.out \in Nat
      BY <1>3
    <3>4. d \in FiberChannel /\ d.st = old.st /\ d.amount = old.amount /\ d.local = old.local
      BY <1>2, <3>3 DEF FiberChannel
    <3> HIDE DEF c, d, x, old
    <3>5. Taken(x) = x.out /\ Taken(c) = x.out
      BY <2>1, <3>2 DEF Taken
    <3>6. old.local + Taken(x) <= d.local + Taken(c)
      BY <1>3, <3>4, <3>5
    <3>7. Moves(k, c, d)
      BY <1>1, <2>1, <3>1, <3>2, <3>4, <3>6 DEF Moves, CallInv, x, old
    <3> QED
      BY <3>2, <3>4, <3>7, MoveStep
  <2>3. CASE /\ calls' = [calls EXCEPT ![k].status = "failed"]
             /\ channels' = [channels EXCEPT ![i].local = @ + x.out]
    <3> DEFINE c == [x EXCEPT !.status = "failed"]
               d == [old EXCEPT !.local = old.local + x.out]
    <3>1. calls' = [calls EXCEPT ![k] = c] /\ channels' = [channels EXCEPT ![i] = d]
      BY <2>3
    <3>2. /\ c \in RailCall /\ c.page = x.page /\ c.op = x.op /\ c.channel = x.channel
          /\ c.out = x.out /\ c.status = "failed" /\ c.pc = x.pc
      BY <1>2 DEF RailCall
    <3>3. old.local + x.out \in Nat
      BY <1>3
    <3>4. d \in FiberChannel /\ d.st = old.st /\ d.amount = old.amount /\ d.local = old.local + x.out
      BY <1>2, <3>3 DEF FiberChannel
    <3> HIDE DEF c, d, x, old
    <3>5. Taken(x) = x.out /\ Taken(c) = 0
      BY <2>1, <3>2 DEF Taken
    <3>6. old.local + Taken(x) <= d.local + Taken(c)
      BY <1>3, <3>4, <3>5
    <3>7. Moves(k, c, d)
      BY <1>1, <2>1, <3>1, <3>2, <3>4, <3>6 DEF Moves, CallInv, x, old
    <3> QED
      BY <3>2, <3>4, <3>7, MoveStep
  <2> QED
    BY <1>6, <2>2, <2>3 DEF NodeSettles
<1>7. CASE InvoiceEnds(k)
  <2>1. x.status = "open" /\ x.op = "waitInvoicePaid" /\ x.pc \notin {"sending", "answered"}
        /\ UNCHANGED <<account, rail>>
    BY <1>1, <1>7 DEF InvoiceEnds, CallInv
  <2>2. CASE /\ old.st = "ready" /\ old.remote >= x.out
             /\ calls' = [calls EXCEPT ![k].status = "success"]
             /\ channels' = [channels EXCEPT ![i].remote = @ - x.out, ![i].local = @ + x.out]
    <3> DEFINE c == [x EXCEPT !.status = "success"]
               d == [old EXCEPT !.remote = old.remote - x.out, !.local = old.local + x.out]
    <3>1. calls' = [calls EXCEPT ![k] = c] /\ channels' = [channels EXCEPT ![i] = d]
      <4>1. channels' = [[channels EXCEPT ![i].remote = old.remote - x.out] EXCEPT ![i].local = old.local + x.out]
        BY <1>1, <1>2, <2>2
      <4> QED
        BY <1>1, <1>2, <2>2, <4>1 DEF FiberChannel
    <3>2. /\ c \in RailCall /\ c.page = x.page /\ c.op = x.op /\ c.channel = x.channel
          /\ c.out = x.out /\ c.status = "success" /\ c.pc = x.pc
      BY <1>2 DEF RailCall
    <3>3. old.local + x.out \in Nat /\ old.remote - x.out \in Nat
      BY <1>3, <2>2
    <3>4. d \in FiberChannel /\ d.st = old.st /\ d.amount = old.amount /\ d.local = old.local + x.out
      BY <1>2, <3>3 DEF FiberChannel
    <3> HIDE DEF c, d, x, old
    <3>5. Taken(x) = 0 /\ Taken(c) = 0
      BY <2>1, <3>2 DEF Taken
    <3>6. old.local + Taken(x) <= d.local + Taken(c)
      BY <1>3, <3>4, <3>5
    <3>7. Moves(k, c, d)
      BY <1>1, <2>1, <2>2, <3>1, <3>2, <3>4, <3>6 DEF Moves, CallInv, x, old
    <3> QED
      BY <3>2, <3>4, <3>7, MoveStep
  <2>3. CASE calls' = [calls EXCEPT ![k].status = "failed"] /\ UNCHANGED channels
    <3> DEFINE c == [x EXCEPT !.status = "failed"]
    <3>1. calls' = [calls EXCEPT ![k] = c] /\ channels' = [channels EXCEPT ![i] = old]
      BY <1>4, <2>3
    <3>2. /\ c \in RailCall /\ c.page = x.page /\ c.op = x.op /\ c.channel = x.channel
          /\ c.out = x.out /\ c.status = "failed" /\ c.pc = x.pc
      BY <1>2 DEF RailCall
    <3> HIDE DEF c, x, old
    <3>3. Taken(x) = 0 /\ Taken(c) = 0
      BY <2>1, <3>2 DEF Taken
    <3>4. old.local + Taken(x) <= old.local + Taken(c)
      BY <1>3, <3>3
    <3>5. Moves(k, c, old)
      BY <1>1, <2>1, <3>1, <3>2, <3>4 DEF Moves, CallInv, x, old
    <3> QED
      BY <1>2, <3>2, <3>5, MoveStep
  <2> QED
    BY <1>7, <2>2, <2>3 DEF InvoiceEnds
<1> QED
  BY <1>5, <1>6, <1>7

\* The sum of one.
LEMMA SumOne ==
    ASSUME NEW f, NEW x, f[x] \in Int
    PROVE  SumFunctionOnSet(f, {x}) = f[x]
<1> DEFINE one == {x}
           none == one \ {x}
<1>1. IsFiniteSet(one) /\ x \in one /\ \A y \in one : f[y] \in Int
  BY FS_Singleton
<1>2. none = {}
  OBVIOUS
<1> HIDE DEF one, none
<1>3. SumFunctionOnSet(f, one) = f[x] + SumFunctionOnSet(f, none)
  BY <1>1, SumRemove DEF none
<1>4. SumFunctionOnSet(f, none) = 0
  BY <1>2, SumEmpty
<1> QED
  BY <1>3, <1>4 DEF one

\* A funding transaction spends one cell of the account and leaves the change,
\* which is a new cell.
LEMMA Funding ==
    ASSUME IndInv, NEW i \in DOMAIN channels, FundingCommits(i)
    PROVE  LET change == Change(i)
               spent == Outflow(channels[i])
           IN  /\ channels[i].amount - CHANNEL_RESERVE \in Nat
               /\ change \in Nat /\ change \notin DOMAIN account
               /\ \E x \in DOMAIN account :
                     /\ account[x] - spent \in Nat
                     /\ DOMAIN account' = (DOMAIN account \ {x}) \cup {change}
                     /\ account'[change] = account[x] - spent
                     /\ \A y \in DOMAIN account \ {x} : account'[y] = account[y]
<1> DEFINE c == channels[i]
           change == Change(i)
           spent == Outflow(c)
<1>1. TypeOK /\ CellsKnown /\ channels \in Seq(FiberChannel)
  BY DEF IndInv, TypeOK, RailTypeOK, RailInv
<1>2. /\ c.amount \in Nat /\ spent \in Nat /\ MIN_CHANGE \in Nat /\ CHANNEL_RESERVE \in Nat
      /\ i \in Nat /\ i >= 1
      /\ \A j \in DOMAIN channels : j \in Nat /\ j >= 1
  BY <1>1, ChannelsType, RailAssumption DEF Outflow
<1>3. /\ c.st = "pending" /\ c.ins \subseteq DOMAIN account /\ Cardinality(c.ins) = 1
      /\ c.amount >= CHANNEL_RESERVE /\ Worth(c.ins) >= spent + MIN_CHANGE
      /\ account' = WithCell([y \in DOMAIN account \ c.ins |-> account[y]], change,
                             Worth(c.ins) - spent)
  BY DEF FundingCommits, FundingAccepted, OneAccountInput
<1>4. PICK x : c.ins = {x}
  BY <1>1, <1>3, AccountFinite, FS_Subset, FS_Singleton
<1>5. x \in DOMAIN account /\ account[x] \in Nat
  BY <1>1, <1>3, <1>4, AccountFinite
<1>6. Worth(c.ins) = account[x]
  BY <1>4, <1>5, SumOne DEF Worth
<1>7. change \in Nat /\ change \notin DOMAIN account
  <2>1. change \in Nat /\ change # 0
    BY <1>2 DEF Change
  <2>2. ASSUME change \in DOMAIN account PROVE FALSE
    <3>1. CASE \E j \in DOMAIN channels : change = Change(j) /\ channels[j].st # "pending"
      <4>1. PICK j \in DOMAIN channels : change = Change(j) /\ channels[j].st # "pending"
        BY <3>1
      <4>2. 2 * i - 1 = 2 * j - 1 /\ i \in Nat /\ j \in Nat
        BY <1>2, <4>1 DEF Change
      <4>3. i = j
        BY <4>2
      <4> QED
        BY <1>3, <4>1, <4>3
    <3>2. CASE \E j \in DOMAIN channels : change = Refund(j) /\ channels[j].st = "closed"
      <4>1. PICK j \in DOMAIN channels : change = Refund(j)
        BY <3>2
      <4>2. 2 * i - 1 = 2 * j /\ i \in Nat /\ j \in Nat
        BY <1>2, <4>1 DEF Change, Refund
      <4> QED
        BY <4>2
    <3> QED
      BY <1>1, <2>1, <2>2, <3>1, <3>2 DEF CellsKnown
  <2> QED
    BY <2>1, <2>2
<1>8. account[x] - spent \in Nat /\ c.amount - CHANNEL_RESERVE \in Nat
  <2> HIDE DEF spent, c
  <2> QED
    BY <1>2, <1>3, <1>5, <1>6
<1> HIDE DEF change, c, spent
<1>9. /\ DOMAIN account' = (DOMAIN account \ {x}) \cup {change}
      /\ account'[change] = account[x] - spent
      /\ \A y \in DOMAIN account \ {x} : account'[y] = account[y]
  BY <1>3, <1>4, <1>6, <1>7 DEF WithCell
<1> QED
  BY <1>5, <1>7, <1>8, <1>9 DEF change, c, spent

\* A funding transaction is committed.
LEMMA FundingStep ==
    ASSUME IndInv, NEW i \in DOMAIN channels, FundingCommits(i), UNCHANGED pageVars
    PROVE  IndInv'
<1> DEFINE old == channels[i]
           d == [old EXCEPT !.st = "ready", !.local = old.amount - CHANNEL_RESERVE]
<1>1. TypeOK /\ RailInv /\ channels \in Seq(FiberChannel) /\ old \in FiberChannel
  BY ChannelsType DEF IndInv, TypeOK, RailTypeOK
<1>2. /\ old.st = "pending"
      /\ UNCHANGED <<calls, rail, shows, pc, wish, fired, loops, on, tries, report>>
  BY DEF FundingCommits, pageVars
<1>3. channels' = [channels EXCEPT ![i] = d]
  <2>1. channels' = [[channels EXCEPT ![i].st = "ready"] EXCEPT ![i].local = old.amount - CHANNEL_RESERVE]
    BY <1>1 DEF FundingCommits
  <2> QED
    BY <1>1, <2>1 DEF FiberChannel
<1>4. /\ d \in FiberChannel /\ d.st = "ready" /\ d.amount = old.amount
      /\ d.local = old.amount - CHANNEL_RESERVE /\ d.local \in Nat
  <2>1. old.amount - CHANNEL_RESERVE \in Nat
    BY Funding
  <2> QED
    BY <1>1, <2>1 DEF FiberChannel
<1> HIDE DEF d
<1>5. /\ channels' \in Seq(FiberChannel) /\ DOMAIN channels' = DOMAIN channels /\ channels'[i] = d
      /\ \A j \in DOMAIN channels \ {i} : channels'[j] = channels[j]
  BY <1>1, <1>3, <1>4, ChannelChanged
<1> DEFINE change == Change(i)
<1>6. PICK x \in DOMAIN account :
        /\ account[x] - Outflow(old) \in Nat
        /\ DOMAIN account' = (DOMAIN account \ {x}) \cup {change}
        /\ account'[change] = account[x] - Outflow(old)
        /\ \A y \in DOMAIN account \ {x} : account'[y] = account[y]
  BY Funding
<1> HIDE DEF change
<1>7. TypeOK'
  <2>1. account' \in [DOMAIN account' -> Nat]
    <3>1. account \in [DOMAIN account -> Nat]
      BY <1>1 DEF TypeOK, RailTypeOK
    <3>2. account' = [y \in DOMAIN account' |-> account'[y]]
      BY DEF FundingCommits, WithCell
    <3>3. \A y \in DOMAIN account' : account'[y] \in Nat
      BY <1>6, <3>1
    <3> QED
      BY <3>2, <3>3
  <2> QED
    BY <1>1, <1>2, <1>5, <2>1 DEF TypeOK, RailTypeOK
<1>8. RailInv'
  <2>1. \A j \in DOMAIN channels :
          /\ channels[j].st # "pending" => channels'[j].st # "pending"
          /\ channels[j].st = "closed" => channels'[j].st = "closed"
    BY <1>2, <1>4, <1>5
  <2>2. CellsKnown'
    <3> SUFFICES ASSUME NEW y \in DOMAIN account', y # 0
                 PROVE  \/ \E j \in DOMAIN channels' : y = Change(j) /\ channels'[j].st # "pending"
                        \/ \E j \in DOMAIN channels' : y = Refund(j) /\ channels'[j].st = "closed"
      BY DEF CellsKnown
    <3>1. CASE y = change
      BY <1>4, <1>5, <3>1 DEF change
    <3>2. CASE y \in DOMAIN account
      <4>1. CASE \E j \in DOMAIN channels : y = Change(j) /\ channels[j].st # "pending"
        <5>1. PICK j \in DOMAIN channels : y = Change(j) /\ channels[j].st # "pending"
          BY <4>1
        <5>2. j \in DOMAIN channels' /\ channels'[j].st # "pending"
          BY <1>5, <2>1, <5>1
        <5> QED
          BY <5>1, <5>2
      <4>2. CASE \E j \in DOMAIN channels : y = Refund(j) /\ channels[j].st = "closed"
        <5>1. PICK j \in DOMAIN channels : y = Refund(j) /\ channels[j].st = "closed"
          BY <4>2
        <5>2. j \in DOMAIN channels' /\ channels'[j].st = "closed"
          BY <1>5, <2>1, <5>1
        <5> QED
          BY <5>1, <5>2
      <4> QED
        BY <1>1, <3>2, <4>1, <4>2 DEF RailInv, CellsKnown
    <3> QED
      BY <1>6, <3>1, <3>2
  <2>3. \A j \in DOMAIN channels' : channels'[j].st = "pending" => channels'[j].local = 0
    BY <1>1, <1>4, <1>5 DEF RailInv
  <2>4. \A k \in DOMAIN calls' : CallInv(k)'
    BY <1>1, <1>2, <1>4, <1>5 DEF RailInv, CallInv
  <2> QED
    BY <2>2, <2>3, <2>4 DEF RailInv
<1>9. OnlyChannel(i)
  BY <1>2, <1>5 DEF OnlyChannel
<1>10. ASSUME NEW q \in Page, Connected(q), rail[q].channel = i
       PROVE  PageInv(q)' /\ SafeReport(q)' /\ (q \in Shooter => ShooterInv(q)')
  <2>1. PageInv(q) /\ HasChannel(q) /\ pc[q] = "waiting" /\ CallsOf(q) = {}
    BY <1>2, <1>10 DEF IndInv, PageInv, HasChannel
  <2>2. Holds(q)'
    <3>1. Sent(q)' = {} /\ Out({})' = 0
      BY <1>2, <2>1, OutNone DEF Sent, CallsOf, Out
    <3>2. Out(Sent(q))' = 0
      BY <3>1 DEF Out
    <3>3. old.amount = rail[q].budget * CKB /\ rail' = rail /\ old.amount \in Nat
      BY <1>1, <1>2, <1>10, <2>1 DEF HasChannel, FiberChannel
    <3> DEFINE b == rail[q].budget * CKB
    <3>4. /\ b \in Nat /\ CHANNEL_RESERVE \in Nat /\ channels'[i].local \in Nat
          /\ channels'[i].local = b - CHANNEL_RESERVE
      BY <1>4, <1>5, <3>3, RailAssumption
    <3> HIDE DEF b
    <3>5. b <= channels'[i].local + CHANNEL_RESERVE + Out(Sent(q))'
      BY <3>2, <3>4
    <3> QED
      BY <1>10, <3>3, <3>5 DEF Holds, b
  <2>3. Out(Counted(q))' = Out(Counted(q)) /\ Out(CallsOf(q))' = Out(CallsOf(q)) /\ Connected(q)'
    BY <1>2, <1>10 DEF Out, Counted, CallsOf, Connected
  <2>4. channels'[i].amount = channels[i].amount /\ channels'[i].st = "ready" /\ pc'[q] = "waiting"
    BY <1>2, <1>4, <1>5, <2>1
  <2>5. \A k \in CallsOf(q) : pc'[q] \notin {"idle", "opening", "waiting"}
    BY <2>1
  <2> QED
    BY <1>7, <1>9, <1>10, <2>2, <2>3, <2>4, <2>5, OwnerKeeps
<1> QED
  BY <1>2, <1>7, <1>8, <1>9, <1>10, ChannelStep

\* A closing transaction gives what is left to a new cell of the account.
LEMMA Refunding ==
    ASSUME IndInv, NEW i \in DOMAIN channels, ClosingCommits(i)
    PROVE  LET refund == Refund(i)
           IN  /\ refund \in Nat /\ refund \notin DOMAIN account /\ Refunded(channels[i]) \in Nat
               /\ DOMAIN account' = DOMAIN account \cup {refund}
               /\ account'[refund] = Refunded(channels[i])
               /\ \A y \in DOMAIN account : account'[y] = account[y]
<1> DEFINE refund == Refund(i)
<1>1. TypeOK /\ CellsKnown /\ channels \in Seq(FiberChannel)
  BY DEF IndInv, TypeOK, RailTypeOK, RailInv
<1>2. /\ Refunded(channels[i]) \in Nat /\ i \in Nat /\ i >= 1
      /\ \A j \in DOMAIN channels : j \in Nat /\ j >= 1
  <2>1. channels[i].local \in Nat /\ i \in Nat /\ i >= 1
    BY <1>1, ChannelsType
  <2>2. Refunded(channels[i]) \in Nat
    BY <2>1, RailAssumption DEF Refunded
  <2> QED
    BY <1>1, <2>1, <2>2, ChannelsType
<1>3. channels[i].st = "closing" /\ account' = WithCell(account, refund, Refunded(channels[i]))
  BY DEF ClosingCommits
<1>4. refund \in Nat /\ refund \notin DOMAIN account
  <2>1. refund \in Nat /\ refund # 0
    BY <1>2 DEF Refund
  <2>2. ASSUME refund \in DOMAIN account PROVE FALSE
    <3>1. CASE \E j \in DOMAIN channels : refund = Refund(j) /\ channels[j].st = "closed"
      <4>1. PICK j \in DOMAIN channels : refund = Refund(j) /\ channels[j].st = "closed"
        BY <3>1
      <4>2. 2 * i = 2 * j /\ i \in Nat /\ j \in Nat
        BY <1>2, <4>1 DEF Refund
      <4>3. i = j
        BY <4>2
      <4> QED
        BY <1>3, <4>1, <4>3
    <3>2. CASE \E j \in DOMAIN channels : refund = Change(j) /\ channels[j].st # "pending"
      <4>1. PICK j \in DOMAIN channels : refund = Change(j)
        BY <3>2
      <4>2. 2 * i = 2 * j - 1 /\ i \in Nat /\ j \in Nat
        BY <1>2, <4>1 DEF Change, Refund
      <4> QED
        BY <4>2
    <3> QED
      BY <1>1, <2>1, <2>2, <3>1, <3>2 DEF CellsKnown
  <2> QED
    BY <2>1, <2>2
<1> HIDE DEF refund
<1>5. /\ DOMAIN account' = DOMAIN account \cup {refund} /\ account'[refund] = Refunded(channels[i])
      /\ \A y \in DOMAIN account : account'[y] = account[y]
  BY <1>3, <1>4 DEF WithCell
<1> QED
  BY <1>2, <1>4, <1>5 DEF refund

\* A closing transaction is committed.
LEMMA RefundStep ==
    ASSUME IndInv, NEW i \in DOMAIN channels, ClosingCommits(i), UNCHANGED pageVars
    PROVE  IndInv'
<1> DEFINE old == channels[i]
           d == [old EXCEPT !.st = "closed"]
<1>1. TypeOK /\ RailInv /\ channels \in Seq(FiberChannel) /\ old \in FiberChannel
  BY ChannelsType DEF IndInv, TypeOK, RailTypeOK
<1>2. /\ old.st = "closing" /\ channels' = [channels EXCEPT ![i] = d]
      /\ UNCHANGED <<calls, rail, shows, pc, wish, fired, loops, on, tries, report>>
  BY DEF ClosingCommits, pageVars
<1>3. d \in FiberChannel /\ d.st = "closed" /\ d.local = old.local /\ d.amount = old.amount
  BY <1>1 DEF FiberChannel
<1> HIDE DEF d
<1>4. /\ channels' \in Seq(FiberChannel) /\ DOMAIN channels' = DOMAIN channels /\ channels'[i] = d
      /\ \A j \in DOMAIN channels \ {i} : channels'[j] = channels[j]
  BY <1>1, <1>2, <1>3, ChannelChanged
<1> DEFINE refund == Refund(i)
<1>5. /\ Refunded(old) \in Nat /\ DOMAIN account' = DOMAIN account \cup {refund}
      /\ account'[refund] = Refunded(old) /\ \A y \in DOMAIN account : account'[y] = account[y]
  BY Refunding
<1> HIDE DEF refund
<1>6. TypeOK'
  <2>1. account' \in [DOMAIN account' -> Nat]
    <3>1. account \in [DOMAIN account -> Nat]
      BY <1>1 DEF TypeOK, RailTypeOK
    <3>2. account' = [y \in DOMAIN account' |-> account'[y]]
      BY DEF ClosingCommits, WithCell
    <3>3. \A y \in DOMAIN account' : account'[y] \in Nat
      BY <1>5, <3>1
    <3> QED
      BY <3>2, <3>3
  <2> QED
    BY <1>1, <1>2, <1>4, <2>1 DEF TypeOK, RailTypeOK
<1>7. RailInv'
  <2>1. \A j \in DOMAIN channels :
          /\ channels[j].st # "pending" => channels'[j].st # "pending"
          /\ channels[j].st = "closed" => channels'[j].st = "closed"
    BY <1>2, <1>3, <1>4
  <2>2. CellsKnown'
    <3> SUFFICES ASSUME NEW y \in DOMAIN account', y # 0
                 PROVE  \/ \E j \in DOMAIN channels' : y = Change(j) /\ channels'[j].st # "pending"
                        \/ \E j \in DOMAIN channels' : y = Refund(j) /\ channels'[j].st = "closed"
      BY DEF CellsKnown
    <3>1. CASE y = refund
      BY <1>3, <1>4, <3>1 DEF refund
    <3>2. CASE y \in DOMAIN account
      <4>1. CASE \E j \in DOMAIN channels : y = Change(j) /\ channels[j].st # "pending"
        <5>1. PICK j \in DOMAIN channels : y = Change(j) /\ channels[j].st # "pending"
          BY <4>1
        <5>2. j \in DOMAIN channels' /\ channels'[j].st # "pending"
          BY <1>4, <2>1, <5>1
        <5> QED
          BY <5>1, <5>2
      <4>2. CASE \E j \in DOMAIN channels : y = Refund(j) /\ channels[j].st = "closed"
        <5>1. PICK j \in DOMAIN channels : y = Refund(j) /\ channels[j].st = "closed"
          BY <4>2
        <5>2. j \in DOMAIN channels' /\ channels'[j].st = "closed"
          BY <1>4, <2>1, <5>1
        <5> QED
          BY <5>1, <5>2
      <4> QED
        BY <1>1, <3>2, <4>1, <4>2 DEF RailInv, CellsKnown
    <3> QED
      BY <1>5, <3>1, <3>2
  <2>3. \A j \in DOMAIN channels' : channels'[j].st = "pending" => channels'[j].local = 0
    BY <1>1, <1>3, <1>4 DEF RailInv
  <2>4. \A k \in DOMAIN calls' : CallInv(k)'
    BY <1>1, <1>2, <1>3, <1>4 DEF RailInv, CallInv
  <2> QED
    BY <2>2, <2>3, <2>4 DEF RailInv
<1>8. OnlyChannel(i)
  BY <1>2, <1>4 DEF OnlyChannel
<1>9. ASSUME NEW q \in Page, Connected(q), rail[q].channel = i
      PROVE  PageInv(q)' /\ SafeReport(q)' /\ (q \in Shooter => ShooterInv(q)')
  <2>1. PageInv(q) /\ HasChannel(q)
    BY <1>9 DEF IndInv, PageInv
  <2>2. /\ Out(Counted(q))' = Out(Counted(q)) /\ Out(CallsOf(q))' = Out(CallsOf(q)) /\ Connected(q)'
        /\ Out(Sent(q))' = Out(Sent(q)) /\ Pending(q)' = Pending(q)
    BY <1>2, <1>9 DEF Out, Counted, CallsOf, Connected, Sent, Pending
  <2>3. channels'[i].amount = old.amount /\ channels'[i].st = "closed" /\ channels'[i].local = old.local
    BY <1>3, <1>4
  <2>4. Holds(q)'
    BY <1>2, <1>9, <2>1, <2>2, <2>3 DEF HasChannel, Holds
  <2>5. \A k \in CallsOf(q) : pc'[q] \notin {"idle", "opening", "waiting"}
    BY <1>2, <2>1 DEF PageInv
  <2>6. q \in Shooter => (pc'[q] \in {"closing", "settled"} => Pending(q)' = {})
    BY <1>2, <2>2 DEF IndInv, ShooterInv
  <2> QED
    BY <1>2, <1>6, <1>8, <1>9, <2>2, <2>3, <2>4, <2>5, <2>6, OwnerKeeps
<1> QED
  BY <1>2, <1>6, <1>7, <1>8, <1>9, ChannelStep

-----------------------------------------------------------------------------
(***************************************************************************)
(* The theorems.                                                           *)
(***************************************************************************)
\* Every step keeps the inductive invariant.
LEMMA NextIndInv ==
    ASSUME IndInv, [Next]_vars
    PROVE  IndInv'
<1>1. CASE UNCHANGED vars
  <2>1. UNCHANGED <<account, channels, calls, rail, shows, pc, wish, fired, loops, on, tries, report>>
    BY <1>1 DEF vars, railVars, pageVars
  <2>2. TypeOK'
    BY <2>1 DEF IndInv, TypeOK, RailTypeOK
  <2>3. RailInv'
    BY <2>1 DEF IndInv, RailInv, CellsKnown, CallInv
  <2>4. OwnChannels'
    BY <2>1 DEF IndInv, OwnChannels, Connected
  <2>5. ASSUME NEW q \in Page PROVE PageInv(q)' /\ SafeReport(q)' /\ (q \in Shooter => ShooterInv(q)')
    <3>1. CallsOf(q)' = CallsOf(q) /\ \A k \in CallsOf(q) : calls'[k] = calls[k]
      BY <2>1 DEF CallsOf
    <3>2. Connected(q) => rail[q].channel \in DOMAIN channels
      BY <2>5 DEF IndInv, PageInv, HasChannel
    <3> QED
      BY <2>1, <2>2, <3>1, <3>2, Undisturbed
  <2>6. \A q \in Shooter' : ShooterInv(q)'
    BY <2>1, <2>5 DEF Shooter
  <2> QED
    BY <2>2, <2>3, <2>4, <2>5, <2>6 DEF IndInv
<1>2. CASE Node /\ UNCHANGED pageVars
  <2>1. CASE \E x \in DOMAIN account : Drain(x)
    BY <1>2, <2>1, DrainStep
  <2>2. CASE \E i \in DOMAIN channels : FundingCommits(i)
    BY <1>2, <2>2, FundingStep
  <2>3. CASE \E i \in DOMAIN channels : ClosingCommits(i)
    BY <1>2, <2>3, RefundStep
  <2>4. CASE \E k \in DOMAIN calls :
               (\E fee \in 0 .. MAX_FEE : NodeSends(k, fee)) \/ NodeSettles(k) \/ InvoiceEnds(k)
    BY <1>2, <2>4, PaymentStep
  <2> QED
    BY <1>2, <2>1, <2>2, <2>3, <2>4 DEF Node
<1>3. CASE \E k \in DOMAIN calls : Returns(k)
  BY <1>3, ReturnsStep
<1>4. ASSUME NEW p \in Page,
             \/ \E budget \in Budget : connect(p, budget)
             \/ Opened(p) \/ ConnectFails(p) \/ Ready(p) \/ NotReady(p)
             \/ Closing(p) \/ Closed(p)
      PROVE  IndInv'
  BY <1>4, ConnectStep, OpenedStep, ConnectFailsStep, WaitStep, ClosingStep, ClosedStep
<1>5. ASSUME NEW p \in Page,
             \/ tryShoot(p) \/ onOver(p) \/ settle(p) \/ CloseRefused(p)
             \/ \E n \in {1, BATCH} : buy(p, n)
             \/ \E l \in loops[p] : BuyNext(p, l)
             \/ \E s \in Invoices : payViaHub(p, s)
             \/ \E n \in Asked : requestInvoice(p, n)
      PROVE  IndInv'
  BY <1>5, ShootStep, OverStep, TradeStep
<1> QED
  BY <1>1, <1>2, <1>3, <1>4, <1>5 DEF Next

\* The inductive invariant of the pages, their rails and Fiber.
THEOREM Inductive == Spec => []IndInv
<1>1. Init => IndInv
  BY InitIndInv
<1>2. IndInv /\ [Next]_vars => IndInv'
  BY NextIndInv
<1> QED
  BY <1>1, <1>2, PTL DEF Spec

\* Cells, channels, calls and pages keep their types.
THEOREM TypeCorrect == Spec => []TypeOK
<1>1. IndInv => TypeOK
  BY DEF IndInv
<1> QED
  BY <1>1, Inductive, PTL

\* The shooter's shots: what it has asked its channel to pay, and was not refused,
\* is at most the budget the rail was opened with (tryShoot, canShoot).
THEOREM ShooterNeverOvercommits == Spec => []NeverOvercommits
<1>1. ASSUME IndInv PROVE NeverOvercommits
  <2> SUFFICES ASSUME NEW p \in Shooter
               PROVE  Out({k \in CallsOf(p) : calls[k].pc # "rejected"}) <= rail[p].budget * CKB
    BY DEF NeverOvercommits
  <2> DEFINE asked == {k \in CallsOf(p) : calls[k].pc # "rejected"}
  <2>1. /\ p \in Page /\ PageInv(p) /\ ShooterInv(p) /\ calls \in Seq(RailCall)
        /\ rail[p].budget \in Nat /\ wish[p] \in Nat /\ fired[p] \in Nat
    BY <1>1 DEF IndInv, Shooter, TypeOK, RailTypeOK, Rail
  <2>2. asked \subseteq CallsOf(p) /\ CallsOf(p) \subseteq DOMAIN calls
    BY DEF CallsOf
  <2>3. COST \in Nat /\ CKB \in Nat
    BY PagesAssumption, RailAssumption
  <2> HIDE DEF asked
  <2>4. Out(asked) <= Out(CallsOf(p)) /\ Out(asked) \in Nat /\ Out(CallsOf(p)) \in Nat
    BY <2>1, <2>2, OutSubset, OutNat DEF Out
  <2>5. CASE Connected(p)
    <3>1. /\ Out(CallsOf(p)) = (fired[p] * COST) * CKB /\ fired[p] * COST <= wish[p]
          /\ rail[p].budget = wish[p]
      BY <2>1, <2>5 DEF ShooterInv
    <3> DEFINE n == fired[p] * COST
    <3>2. n \in Nat /\ n <= rail[p].budget /\ Out(CallsOf(p)) = n * CKB
      BY <2>1, <2>3, <3>1
    <3> HIDE DEF n
    <3>3. n * CKB <= rail[p].budget * CKB
      BY <2>1, <2>3, <3>2, InShannons
    <3> QED
      BY <2>1, <2>3, <2>4, <3>2, <3>3 DEF asked
  <2>6. CASE ~ Connected(p)
    <3>1. CallsOf(p) = {}
      BY <2>1, <2>6 DEF PageInv, Connected
    <3>2. Out(CallsOf(p)) = 0
      BY <3>1, OutNone DEF Out
    <3> QED
      BY <2>1, <2>3, <2>4, <3>2 DEF asked
  <2> QED
    BY <2>5, <2>6
<1> QED
  BY <1>1, Inductive, PTL

\* What the settlement screen shows as coming back does, less what the closing
\* transaction costs, up to the payments the troops page had not seen succeed
\* (close, settlement).
THEOREM SettlementsSafe == Spec => []ReportSafe
<1>1. IndInv => ReportSafe
  BY DEF IndInv, ReportSafe
<1> QED
  BY <1>1, Inductive, PTL

=============================================================================
