------------------------- MODULE InvoiceRelayProofs -------------------------
(***************************************************************************)
(* Theorems about InvoiceRelay for any players, cap and bounds: type       *)
(* correctness, that the log of an unrestarted server records settlements  *)
(* only, and that who polls by name pays what was meant for them.          *)
(***************************************************************************)
EXTENDS InvoiceRelay, TLAPS

-----------------------------------------------------------------------------
(***************************************************************************)
(* The queue.                                                              *)
(***************************************************************************)
\* Shed of an extended queue: no longer than the cap, and every entry of it was
\* in the queue or is the new one.
LEMMA ShedAppend ==
    ASSUME NEW q \in Seq(Invoice), NEW e \in Invoice
    PROVE  /\ Shed(Append(q, e)) \in Seq(Invoice)
           /\ Len(q) <= INVOICE_CAP => Len(Shed(Append(q, e))) <= INVOICE_CAP
           /\ \A i \in DOMAIN Shed(Append(q, e)) :
                \/ Shed(Append(q, e))[i] = e
                \/ \E j \in DOMAIN q : Shed(Append(q, e))[i] = q[j]
<1> DEFINE r == Append(q, e)
<1> USE RelayAssumption
<1>1. /\ r \in Seq(Invoice) /\ Len(r) = Len(q) + 1 /\ Len(q) \in Nat
      /\ \A i \in 1 .. Len(r) : r[i] = e \/ \E j \in DOMAIN q : r[i] = q[j]
  OBVIOUS
<1> HIDE DEF r
<1>2. CASE Len(r) > INVOICE_CAP
  <2> DEFINE k == Len(r) - INVOICE_CAP
  <2>1. k \in Nat /\ k \in 1 .. Len(r) /\ k + 1 \in Nat /\ Len(r) - k = INVOICE_CAP
    BY <1>1, <1>2
  <2>2. Shed(r) = SubSeq(r, k + 1, Len(r))
    BY <1>2 DEF Shed
  <2> DEFINE t == SubSeq(r, k + 1, Len(r))
  <2>3. /\ t \in Seq(Invoice) /\ Len(t) = Len(r) - k /\ DOMAIN t = 1 .. INVOICE_CAP
        /\ \A i \in 1 .. INVOICE_CAP : t[i] = r[i + k]
    BY <1>1, <2>1
  <2>4. \A i \in 1 .. INVOICE_CAP : i + k \in 1 .. Len(r)
    BY <1>1, <2>1
  <2>5. \A i \in DOMAIN t : t[i] = e \/ \E j \in DOMAIN q : t[i] = q[j]
    BY <1>1, <2>3, <2>4
  <2>6. Len(t) = INVOICE_CAP
    BY <2>1, <2>3
  <2> HIDE DEF t, k
  <2>7. /\ Shed(r) \in Seq(Invoice) /\ Len(Shed(r)) <= INVOICE_CAP
        /\ \A i \in DOMAIN Shed(r) : Shed(r)[i] = e \/ \E j \in DOMAIN q : Shed(r)[i] = q[j]
    BY <2>2, <2>3, <2>5, <2>6 DEF t
  <2> QED
    BY <2>7 DEF r
<1>3. CASE ~ Len(r) > INVOICE_CAP
  <2>1. Shed(r) = r
    BY <1>3 DEF Shed
  <2> QED
    BY <1>1, <1>3, <2>1 DEF r
<1> QED
  BY <1>2, <1>3

\* Two invoices that name the same publication and payee under one id.
Twins(x, y) == x.id = y.id /\ x.invoice = y.invoice /\ x.from = y.from

\* Every invoice in somebody's hands has a number.
LEMMA CopyType ==
    ASSUME TypeOK, NEW x \in Copies
    PROVE  x \in Invoice /\ x.id \in Nat
<1>1. invoices \in Seq(Invoice) /\ page \in [Player -> Page]
  BY DEF TypeOK
<1>2. \A i \in DOMAIN invoices : invoices[i] \in Invoice
  BY <1>1
<1>3. \A p \in Player : page[p].pc # "idle" => page[p].inv \in Invoice
  BY <1>1 DEF Page
<1> QED
  BY <1>2, <1>3 DEF Copies, Invoice

\* IdsAgree without the confirmations: ids were given out once.
IdsOnce ==
    /\ \A x \in Copies : x.id < next_id
    /\ \A x, y \in Copies : x.id = y.id => x.invoice = y.invoice /\ x.from = y.from

\* It stays when every copy of the next state has a twin now.
LEMMA StillOnce ==
    ASSUME IdsOnce, next_id' = next_id, \A x \in Copies' : \E y \in Copies : Twins(x, y)
    PROVE  IdsOnce'
<1>1. \A x \in Copies' : x.id < next_id'
  BY DEF IdsOnce, Twins
<1>2. ASSUME NEW x \in Copies', NEW y \in Copies', x.id = y.id
      PROVE  x.invoice = y.invoice /\ x.from = y.from
  <2>1. PICK u \in Copies : Twins(x, u)
    OBVIOUS
  <2>2. PICK v \in Copies : Twins(y, v)
    OBVIOUS
  <2>3. u.invoice = v.invoice /\ u.from = v.from
    <3>1. u.id = v.id
      BY <1>2, <2>1, <2>2 DEF Twins
    <3> QED
      BY <3>1 DEF IdsOnce
  <2> QED
    BY <2>1, <2>2, <2>3 DEF Twins
<1> QED
  BY <1>1, <1>2 DEF IdsOnce

\* The pages' part of IdsAgree: what is about to be confirmed was settled.
ConfirmsSettled ==
    \A p \in Player :
        page[p].pc = "confirm" =>
            \E s \in settled : s.invoice = page[p].inv.invoice /\ s.from = page[p].inv.from

\* IdsAgree in parts.
LEMMA IdsAgreeParts == IdsAgree <=> IdsOnce /\ RecordsPayments /\ ConfirmsSettled
BY DEF IdsAgree, IdsOnce, ConfirmsSettled

-----------------------------------------------------------------------------
(***************************************************************************)
(* The initial states.                                                     *)
(***************************************************************************)
\* An empty relay and idle pages satisfy the invariant.
LEMMA InitIndInv == Init => IndInv
<1> SUFFICES ASSUME Init PROVE IndInv
  OBVIOUS
<1>0. Named \subseteq Player
  BY RelayAssumption
<1>1. TypeOK
  BY RelayAssumption DEF Init, TypeOK, Page, Idle
<1>2. Copies = {}
  BY DEF Init, Copies, Idle
<1>3. IdsAgree
  BY <1>2 DEF Init, IdsAgree, RecordsPayments, Idle
<1>4. HandedOut /\ PayersAddressed
  BY <1>0 DEF Init, HandedOut, PayersAddressed, Idle
<1> QED
  BY <1>1, <1>3, <1>4 DEF IndInv

-----------------------------------------------------------------------------
(***************************************************************************)
(* The steps.                                                              *)
(***************************************************************************)
\* A page's change of hands: every other page is as it was.
LEMMA PageChange ==
    ASSUME TypeOK, NEW p \in Player, NEW v \in Page, page' = [page EXCEPT ![p] = v]
    PROVE  /\ page' \in [Player -> Page]
           /\ page'[p] = v
           /\ \A q \in Player : q # p => page'[q] = page[q]
BY DEF TypeOK

\* The step publish keeps the invariant: the new id is above every id in use.
LEMMA PublishIndInv ==
    ASSUME IndInv, NEW from \in Player \cup {Anyone}, NEW to \in Player \cup {Anyone},
           publish(from, to)
    PROVE  IndInv'
<1> DEFINE e == [id |-> next_id, invoice |-> made + 1, from |-> from, to |-> to, paid |-> FALSE]
<1>0. /\ invoices' = Shed(Append(invoices, e)) /\ next_id' = next_id + 1
      /\ made < MAX_INVOICES /\ made' = made + 1
      /\ results' = results /\ settled' = settled /\ page' = page
      /\ restarts' = restarts /\ lost' = lost
  BY DEF publish
<1>1. /\ TypeOK /\ (restarts = 0 => IdsAgree) /\ HandedOut /\ PayersAddressed
  BY DEF IndInv
<1>2. /\ invoices \in Seq(Invoice) /\ Len(invoices) <= INVOICE_CAP /\ e \in Invoice
      /\ next_id \in Nat \ {0} /\ made' \in 0 .. MAX_INVOICES
  BY <1>0, <1>1, RelayAssumption DEF TypeOK, Invoice
<1>3. /\ e.id = next_id
  OBVIOUS
<1> HIDE DEF e
<1>4. TypeOK'
  <2>1. invoices' \in Seq(Invoice) /\ Len(invoices') <= INVOICE_CAP
    BY <1>0, <1>2, ShedAppend
  <2> QED
    BY <1>0, <1>1, <1>2, <2>1 DEF TypeOK
<1>5. ASSUME restarts' = 0 PROVE IdsAgree'
  <2>1. IdsOnce /\ RecordsPayments /\ ConfirmsSettled
    BY <1>0, <1>1, <1>5, IdsAgreeParts
  <2>2. \A x \in Copies' : x = e \/ x \in Copies
    <3>1. \A i \in DOMAIN invoices' : invoices'[i] = e \/ \E j \in DOMAIN invoices : invoices'[i] = invoices[j]
      BY <1>0, <1>2, ShedAppend
    <3> QED
      BY <1>0, <3>1 DEF Copies
  <2>3. \A x \in Copies : x.id \in Nat /\ x.id < next_id
    BY <1>1, <2>1, CopyType DEF IdsOnce
  <2>4. \A x \in Copies' : x.id < next_id'
    BY <1>0, <1>2, <1>3, <2>2, <2>3
  <2>5. ASSUME NEW x \in Copies', NEW y \in Copies', x.id = y.id
        PROVE  x.invoice = y.invoice /\ x.from = y.from
    BY <1>2, <1>3, <2>1, <2>2, <2>3, <2>5 DEF IdsOnce
  <2>6. IdsOnce'
    BY <2>4, <2>5 DEF IdsOnce
  <2>7. RecordsPayments' /\ ConfirmsSettled'
    BY <1>0, <2>1 DEF RecordsPayments, ConfirmsSettled
  <2> QED
    BY <2>6, <2>7 DEF IdsAgree, IdsOnce, ConfirmsSettled
<1>6. HandedOut' /\ PayersAddressed'
  BY <1>0, <1>1 DEF HandedOut, PayersAddressed
<1> QED
  BY <1>4, <1>5, <1>6 DEF IndInv

\* The step next_for keeps the invariant: the page holds a copy of an entry it may pay.
LEMMA NextForIndInv ==
    ASSUME IndInv, NEW p \in Player, next_for(p)
    PROVE  IndInv'
<1>0. PICK i \in DOMAIN invoices :
        /\ Payable(invoices[i], p)
        /\ page' = [page EXCEPT ![p] = [pc |-> "paying", inv |-> invoices[i]]]
  BY DEF next_for
<1>1. /\ TypeOK /\ (restarts = 0 => IdsAgree) /\ HandedOut /\ PayersAddressed
      /\ invoices \in Seq(Invoice)
  BY DEF IndInv, TypeOK
<1>2. /\ invoices' = invoices /\ next_id' = next_id /\ results' = results /\ made' = made
      /\ settled' = settled /\ restarts' = restarts /\ lost' = lost
  BY DEF next_for
<1> DEFINE v == [pc |-> "paying", inv |-> invoices[i]]
<1>3. v \in Page /\ v.pc = "paying" /\ v.inv = invoices[i]
  BY <1>1 DEF Page
<1> HIDE DEF v
<1>4. /\ page' \in [Player -> Page] /\ page'[p] = v
      /\ \A q \in Player : q # p => page'[q] = page[q]
  BY <1>0, <1>1, <1>3, PageChange DEF v
<1>5. TypeOK'
  BY <1>1, <1>2, <1>4 DEF TypeOK
<1>6. ASSUME restarts' = 0 PROVE IdsAgree'
  <2>1. IdsOnce /\ RecordsPayments /\ ConfirmsSettled
    BY <1>1, <1>2, <1>6, IdsAgreeParts
  <2>2. \A x \in Copies' : x \in Copies
    BY <1>2, <1>3, <1>4 DEF Copies
  <2>3. \A x \in Copies' : \E y \in Copies : Twins(x, y)
    BY <2>2 DEF Twins
  <2>4. IdsOnce'
    BY <1>2, <2>1, <2>3, StillOnce
  <2>5. RecordsPayments' /\ ConfirmsSettled'
    BY <1>2, <1>3, <1>4, <2>1 DEF RecordsPayments, ConfirmsSettled
  <2> QED
    BY <2>4, <2>5 DEF IdsAgree, IdsOnce, ConfirmsSettled
<1>7. HandedOut'
  BY <1>0, <1>1, <1>3, <1>4, RelayAssumption DEF HandedOut, Payable
<1>8. PayersAddressed'
  BY <1>1, <1>2 DEF PayersAddressed
<1> QED
  BY <1>5, <1>6, <1>7, <1>8 DEF IndInv

\* The step PayInvoice keeps the invariant: the payment is of what was handed out.
LEMMA PayInvoiceIndInv ==
    ASSUME IndInv, NEW p \in Player, PayInvoice(p)
    PROVE  IndInv'
<1> DEFINE inv == page[p].inv
           pay == PaymentOf(p)
<1>1. /\ TypeOK /\ (restarts = 0 => IdsAgree) /\ HandedOut /\ PayersAddressed
      /\ page \in [Player -> Page] /\ page[p] \in Page
  BY DEF IndInv, TypeOK
<1>2. /\ invoices' = invoices /\ next_id' = next_id /\ results' = results /\ made' = made
      /\ restarts' = restarts /\ lost' = lost
  BY DEF PayInvoice
<1>3. page[p].pc = "paying" /\ inv \in Invoice /\ page[p] = [pc |-> "paying", inv |-> inv]
  BY <1>1 DEF PayInvoice, Page
<1>4. /\ pay \in Payment /\ pay.payer = p /\ pay.invoice = inv.invoice
      /\ pay.from = inv.from /\ pay.to = inv.to
  BY <1>3 DEF PaymentOf, Payment, Invoice
<1>5. \/ page' = [page EXCEPT ![p] = Idle] /\ settled' = settled
      \/ page' = [page EXCEPT ![p] = [pc |-> "confirm", inv |-> inv]]
           /\ settled' = settled \cup {pay}
  <2>1. [page EXCEPT ![p].pc = "confirm"] = [page EXCEPT ![p] = [pc |-> "confirm", inv |-> inv]]
    <3>1. [page[p] EXCEPT !.pc = "confirm"] = [pc |-> "confirm", inv |-> inv]
      BY <1>3
    <3> QED
      BY <3>1
  <2>2. CASE \E s \in settled : s.invoice = inv.invoice
    BY <2>2 DEF PayInvoice, Settled
  <2>3. CASE ~ \E s \in settled : s.invoice = inv.invoice
    BY <2>1, <2>3 DEF PayInvoice, Settled
  <2> QED
    BY <2>2, <2>3
<1>6. Idle \in Page /\ [pc |-> "confirm", inv |-> inv] \in Page /\ Idle.pc = "idle"
  BY <1>3 DEF Page, Idle
<1> HIDE DEF pay, inv
<1>7. PICK v \in {Idle, [pc |-> "confirm", inv |-> inv]} :
        /\ page' = [page EXCEPT ![p] = v]
        /\ \/ v.pc = "idle" /\ settled' = settled
           \/ v.pc = "confirm" /\ v.inv = inv /\ settled' = settled \cup {pay}
  <2>1. LET v == [pc |-> "confirm", inv |-> inv] IN v.pc = "confirm" /\ v.inv = inv
    OBVIOUS
  <2> QED
    BY <1>5, <1>6, <2>1
<1>8. /\ page' \in [Player -> Page] /\ page'[p] = v
      /\ \A q \in Player : q # p => page'[q] = page[q]
  BY <1>1, <1>6, <1>7, PageChange
<1>9. settled \subseteq settled' /\ settled' \subseteq settled \cup {pay}
  BY <1>7
<1>10. TypeOK'
  BY <1>1, <1>2, <1>4, <1>8, <1>9 DEF TypeOK
<1>11. ASSUME restarts' = 0 PROVE IdsAgree'
  <2>1. IdsOnce /\ RecordsPayments /\ ConfirmsSettled
    BY <1>1, <1>2, <1>11, IdsAgreeParts
  <2>2. \A x \in Copies' : x \in Copies
    BY <1>2, <1>3, <1>7, <1>8 DEF Copies, inv
  <2>3. \A x \in Copies' : \E y \in Copies : Twins(x, y)
    BY <2>2 DEF Twins
  <2>4. IdsOnce'
    BY <1>2, <2>1, <2>3, StillOnce
  <2>5. RecordsPayments'
    BY <1>2, <1>9, <2>1 DEF RecordsPayments
  <2>6. ConfirmsSettled'
    <3> SUFFICES ASSUME NEW q \in Player, page'[q].pc = "confirm"
                 PROVE  \E s \in settled' : s.invoice = page'[q].inv.invoice /\ s.from = page'[q].inv.from
      BY DEF ConfirmsSettled
    <3>1. CASE q = p
      BY <1>4, <1>7, <1>8, <3>1
    <3>2. CASE q # p
      BY <1>8, <1>9, <2>1, <3>2 DEF ConfirmsSettled
    <3> QED
      BY <3>1, <3>2
  <2> QED
    BY <2>4, <2>5, <2>6 DEF IdsAgree, IdsOnce, ConfirmsSettled
<1>12. HandedOut'
  BY <1>1, <1>3, <1>7, <1>8, RelayAssumption DEF HandedOut, inv
<1>13. PayersAddressed'
  <2>1. p \in Named => p # inv.from /\ inv.to \in {p, Anyone}
    BY <1>1, <1>3 DEF HandedOut, inv
  <2> QED
    BY <1>1, <1>4, <1>9, <2>1 DEF PayersAddressed
<1> QED
  BY <1>10, <1>11, <1>12, <1>13 DEF IndInv

\* The log extended by one settlement that was one.
LEMMA LogExtended ==
    ASSUME NEW r \in PaidEvent, results \in Seq(PaidEvent), results' = Append(results, r),
           RecordsPayments, settled' = settled,
           \E s \in settled : s.invoice = r.invoice /\ s.from = r.from
    PROVE  RecordsPayments'
<1>1. \A i \in DOMAIN results' :
        \/ results'[i] = r
        \/ i \in DOMAIN results /\ results'[i] = results[i]
  <2>1. /\ DOMAIN results = 1 .. Len(results) /\ Len(results) \in Nat
        /\ DOMAIN results' = 1 .. Len(results) + 1
        /\ results'[Len(results) + 1] = r
        /\ \A i \in 1 .. Len(results) : results'[i] = results[i]
    OBVIOUS
  <2> QED
    BY <2>1
<1> QED
  BY <1>1 DEF RecordsPayments

\* The step handle_mark_paid keeps the invariant: the entry that bears the id is the
\* invoice the page paid.
LEMMA MarkPaidIndInv ==
    ASSUME IndInv, NEW p \in Player, handle_mark_paid(p)
    PROVE  IndInv'
<1> DEFINE inv == page[p].inv
           v == Idle
<1>1. /\ TypeOK /\ (restarts = 0 => IdsAgree) /\ HandedOut /\ PayersAddressed
      /\ invoices \in Seq(Invoice) /\ results \in Seq(PaidEvent)
      /\ page \in [Player -> Page] /\ page[p] \in Page
  BY DEF IndInv, TypeOK
<1>2. /\ page[p].pc = "confirm" /\ page' = [page EXCEPT ![p] = v] /\ next_id' = next_id
      /\ made' = made /\ settled' = settled /\ restarts' = restarts /\ lost' = lost
  BY DEF handle_mark_paid
<1>3. v \in Page /\ v.pc = "idle"
  BY DEF Page, Idle
<1>4. inv \in Copies
  BY <1>2 DEF Copies
<1> HIDE DEF v, inv
<1>5. /\ page' \in [Player -> Page] /\ page'[p] = v
      /\ \A q \in Player : q # p => page'[q] = page[q]
  BY <1>1, <1>2, <1>3, PageChange
<1>6. HandedOut' /\ PayersAddressed'
  BY <1>1, <1>2, <1>3, <1>5, RelayAssumption DEF HandedOut, PayersAddressed
<1>7. IdsAgree => ConfirmsSettled'
  BY <1>2, <1>3, <1>5, IdsAgreeParts DEF ConfirmsSettled
<1>8. CASE invoices' = invoices /\ results' = results
  <2>1. TypeOK'
    BY <1>1, <1>2, <1>5, <1>8 DEF TypeOK
  <2>2. \A x \in Copies' : x \in Copies
    BY <1>3, <1>5, <1>8 DEF Copies
  <2>3. \A x \in Copies' : \E y \in Copies : Twins(x, y)
    BY <2>2 DEF Twins
  <2>4. IdsAgree => IdsOnce' /\ RecordsPayments'
    BY <1>2, <1>8, <2>3, StillOnce, IdsAgreeParts DEF RecordsPayments
  <2> QED
    BY <1>1, <1>2, <1>6, <1>7, <2>1, <2>4 DEF IndInv, IdsAgree, IdsOnce, ConfirmsSettled
<1>9. CASE \E i \in Marked(invoices, inv.id) :
              /\ invoices' = [invoices EXCEPT ![i].paid = TRUE]
              /\ results' = Append(results, [id |-> invoices[i].id, invoice |-> invoices[i].invoice,
                                             from |-> invoices[i].from])
  <2>1. PICK i \in Marked(invoices, inv.id) :
          /\ invoices' = [invoices EXCEPT ![i].paid = TRUE]
          /\ results' = Append(results, [id |-> invoices[i].id, invoice |-> invoices[i].invoice,
                                         from |-> invoices[i].from])
    BY <1>9
  <2> DEFINE e == invoices[i]
             f == [e EXCEPT !.paid = TRUE]
             r == [id |-> e.id, invoice |-> e.invoice, from |-> e.from]
  <2>2. i \in DOMAIN invoices /\ e.id = inv.id /\ e \in Invoice /\ e \in Copies
    BY <1>1 DEF Marked, Copies
  <2>3. /\ f \in Invoice /\ f.id = e.id /\ f.invoice = e.invoice /\ f.from = e.from
        /\ r \in PaidEvent /\ r.invoice = e.invoice /\ r.from = e.from
    BY <2>2 DEF Invoice, PaidEvent
  <2>4. invoices' = [invoices EXCEPT ![i] = f] /\ results' = Append(results, r)
    BY <2>1
  <2> HIDE DEF f, r
  <2>5. /\ invoices' \in Seq(Invoice) /\ Len(invoices') = Len(invoices)
        /\ DOMAIN invoices' = DOMAIN invoices /\ invoices'[i] = f
        /\ \A j \in DOMAIN invoices : j # i => invoices'[j] = invoices[j]
    BY <1>1, <2>2, <2>3, <2>4
  <2>6. TypeOK'
    <3>1. results' \in Seq(PaidEvent)
      BY <1>1, <2>3, <2>4
    <3> QED
      BY <1>1, <1>2, <1>5, <2>5, <3>1 DEF TypeOK
  <2>7. \A x \in Copies' : \E y \in Copies : Twins(x, y)
    <3>1. \A j \in DOMAIN invoices' : Twins(invoices'[j], invoices[j])
      BY <2>3, <2>5 DEF Twins
    <3>2. \A q \in Player : page'[q].pc # "idle" => page'[q].inv = page[q].inv /\ page[q].pc # "idle"
      BY <1>3, <1>5
    <3> QED
      BY <2>5, <3>1, <3>2 DEF Copies, Twins
  <2>8. IdsAgree => IdsOnce' /\ RecordsPayments'
    <3> SUFFICES ASSUME IdsAgree PROVE IdsOnce' /\ RecordsPayments'
      OBVIOUS
    <3>1. IdsOnce /\ RecordsPayments /\ ConfirmsSettled
      BY IdsAgreeParts
    <3>2. IdsOnce'
      BY <1>2, <2>7, <3>1, StillOnce
    <3>3. e.invoice = inv.invoice /\ e.from = inv.from
      BY <1>4, <2>2, <3>1 DEF IdsOnce
    <3>4. \E s \in settled : s.invoice = inv.invoice /\ s.from = inv.from
      BY <1>2, <3>1 DEF ConfirmsSettled, inv
    <3>5. RecordsPayments'
      BY <1>1, <1>2, <2>3, <2>4, <3>1, <3>3, <3>4, LogExtended
    <3> QED
      BY <3>2, <3>5
  <2> QED
    BY <1>1, <1>2, <1>6, <1>7, <2>6, <2>8 DEF IndInv, IdsAgree, IdsOnce, ConfirmsSettled
<1> QED
  BY <1>8, <1>9 DEF handle_mark_paid, inv

\* A page that gives an invoice up keeps the invariant, whatever was settled meanwhile
\* by those who were to pay it.
LEMMA GivesUp ==
    ASSUME IndInv, NEW p \in Player, page' = [page EXCEPT ![p] = Idle],
           UNCHANGED <<invoices, next_id, results, made, restarts>>,
           settled \subseteq settled', settled' \subseteq Payment, PayersAddressed',
           lost' \in Nat, restarts + lost' <= MAX_FAULTS
    PROVE  IndInv'
<1>1. /\ TypeOK /\ (restarts = 0 => IdsAgree) /\ HandedOut
      /\ page \in [Player -> Page]
  BY DEF IndInv, TypeOK
<1>2. /\ invoices' = invoices /\ next_id' = next_id /\ results' = results /\ made' = made
      /\ restarts' = restarts
  OBVIOUS
<1>3. Idle \in Page /\ Idle.pc = "idle"
  BY DEF Page, Idle
<1>4. /\ page' \in [Player -> Page] /\ page'[p] = Idle
      /\ \A q \in Player : q # p => page'[q] = page[q]
  BY <1>1, <1>3, PageChange
<1>5. TypeOK'
  BY <1>1, <1>2, <1>4 DEF TypeOK
<1>6. \A x \in Copies' : x \in Copies
  BY <1>2, <1>3, <1>4 DEF Copies
<1>7. \A x \in Copies' : \E y \in Copies : Twins(x, y)
  BY <1>6 DEF Twins
<1>8. IdsAgree => IdsOnce' /\ RecordsPayments' /\ ConfirmsSettled'
  <2> SUFFICES ASSUME IdsAgree PROVE IdsOnce' /\ RecordsPayments' /\ ConfirmsSettled'
    OBVIOUS
  <2>1. IdsOnce /\ RecordsPayments /\ ConfirmsSettled
    BY IdsAgreeParts
  <2>2. IdsOnce'
    BY <1>2, <1>7, <2>1, StillOnce
  <2>3. RecordsPayments'
    BY <1>2, <2>1 DEF RecordsPayments
  <2>4. ConfirmsSettled'
    BY <1>3, <1>4, <2>1 DEF ConfirmsSettled
  <2> QED
    BY <2>2, <2>3, <2>4
<1>9. HandedOut'
  BY <1>1, <1>3, <1>4, RelayAssumption DEF HandedOut
<1> QED
  BY <1>1, <1>2, <1>5, <1>8, <1>9 DEF IndInv, IdsAgree, IdsOnce, ConfirmsSettled

\* A payment that failed keeps the invariant.
LEMMA FailsIndInv ==
    ASSUME IndInv, NEW p \in Player, PaymentFails(p)
    PROVE  IndInv'
<1>1. /\ settled \subseteq Payment /\ lost \in Nat /\ restarts + lost <= MAX_FAULTS
      /\ PayersAddressed
  BY DEF IndInv, TypeOK
<1>2. /\ page' = [page EXCEPT ![p] = Idle]
      /\ UNCHANGED <<invoices, next_id, results, made, restarts>>
      /\ settled' = settled /\ lost' = lost
  BY DEF PaymentFails
<1>3. PayersAddressed'
  BY <1>1, <1>2 DEF PayersAddressed
<1> QED
  BY <1>1, <1>2, <1>3, GivesUp

\* A payment that is never confirmed keeps the invariant: it was meant for its payer.
LEMMA LateIndInv ==
    ASSUME IndInv, NEW p \in Player, PaymentLate(p)
    PROVE  IndInv'
<1> DEFINE pay == PaymentOf(p)
<1>1. /\ settled \subseteq Payment /\ lost \in Nat /\ restarts \in Nat /\ PayersAddressed /\ HandedOut
      /\ page[p] \in Page
  BY DEF IndInv, TypeOK
<1>2. /\ page[p].pc = "paying" /\ page' = [page EXCEPT ![p] = Idle]
      /\ UNCHANGED <<invoices, next_id, results, made, restarts>>
      /\ settled' = settled \cup {pay} /\ restarts + lost < MAX_FAULTS /\ lost' = lost + 1
  BY DEF PaymentLate
<1>3. page[p].inv \in Invoice
  BY <1>1, <1>2 DEF Page
<1>4. pay \in Payment /\ pay.payer = p /\ pay.from = page[p].inv.from /\ pay.to = page[p].inv.to
  BY <1>3 DEF PaymentOf, Payment, Invoice
<1> HIDE DEF pay
<1>5. PayersAddressed'
  <2>1. p \in Named => p # pay.from /\ pay.to \in {p, Anyone}
    BY <1>1, <1>2, <1>4 DEF HandedOut
  <2> QED
    BY <1>1, <1>2, <1>4, <2>1 DEF PayersAddressed
<1>6. lost' \in Nat /\ restarts + lost' <= MAX_FAULTS
  BY <1>1, <1>2, RelayAssumption
<1> QED
  BY <1>1, <1>2, <1>4, <1>5, <1>6, GivesUp

\* A lost confirmation keeps the invariant: the page forgets it.
LEMMA LostIndInv ==
    ASSUME IndInv, NEW p \in Player, ConfirmationLost(p)
    PROVE  IndInv'
<1>1. settled \subseteq Payment /\ lost \in Nat /\ restarts \in Nat /\ PayersAddressed
  BY DEF IndInv, TypeOK
<1>2. /\ page' = [page EXCEPT ![p] = Idle]
      /\ UNCHANGED <<invoices, next_id, results, made, restarts>>
      /\ settled' = settled /\ restarts + lost < MAX_FAULTS /\ lost' = lost + 1
  BY DEF ConfirmationLost
<1>3. PayersAddressed'
  BY <1>1, <1>2 DEF PayersAddressed
<1>4. lost' \in Nat /\ restarts + lost' <= MAX_FAULTS
  BY <1>1, <1>2, RelayAssumption
<1> QED
  BY <1>1, <1>2, <1>3, <1>4, GivesUp

\* A restart keeps the invariant: what the ids were good for ends with it.
LEMMA RestartIndInv ==
    ASSUME IndInv, Restart
    PROVE  IndInv'
<1>1. TypeOK /\ HandedOut /\ PayersAddressed /\ restarts \in Nat /\ lost \in Nat
  BY RelayAssumption DEF IndInv, TypeOK
<1>2. /\ invoices' = << >> /\ next_id' = 1 /\ results' = results /\ made' = made
      /\ settled' = settled /\ page' = page /\ lost' = lost
      /\ restarts + lost < MAX_FAULTS /\ restarts' = restarts + 1
  BY DEF Restart
<1>3. TypeOK'
  <2>1. restarts' \in Nat /\ restarts' + lost' <= MAX_FAULTS
    BY <1>1, <1>2, RelayAssumption
  <2>2. invoices' \in Seq(Invoice) /\ Len(invoices') = 0 /\ 0 <= INVOICE_CAP
    BY <1>2, RelayAssumption
  <2> QED
    BY <1>1, <1>2, <2>1, <2>2 DEF TypeOK
<1>4. restarts' # 0
  BY <1>1, <1>2
<1>5. HandedOut' /\ PayersAddressed'
  BY <1>1, <1>2 DEF HandedOut, PayersAddressed
<1> QED
  BY <1>3, <1>4, <1>5 DEF IndInv

\* A step that changes nothing keeps the invariant.
LEMMA StutterIndInv ==
    ASSUME IndInv, UNCHANGED vars
    PROVE  IndInv'
<1>1. /\ invoices' = invoices /\ next_id' = next_id /\ results' = results /\ made' = made
      /\ settled' = settled /\ page' = page /\ restarts' = restarts /\ lost' = lost
  BY DEF vars
<1>2. TypeOK'
  BY <1>1 DEF IndInv, TypeOK
<1>3. Copies' = Copies
  BY <1>1 DEF Copies
<1>4. IdsAgree => IdsAgree'
  BY <1>1, <1>3 DEF IdsAgree, RecordsPayments
<1>5. HandedOut' /\ PayersAddressed'
  BY <1>1 DEF IndInv, HandedOut, PayersAddressed
<1> QED
  BY <1>1, <1>2, <1>4, <1>5 DEF IndInv

\* Every step keeps the invariant.
LEMMA NextIndInv == IndInv /\ [Next]_vars => IndInv'
<1> SUFFICES ASSUME IndInv, [Next]_vars PROVE IndInv'
  OBVIOUS
<1>1. ASSUME NEW from \in Player \cup {Anyone}, NEW to \in Player \cup {Anyone}, publish(from, to)
      PROVE  IndInv'
  BY <1>1, PublishIndInv
<1>2. ASSUME NEW p \in Player, next_for(p) PROVE IndInv'
  BY <1>2, NextForIndInv
<1>3. ASSUME NEW p \in Player, PayInvoice(p) PROVE IndInv'
  BY <1>3, PayInvoiceIndInv
<1>4. ASSUME NEW p \in Player, handle_mark_paid(p) PROVE IndInv'
  BY <1>4, MarkPaidIndInv
<1>5. ASSUME NEW p \in Player, ConfirmationLost(p) PROVE IndInv'
  BY <1>5, LostIndInv
<1>8. ASSUME NEW p \in Player, PaymentFails(p) PROVE IndInv'
  BY <1>8, FailsIndInv
<1>9. ASSUME NEW p \in Player, PaymentLate(p) PROVE IndInv'
  BY <1>9, LateIndInv
<1>6. CASE Restart
  BY <1>6, RestartIndInv
<1>7. CASE UNCHANGED vars
  BY <1>7, StutterIndInv
<1> QED
  BY <1>1, <1>2, <1>3, <1>4, <1>5, <1>6, <1>7, <1>8, <1>9 DEF Next

-----------------------------------------------------------------------------
(***************************************************************************)
(* The theorems.                                                           *)
(***************************************************************************)
\* The invariant of the relay, its log and the pages.
THEOREM Inductive == Spec => []IndInv
<1> QED
  BY InitIndInv, NextIndInv, PTL DEF Spec

\* The queue stays within its cap and everything has its layout (Relay::publish,
\* Relay::mark_paid and the pages that pay).
THEOREM TypeCorrect == Spec => []TypeOK
<1>1. IndInv => TypeOK
  BY DEF IndInv
<1> QED
  BY Inductive, <1>1, PTL

\* Until the server starts again, handle_mark_paid logs an invoice that was paid,
\* although the payer confirms by an id and other pages publish in between.
THEOREM LogIsTrue == Spec => []PaidIsTrue
<1>1. IndInv => PaidIsTrue
  BY DEF IndInv, PaidIsTrue, IdsAgree
<1> QED
  BY Inductive, <1>1, PTL

\* Relay::next_for makes nobody who polls by name pay an invoice of their own or
\* one addressed to another, also across restarts.
THEOREM PayersMeant == Spec => []PayersAddressed
<1>1. IndInv => PayersAddressed
  BY DEF IndInv
<1> QED
  BY Inductive, <1>1, PTL
=============================================================================
