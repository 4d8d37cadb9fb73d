---------------------------- MODULE InvoiceRelay ----------------------------
(***************************************************************************)
(* The invoice relay and the results log of the game-operator server, with *)
(* the pages that publish, pay and confirm invoices (demo/src/game.ts).    *)
(*                                                                         *)
(* The relay holds invoice strings; value moves over Fiber, which is       *)
(* external: `settled` says which invoice was really paid and by whom.  An *)
(* invoice string is the number of its publication.                        *)
(***************************************************************************)
EXTENDS Naturals, SequencesExt

CONSTANTS
    Player,        \* players: payees and payers
    Named,         \* players whose page polls with its hash; a mock page does not
    Anyone,        \* an absent `to` or `from`
    INVOICE_CAP,   \* the queue's bound
    MAX_INVOICES,  \* publications: bounds the run
    MAX_FAULTS     \* restarts of the server and payments never confirmed: bounds the run

ASSUME RelayAssumption ==
    /\ Anyone \notin Player
    /\ Named \subseteq Player
    /\ INVOICE_CAP \in Nat \ {0}
    /\ {MAX_INVOICES, MAX_FAULTS} \subseteq Nat

VARIABLES
    invoices,   \* Relay.invoices, oldest first
    next_id,    \* Relay.next_id
    results,    \* the results log: settlements recorded, in order
    made,       \* how many invoices have been published so far
    settled,    \* external: payments that went through on Fiber
    page,       \* per player: the invoice the page is paying
    restarts,   \* restarts so far
    lost        \* payments made that were never confirmed, so far

vars == <<invoices, next_id, results, made, settled, page, restarts, lost>>

Invoice ==
    [id : Nat, invoice : Nat, from : Player \cup {Anyone}, to : Player \cup {Anyone},
     paid : BOOLEAN]

PaidEvent == [id : Nat, invoice : Nat, from : Player \cup {Anyone}]
Payment ==
    [invoice : Nat, payer : Player, from : Player \cup {Anyone}, to : Player \cup {Anyone}]
Page == [pc : {"idle"}] \cup [pc : {"paying", "confirm"}, inv : Invoice]

TypeOK ==
    /\ invoices \in Seq(Invoice)
    /\ Len(invoices) <= INVOICE_CAP
    /\ next_id \in Nat \ {0}
    /\ results \in Seq(PaidEvent)
    /\ made \in 0 .. MAX_INVOICES
    /\ settled \subseteq Payment
    /\ page \in [Player -> Page]
    /\ {restarts, lost} \subseteq Nat
    /\ restarts + lost <= MAX_FAULTS

Idle == [pc |-> "idle"]

Init ==
    /\ invoices = << >>
    /\ next_id = 1
    /\ results = << >>
    /\ made = 0
    /\ settled = {}
    /\ page = [p \in Player |-> Idle]
    /\ restarts = 0
    /\ lost = 0

\* Variant of Shed: one entry over the cap is kept.
ShedLate(q) == IF Len(q) > INVOICE_CAP + 1 THEN Tail(q) ELSE q

\* Shed the oldest entries over the cap.
Shed(q) == IF Len(q) > INVOICE_CAP
           THEN SubSeq(q, Len(q) - INVOICE_CAP + 1, Len(q)) ELSE q

\* POST /invoice.  (The published event names no payment and is left out.)
publish(from, to) ==
    /\ made < MAX_INVOICES
    /\ made' = made + 1
    /\ invoices' = Shed(Append(invoices,
         [id |-> next_id, invoice |-> made + 1, from |-> from, to |-> to, paid |-> FALSE]))
    /\ next_id' = next_id + 1
    /\ UNCHANGED <<results, settled, page, restarts, lost>>

\* Variant of Payable: a player may be handed their own invoice.
PayableByAll(inv, payer) == ~ inv.paid /\ (payer \in Named => inv.to \in {payer, Anyone})

\* What next_for may hand to `payer`; without a name, any unpaid invoice.
Payable(inv, payer) ==
    /\ ~ inv.paid
    /\ payer \in Named => inv.from # payer /\ inv.to \in {payer, Anyone}

\* GET /invoice?for=payer: the oldest payable one.
next_for(payer) ==
    /\ page[payer].pc = "idle"
    /\ \E i \in DOMAIN invoices :
         /\ Payable(invoices[i], payer)
         /\ \A j \in 1 .. i - 1 : ~ Payable(invoices[j], payer)
         /\ page' = [page EXCEPT ![payer] = [pc |-> "paying", inv |-> invoices[i]]]
    /\ UNCHANGED <<invoices, next_id, results, made, settled, restarts, lost>>

Settled(n) == \E s \in settled : s.invoice = n

\* The payment a page is about to make.
PaymentOf(payer) ==
    LET inv == page[payer].inv
    IN  [invoice |-> inv.invoice, payer |-> payer, from |-> inv.from, to |-> inv.to]

\* rail.payInvoice answers: an invoice settles once.
PayInvoice(payer) ==
    /\ page[payer].pc = "paying"
    /\ IF Settled(page[payer].inv.invoice)
       THEN page' = [page EXCEPT ![payer] = Idle] /\ UNCHANGED settled
       ELSE /\ page' = [page EXCEPT ![payer].pc = "confirm"]
            /\ settled' = settled \cup {PaymentOf(payer)}
    /\ UNCHANGED <<invoices, next_id, results, made, restarts, lost>>

\* It throws, and nothing was paid: no route, no balance, no answer from the node.
PaymentFails(payer) ==
    /\ page[payer].pc = "paying"
    /\ page' = [page EXCEPT ![payer] = Idle]
    /\ UNCHANGED <<invoices, next_id, results, made, settled, restarts, lost>>

\* It throws, at its deadline or for a poll that failed, and the payment goes
\* through: the invoice is never confirmed.
PaymentLate(payer) ==
    /\ page[payer].pc = "paying"
    /\ ~ Settled(page[payer].inv.invoice)
    /\ restarts + lost < MAX_FAULTS
    /\ lost' = lost + 1
    /\ page' = [page EXCEPT ![payer] = Idle]
    /\ settled' = settled \cup {PaymentOf(payer)}
    /\ UNCHANGED <<invoices, next_id, results, made, restarts>>

\* Variant of Marked: the id is taken for a position in the queue.
MarkedByPosition(q, id) == {i \in DOMAIN q : i = id}

\* The entry mark_paid finds.
Marked(q, id) == {i \in DOMAIN q : q[i].id = id /\ \A j \in 1 .. i - 1 : q[j].id # id}

\* Variant of handle_mark_paid: the entry is logged and not marked.
handle_mark_paid_logs_only(payer) ==
    /\ page[payer].pc = "confirm"
    /\ page' = [page EXCEPT ![payer] = Idle]
    /\ \/ \E i \in Marked(invoices, page[payer].inv.id) :
            results' = Append(results, [id |-> invoices[i].id, invoice |-> invoices[i].invoice,
                                        from |-> invoices[i].from])
       \/ Marked(invoices, page[payer].inv.id) = {} /\ UNCHANGED results
    /\ UNCHANGED <<invoices, next_id, made, settled, restarts, lost>>

\* POST /invoice/paid: mark and log; 404 and no log entry for an unknown id.
handle_mark_paid(payer) ==
    /\ page[payer].pc = "confirm"
    /\ page' = [page EXCEPT ![payer] = Idle]
    /\ \/ \E i \in Marked(invoices, page[payer].inv.id) :
            /\ invoices' = [invoices EXCEPT ![i].paid = TRUE]
            /\ results' = Append(results, [id |-> invoices[i].id, invoice |-> invoices[i].invoice,
                                           from |-> invoices[i].from])
       \/ /\ Marked(invoices, page[payer].inv.id) = {}
          /\ UNCHANGED <<invoices, results>>
    /\ UNCHANGED <<next_id, made, settled, restarts, lost>>

\* The confirmation never reaches the server.
ConfirmationLost(payer) ==
    /\ page[payer].pc = "confirm"
    /\ restarts + lost < MAX_FAULTS
    /\ lost' = lost + 1
    /\ page' = [page EXCEPT ![payer] = Idle]
    /\ UNCHANGED <<invoices, next_id, results, made, settled, restarts>>

\* The server starts again: an empty Relay, the same log file.
Restart ==
    /\ restarts + lost < MAX_FAULTS
    /\ restarts' = restarts + 1
    /\ invoices' = << >>
    /\ next_id' = 1
    /\ UNCHANGED <<results, made, settled, page, lost>>

Next ==
    \/ \E from, to \in Player \cup {Anyone} : publish(from, to)
    \/ \E p \in Player :
         \/ next_for(p)
         \/ PayInvoice(p) \/ PaymentFails(p) \/ PaymentLate(p)
         \/ handle_mark_paid(p) \/ ConfirmationLost(p)
    \/ Restart

Spec == Init /\ [][Next]_vars

\* Pages keep polling, a payment tried over and over is answered at last, and what a
\* page has paid it confirms.
FairSpec ==
    Spec /\ \A p \in Player :
              WF_vars(next_for(p)) /\ SF_vars(PayInvoice(p)) /\ WF_vars(handle_mark_paid(p))

-----------------------------------------------------------------------------
(***************************************************************************)
(* Properties.                                                             *)
(***************************************************************************)
RecordsPayments ==
    \A i \in DOMAIN results :
        \E s \in settled : s.invoice = results[i].invoice /\ s.from = results[i].from

\* A settlement in the log was a settlement, while the server is not restarted:
\* the invoice it names was paid, although the payer confirmed by an id it read
\* before other pages published, paid and had entries shed.
PaidIsTrue == restarts = 0 => RecordsPayments

\* Nobody who polls by name was made to pay their own invoice, or one addressed
\* to another, however late they pay what they were handed.
PayersAddressed ==
    \A s \in settled : s.payer \in Named => s.payer # s.from /\ s.to \in {s.payer, Anyone}

\* The invoices somebody holds: the queue's entries and those the pages are busy with.
Copies ==
    {invoices[i] : i \in DOMAIN invoices}
        \cup {page[p].inv : p \in {q \in Player : page[q].pc # "idle"}}

\* What PaidIsTrue rests on: an id is given out once, so that whoever holds an entry
\* by its id holds the invoice that was published under it; and what a page is about
\* to confirm was settled.
IdsAgree ==
    /\ \A x \in Copies : x.id < next_id
    /\ \A x, y \in Copies : x.id = y.id => x.invoice = y.invoice /\ x.from = y.from
    /\ RecordsPayments
    /\ \A p \in Player :
         page[p].pc = "confirm" =>
            \E s \in settled : s.invoice = page[p].inv.invoice /\ s.from = page[p].inv.from

\* What a page that polls by name is paying, it was handed.
HandedOut ==
    \A p \in Named :
        page[p].pc # "idle" => page[p].inv.from # p /\ page[p].inv.to \in {p, Anyone}

IndInv ==
    /\ TypeOK
    /\ restarts = 0 => IdsAgree
    /\ HandedOut
    /\ PayersAddressed

InQueue(n) == \E i \in DOMAIN invoices : invoices[i].invoice = n
Owed(n) == \E i \in DOMAIN invoices :
    invoices[i].invoice = n /\ (invoices[i].from # invoices[i].to \/ invoices[i].from = Anyone)
Logged(n) == \E i \in DOMAIN results : results[i].invoice = n
\* While what is paid is confirmed and the server is up, every invoice that
\* somebody else may pay is settled and logged, or shed, although payments fail:
\* no payer is stuck behind an invoice it cannot pay any more.
InvoicesSettle ==
    \A n \in 1 .. MAX_INVOICES :
        Owed(n) ~> (Logged(n) /\ Settled(n)) \/ ~ InQueue(n) \/ lost > 0 \/ restarts > 0
=============================================================================
