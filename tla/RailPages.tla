----------------------------- MODULE RailPages -----------------------------
(***************************************************************************)
(* Two pages over the live rail: the shooter (demo/src/fiber-game-main.ts) *)
(* pays for every shot without waiting, and waits for its payments before  *)
(* it closes the channel; the troops page (demo/src/main.ts) pays one by   *)
(* one, pays and issues invoices at the same time, and closes whenever it  *)
(* is told to.  The keys of a demo account are shared, so both pages fund  *)
(* their channels from the same cells.                                     *)
(***************************************************************************)
EXTENDS LiveRail

CONSTANTS
    Budget,        \* budgets a user may type in, in CKB
    COST,          \* COST_PER_SHOT, COST_PER_TROOP
    BATCH,         \* troops the larger of the two buy buttons buys
    Invoices,      \* invoices of others a user may paste, in shannons
    Asked,         \* invoices a user may issue, in CKB
    MIN_FUNDING,   \* FIBER_MIN_FUNDING_CKB
    RESERVE,       \* ACCOUNT_CHANGE_RESERVE_CKB
    RETRIES        \* attempts of closeWithRetry

ASSUME PagesAssumption ==
    /\ Budget \cup Invoices \cup Asked \subseteq Nat
    /\ {COST, MIN_FUNDING, RESERVE, RETRIES} \subseteq Nat
    /\ BATCH \in Nat \ {0}

VARIABLES
    shows,     \* per page: the page it shows, "shooter" or "troops"
    pc,        \* per page: where its user is
    wish,      \* per page: the budget connect goes by
    fired,     \* per page: firedShots
    loops,     \* per page: running buy loops, each with its payment and the rounds left
    on,        \* per page: the buy buttons that are enabled
    tries,     \* per page: retries of closeWithRetry so far
    report     \* per page: the settlement shown, and what it had not seen

pageVars == <<shows, pc, wish, fired, loops, on, tries, report>>
vars == <<railVars, pageVars>>

Shooter == {p \in Page : shows[p] = "shooter"}

NoReport == [local |-> 0, remote |-> 0, unseen |-> 0]

TypeOK ==
    /\ RailTypeOK
    /\ shows \in [Page -> {"shooter", "troops"}]
    /\ pc \in [Page -> {"idle", "opening", "waiting", "playing", "over", "settling", "closing",
                        "settled"}]
    /\ {wish, fired, tries} \subseteq [Page -> Nat]
    /\ loops \in [Page -> SUBSET [call : Nat, left : Nat]]
    /\ on \in [Page -> SUBSET {1, BATCH}]
    /\ report \in [Page -> [local : Int, remote : Nat, unseen : Nat]]

Init ==
    /\ RailInit
    /\ shows \in [Page -> {"shooter", "troops"}]
    /\ pc = [p \in Page |-> "idle"]
    /\ wish = [p \in Page |-> 0]
    /\ fired = [p \in Page |-> 0]
    /\ loops = [p \in Page |-> {}]
    /\ on = [p \in Page |-> {}]
    /\ tries = [p \in Page |-> 0]
    /\ report = [p \in Page |-> NoReport]

Goto(p, l) == pc' = [pc EXCEPT ![p] = l]

CallsOf(p) == {k \in DOMAIN calls : calls[k].page = p}
Pending(p) == {k \in CallsOf(p) : calls[k].pc \in {"sending", "answered"}}
OutOf(c, S) == SumFunctionOnSet([k \in DOMAIN c |-> c[k].out], S)
Out(S) == OutOf(calls, S)

-----------------------------------------------------------------------------
(***************************************************************************)
(* Connecting.                                                             *)
(***************************************************************************)
\* The largest budget that leaves room for the change cell.
maxFundable == Max({Max(Range(account)) \div CKB - RESERVE, 0})

\* The shooter looks at the account first: it must be one cell, large enough for
\* a channel.  The other page goes by its user.
Preflight(p) ==
    p \in Shooter => Cardinality(DOMAIN account) = 1 /\ maxFundable >= MIN_FUNDING

\* The budget the shooter clamps to what can be funded.
Clamped(p, budget) ==
    IF p \in Shooter THEN Max({Min({budget, maxFundable}), MIN_FUNDING}) ELSE budget

\* The buy buttons the troops page enables whenever it redraws.
refresh(p, r) == {n \in {1, BATCH} : p \notin Shooter /\ r.budget - r.spent >= n * COST}

connect(p, budget) ==
    /\ pc[p] = "idle"
    /\ Preflight(p)
    /\ wish' = [wish EXCEPT ![p] = Clamped(p, budget)]
    /\ Goto(p, "opening")
    /\ UNCHANGED <<railVars, shows, fired, loops, on, tries, report>>

\* createRail and rail.open; until then the account may have changed.
Opened(p) ==
    /\ pc[p] = "opening"
    /\ \E ins \in SUBSET DOMAIN account : open(p, wish[p], ins)
    /\ Goto(p, "waiting")
    /\ UNCHANGED <<shows, wish, fired, loops, on, tries, report>>

ConnectFails(p) ==
    /\ pc[p] = "opening"
    /\ OpenFails(p, wish[p])
    /\ Goto(p, "idle")
    /\ UNCHANGED <<shows, wish, fired, loops, on, tries, report>>

Ready(p) ==
    /\ pc[p] = "waiting"
    /\ Routable(p, COST)
    /\ Goto(p, "playing")
    /\ on' = [on EXCEPT ![p] = refresh(p, rail[p])]
    /\ UNCHANGED <<railVars, shows, wish, fired, loops, tries, report>>

\* waitReady gives up; the user may connect again, to another channel.
NotReady(p) ==
    /\ pc[p] = "waiting"
    /\ Goto(p, "idle")
    /\ UNCHANGED <<railVars, shows, wish, fired, loops, on, tries, report>>

-----------------------------------------------------------------------------
(***************************************************************************)
(* Playing.                                                                *)
(***************************************************************************)
\* Variant of CanShoot: what is counted as spent is what the budget is held against.
CanShootBySpent(p) == COST <= remainingCkb(p)

\* The budget is held against the shots fired, not against what was paid.
CanShoot(p) == (fired[p] + 1) * COST <= wish[p]

tryShoot(p) ==
    /\ p \in Shooter /\ pc[p] = "playing"
    /\ CanShoot(p)
    /\ fired' = [fired EXCEPT ![p] = @ + 1]
    /\ pay(p, COST)
    /\ UNCHANGED <<shows, pc, wish, loops, on, tries, report>>

onOver(p) ==
    /\ p \in Shooter /\ pc[p] = "playing"
    /\ Goto(p, "over")
    /\ UNCHANGED <<railVars, shows, wish, fired, loops, on, tries, report>>

\* The buttons for invoices work until the page is left, one call of each kind at
\* a time; the buy buttons work until the channel is settled.
Clickable(p, op) ==
    /\ p \notin Shooter
    /\ pc[p] \in {"playing", "settling", "closing", "settled"}
    /\ \A k \in CallsOf(p) : calls[k].op = op => calls[k].pc \notin {"sending", "waiting"}

\* Rounds of the loop: pay and, when the payment is not an error, go on as long as
\* the money the rail has counted is enough.
Round(p, others, left) ==
    /\ pay(p, COST)
    /\ loops' = [loops EXCEPT ![p] = others \cup {[call |-> Len(calls) + 1, left |-> left]}]

\* buy(n) disables both buttons; without the money it only redraws.
buy(p, n) ==
    /\ n \in on[p] /\ pc[p] \in {"playing", "settling", "closing"}
    /\ \/ /\ remainingCkb(p) >= COST
          /\ Round(p, loops[p], n - 1)
          /\ on' = [on EXCEPT ![p] = {}]
       \/ /\ remainingCkb(p) < COST
          /\ UNCHANGED <<railVars, loops>>
          /\ on' = [on EXCEPT ![p] = refresh(p, rail[p])]
    /\ UNCHANGED <<shows, pc, wish, fired, tries, report>>

GoesOn(p, l) ==
    calls[l.call].pc = "resolved" /\ l.left > 0 /\ remainingCkb(p) >= COST

\* Variant of BuyNext: the loop makes one round too many.
BuyNextOnceMore(p, l) ==
    /\ calls[l.call].pc = "resolved" /\ remainingCkb(p) >= COST
    /\ Round(p, loops[p] \ {l}, l.left - 1)
    /\ UNCHANGED <<shows, pc, wish, fired, on, tries, report>>

\* The payment of loop l has been answered: the next round, or the end.
BuyNext(p, l) ==
    /\ calls[l.call].pc \in {"resolved", "rejected"}
    /\ \/ /\ GoesOn(p, l)
          /\ Round(p, loops[p] \ {l}, l.left - 1)
          /\ UNCHANGED on
       \/ /\ ~ GoesOn(p, l)
          /\ loops' = [loops EXCEPT ![p] = @ \ {l}]
          /\ UNCHANGED railVars
          /\ on' = [on EXCEPT ![p] = refresh(p, rail[p])]
    /\ UNCHANGED <<shows, pc, wish, fired, tries, report>>

\* A call returns to the page; one that paid an invoice has it redraw, which
\* enables the buy buttons also while a loop runs.
Returns(k) ==
    LET p == calls[k].page
    IN  /\ PayAnswered(k) \/ Polled(k) \/ TimedOut(k)
        /\ on' = IF calls[k].op = "payInvoice" /\ calls'[k].pc = "resolved"
                 THEN [on EXCEPT ![p] = refresh(p, rail'[p])] ELSE on
        /\ UNCHANGED <<shows, pc, wish, fired, loops, tries, report>>

payViaHub(p, shannons) ==
    /\ Clickable(p, "payInvoice")
    /\ payInvoice(p, shannons)
    /\ UNCHANGED pageVars

requestInvoice(p, amount) ==
    /\ Clickable(p, "waitInvoicePaid")
    /\ newInvoice(p, amount)
    /\ UNCHANGED pageVars

-----------------------------------------------------------------------------
(***************************************************************************)
(* Settling.                                                               *)
(***************************************************************************)
settle(p) ==
    /\ pc[p] = IF p \in Shooter THEN "over" ELSE "playing"
    /\ tries' = [tries EXCEPT ![p] = 0]
    /\ Goto(p, "settling")
    /\ UNCHANGED <<railVars, shows, wish, fired, loops, on, report>>

\* Variant of MayClose: nobody waits for payments under way.
MayCloseAnyTime(p) == TRUE

\* The shooter waits for the promises of its payments.
MayClose(p) == p \in Shooter => Pending(p) = {}

Closing(p) ==
    /\ pc[p] = "settling"
    /\ MayClose(p)
    /\ Shutdown(p)
    /\ Goto(p, "closing")
    /\ UNCHANGED <<shows, wish, fired, loops, on, tries, report>>

\* Variant of CloseRefused: after the last attempt the game goes on.
CloseRefusedPlaysOn(p) ==
    /\ pc[p] = "settling"
    /\ MayClose(p)
    /\ ~ ShutdownAccepted(p)
    /\ \/ /\ p \in Shooter /\ tries[p] < RETRIES
          /\ tries' = [tries EXCEPT ![p] = @ + 1]
          /\ UNCHANGED pc
       \/ /\ p \in Shooter => tries[p] = RETRIES
          /\ Goto(p, "playing")
          /\ UNCHANGED tries
    /\ UNCHANGED <<railVars, shows, wish, fired, loops, on, report>>

\* Refused: the shooter tries again, a few times; then it is the user's turn.
CloseRefused(p) ==
    /\ pc[p] = "settling"
    /\ MayClose(p)
    /\ ~ ShutdownAccepted(p)
    /\ \/ /\ p \in Shooter /\ tries[p] < RETRIES
          /\ tries' = [tries EXCEPT ![p] = @ + 1]
          /\ UNCHANGED pc
       \/ /\ p \in Shooter => tries[p] = RETRIES
          /\ Goto(p, IF p \in Shooter THEN "over" ELSE "playing")
          /\ UNCHANGED tries
    /\ UNCHANGED <<railVars, shows, wish, fired, loops, on, report>>

\* Payments that went through and that the rail has not counted.
Unseen(p) ==
    {k \in CallsOf(p) : /\ calls[k].op # "waitInvoicePaid"
                        /\ calls[k].status = "success"
                        /\ calls[k].pc # "resolved"}

\* close() answers, with or without the hash of the closing transaction.
Closed(p) ==
    /\ pc[p] = "closing"
    /\ report' = [report EXCEPT ![p] = [local |-> Settlement(p).local, remote |-> Settlement(p).remote,
                                        unseen |-> Out(Unseen(p))]]
    /\ on' = [on EXCEPT ![p] = {}]
    /\ Goto(p, "settled")
    /\ UNCHANGED <<railVars, shows, wish, fired, loops, tries>>

-----------------------------------------------------------------------------
Next ==
    \/ Node /\ UNCHANGED pageVars
    \/ \E k \in DOMAIN calls : Returns(k)
    \/ \E p \in Page :
         \/ \E budget \in Budget : connect(p, budget)
         \/ Opened(p) \/ ConnectFails(p) \/ Ready(p) \/ NotReady(p)
         \/ tryShoot(p) \/ onOver(p)
         \/ \E n \in {1, BATCH} : buy(p, n)
         \/ \E l \in loops[p] : BuyNext(p, l)
         \/ \E s \in Invoices : payViaHub(p, s)
         \/ \E n \in Asked : requestInvoice(p, n)
         \/ settle(p) \/ Closing(p) \/ CloseRefused(p) \/ Closed(p)

\* The node answers what it is asked, polls included (no await of the rail has a
\* deadline of its own), a payment is settled or expires, timers run; a user whose
\* game is over clicks until the channel is settled.
Fairness ==
    /\ \A k \in 1 .. MAX_CALLS :
         /\ WF_vars(k \in DOMAIN calls /\ (\E fee \in 0 .. MAX_FEE : NodeSends(k, fee)) /\ UNCHANGED pageVars)
         /\ WF_vars(k \in DOMAIN calls /\ NodeSettles(k) /\ UNCHANGED pageVars)
         /\ WF_vars(k \in DOMAIN calls /\ Returns(k))
    /\ \A p \in Page :
         /\ WF_vars(Opened(p) \/ ConnectFails(p))
         /\ WF_vars(Ready(p) \/ NotReady(p))
         /\ WF_vars(settle(p) /\ p \in Shooter)
         /\ WF_vars(Closing(p) \/ CloseRefused(p))
         /\ WF_vars(Closed(p))

Spec == Init /\ [][Next]_vars /\ Fairness

-----------------------------------------------------------------------------
(***************************************************************************)
(* Properties.                                                             *)
(***************************************************************************)
\* However fast the player fires and however the payments end, what the shooter
\* has asked its channel to pay never exceeds the budget it was opened with.
NeverOvercommits ==
    \A p \in Shooter :
        Out({k \in CallsOf(p) : calls[k].pc # "rejected"}) <= rail[p].budget * CKB

SafeReport(p) ==
    pc[p] = "settled" =>
        LET back == Refunded(channels[rail[p].channel])
        IN  report[p].local * CKB <=
               back + CLOSE_FEE + (IF p \in Shooter THEN 0 ELSE report[p].unseen)

\* What the shooter's settlement shows comes back, less what the closing
\* transaction costs (close() has it paid at fee_rate 0x7d0 and does not count it);
\* the troops page may show more, by the payments it had not seen succeed when
\* close() answered.
ReportSafe == \A p \in Page : SafeReport(p)

-----------------------------------------------------------------------------
(***************************************************************************)
(* The inductive invariant.                                                *)
(***************************************************************************)
\* An account cell is the first one, or the change or the refund of a channel
\* that has come that far.
CellsKnown ==
    \A x \in DOMAIN account :
        \/ x = 0
        \/ \E i \in DOMAIN channels : x = Change(i) /\ channels[i].st # "pending"
        \/ \E i \in DOMAIN channels : x = Refund(i) /\ channels[i].st = "closed"

\* A payment is locked in a channel that is ready, and it is one, not an invoice;
\* pay() does not wait for the end of its payment.
CallInv(k) ==
    /\ calls[k].channel \in DOMAIN channels
    /\ calls[k].status = "inflight" =>
          channels[calls[k].channel].st = "ready" /\ calls[k].op # "waitInvoicePaid"
    /\ calls[k].status = "open" => calls[k].op = "waitInvoicePaid"
    /\ calls[k].pc = "sending" => calls[k].status = "none" /\ calls[k].op # "waitInvoicePaid"
    /\ calls[k].pc = "answered" => calls[k].op = "pay"
    /\ calls[k].op = "pay" => calls[k].out = COST * CKB /\ calls[k].pc \notin {"waiting", "timedout"}
    /\ calls[k].op = "pay" /\ calls[k].pc = "rejected" => calls[k].status = "none"

RailInv ==
    /\ CellsKnown
    /\ \A i \in DOMAIN channels : channels[i].st = "pending" => channels[i].local = 0
    /\ \A k \in DOMAIN calls : CallInv(k)

\* Payments that took something out of a channel, and payments the rail counted.
Sent(p) ==
    {k \in CallsOf(p) : /\ calls[k].op # "waitInvoicePaid"
                        /\ calls[k].status \in {"inflight", "success"}}
Counted(p) == {k \in CallsOf(p) : calls[k].op # "waitInvoicePaid" /\ calls[k].pc = "resolved"}

Connected(p) == pc[p] \notin {"idle", "opening"}

\* No two pages are connected over one channel.
OwnChannels ==
    \A p, q \in Page : Connected(p) /\ Connected(q) /\ rail[p].channel = rail[q].channel => p = q

\* The channel of a page that is connected holds its budget, the reserve included,
\* less what it sent.
HasChannel(p) ==
    LET i == rail[p].channel
    IN  /\ i \in DOMAIN channels
        /\ channels[i].amount = rail[p].budget * CKB
        /\ channels[i].st # "pending" => 
              rail[p].budget * CKB <= channels[i].local + CHANNEL_RESERVE + Out(Sent(p))
        /\ pc[p] # "waiting" => channels[i].st # "pending"
        /\ pc[p] \in {"closing", "settled"} => channels[i].st \in {"closing", "closed"}

\* A page pays over its channel once it plays, and its rail has counted at least
\* what it has seen go through.
PageInv(p) ==
    /\ Connected(p) => HasChannel(p)
    /\ \A k \in CallsOf(p) :
          pc[p] \notin {"idle", "opening", "waiting"} /\ calls[k].channel = rail[p].channel
    /\ Out(Counted(p)) <= rail[p].spent * CKB
    /\ \A l \in loops[p] : l.call \in CallsOf(p)

\* The shooter only pays for shots, never more of them than its budget buys.
ShooterInv(p) ==
    /\ loops[p] = {} /\ on[p] = {}
    /\ \A k \in CallsOf(p) : calls[k].op = "pay"
    /\ Out(CallsOf(p)) = fired[p] * COST * CKB
    /\ fired[p] * COST <= wish[p]
    /\ Connected(p) => rail[p].budget = wish[p]
    /\ pc[p] \in {"closing", "settled"} => Pending(p) = {}

IndInv ==
    /\ TypeOK
    /\ RailInv
    /\ OwnChannels
    /\ \A p \in Page : PageInv(p) /\ SafeReport(p)
    /\ \A p \in Shooter : ShooterInv(p)

-----------------------------------------------------------------------------
Ended(k) == k \in DOMAIN calls /\ calls[k].pc \in {"resolved", "rejected", "timedout"}

\* With a node that answers, every payment, invoice and connection that was begun
\* ends, also when a payment hangs in the network or a channel never gets ready.
CallsEnd ==
    /\ \A k \in 1 .. MAX_CALLS : k \in DOMAIN calls ~> Ended(k)
    /\ \A p \in Page : pc[p] \in {"opening", "waiting"} ~> pc[p] \in {"idle", "playing"}

\* A game that is over is settled, although closing is refused while payments
\* are locked in the channel and the page gives up after a few attempts.
GameSettles == \A p \in Page : pc[p] = "over" ~> pc[p] = "settled"
=============================================================================
