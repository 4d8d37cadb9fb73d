------------------------------ MODULE LiveRail ------------------------------
(***************************************************************************)
(* The live channel rail of the JS SDK (sdk-js/src/live.ts): an in-browser *)
(* Fiber node that is asked to open a channel, to pay and to close it, and *)
(* that is polled until an answer or a deadline comes.  One rail per page; *)
(* the pages share one account.                                            *)
(*                                                                         *)
(* Fiber and the chain are external: a channel is its two balances, a      *)
(* payment is locked out of the local one until it succeeds or fails, and  *)
(* the funding and closing transactions are committed whenever the chain   *)
(* takes them.  Amounts are in shannons, budgets and costs in whole CKB.   *)
(* A poll that learns nothing changes nothing; a deadline may pass at any  *)
(* time, also when the answer is already there.  The rail looks at the     *)
(* deadline between two polls only, and awaits each poll without one of    *)
(* its own: what is modelled is a node that answers every poll, with what  *)
(* it knows or with an error.                                              *)
(***************************************************************************)
EXTENDS Integers, FiniteSetsExt, Functions, SequencesExt

CONSTANTS
    Page,          \* pages, each with its own rail
    CKB,           \* shannons in a CKB
    DEPOSIT,       \* capacity of the account's cell at first
    SPEND_CAP,     \* cap of the session that signs funding transactions
    MIN_CHANGE,    \* occupied capacity of the account's change cell
    FUNDING_FEE,   \* what a funding transaction pays the chain, out of the account
    CLOSE_FEE,     \* what the closing transaction pays the chain, out of the closer's side
    CHANNEL_RESERVE, \* part of a side Fiber keeps for the closing transaction
    MAX_FEE,       \* highest routing fee, in shannons
    MAX_CHANNELS,  \* channels opened: bounds the run
    MAX_CALLS,     \* payments and invoices begun: bounds the run
    MIXES          \* how many of each kind: any of these, bounds the run

ASSUME RailAssumption ==
    /\ CKB \in Nat \ {0}
    /\ {DEPOSIT, SPEND_CAP, MIN_CHANGE, MAX_FEE, MAX_CHANNELS, MAX_CALLS} \subseteq Nat
    /\ {FUNDING_FEE, CLOSE_FEE, CHANNEL_RESERVE} \subseteq Nat
    /\ CLOSE_FEE <= CHANNEL_RESERVE
    /\ MIXES \subseteq [pay : Nat, payInvoice : Nat, waitInvoicePaid : Nat]

VARIABLES
    account,   \* capacities of the account's live cells, by out point
    channels,  \* Fiber's channels, in the order they were opened
    calls,     \* pay, payInvoice and waitInvoicePaid calls, in order
    rail       \* per page: its LiveRail

railVars == <<account, channels, calls, rail>>

\* `ins` are the account cells the funding transaction spends.
FiberChannel ==
    [st : {"pending", "ready", "closing", "closed"}, local : Nat, remote : Nat,
     amount : Nat, ins : SUBSET Nat]

\* `out` is what a payment takes out of the channel; for an invoice of the
\* page's own, what it brings in.
RailCall ==
    [page : Page, op : {"pay", "payInvoice", "waitInvoicePaid"}, channel : Nat, out : Nat,
     status : {"none", "inflight", "open", "success", "failed"},
     pc : {"sending", "answered", "waiting", "resolved", "rejected", "timedout"}]

Rail == [budget : Nat, spent : Nat, channel : Nat]

RailTypeOK ==
    /\ account \in [DOMAIN account -> Nat]
    /\ channels \in Seq(FiberChannel)
    /\ calls \in Seq(RailCall)
    /\ rail \in [Page -> Rail]

\* A rail without a channel: nothing was opened yet, or opening failed.
NoRail == [budget |-> 0, spent |-> 0, channel |-> 0]

RailInit ==
    /\ account = [x \in {0} |-> DEPOSIT]
    /\ channels = << >>
    /\ calls = << >>
    /\ rail = [p \in Page |-> NoRail]

-----------------------------------------------------------------------------
(***************************************************************************)
(* External: Fiber and the chain.                                          *)
(***************************************************************************)
Worth(S) == SumFunctionOnSet(account, S)

\* Out points no other cell has had: of the change and of the refund of channel i.
Change(i) == 2 * i - 1
Refund(i) == 2 * i

WithCell(cells, x, cap) == [y \in DOMAIN cells \cup {x} |-> IF y = x THEN cap ELSE cells[y]]

OneAccountInput(c) == Cardinality(c.ins) = 1

\* What leaves the account: the change comes back to it, the fee does not.
Outflow(c) == c.amount + FUNDING_FEE

WithinCap(c) == Outflow(c) <= SPEND_CAP

\* The session lock and the chain take the funding transaction: its inputs are
\* live, the change can hold itself, and so can the closing transaction.
FundingAccepted(c) ==
    /\ c.ins \subseteq DOMAIN account
    /\ OneAccountInput(c)
    /\ WithinCap(c)
    /\ Worth(c.ins) >= Outflow(c) + MIN_CHANGE
    /\ c.amount >= CHANNEL_RESERVE

FundingCommits(i) ==
    /\ channels[i].st = "pending"
    /\ FundingAccepted(channels[i])
    /\ channels' = [channels EXCEPT ![i].st = "ready",
                                    ![i].local = channels[i].amount - CHANNEL_RESERVE]
    /\ account' = WithCell([x \in DOMAIN account \ channels[i].ins |-> account[x]], Change(i),
                           Worth(channels[i].ins) - Outflow(channels[i]))
    /\ UNCHANGED <<calls, rail>>

\* What the closing transaction pays back to the account.
Refunded(c) == c.local + CHANNEL_RESERVE - CLOSE_FEE

ClosingCommits(i) ==
    /\ channels[i].st = "closing"
    /\ channels' = [channels EXCEPT ![i].st = "closed"]
    /\ account' = WithCell(account, Refund(i), Refunded(channels[i]))
    /\ UNCHANGED <<calls, rail>>

\* Payments locked in channel i.
Inflight(i) == {k \in DOMAIN calls : calls[k].channel = i /\ calls[k].status = "inflight"}

\* sendPayment reaches the node: refused without a route that can carry it.
NodeSends(k, fee) ==
    LET i == calls[k].channel
        out == calls[k].out + fee
        routable == channels[i].st = "ready" /\ channels[i].local >= out
    IN  /\ calls[k].pc = "sending"
        /\ calls[k].op = "pay" => fee = 0
        /\ \/ /\ routable
              /\ calls' = [calls EXCEPT ![k] = [@ EXCEPT !.out = out, !.status = "inflight",
                             !.pc = IF calls[k].op = "pay" THEN "answered" ELSE "waiting"]]
              /\ channels' = [channels EXCEPT ![i].local = @ - out]
           \/ /\ ~ routable
              /\ fee = 0
              /\ calls' = [calls EXCEPT ![k].pc = "rejected"]
              /\ UNCHANGED channels
        /\ UNCHANGED <<account, rail>>

\* A payment ends one way or the other: its TLC is settled, or expires.
NodeSettles(k) ==
    LET i == calls[k].channel
    IN  /\ calls[k].status = "inflight"
        /\ \/ /\ calls' = [calls EXCEPT ![k].status = "success"]
              /\ channels' = [channels EXCEPT ![i].remote = @ + calls[k].out]
           \/ /\ calls' = [calls EXCEPT ![k].status = "failed"]
              /\ channels' = [channels EXCEPT ![i].local = @ + calls[k].out]
        /\ UNCHANGED <<account, rail>>

\* Somebody pays an invoice of the page through the hub, or it expires.
InvoiceEnds(k) ==
    LET i == calls[k].channel
    IN  /\ calls[k].status = "open"
        /\ \/ /\ channels[i].st = "ready" /\ channels[i].remote >= calls[k].out
              /\ calls' = [calls EXCEPT ![k].status = "success"]
              /\ channels' = [channels EXCEPT ![i].remote = @ - calls[k].out,
                                              ![i].local = @ + calls[k].out]
           \/ /\ calls' = [calls EXCEPT ![k].status = "failed"]
              /\ UNCHANGED channels
        /\ UNCHANGED <<account, rail>>

\* account drain: the session key moves the smallest account cell, all of which
\* leaves the account, to the owner's key, if the spend cap lets it; a channel is
\* funded from an account of one cell.
Drain(x) ==
    /\ \A y \in DOMAIN account : account[x] <= account[y]
    /\ account[x] <= SPEND_CAP
    /\ account' = [y \in DOMAIN account \ {x} |-> account[y]]
    /\ UNCHANGED <<channels, calls, rail>>

Node ==
    \/ \E x \in DOMAIN account : Drain(x)
    \/ \E i \in DOMAIN channels : FundingCommits(i) \/ ClosingCommits(i)
    \/ \E k \in DOMAIN calls :
         \/ \E fee \in 0 .. MAX_FEE : NodeSends(k, fee)
         \/ NodeSettles(k)
         \/ InvoiceEnds(k)

-----------------------------------------------------------------------------
(***************************************************************************)
(* LiveRail.                                                               *)
(***************************************************************************)
\* openChannelWithExternalFunding: Fiber agrees on a channel with the peer and
\* builds the funding transaction out of account cells that are live now.
Negotiated(budget, ins) ==
    /\ Len(channels) < MAX_CHANNELS
    /\ ins # {}
    /\ Worth(ins) >= budget * CKB + FUNDING_FEE
    /\ channels' = Append(channels,
         [st |-> "pending", local |-> 0, remote |-> 0, amount |-> budget * CKB, ins |-> ins])

\* The session key signs the transaction as it is, and the node takes it.
open(p, budget, ins) ==
    /\ Negotiated(budget, ins)
    /\ rail' = [rail EXCEPT ![p] = [budget |-> budget, spent |-> 0, channel |-> Len(channels) + 1]]
    /\ UNCHANGED <<account, calls>>

\* Fiber refuses, or the call that hands it the signed transaction fails: the rail
\* has its budget and no channel, whatever becomes of the one Fiber has.
OpenFails(p, budget) ==
    /\ \/ UNCHANGED channels
       \/ \E ins \in SUBSET DOMAIN account : Negotiated(budget, ins)
    /\ rail' = [rail EXCEPT ![p] = [budget |-> budget, spent |-> 0, channel |-> 0]]
    /\ UNCHANGED <<account, calls>>

\* What a waitReady poll looks for: the channel is listed as ready and the
\* local balance is enough.
Routable(p, min) ==
    LET i == rail[p].channel
    IN  i # 0 /\ channels[i].st = "ready" /\ channels[i].local >= min * CKB

Begun(op) == Cardinality({k \in DOMAIN calls : calls[k].op = op})

Begin(p, op, out, status, pc) ==
    /\ Len(calls) < MAX_CALLS
    /\ \E mix \in MIXES : \A o \in DOMAIN mix : Begun(o) + (IF o = op THEN 1 ELSE 0) <= mix[o]
    /\ calls' = Append(calls, [page |-> p, op |-> op, channel |-> rail[p].channel, out |-> out,
                               status |-> status, pc |-> pc])
    /\ UNCHANGED <<account, channels, rail>>

pay(p, cost) == Begin(p, "pay", cost * CKB, "none", "sending")

payInvoice(p, shannons) == Begin(p, "payInvoice", shannons, "none", "sending")

\* newInvoice, and the wait that follows it.
newInvoice(p, amount) == Begin(p, "waitInvoicePaid", amount * CKB, "open", "waiting")

\* What a payment counts for: rounded up to whole CKB.
Cost(out) == (out + CKB - 1) \div CKB

\* pay() goes on when sendPayment has answered, whatever becomes of the payment.
PayAnswered(k) ==
    /\ calls[k].pc = "answered"
    /\ calls' = [calls EXCEPT ![k].pc = "resolved"]
    /\ rail' = [rail EXCEPT ![calls[k].page].spent = @ + calls[k].out \div CKB]
    /\ UNCHANGED <<account, channels>>

\* A poll of waitPaymentSuccess or of waitInvoicePaid finds the end.
Polled(k) ==
    /\ calls[k].pc = "waiting"
    /\ \/ /\ calls[k].status = "success"
          /\ calls' = [calls EXCEPT ![k].pc = "resolved"]
          /\ rail' = IF calls[k].op = "payInvoice"
                     THEN [rail EXCEPT ![calls[k].page].spent = @ + Cost(calls[k].out)]
                     ELSE rail
       \/ /\ calls[k].status = "failed"
          /\ calls' = [calls EXCEPT ![k].pc = "rejected"]
          /\ UNCHANGED rail
    /\ UNCHANGED <<account, channels>>

\* Variant of TimedOut: what is still under way is polled on past the deadline.
TimedOutIfEnded(k) ==
    /\ calls[k].pc = "waiting"
    /\ calls[k].status \in {"success", "failed"}
    /\ calls' = [calls EXCEPT ![k].pc = "timedout"]
    /\ UNCHANGED <<account, channels, rail>>

\* The last poll before the deadline found no end, or failed.
TimedOut(k) ==
    /\ calls[k].pc = "waiting"
    /\ calls' = [calls EXCEPT ![k].pc = "timedout"]
    /\ UNCHANGED <<account, channels, rail>>

\* shutdownChannel: Fiber refuses while payments are locked in the channel.
ShutdownAccepted(p) ==
    LET i == rail[p].channel
    IN  channels[i].st = "ready" /\ Inflight(i) = {}

Shutdown(p) ==
    /\ ShutdownAccepted(p)
    /\ channels' = [channels EXCEPT ![rail[p].channel].st = "closing"]
    /\ UNCHANGED <<account, calls, rail>>

remainingCkb(p) == rail[p].budget - rail[p].spent

\* What close() reports, from the rail's own count.
Settlement(p) == [local |-> remainingCkb(p), remote |-> rail[p].spent]
=============================================================================
