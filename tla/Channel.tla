------------------------------ MODULE Channel ------------------------------
(***************************************************************************)
(* The channel session of the SDK (sdk/src/channel.rs and its wasm wrapper *)
(* in wasm/src/lib.rs) between an off-chain rail and the account cells on  *)
(* chain.  Several apps may hold a session on the same account.            *)
(*                                                                         *)
(* A transaction is numbered when it is built; its account output and its  *)
(* funding output carry that number as their out point.  The number stands *)
(* for the hash of its contents: what is built again alike has the number  *)
(* it had.  The transaction fee is a sponsor's, so amounts balance without *)
(* it.  The rail can fail, and can do what it was asked while its answer   *)
(* is lost.                                                                *)
(***************************************************************************)
EXTENDS Naturals, FiniteSetsExt, Functions, SequencesExt

CONSTANTS
    App,         \* programs holding a ChannelSession
    Deposits,    \* account cells there are at first: capacity by out point
    SPEND_CAP,   \* spend cap of the session registered in the account lock
    Budget,      \* budgets an app may ask for
    Amount,      \* amounts an app may pay
    MIN_CELL,    \* least capacity of a cell
    MAX_TX,      \* transactions built: bounds the run
    MAX_CHANNELS, \* channels opened: bounds the run
    MAX_LOST     \* lost rail answers: bounds the run

ASSUME ChannelAssumption ==
    /\ DOMAIN Deposits \subseteq Nat
    /\ IsFiniteSet(DOMAIN Deposits) /\ DOMAIN Deposits # {}
    /\ Deposits \in [DOMAIN Deposits -> Nat]
    /\ Budget \cup Amount \subseteq Nat
    /\ {SPEND_CAP, MIN_CELL, MAX_TX, MAX_CHANNELS, MAX_LOST} \subseteq Nat

VARIABLES
    account,   \* live account cells: capacity and whether the data is empty
    funding,   \* live funding cells: capacity
    session,   \* per app: its ChannelSession
    rail,      \* the rail's channels, in the order they were opened
    drafts,    \* transactions built by sessions
    handed,    \* those callers have, to sign and broadcast
    built,     \* numbers given to transactions so far
    settled,   \* history: channels whose settle transaction was accepted
    lost       \* lost rail answers so far

chain == <<account, funding, settled>>
vars == <<chain, session, rail, drafts, handed, built, lost>>

AccountCell == [cap : Nat, empty : BOOLEAN]
MockChannel == [local : Nat, remote : Nat, funding : Nat]
ChannelTx ==
    [kind : {"fund"}, id : Nat, input : Nat, change : Nat, amount : Nat]
        \cup [kind : {"settle"}, id : Nat, input : Nat, local : Nat, channel : Nat]

ChannelSession ==
    [st : {"none"}]
        \cup [st : {"new"}, input : Nat, cap : Nat]
        \cup [st : {"open"}, channel : Nat, funding : Nat, budget : Nat, spent : Nat]

TypeOK ==
    /\ account \in [DOMAIN account -> AccountCell]
    /\ funding \in [DOMAIN funding -> Nat]
    /\ session \in [App -> ChannelSession]
    /\ rail \in Seq(MockChannel)
    /\ drafts \subseteq ChannelTx
    /\ handed \subseteq drafts
    /\ built \in Nat
    /\ DOMAIN account \cup DOMAIN funding \subseteq 0 .. built
    /\ settled \subseteq DOMAIN rail
    /\ lost \in 0 .. MAX_LOST

NoSession == [st |-> "none"]

Init ==
    /\ account \in {[x \in DOMAIN Deposits |-> [cap |-> Deposits[x], empty |-> e]] : e \in BOOLEAN}
    /\ funding = [x \in {} |-> 0]
    /\ session = [a \in App |-> NoSession]
    /\ rail = << >>
    /\ drafts = {}
    /\ handed = {}
    /\ built = Max(DOMAIN Deposits)
    /\ settled = {}
    /\ lost = 0

-----------------------------------------------------------------------------
(***************************************************************************)
(* The rail.                                                               *)
(***************************************************************************)
LoseAnswer ==
    /\ lost < MAX_LOST
    /\ lost' = lost + 1

rail_open(budget, funding_id) ==
    rail' = Append(rail, [local |-> budget, remote |-> 0, funding |-> funding_id])

\* InsufficientBalance when the balance does not cover the amount.
rail_pay(channel, amount) ==
    /\ rail[channel].local >= amount
    /\ rail' = [rail EXCEPT ![channel].local = @ - amount, ![channel].remote = @ + amount]

-----------------------------------------------------------------------------
(***************************************************************************)
(* The two transactions.                                                   *)
(***************************************************************************)
NextId == built + 1

\* Variant of build_funding_tx: the change is not kept from going negative.
build_funding_tx_unsaturated(cfg, budget) ==
    {[kind |-> "fund", id |-> NextId, input |-> cfg.input,
      change |-> cfg.cap - budget, amount |-> budget]}

\* Spend the account, emit the change and the funding cell: a new transaction, or
\* the very one that was built before, with its out point, if the header dep is
\* the same too.
build_funding_tx(cfg, budget) ==
    LET change == IF budget <= cfg.cap THEN cfg.cap - budget ELSE 0   \* saturating_sub
        tx == [kind |-> "fund", id |-> NextId, input |-> cfg.input, change |-> change,
               amount |-> budget]
    IN  {tx} \cup {t \in drafts : [t EXCEPT !.id = NextId] = tx}

\* Spend the funding cell, return the local balance to the account.
build_settle_tx(funding_id, channel, local) ==
    [kind |-> "settle", id |-> NextId, input |-> funding_id, local |-> local, channel |-> channel]

-----------------------------------------------------------------------------
(***************************************************************************)
(* ChannelSession.                                                         *)
(***************************************************************************)
\* Built against a live account cell, whose out point and capacity it keeps.
new(a, x) ==
    /\ session[a].st = "none"
    /\ session' = [session EXCEPT ![a] = [st |-> "new", input |-> x, cap |-> account[x].cap]]
    /\ UNCHANGED <<chain, rail, drafts, handed, built, lost>>

\* A rail that fails outright leaves everything as it was.
open(a, budget) ==
    /\ session[a].st = "new"
    /\ built < MAX_TX /\ Len(rail) < MAX_CHANNELS
    /\ \E tx \in build_funding_tx(session[a], budget) :
         /\ rail_open(budget, tx.id)
         /\ drafts' = drafts \cup {tx}
         /\ built' = IF tx \in drafts THEN built ELSE NextId
         /\ \/ /\ session' = [session EXCEPT ![a] =
                    [st |-> "open", channel |-> Len(rail) + 1, funding |-> tx.id,
                     budget |-> budget, spent |-> 0]]
               /\ handed' = handed \cup {tx}
               /\ UNCHANGED lost
            \/ LoseAnswer /\ UNCHANGED <<session, handed>>
    /\ UNCHANGED chain

\* Variant of pay: the amount is counted whatever the rail answers.
pay_counts_first(a, amount) ==
    /\ session[a].st = "open"
    /\ amount <= session[a].budget - session[a].spent
    /\ session' = [session EXCEPT ![a].spent = @ + amount]
    /\ \/ rail_pay(session[a].channel, amount)
       \/ UNCHANGED rail
    /\ UNCHANGED <<chain, drafts, handed, built, lost>>

\* OverBudget is refused before the rail is asked.
pay(a, amount) ==
    /\ session[a].st = "open"
    /\ amount <= session[a].budget - session[a].spent
    /\ rail_pay(session[a].channel, amount)
    /\ \/ session' = [session EXCEPT ![a].spent = @ + amount] /\ UNCHANGED lost
       \/ LoseAnswer /\ UNCHANGED session
    /\ UNCHANGED <<chain, drafts, handed, built>>

\* Handing a caller the settle transaction that pays `local`.
Settle(a, local) ==
    LET tx == build_settle_tx(session[a].funding, session[a].channel, local)
    IN  /\ built' = NextId
        /\ drafts' = drafts \cup {tx}
        /\ handed' = handed \cup {tx}

\* Variant of close: the session's own count is settled, not the rail's.
close_own_count(a) ==
    /\ session[a].st = "open"
    /\ built < MAX_TX
    /\ session' = [session EXCEPT ![a] = NoSession]
    /\ Settle(a, session[a].budget - session[a].spent)
    /\ UNCHANGED <<chain, rail, lost>>

\* The session is consumed whether or not the rail answers.
close(a) ==
    /\ session[a].st = "open"
    /\ built < MAX_TX
    /\ session' = [session EXCEPT ![a] = NoSession]
    /\ \/ Settle(a, rail[session[a].channel].local) /\ UNCHANGED lost
       \/ LoseAnswer /\ UNCHANGED <<drafts, handed, built>>
    /\ UNCHANGED <<chain, rail>>

\* The program ends, or drops the session object.
Drop(a) ==
    /\ session[a].st # "none"
    /\ session' = [session EXCEPT ![a] = NoSession]
    /\ UNCHANGED <<chain, rail, drafts, handed, built, lost>>

-----------------------------------------------------------------------------
(***************************************************************************)
(* The chain.                                                              *)
(***************************************************************************)
AddCell(cells, x, c) == [y \in DOMAIN cells \cup {x} |-> IF y = x THEN c ELSE cells[y]]
RemoveCell(cells, x) == [y \in DOMAIN cells \ {x} |-> cells[y]]

\* What the lock asks of a funding transaction: the change cell keeps the data
\* (the builder leaves it empty) and no more than the cap leaves the account.
LockAccepts(tx) ==
    /\ account[tx.input].empty
    /\ account[tx.input].cap <= tx.change + SPEND_CAP

FundingAccepted(tx) ==
    /\ tx.input \in DOMAIN account
    /\ LockAccepts(tx)
    /\ tx.change >= MIN_CELL /\ tx.amount >= MIN_CELL
    /\ tx.change + tx.amount <= account[tx.input].cap

SettleAccepted(tx) ==
    /\ tx.input \in DOMAIN funding
    /\ tx.local >= MIN_CELL
    /\ tx.local <= funding[tx.input]

\* A caller broadcasts a transaction, as often as it likes.
Broadcast(tx) ==
    /\ \/ /\ tx.kind = "fund"
          /\ FundingAccepted(tx)
          /\ account' = AddCell(RemoveCell(account, tx.input), tx.id,
                                [cap |-> tx.change, empty |-> TRUE])
          /\ funding' = AddCell(funding, tx.id, tx.amount)
          /\ UNCHANGED settled
       \/ /\ tx.kind = "settle"
          /\ SettleAccepted(tx)
          /\ account' = AddCell(account, tx.id, [cap |-> tx.local, empty |-> TRUE])
          /\ funding' = RemoveCell(funding, tx.input)
          /\ settled' = settled \cup {tx.channel}
    /\ UNCHANGED <<session, rail, drafts, handed, built, lost>>

\* The owner rewrites an account cell (an epoch bump): its out point changes.
OwnerRewrites(x, e) ==
    /\ built < MAX_TX
    /\ built' = NextId
    /\ account' = AddCell(RemoveCell(account, x), NextId, [account[x] EXCEPT !.empty = e])
    /\ UNCHANGED <<funding, settled, session, rail, drafts, handed, lost>>

Next ==
    \/ \E a \in App :
         \/ \E x \in DOMAIN account : new(a, x)
         \/ \E b \in Budget : open(a, b)
         \/ \E n \in Amount : pay(a, n)
         \/ close(a)
         \/ Drop(a)
    \/ \E tx \in handed : Broadcast(tx)
    \/ \E x \in DOMAIN account : \E e \in BOOLEAN : OwnerRewrites(x, e)

Spec == Init /\ [][Next]_vars

-----------------------------------------------------------------------------
(***************************************************************************)
(* Properties.                                                             *)
(***************************************************************************)
\* The session and the rail agree on the budget and on what was paid: a
\* payment the rail refused is never counted, and while no answer was lost
\* none is forgotten.  So budget - spent never underflows.
RailAgrees ==
    \A a \in App : session[a].st = "open" =>
        LET s == session[a]
            ch == rail[s.channel]
        IN  /\ ch.local + ch.remote = s.budget
            /\ s.spent <= ch.remote
            /\ lost = 0 => s.spent = ch.remote

CapacityOf(cells) == SumFunction([x \in DOMAIN cells |-> cells[x].cap])

PaidOut == SumFunction([i \in settled |-> rail[i].remote])

\* Whatever was deposited is in an account cell, in a live funding cell, or was
\* paid to the peer of a settled channel: transactions built against cells that
\* are gone, broadcast late, twice or never, and channels that were opened on one
\* and the same funding transaction, lose nothing and mint nothing.
Conserved ==
    CapacityOf(account) + SumFunction(funding) + PaidOut = SumFunction(Deposits)

-----------------------------------------------------------------------------
(***************************************************************************)
(* The inductive invariant.                                                *)
(***************************************************************************)
\* What session a and its channel know of each other; no other session is on
\* that channel, and nothing that settles it exists.
SessionOwns(a) ==
    session[a].st = "open" =>
        /\ session[a].channel \in DOMAIN rail \ settled
        /\ session[a].funding = rail[session[a].channel].funding
        /\ \A b \in App \ {a} : session[b].st = "open" => session[b].channel # session[a].channel
        /\ \A tx \in drafts : tx.kind = "settle" => tx.channel # session[a].channel

\* The change a funding transaction gives, if the cell it spends is live.
Balances(tx) ==
    tx.input \in DOMAIN account =>
        tx.change = IF tx.amount <= account[tx.input].cap THEN account[tx.input].cap - tx.amount ELSE 0

\* `unborn` are the numbers of transactions that were built and have not been
\* accepted.  Whatever spends a cell names one that has been there, and only a
\* transaction whose input is gone for good may have been accepted.
FundDraft(tx, unborn) ==
    /\ tx.input \in (0 .. built) \ unborn
    /\ tx.id \in unborn \/ tx.input \notin DOMAIN account
    /\ Balances(tx)
    /\ \A i \in DOMAIN rail : rail[i].funding = tx.id => rail[i].local + rail[i].remote = tx.amount

SettleDraft(tx, unborn) ==
    /\ tx.channel \in DOMAIN rail
    /\ tx.input = rail[tx.channel].funding
    /\ tx.local = rail[tx.channel].local
    /\ tx.id \in unborn \/ tx.input \notin unborn \cup DOMAIN funding

Unborn(unborn) ==
    /\ unborn \cap (DOMAIN account \cup DOMAIN funding) = {}
    /\ \A tx \in drafts : /\ tx.id <= built
                          /\ tx.kind = "fund" => FundDraft(tx, unborn)
                          /\ tx.kind = "settle" => SettleDraft(tx, unborn)
    /\ \A a \in App : session[a].st = "new" =>
          /\ session[a].input \in (0 .. built) \ unborn
          /\ session[a].input \in DOMAIN account => session[a].cap = account[session[a].input].cap
    /\ \A i \in settled : rail[i].funding \notin unborn \cup DOMAIN funding

\* A live funding cell holds what each of its channels does,
FundedChannels ==
    \A i \in DOMAIN rail :
        /\ rail[i].funding <= built
        /\ rail[i].funding \in DOMAIN funding => funding[rail[i].funding] = rail[i].local + rail[i].remote

\* and what its transaction put there.
Funded ==
    /\ \A tx \in drafts :
         tx.kind = "fund" /\ tx.id \in DOMAIN funding => funding[tx.id] = tx.amount
    /\ FundedChannels

IndInv ==
    /\ TypeOK
    /\ RailAgrees
    /\ \A a \in App : SessionOwns(a)
    /\ \A t, u \in drafts : t.id = u.id => t = u
    /\ \E unborn \in SUBSET (0 .. built) : Unborn(unborn)
    /\ Funded
    /\ Conserved
============================================================================
