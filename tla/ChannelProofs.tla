--------------------------- MODULE ChannelProofs ---------------------------
(***************************************************************************)
(* Theorems about Channel for any apps, deposits, budgets and amounts:     *)
(* type correctness, that a session and its channel agree on the budget    *)
(* and on what was paid, and that whatever was deposited is in an account  *)
(* cell, in a funding cell or was paid out.                                *)
(***************************************************************************)
EXTENDS Channel, DataLemmas

-----------------------------------------------------------------------------
(***************************************************************************)
(* Types and finiteness.                                                   *)
(***************************************************************************)
\* The fields of a session, by its state.
LEMMA SessionType ==
    ASSUME TypeOK, NEW a \in App
    PROVE  /\ session[a].st = "new" => session[a].input \in Nat /\ session[a].cap \in Nat
           /\ session[a].st = "open" =>
                /\ session[a].channel \in Nat /\ session[a].funding \in Nat
                /\ session[a].budget \in Nat /\ session[a].spent \in Nat
BY DEF TypeOK, ChannelSession

\* The fields of a transaction, by its kind.
LEMMA DraftType ==
    ASSUME TypeOK, NEW tx \in drafts
    PROVE  /\ tx.kind \in {"fund", "settle"} /\ tx.id \in Nat /\ tx.input \in Nat
           /\ tx.kind = "fund" => tx.change \in Nat /\ tx.amount \in Nat
           /\ tx.kind = "settle" => tx.local \in Nat /\ tx.channel \in Nat
BY DEF TypeOK, ChannelTx

\* Channels of the rail are numbered from one, and their balances are numbers.
LEMMA RailType ==
    ASSUME TypeOK
    PROVE  /\ Len(rail) \in Nat /\ DOMAIN rail = 1 .. Len(rail)
           /\ \A i \in DOMAIN rail : /\ rail[i] \in MockChannel
                                     /\ rail[i].local \in Nat /\ rail[i].remote \in Nat
                                     /\ rail[i].funding \in Nat
<1>1. rail \in Seq(MockChannel)
  BY DEF TypeOK
<1>2. Len(rail) \in Nat /\ DOMAIN rail = 1 .. Len(rail) /\ \A i \in DOMAIN rail : rail[i] \in MockChannel
  BY <1>1
<1> QED
  BY <1>2 DEF MockChannel

\* Live cells and settled channels are finitely many.
LEMMA AllFinite ==
    ASSUME TypeOK
    PROVE  IsFiniteSet(DOMAIN account) /\ IsFiniteSet(DOMAIN funding) /\ IsFiniteSet(settled)
<1>0. built \in Int /\ Len(rail) \in Int
  BY RailType DEF TypeOK
<1>1. IsFiniteSet(0 .. built) /\ IsFiniteSet(1 .. Len(rail))
  BY <1>0, FS_Interval
<1>2. /\ DOMAIN account \in SUBSET (0 .. built) /\ DOMAIN funding \in SUBSET (0 .. built)
      /\ settled \in SUBSET (1 .. Len(rail))
  BY RailType DEF TypeOK
<1> QED
  BY <1>1, <1>2, FS_Subset

\* The capacities of the account cells as a function.
LEMMA CapsType ==
    ASSUME TypeOK
    PROVE  \A x \in DOMAIN account : account[x] \in AccountCell /\ account[x].cap \in Int
BY DEF TypeOK, AccountCell

-----------------------------------------------------------------------------
(***************************************************************************)
(* The initial states.                                                     *)
(***************************************************************************)
\* Only deposits, no session and nothing built satisfies the invariant.
LEMMA InitIndInv == Init => IndInv
<1> SUFFICES ASSUME Init PROVE IndInv
  OBVIOUS
<1>1. /\ DOMAIN Deposits \subseteq Nat /\ IsFiniteSet(DOMAIN Deposits) /\ DOMAIN Deposits # {}
      /\ \A x \in DOMAIN Deposits : Deposits[x] \in Nat
  BY ChannelAssumption
<1>2. built \in Nat /\ DOMAIN Deposits \subseteq 0 .. built
  <2>1. DOMAIN Deposits \subseteq Int
    BY <1>1
  <2>2. Max(DOMAIN Deposits) \in DOMAIN Deposits
    BY <1>1, <2>1, MaxIsGreatest
  <2>3. \A x \in DOMAIN Deposits : Max(DOMAIN Deposits) >= x
    BY <1>1, <2>1, MaxIsGreatest
  <2>4. built = Max(DOMAIN Deposits)
    BY DEF Init
  <2> HIDE DEF Max
  <2> QED
    BY <1>1, <2>2, <2>3, <2>4
<1>3. PICK e \in BOOLEAN : account = [x \in DOMAIN Deposits |-> [cap |-> Deposits[x], empty |-> e]]
  BY DEF Init
<1>4. /\ DOMAIN account = DOMAIN Deposits
      /\ \A x \in DOMAIN Deposits : account[x] = [cap |-> Deposits[x], empty |-> e]
  BY <1>3
<1>5. /\ DOMAIN funding = {} /\ funding = [x \in {} |-> 0]
      /\ settled = {} /\ drafts = {} /\ handed = {} /\ rail = << >> /\ DOMAIN rail = {} /\ lost = 0
      /\ session = [a \in App |-> NoSession]
  BY DEF Init
<1>6. TypeOK
  <2>1. account \in [DOMAIN account -> AccountCell]
    BY <1>1, <1>3, <1>4 DEF AccountCell
  <2>2. session \in [App -> ChannelSession]
    BY <1>5 DEF NoSession, ChannelSession
  <2>3. lost \in 0 .. MAX_LOST
    BY <1>5, ChannelAssumption
  <2> QED
    BY <1>2, <1>4, <1>5, <2>1, <2>2, <2>3 DEF TypeOK
<1>7. \A a \in App : session[a].st = "none"
  BY <1>5 DEF NoSession
<1>8. RailAgrees /\ \A a \in App : SessionOwns(a)
  BY <1>7 DEF RailAgrees, SessionOwns
<1>9. Unborn({}) /\ Funded
  BY <1>5, <1>7 DEF Unborn, Funded, FundedChannels
<1>10. \E unborn \in SUBSET (0 .. built) : Unborn(unborn)
  BY <1>9
<1>11. Conserved
  <2>1. SumFunction(funding) = 0
    BY <1>5, SumEmpty DEF SumFunction
  <2>2. PaidOut = 0
    <3>1. DOMAIN [i \in settled |-> rail[i].remote] = {}
      BY <1>5
    <3> QED
      BY <3>1, SumEmpty DEF PaidOut, SumFunction
  <2>3. CapacityOf(account) = SumFunction(Deposits)
    <3> DEFINE caps == [x \in DOMAIN account |-> account[x].cap]
    <3>1. DOMAIN caps = DOMAIN Deposits /\ \A x \in DOMAIN Deposits : caps[x] = Deposits[x]
      BY <1>4
    <3> HIDE DEF caps
    <3>2. SumFunction(caps) = SumFunction(Deposits)
      BY <1>1, <3>1, SumSame
    <3> QED
      BY <3>2 DEF caps, CapacityOf
  <2>4. SumFunction(Deposits) \in Int
    BY <1>1, SumFunctionType
  <2> QED
    BY <2>1, <2>2, <2>3, <2>4 DEF Conserved
<1> QED
  BY <1>5, <1>6, <1>8, <1>9, <1>10, <1>11 DEF IndInv

-----------------------------------------------------------------------------
(***************************************************************************)
(* Sessions.                                                               *)
(***************************************************************************)
\* Steps that only give up or begin a session: new, Drop, and a close whose
\* answer was lost.
LEMMA SessionStep ==
    ASSUME IndInv, NEW a \in App, NEW s \in ChannelSession,
           session' = [session EXCEPT ![a] = s],
           s.st # "open",
           s.st = "new" => s.input \in DOMAIN account /\ s.cap = account[s.input].cap,
           lost' \in 0 .. MAX_LOST, lost' = 0 => lost = 0,
           UNCHANGED <<chain, rail, drafts, handed, built>>
    PROVE  IndInv'
<1>1. TypeOK /\ session \in [App -> ChannelSession]
  BY DEF IndInv, TypeOK
<1>2. /\ UNCHANGED <<account, funding, settled, rail, drafts, handed, built>>
      /\ session'[a] = s /\ \A b \in App \ {a} : session'[b] = session[b]
  BY <1>1 DEF chain
<1>3. TypeOK'
  <2>1. session' \in [App -> ChannelSession]
    BY <1>1
  <2> QED
    BY <1>2, <2>1 DEF IndInv, TypeOK
<1>4. \A b \in App : session'[b].st = "open" => b # a /\ session'[b] = session[b]
  BY <1>2
<1>5. RailAgrees'
  BY <1>2, <1>4 DEF IndInv, RailAgrees
<1>6. ASSUME NEW b \in App PROVE SessionOwns(b)'
  BY <1>2, <1>4 DEF IndInv, SessionOwns
<1>7. \E unborn \in SUBSET (0 .. built') : Unborn(unborn)'
  <2>1. PICK unborn \in SUBSET (0 .. built) : Unborn(unborn)
    BY DEF IndInv
  <2>2. \A tx \in drafts : /\ FundDraft(tx, unborn) => FundDraft(tx, unborn)'
                           /\ SettleDraft(tx, unborn) => SettleDraft(tx, unborn)'
    BY <1>2 DEF FundDraft, SettleDraft, Balances
  <2>3. \A b \in App : session'[b].st = "new" =>
            /\ session'[b].input \in (0 .. built) \ unborn
            /\ session'[b].input \in DOMAIN account
                  => session'[b].cap = account[session'[b].input].cap
    <3> SUFFICES ASSUME NEW b \in App, session'[b].st = "new"
                 PROVE  /\ session'[b].input \in (0 .. built) \ unborn
                        /\ session'[b].input \in DOMAIN account
                              => session'[b].cap = account[session'[b].input].cap
      OBVIOUS
    <3>1. CASE b = a
      BY <1>1, <1>2, <2>1, <3>1 DEF Unborn, TypeOK
    <3>2. CASE b # a
      BY <1>2, <2>1, <3>2 DEF Unborn
    <3> QED
      BY <3>1, <3>2
  <2>4. Unborn(unborn)'
    BY <1>2, <2>1, <2>2, <2>3 DEF Unborn
  <2> QED
    BY <1>2, <2>1, <2>4
<1>8. Funded' /\ Conserved'
  BY <1>2 DEF IndInv, Funded, FundedChannels, Conserved, CapacityOf, PaidOut
<1>9. (\A t, u \in drafts : t.id = u.id => t = u)'
  BY <1>2 DEF IndInv
<1> QED
  BY <1>3, <1>5, <1>6, <1>7, <1>8, <1>9 DEF IndInv

\* A channel is opened, and the session that asked for it may learn so.
LEMMA OpenStep ==
    ASSUME IndInv, NEW a \in App, NEW budget \in Budget, open(a, budget)
    PROVE  IndInv'
<1> DEFINE n == Len(rail) + 1
<1>1. /\ TypeOK /\ built \in Nat /\ n \in Nat /\ NextId \in Nat /\ NextId > built
      /\ budget \in Nat /\ MAX_LOST \in Nat
      /\ session \in [App -> ChannelSession] /\ session[a].st = "new"
      /\ session[a].input \in Nat /\ session[a].cap \in Nat
      /\ DOMAIN account \cup DOMAIN funding \subseteq 0 .. built
      /\ DOMAIN rail = 1 .. Len(rail) /\ n \notin DOMAIN rail
  <2>1. TypeOK
    BY DEF IndInv
  <2>2. /\ built \in Nat /\ session \in [App -> ChannelSession]
        /\ DOMAIN account \cup DOMAIN funding \subseteq 0 .. built
    BY <2>1 DEF TypeOK
  <2>3. n \in Nat /\ DOMAIN rail = 1 .. Len(rail) /\ n \notin DOMAIN rail
    BY <2>1, RailType
  <2> HIDE DEF n
  <2>4. session[a].st = "new"
    BY DEF open
  <2>5. session[a].input \in Nat /\ session[a].cap \in Nat
    BY <2>1, <2>4, SessionType
  <2>6. NextId \in Nat /\ NextId > built
    BY <2>2 DEF NextId
  <2>7. budget \in Nat /\ MAX_LOST \in Nat
    BY ChannelAssumption
  <2> QED
    BY <2>1, <2>2, <2>3, <2>4, <2>5, <2>6, <2>7
<1>0. PICK tx \in build_funding_tx(session[a], budget) :
        /\ rail_open(budget, tx.id)
        /\ drafts' = drafts \cup {tx}
        /\ built' = IF tx \in drafts THEN built ELSE NextId
        /\ \/ /\ session' = [session EXCEPT ![a] =
                   [st |-> "open", channel |-> Len(rail) + 1, funding |-> tx.id,
                    budget |-> budget, spent |-> 0]]
              /\ handed' = handed \cup {tx}
              /\ UNCHANGED lost
           \/ LoseAnswer /\ UNCHANGED <<session, handed>>
  BY DEF open
<1> DEFINE ch == [local |-> budget, remote |-> 0, funding |-> tx.id]
           s == [st |-> "open", channel |-> n, funding |-> tx.id, budget |-> budget, spent |-> 0]
<1>2. /\ tx.kind = "fund" /\ tx.input = session[a].input /\ tx.amount = budget
      /\ tx.change = IF budget <= session[a].cap THEN session[a].cap - budget ELSE 0
      /\ tx \in ChannelTx /\ tx.id \in Nat
      /\ tx.id = NextId \/ tx \in drafts
  <2>1. PICK change \in Nat :
          change = IF budget <= session[a].cap THEN session[a].cap - budget ELSE 0
    BY <1>1
  <2>2. PICK made : made = [kind |-> "fund", id |-> NextId, input |-> session[a].input,
                          change |-> change, amount |-> budget]
    OBVIOUS
  <2>3. tx = made \/ (tx \in drafts /\ [tx EXCEPT !.id = NextId] = made)
    BY <1>0, <2>1, <2>2 DEF build_funding_tx
  <2>4. CASE tx = made
    BY <1>1, <2>1, <2>2, <2>4 DEF ChannelTx
  <2>5. CASE tx \in drafts /\ [tx EXCEPT !.id = NextId] = made
    <3>1. tx \in ChannelTx
      BY <1>1, <2>5 DEF TypeOK
    <3>2. CASE tx \in [kind : {"fund"}, id : Nat, input : Nat, change : Nat, amount : Nat]
      <4>1. [tx EXCEPT !.id = NextId] = [kind |-> "fund", id |-> NextId, input |-> tx.input,
                                         change |-> tx.change, amount |-> tx.amount]
        BY <3>2
      <4>2. tx.input = session[a].input /\ tx.change = change /\ tx.amount = budget
        BY <2>2, <2>5, <4>1
      <4> QED
        BY <2>1, <2>5, <3>1, <3>2, <4>2
    <3>3. CASE tx \in [kind : {"settle"}, id : Nat, input : Nat, local : Nat, channel : Nat]
      <4>1. [tx EXCEPT !.id = NextId].kind = "settle" /\ made.kind = "fund"
        BY <2>2, <3>3
      <4> QED
        BY <2>5, <4>1
    <3> QED
      BY <3>1, <3>2, <3>3 DEF ChannelTx
  <2> QED
    BY <2>3, <2>4, <2>5
<1>3. /\ rail' = Append(rail, ch) /\ drafts' = drafts \cup {tx}
      /\ built' = IF tx \in drafts THEN built ELSE NextId
      /\ \/ session' = [session EXCEPT ![a] = s] /\ lost' = lost
         \/ LoseAnswer /\ session' = session
      /\ handed' \subseteq handed \cup {tx}
      /\ UNCHANGED <<account, funding, settled>>
  <2>1. UNCHANGED <<account, funding, settled>>
    BY DEF open, chain
  <2> QED
    BY <1>0, <2>1 DEF rail_open
<1>21. \A u \in drafts : u.id \in Nat /\ u.id <= built /\ (u.kind = "settle" => u.channel \in DOMAIN rail)
  BY <1>1, DraftType DEF IndInv, Unborn, SettleDraft
<1>22. /\ built' \in Nat /\ built <= built' /\ tx.id <= built'
       /\ tx \in drafts => built' = built
       /\ tx \notin drafts => built' = NextId /\ tx.id = NextId
  BY <1>1, <1>2, <1>3, <1>21
<1> HIDE DEF ch, s
<1>23. /\ ch.local = budget /\ ch.remote = 0 /\ ch.funding = tx.id /\ ch \in MockChannel
       /\ s.st = "open" /\ s.channel = n /\ s.funding = tx.id /\ s.budget = budget /\ s.spent = 0
       /\ s \in ChannelSession
  BY <1>1, <1>2 DEF ch, s, MockChannel, ChannelSession
<1>4. /\ DOMAIN rail' = DOMAIN rail \cup {n} /\ rail'[n] = ch
      /\ \A i \in DOMAIN rail : rail'[i] = rail[i]
      /\ rail' \in Seq(MockChannel)
  <2>1. rail \in Seq(MockChannel) /\ ch \in MockChannel
    BY <1>1, <1>23 DEF TypeOK
  <2> QED
    BY <1>1, <1>3, <2>1
<1>6. /\ \A b \in App \ {a} : session'[b] = session[b]
      /\ session'[a] = s \/ session'[a] = session[a]
      /\ session' \in [App -> ChannelSession]
  BY <1>1, <1>3, <1>23
<1>7. drafts \subseteq drafts' /\ drafts' \subseteq drafts \cup {tx}
  BY <1>3
<1>8. lost' \in 0 .. MAX_LOST /\ (lost' = 0 => lost = 0)
  BY <1>1, <1>3 DEF LoseAnswer, TypeOK
<1> HIDE DEF n
<1>9. TypeOK'
  <2>1. DOMAIN account' \cup DOMAIN funding' \subseteq 0 .. built'
    BY <1>1, <1>3, <1>22
  <2>2. handed' \subseteq drafts' /\ drafts' \subseteq ChannelTx /\ settled' \subseteq DOMAIN rail'
    BY <1>1, <1>2, <1>3, <1>4 DEF TypeOK
  <2> QED
    BY <1>1, <1>3, <1>4, <1>6, <1>8, <1>22, <2>1, <2>2 DEF TypeOK
<1>10. \A b \in App : session[b].st = "open" => session[b].channel \in DOMAIN rail
  BY DEF IndInv, SessionOwns
<1>11. RailAgrees'
  <2> SUFFICES ASSUME NEW b \in App, session'[b].st = "open"
               PROVE  LET q == session'[b]
                          c == rail'[q.channel]
                      IN  /\ c.local + c.remote = q.budget
                          /\ q.spent <= c.remote
                          /\ lost' = 0 => q.spent = c.remote
    BY DEF RailAgrees
  <2>1. CASE session'[b] = s
    BY <1>1, <1>4, <1>23, <2>1
  <2>2. CASE session'[b] = session[b]
    <3>1. rail'[session[b].channel] = rail[session[b].channel]
      BY <1>4, <1>10, <2>2
    <3> QED
      BY <1>8, <2>2, <3>1 DEF IndInv, RailAgrees
  <2> QED
    BY <1>6, <2>1, <2>2
<1>13. ASSUME NEW b \in App PROVE SessionOwns(b)'
  <2> SUFFICES ASSUME session'[b].st = "open" PROVE SessionOwns(b)'
    BY DEF SessionOwns
  <2>1. CASE session'[b] = s
    <3>1. b = a
      <4> SUFFICES ASSUME b # a PROVE FALSE
        OBVIOUS
      <4>1. session[b] = s
        BY <1>6, <2>1
      <4> QED
        BY <1>1, <1>10, <1>23, <4>1
    <3>2. n \in DOMAIN rail' \ settled'
      BY <1>1, <1>3, <1>4 DEF TypeOK
    <3>3. \A c \in App \ {a} : session'[c].st = "open" => session'[c].channel # n
      BY <1>1, <1>6, <1>10
    <3>4. \A u \in drafts' : u.kind = "settle" => u.channel # n
      BY <1>1, <1>2, <1>7, <1>21
    <3> QED
      BY <1>4, <1>23, <2>1, <3>1, <3>2, <3>3, <3>4 DEF SessionOwns
  <2>2. CASE session'[b] = session[b]
    <3>1. /\ session[b].channel \in DOMAIN rail \ settled
          /\ session[b].funding = rail[session[b].channel].funding
          /\ \A c \in App \ {b} : session[c].st = "open" => session[c].channel # session[b].channel
          /\ \A u \in drafts : u.kind = "settle" => u.channel # session[b].channel
      BY <2>2 DEF IndInv, SessionOwns
    <3>2. \A c \in App \ {b} : session'[c].st = "open" => session'[c].channel # session[b].channel
      <4> SUFFICES ASSUME NEW c \in App \ {b}, session'[c].st = "open"
                   PROVE  session'[c].channel # session[b].channel
        OBVIOUS
      <4>1. session'[c] = s \/ session'[c] = session[c]
        BY <1>6
      <4> QED
        BY <1>1, <1>23, <3>1, <4>1
    <3>3. \A u \in drafts' : u.kind = "settle" => u.channel # session[b].channel
      BY <1>2, <1>7, <3>1
    <3> QED
      BY <1>3, <1>4, <2>2, <3>1, <3>2, <3>3 DEF SessionOwns
  <2> QED
    BY <1>6, <2>1, <2>2
<1>14. \A t, u \in drafts' : t.id = u.id => t = u
  <2>1. CASE tx \in drafts
    BY <1>3, <2>1 DEF IndInv
  <2>2. CASE tx \notin drafts
    <3>1. \A u \in drafts : u.id # tx.id
      BY <1>1, <1>21, <1>22, <2>2
    <3> QED
      BY <1>7, <3>1 DEF IndInv
  <2> QED
    BY <2>1, <2>2
<1>15. \A i \in DOMAIN rail : rail[i].funding \in 0 .. built /\ rail[i].funding # NextId
  BY <1>1, RailType DEF IndInv, Funded, FundedChannels
<1>16. \E unborn \in SUBSET (0 .. built') : Unborn(unborn)'
  <2>1. CASE tx \in drafts
    <3>1. PICK unborn \in SUBSET (0 .. built) : Unborn(unborn)
      BY DEF IndInv
    <3>2. built' = built /\ drafts' = drafts
      BY <1>3, <1>22, <2>1
    <3>3. ASSUME NEW u \in drafts, u.kind = "fund" PROVE FundDraft(u, unborn)'
      <4>1. FundDraft(u, unborn)
        BY <3>1, <3>3 DEF Unborn
      <4>2. u.id = tx.id => u.amount = budget
        BY <1>2, <2>1 DEF IndInv
      <4>3. \A i \in DOMAIN rail' : rail'[i].funding = u.id => rail'[i].local + rail'[i].remote = u.amount
        BY <1>1, <1>4, <1>23, <4>1, <4>2 DEF FundDraft
      <4> QED
        BY <1>3, <3>2, <4>1, <4>3 DEF FundDraft, Balances
    <3>4. ASSUME NEW u \in drafts, u.kind = "settle" PROVE SettleDraft(u, unborn)'
      <4>1. SettleDraft(u, unborn)
        BY <3>1, <3>4 DEF Unborn
      <4> QED
        BY <1>3, <1>4, <4>1 DEF SettleDraft
    <3>5. \A b \in App : session'[b].st = "new" => session'[b] = session[b]
      BY <1>6, <1>23
    <3>6. \A i \in settled' : rail'[i].funding \notin unborn \cup DOMAIN funding'
      BY <1>1, <1>3, <1>4, <3>1 DEF Unborn, TypeOK
    <3>7. Unborn(unborn)'
      BY <1>3, <1>21, <3>1, <3>2, <3>3, <3>4, <3>5, <3>6 DEF Unborn
    <3> QED
      BY <3>1, <3>2, <3>7
  <2>2. CASE tx \notin drafts
    <3>0. built' = NextId /\ tx.id = NextId
      BY <1>22, <2>2
    <3>1. PICK old \in SUBSET (0 .. built) : Unborn(old)
      BY DEF IndInv
    <3>2. PICK unborn \in SUBSET (0 .. built') : unborn = old \cup {NextId}
      <4>1. built \in Nat /\ NextId \in Nat /\ NextId > built /\ built' = NextId
        BY <1>1, <3>0, <3>1
      <4>2. 0 .. built \subseteq 0 .. built' /\ NextId \in 0 .. built'
        BY <4>1
      <4> QED
        BY <3>1, <4>2
    <3>3. unborn \cap (DOMAIN account \cup DOMAIN funding)' = {}
      BY <1>1, <1>3, <3>1, <3>2 DEF Unborn
    <3>4. \A x \in (0 .. built) \ old : x \in (0 .. built') \ unborn
      BY <1>1, <1>3, <3>2
    <3>5. ASSUME NEW u \in drafts
          PROVE  /\ u.id <= built'
                 /\ u.kind = "fund" => FundDraft(u, unborn)'
                 /\ u.kind = "settle" => SettleDraft(u, unborn)'
      <4>1. u.id <= built' /\ u.id # NextId
        BY <1>1, <1>21, <1>22, <2>2
      <4>2. ASSUME u.kind = "fund" PROVE FundDraft(u, unborn)'
        <5>1. FundDraft(u, old)
          BY <3>1, <4>2 DEF Unborn
        <5>2. \A i \in DOMAIN rail' : rail'[i].funding = u.id => rail'[i].local + rail'[i].remote = u.amount
          BY <1>4, <1>23, <3>0, <4>1, <5>1 DEF FundDraft
        <5>3. u.input \in (0 .. built') \ unborn
          BY <3>4, <5>1 DEF FundDraft
        <5> QED
          BY <1>3, <3>2, <5>1, <5>2, <5>3 DEF FundDraft, Balances
      <4>3. ASSUME u.kind = "settle" PROVE SettleDraft(u, unborn)'
        <5>1. SettleDraft(u, old)
          BY <3>1, <4>3 DEF Unborn
        <5>2. u.channel \in DOMAIN rail /\ u.input = rail[u.channel].funding /\ u.input # NextId
          BY <1>15, <5>1 DEF SettleDraft
        <5> QED
          BY <1>3, <1>4, <3>2, <5>1, <5>2 DEF SettleDraft
      <4> QED
        BY <4>1, <4>2, <4>3
    <3>6. tx \in drafts' => tx.id <= built' /\ FundDraft(tx, unborn)'
      <4>1. /\ session[a].input \in (0 .. built) \ old
            /\ session[a].input \in DOMAIN account => session[a].cap = account[session[a].input].cap
        BY <1>1, <3>1 DEF Unborn
      <4>2. Balances(tx)'
        BY <1>2, <1>3, <4>1 DEF Balances
      <4>3. \A i \in DOMAIN rail' : rail'[i].funding = tx.id => rail'[i].local + rail'[i].remote = tx.amount
        BY <1>1, <1>2, <1>4, <1>15, <1>23, <3>0
      <4> QED
        BY <1>1, <1>2, <1>3, <3>2, <3>4, <4>1, <4>2, <4>3 DEF FundDraft
    <3>7. \A u \in drafts' : /\ u.id <= built'
                             /\ u.kind = "fund" => FundDraft(u, unborn)'
                             /\ u.kind = "settle" => SettleDraft(u, unborn)'
      <4> SUFFICES ASSUME NEW u \in drafts'
                   PROVE  /\ u.id <= built'
                          /\ u.kind = "fund" => FundDraft(u, unborn)'
                          /\ u.kind = "settle" => SettleDraft(u, unborn)'
        OBVIOUS
      <4>1. CASE u \in drafts
        BY <3>5, <4>1
      <4>2. CASE u = tx
        BY <1>2, <3>6, <4>2
      <4> QED
        BY <1>7, <4>1, <4>2
    <3>8. \A b \in App : session'[b].st = "new" =>
              /\ session'[b].input \in (0 .. built') \ unborn
              /\ session'[b].input \in DOMAIN account' => session'[b].cap = account'[session'[b].input].cap
      <4>1. \A b \in App : session'[b].st = "new" => session'[b] = session[b]
        BY <1>6, <1>23
      <4> QED
        BY <1>3, <3>1, <3>4, <4>1 DEF Unborn
    <3>9. \A i \in settled' : rail'[i].funding \notin unborn \cup DOMAIN funding'
      BY <1>1, <1>3, <1>4, <1>15, <3>1, <3>2 DEF Unborn, TypeOK
    <3>10. Unborn(unborn)'
      BY <3>3, <3>7, <3>8, <3>9 DEF Unborn
    <3> QED
      BY <3>2, <3>10
  <2> QED
    BY <2>1, <2>2
<1>17. Funded'
  <2>1. ASSUME NEW u \in drafts', u.kind = "fund", u.id \in DOMAIN funding'
        PROVE  funding'[u.id] = u.amount
    <3>1. u \in drafts
      BY <1>1, <1>3, <1>7, <1>22, <2>1
    <3> QED
      BY <1>3, <2>1, <3>1 DEF IndInv, Funded
  <2>2. tx.id \in DOMAIN funding => funding[tx.id] = budget
    BY <1>1, <1>2, <1>22 DEF IndInv, Funded
  <2>3. FundedChannels
    BY DEF IndInv, Funded
  <2>4. \A i \in DOMAIN rail' :
          /\ rail'[i].funding <= built'
          /\ rail'[i].funding \in DOMAIN funding
               => funding[rail'[i].funding] = rail'[i].local + rail'[i].remote
    <3> SUFFICES ASSUME NEW i \in DOMAIN rail'
                 PROVE  /\ rail'[i].funding <= built'
                        /\ rail'[i].funding \in DOMAIN funding
                             => funding[rail'[i].funding] = rail'[i].local + rail'[i].remote
      OBVIOUS
    <3>1. CASE i = n
      BY <1>1, <1>4, <1>22, <1>23, <2>2, <3>1
    <3>2. CASE i \in DOMAIN rail
      BY <1>1, <1>4, <1>15, <1>22, <2>3, <3>2 DEF FundedChannels
    <3> QED
      BY <1>4, <3>1, <3>2
  <2> QED
    BY <1>3, <2>1, <2>4 DEF Funded, FundedChannels
<1>18. Conserved'
  <2>1. \A i \in settled : rail'[i] = rail[i]
    BY <1>1, <1>4 DEF TypeOK
  <2>2. [i \in settled |-> rail'[i].remote] = [i \in settled |-> rail[i].remote]
    BY <2>1
  <2> QED
    BY <1>3, <2>2 DEF IndInv, Conserved, PaidOut, CapacityOf
<1> QED
  BY <1>9, <1>11, <1>13, <1>14, <1>16, <1>17, <1>18 DEF IndInv

\* A payment: the channel's balances shift, and the session may learn so.
LEMMA PayStep ==
    ASSUME IndInv, NEW a \in App, NEW amount \in Amount, pay(a, amount)
    PROVE  IndInv'
<1> DEFINE n == session[a].channel
           s == [session[a] EXCEPT !.spent = @ + amount]
<1>1. /\ TypeOK /\ session \in [App -> ChannelSession] /\ session[a].st = "open"
      /\ n \in DOMAIN rail \ settled
      /\ session[a].budget \in Nat /\ session[a].spent \in Nat
      /\ amount \in Nat /\ MAX_LOST \in Nat
      /\ rail[n].local \in Nat /\ rail[n].remote \in Nat /\ rail[n] \in MockChannel
      /\ rail[n].local >= amount
      /\ rail[n].local + rail[n].remote = session[a].budget
      /\ session[a].spent <= rail[n].remote
  <2>1. TypeOK /\ session[a].st = "open" /\ session \in [App -> ChannelSession]
    BY DEF IndInv, TypeOK, pay
  <2>2. n \in DOMAIN rail \ settled
    BY <2>1 DEF IndInv, SessionOwns
  <2>3. rail[n].local + rail[n].remote = session[a].budget /\ session[a].spent <= rail[n].remote
    BY <2>1 DEF IndInv, RailAgrees
  <2>4. rail[n].local >= amount
    BY DEF pay, rail_pay
  <2> QED
    BY <2>1, <2>2, <2>3, <2>4, SessionType, RailType, ChannelAssumption
<1>2. /\ rail' = [rail EXCEPT ![n].local = @ - amount, ![n].remote = @ + amount]
      /\ \/ session' = [session EXCEPT ![a].spent = @ + amount] /\ lost' = lost
         \/ LoseAnswer /\ session' = session
      /\ UNCHANGED <<account, funding, settled, drafts, handed, built>>
  BY DEF pay, rail_pay, chain
<1>3. /\ DOMAIN rail' = DOMAIN rail /\ rail' \in Seq(MockChannel)
      /\ \A i \in DOMAIN rail \ {n} : rail'[i] = rail[i]
      /\ rail'[n].local = rail[n].local - amount
      /\ rail'[n].remote = rail[n].remote + amount
      /\ rail'[n].funding = rail[n].funding
      /\ rail'[n].local + rail'[n].remote = rail[n].local + rail[n].remote
  <2> DEFINE c == [local |-> rail[n].local - amount, remote |-> rail[n].remote + amount,
                   funding |-> rail[n].funding]
  <2>1. rail' = [rail EXCEPT ![n] = c]
    <3>1. DOMAIN rail' = DOMAIN rail /\ \A i \in DOMAIN rail \ {n} : rail'[i] = rail[i]
      BY <1>2
    <3>2. rail'[n] = [[rail[n] EXCEPT !.local = @ - amount] EXCEPT !.remote = @ + amount]
      BY <1>1, <1>2
    <3>3. rail'[n] = c
      BY <1>1, <3>2 DEF MockChannel
    <3>4. rail' = [i \in DOMAIN rail' |-> rail'[i]]
      BY <1>2
    <3> HIDE DEF c, n
    <3> QED
      BY <1>1, <3>1, <3>3, <3>4
  <2>2. c \in MockChannel
    BY <1>1 DEF MockChannel
  <2>3. rail \in Seq(MockChannel)
    BY <1>1 DEF TypeOK
  <2>4. /\ c.local = rail[n].local - amount /\ c.remote = rail[n].remote + amount
        /\ c.funding = rail[n].funding
        /\ c.local + c.remote = rail[n].local + rail[n].remote
    BY <1>1
  <2> HIDE DEF c, n
  <2>5. rail' \in Seq(MockChannel) /\ DOMAIN rail' = DOMAIN rail /\ rail'[n] = c
    BY <1>1, <2>1, <2>2, <2>3
  <2>6. \A i \in DOMAIN rail \ {n} : rail'[i] = rail[i]
    BY <2>1, <2>3
  <2> QED
    BY <2>4, <2>5, <2>6
<1>4. /\ s \in ChannelSession /\ s.st = "open" /\ s.channel = n
      /\ s.funding = session[a].funding /\ s.budget = session[a].budget
      /\ s.spent = session[a].spent + amount
  <2>1. session[a] \in [st : {"open"}, channel : Nat, funding : Nat, budget : Nat, spent : Nat]
    BY <1>1 DEF ChannelSession
  <2>2. s \in [st : {"open"}, channel : Nat, funding : Nat, budget : Nat, spent : Nat]
    BY <1>1, <2>1
  <2> QED
    BY <2>1, <2>2 DEF ChannelSession
<1>5. /\ \A b \in App \ {a} : session'[b] = session[b]
      /\ session'[a] = s \/ session'[a] = session[a]
      /\ session' \in [App -> ChannelSession]
      /\ lost' = 0 => session'[a] = s
  <2>1. CASE session' = [session EXCEPT ![a].spent = @ + amount] /\ lost' = lost
    <3>1. session' = [session EXCEPT ![a] = s]
      BY <2>1
    <3> HIDE DEF s
    <3> QED
      BY <1>1, <1>4, <3>1
  <2>2. CASE LoseAnswer /\ session' = session
    BY <1>1, <2>2 DEF LoseAnswer, TypeOK
  <2> QED
    BY <1>2, <2>1, <2>2
<1>6. lost' \in 0 .. MAX_LOST /\ (lost' = 0 => lost = 0)
  BY <1>1, <1>2 DEF LoseAnswer, TypeOK
<1> HIDE DEF n, s
<1>7. TypeOK'
  BY <1>1, <1>2, <1>3, <1>5, <1>6 DEF TypeOK
<1>8. \A b \in App \ {a} : session[b].st = "open" => session[b].channel \in DOMAIN rail \ {n}
  BY <1>1 DEF IndInv, SessionOwns, n
<1>9. RailAgrees'
  <2> SUFFICES ASSUME NEW b \in App, session'[b].st = "open"
               PROVE  LET q == session'[b]
                          c == rail'[q.channel]
                      IN  /\ c.local + c.remote = q.budget
                          /\ q.spent <= c.remote
                          /\ lost' = 0 => q.spent = c.remote
    BY DEF RailAgrees
  <2>1. CASE b # a
    <3>1. session'[b] = session[b] /\ rail'[session[b].channel] = rail[session[b].channel]
      BY <1>3, <1>5, <1>8, <2>1
    <3> QED
      BY <1>6, <3>1 DEF IndInv, RailAgrees
  <2>2. CASE b = a
    <3>1. lost = 0 => session[a].spent = rail[n].remote
      BY <1>1 DEF IndInv, RailAgrees, n
    <3>2. CASE session'[a] = s
      BY <1>1, <1>3, <1>4, <1>6, <2>2, <3>1, <3>2
    <3>3. CASE session'[a] = session[a] /\ lost' # 0
      BY <1>1, <1>3, <2>2, <3>3 DEF n
    <3> QED
      BY <1>5, <3>2, <3>3
  <2> QED
    BY <2>1, <2>2
<1>10. ASSUME NEW b \in App PROVE SessionOwns(b)'
  <2>1. \A c \in App : /\ session'[c].st = session[c].st
                       /\ session[c].st = "open" => /\ session'[c].channel = session[c].channel
                                                    /\ session'[c].funding = session[c].funding
    BY <1>1, <1>4, <1>5 DEF n
  <2>2. \A i \in DOMAIN rail : rail'[i].funding = rail[i].funding
    BY <1>3
  <2> SUFFICES ASSUME session[b].st = "open" PROVE SessionOwns(b)'
    BY <2>1 DEF SessionOwns
  <2>3. /\ session[b].channel \in DOMAIN rail \ settled
        /\ session[b].funding = rail[session[b].channel].funding
        /\ \A c \in App \ {b} : session[c].st = "open" => session[c].channel # session[b].channel
        /\ \A u \in drafts : u.kind = "settle" => u.channel # session[b].channel
    BY DEF IndInv, SessionOwns
  <2>4. /\ session'[b].channel = session[b].channel
        /\ session'[b].funding = session[b].funding
    BY <2>1
  <2>5. \A c \in App \ {b} : session'[c].st = "open" => session'[c].channel # session[b].channel
    BY <2>1, <2>3
  <2> QED
    BY <1>2, <1>3, <2>2, <2>3, <2>4, <2>5 DEF SessionOwns
<1>11. \E unborn \in SUBSET (0 .. built') : Unborn(unborn)'
  <2>1. PICK unborn \in SUBSET (0 .. built) : Unborn(unborn)
    BY DEF IndInv
  <2>2. ASSUME NEW u \in drafts
        PROVE  /\ FundDraft(u, unborn) => FundDraft(u, unborn)'
               /\ u.kind = "settle" /\ SettleDraft(u, unborn) => SettleDraft(u, unborn)'
    <3>1. \A i \in DOMAIN rail : /\ rail'[i].funding = rail[i].funding
                                 /\ rail'[i].local + rail'[i].remote = rail[i].local + rail[i].remote
      BY <1>3
    <3>2. u.kind = "settle" => u.channel # n
      BY <1>1 DEF IndInv, SessionOwns, n
    <3>3. FundDraft(u, unborn) => FundDraft(u, unborn)'
      BY <1>2, <1>3, <3>1 DEF FundDraft, Balances
    <3>4. u.kind = "settle" /\ SettleDraft(u, unborn) => SettleDraft(u, unborn)'
      BY <1>2, <1>3, <3>2 DEF SettleDraft
    <3> QED
      BY <3>3, <3>4
  <2>3. \A b \in App : session'[b].st = "new" => session'[b] = session[b]
    BY <1>1, <1>4, <1>5
  <2>4. \A i \in settled : rail'[i].funding = rail[i].funding
    BY <1>1, <1>3 DEF TypeOK
  <2>5. Unborn(unborn)'
    BY <1>2, <2>1, <2>2, <2>3, <2>4 DEF Unborn
  <2> QED
    BY <1>2, <2>1, <2>5
<1>12. Funded'
  BY <1>2, <1>3 DEF IndInv, Funded, FundedChannels
<1>13. Conserved'
  <2>1. \A i \in settled : rail'[i] = rail[i]
    BY <1>1, <1>3 DEF TypeOK
  <2>2. [i \in settled |-> rail'[i].remote] = [i \in settled |-> rail[i].remote]
    BY <2>1
  <2> QED
    BY <1>2, <2>2 DEF IndInv, Conserved, PaidOut, CapacityOf
<1>14. (\A t, u \in drafts : t.id = u.id => t = u)'
  BY <1>2 DEF IndInv
<1> QED
  BY <1>7, <1>9, <1>10, <1>11, <1>12, <1>13, <1>14 DEF IndInv

\* A session is consumed, its channel's local balance in a settle transaction.
LEMMA CloseStep ==
    ASSUME IndInv, NEW a \in App, close(a)
    PROVE  IndInv'
<1>1. /\ TypeOK /\ session \in [App -> ChannelSession] /\ session[a].st = "open"
      /\ built \in Nat /\ NextId \in Nat /\ NextId > built /\ MAX_LOST \in Nat
      /\ session' = [session EXCEPT ![a] = NoSession]
      /\ NoSession \in ChannelSession /\ NoSession.st = "none"
      /\ UNCHANGED <<account, funding, settled, rail>>
  <2>1. TypeOK /\ session \in [App -> ChannelSession] /\ built \in Nat
    BY DEF IndInv, TypeOK
  <2>2. /\ session[a].st = "open" /\ session' = [session EXCEPT ![a] = NoSession]
        /\ UNCHANGED <<account, funding, settled, rail>>
    BY DEF close, chain
  <2>3. NoSession \in ChannelSession /\ NoSession.st = "none"
    BY DEF NoSession, ChannelSession
  <2>4. NextId \in Nat /\ NextId > built /\ MAX_LOST \in Nat
    BY <2>1, ChannelAssumption DEF NextId
  <2> QED
    BY <2>1, <2>2, <2>3, <2>4
<1>2. CASE LoseAnswer /\ UNCHANGED <<drafts, handed, built>>
  <2>1. lost' \in 0 .. MAX_LOST /\ lost' # 0
    BY <1>1, <1>2 DEF LoseAnswer, TypeOK
  <2> QED
    BY <1>1, <1>2, <2>1, SessionStep DEF chain
<1>3. CASE /\ built' = NextId
           /\ drafts' = drafts \cup {build_settle_tx(session[a].funding, session[a].channel,
                                                     rail[session[a].channel].local)}
           /\ handed' = handed \cup {build_settle_tx(session[a].funding, session[a].channel,
                                                     rail[session[a].channel].local)}
           /\ lost' = lost
  <2>1. PICK tx : tx = build_settle_tx(session[a].funding, session[a].channel,
                                       rail[session[a].channel].local)
    OBVIOUS
  <2>2. /\ session[a].channel \in DOMAIN rail \ settled
        /\ session[a].funding = rail[session[a].channel].funding
        /\ \A b \in App \ {a} : session[b].st = "open" => session[b].channel # session[a].channel
    BY <1>1 DEF IndInv, SessionOwns
  <2>3. /\ tx.kind = "settle" /\ tx.id = NextId /\ tx.channel = session[a].channel
        /\ tx.input = rail[session[a].channel].funding
        /\ tx.local = rail[session[a].channel].local
        /\ tx \in ChannelTx
    BY <1>1, <2>1, <2>2, SessionType, RailType DEF build_settle_tx, ChannelTx
  <2>4. drafts' = drafts \cup {tx} /\ handed' = handed \cup {tx}
    BY <1>3, <2>1
  <2>5. /\ session' \in [App -> ChannelSession] /\ session'[a].st = "none"
        /\ \A b \in App \ {a} : session'[b] = session[b]
    BY <1>1
  <2>6. TypeOK'
    BY <1>1, <1>3, <2>3, <2>4, <2>5 DEF TypeOK
  <2>7. \A b \in App : session'[b].st = "open" => b # a /\ session'[b] = session[b]
    BY <2>5
  <2>8. RailAgrees'
    BY <1>1, <1>3, <2>7 DEF IndInv, RailAgrees
  <2>9. ASSUME NEW b \in App PROVE SessionOwns(b)'
    BY <1>1, <2>2, <2>3, <2>4, <2>7 DEF IndInv, SessionOwns
  <2>10. \A u \in drafts : u.id <= built
    BY DEF IndInv, Unborn
  <2>11. \A t, u \in drafts' : t.id = u.id => t = u
    <3>1. \A u \in drafts : u.id # tx.id
      BY <1>1, <2>3, <2>10, DraftType
    <3> QED
      BY <2>4, <3>1 DEF IndInv
  <2>12. \A i \in DOMAIN rail : rail[i].funding \in 0 .. built
    BY <1>1, RailType DEF IndInv, Funded, FundedChannels
  <2>13. \E unborn \in SUBSET (0 .. built') : Unborn(unborn)'
    <3>1. PICK old \in SUBSET (0 .. built) : Unborn(old)
      BY DEF IndInv
    <3>2. PICK unborn \in SUBSET (0 .. built') : unborn = old \cup {NextId}
      <4>1. built \in Nat /\ NextId \in Nat /\ NextId > built /\ built' = NextId
        BY <1>1, <1>3, <3>1
      <4>2. 0 .. built \subseteq 0 .. built' /\ NextId \in 0 .. built'
        BY <4>1
      <4> QED
        BY <3>1, <4>2
    <3>3. unborn \cap (DOMAIN account \cup DOMAIN funding)' = {}
      BY <1>1, <3>1, <3>2 DEF Unborn, TypeOK
    <3>4. \A x \in (0 .. built) \ old : x \in (0 .. built') \ unborn
      BY <1>1, <1>3, <3>2
    <3>5. ASSUME NEW u \in drafts
          PROVE  /\ u.id <= built'
                 /\ u.kind = "fund" => FundDraft(u, unborn)'
                 /\ u.kind = "settle" => SettleDraft(u, unborn)'
      <4>1. u.id <= built'
        BY <1>1, <1>3, <2>10, DraftType
      <4>2. ASSUME u.kind = "fund" PROVE FundDraft(u, unborn)'
        <5>1. FundDraft(u, old)
          BY <3>1, <4>2 DEF Unborn
        <5>2. u.input \in (0 .. built') \ unborn
          BY <3>4, <5>1 DEF FundDraft
        <5> QED
          BY <1>1, <3>2, <5>1, <5>2 DEF FundDraft, Balances
      <4>3. ASSUME u.kind = "settle" PROVE SettleDraft(u, unborn)'
        <5>1. SettleDraft(u, old)
          BY <3>1, <4>3 DEF Unborn
        <5>2. u.input # NextId
          BY <1>1, <2>12, <5>1 DEF SettleDraft
        <5> QED
          BY <1>1, <3>2, <5>1, <5>2 DEF SettleDraft
      <4> QED
        BY <4>1, <4>2, <4>3
    <3>6. tx.id <= built' /\ SettleDraft(tx, unborn)'
      BY <1>1, <1>3, <2>2, <2>3, <3>2 DEF SettleDraft
    <3>7. \A u \in drafts' : /\ u.id <= built'
                             /\ u.kind = "fund" => FundDraft(u, unborn)'
                             /\ u.kind = "settle" => SettleDraft(u, unborn)'
      <4> SUFFICES ASSUME NEW u \in drafts'
                   PROVE  /\ u.id <= built'
                          /\ u.kind = "fund" => FundDraft(u, unborn)'
                          /\ u.kind = "settle" => SettleDraft(u, unborn)'
        OBVIOUS
      <4>1. CASE u \in drafts
        BY <3>5, <4>1
      <4>2. CASE u = tx
        BY <2>3, <3>6, <4>2
      <4> QED
        BY <2>4, <4>1, <4>2
    <3>8. \A b \in App : session'[b].st = "new" =>
              /\ session'[b].input \in (0 .. built') \ unborn
              /\ session'[b].input \in DOMAIN account' => session'[b].cap = account'[session'[b].input].cap
      BY <1>1, <2>5, <3>1, <3>4 DEF Unborn
    <3>9. \A i \in settled' : rail'[i].funding \notin unborn \cup DOMAIN funding'
      BY <1>1, <2>12, <3>1, <3>2 DEF Unborn, TypeOK
    <3>10. Unborn(unborn)'
      BY <3>3, <3>7, <3>8, <3>9 DEF Unborn
    <3> QED
      BY <3>2, <3>10
  <2>14. Funded'
    <3>1. FundedChannels'
      BY <1>1, <1>3, <2>12 DEF IndInv, Funded, FundedChannels
    <3>2. \A u \in drafts' :
             u.kind = "fund" /\ u.id \in DOMAIN funding' => funding'[u.id] = u.amount
      BY <1>1, <2>3, <2>4 DEF IndInv, Funded
    <3> QED
      BY <3>1, <3>2 DEF Funded
  <2>15. Conserved'
    BY <1>1 DEF IndInv, Conserved, PaidOut, CapacityOf
  <2> QED
    BY <2>6, <2>8, <2>9, <2>11, <2>13, <2>14, <2>15 DEF IndInv
<1> QED
  BY <1>2, <1>3 DEF close, Settle

-----------------------------------------------------------------------------
(***************************************************************************)
(* The chain.                                                              *)
(***************************************************************************)
\* Cells with one more, and with one less.
LEMMA CellsAdded ==
    ASSUME NEW cells, NEW x, NEW c, x \notin DOMAIN cells
    PROVE  /\ DOMAIN AddCell(cells, x, c) = DOMAIN cells \cup {x}
           /\ AddCell(cells, x, c)[x] = c
           /\ \A y \in DOMAIN cells : AddCell(cells, x, c)[y] = cells[y]
           /\ AddCell(cells, x, c) = [y \in DOMAIN cells \cup {x} |-> AddCell(cells, x, c)[y]]
BY DEF AddCell

\* Without cell x.
LEMMA CellsRemoved ==
    ASSUME NEW cells, NEW x
    PROVE  /\ DOMAIN RemoveCell(cells, x) = DOMAIN cells \ {x}
           /\ \A y \in DOMAIN cells \ {x} : RemoveCell(cells, x)[y] = cells[y]
           /\ RemoveCell(cells, x) = [y \in DOMAIN cells \ {x} |-> RemoveCell(cells, x)[y]]
BY DEF RemoveCell

\* Replacing cell x by cell y changes the capacity held by the difference.
LEMMA CapacityReplaced ==
    ASSUME NEW cells, IsFiniteSet(DOMAIN cells), \A z \in DOMAIN cells : cells[z].cap \in Int,
           NEW x \in DOMAIN cells, NEW y, y \notin DOMAIN cells, NEW c, c.cap \in Int
    PROVE  CapacityOf(AddCell(RemoveCell(cells, x), y, c)) = CapacityOf(cells) + (c.cap - cells[x].cap)
<1> DEFINE rest == RemoveCell(cells, x)
           after == AddCell(rest, y, c)
           f == [z \in DOMAIN cells |-> cells[z].cap]
           g == [z \in DOMAIN rest |-> rest[z].cap]
           h == [z \in DOMAIN after |-> after[z].cap]
<1>1. DOMAIN rest = DOMAIN cells \ {x} /\ \A z \in DOMAIN cells \ {x} : rest[z] = cells[z]
  BY CellsRemoved
<1>2. y \notin DOMAIN rest
  BY <1>1
<1> HIDE DEF rest
<1>3. /\ DOMAIN after = DOMAIN rest \cup {y} /\ after[y] = c
      /\ \A z \in DOMAIN rest : after[z] = rest[z]
  BY <1>2 DEF AddCell
<1> HIDE DEF after
<1>4. /\ DOMAIN f = DOMAIN cells /\ DOMAIN g = DOMAIN rest /\ DOMAIN h = DOMAIN after
      /\ \A z \in DOMAIN cells : f[z] = cells[z].cap
      /\ \A z \in DOMAIN rest : g[z] = rest[z].cap
      /\ \A z \in DOMAIN after : h[z] = after[z].cap
  OBVIOUS
<1>5. IsFiniteSet(DOMAIN g)
  BY <1>1, <1>4, FS_RemoveElement
<1> HIDE DEF f, g, h
<1>6. SumFunction(f) = SumFunction(g) + f[x]
  <2>1. DOMAIN f = DOMAIN g \cup {x} /\ x \notin DOMAIN g /\ f[x] \in Int
    BY <1>1, <1>4
  <2>2. \A z \in DOMAIN g : f[z] = g[z] /\ g[z] \in Int
    BY <1>1, <1>4
  <2> QED
    BY <1>5, <2>1, <2>2, SumExtend
<1>7. SumFunction(h) = SumFunction(g) + h[y]
  <2>1. DOMAIN h = DOMAIN g \cup {y} /\ y \notin DOMAIN g /\ h[y] \in Int
    BY <1>2, <1>3, <1>4
  <2>2. \A z \in DOMAIN g : h[z] = g[z] /\ g[z] \in Int
    BY <1>1, <1>3, <1>4
  <2> QED
    BY <1>5, <2>1, <2>2, SumExtend
<1>8. SumFunction(g) \in Int /\ f[x] \in Int /\ h[y] = c.cap /\ f[x] = cells[x].cap
  <2>1. \A z \in DOMAIN g : g[z] \in Int
    BY <1>1, <1>4
  <2>2. SumFunction(g) \in Int
    BY <1>5, <2>1, SumFunctionType
  <2> QED
    BY <1>3, <1>4, <2>2
<1>9. SumFunction(h) = SumFunction(f) + (c.cap - cells[x].cap)
  BY <1>6, <1>7, <1>8
<1> QED
  BY <1>9 DEF CapacityOf, f, h, after, rest

\* A cell more is its capacity more.
LEMMA CapacityAdded ==
    ASSUME NEW cells, IsFiniteSet(DOMAIN cells), \A z \in DOMAIN cells : cells[z].cap \in Int,
           NEW y, y \notin DOMAIN cells, NEW c, c.cap \in Int
    PROVE  CapacityOf(AddCell(cells, y, c)) = CapacityOf(cells) + c.cap
<1> DEFINE after == AddCell(cells, y, c)
           f == [z \in DOMAIN cells |-> cells[z].cap]
           h == [z \in DOMAIN after |-> after[z].cap]
<1>1. /\ DOMAIN after = DOMAIN cells \cup {y} /\ after[y] = c
      /\ \A z \in DOMAIN cells : after[z] = cells[z]
  BY DEF AddCell
<1> HIDE DEF after
<1>2. /\ DOMAIN f = DOMAIN cells /\ DOMAIN h = DOMAIN cells \cup {y} /\ h[y] = c.cap
      /\ \A z \in DOMAIN f : h[z] = f[z] /\ f[z] \in Int
  BY <1>1
<1> HIDE DEF f, h
<1>3. SumFunction(h) = SumFunction(f) + h[y]
  BY <1>2, SumExtend
<1> QED
  BY <1>2, <1>3 DEF CapacityOf, f, h, after

\* The terms of the balance are integers.
LEMMA TermsType ==
    ASSUME TypeOK
    PROVE  /\ CapacityOf(account) \in Int /\ SumFunction(funding) \in Int /\ PaidOut \in Int
           /\ \A x \in DOMAIN funding : funding[x] \in Int
<1>1. CapacityOf(account) \in Int
  <2> DEFINE f == [x \in DOMAIN account |-> account[x].cap]
  <2>1. DOMAIN f = DOMAIN account /\ \A x \in DOMAIN f : f[x] \in Int
    BY CapsType
  <2> HIDE DEF f
  <2>2. SumFunction(f) \in Int
    BY <2>1, AllFinite, SumFunctionType
  <2> QED
    BY <2>2 DEF f, CapacityOf
<1>2. \A x \in DOMAIN funding : funding[x] \in Int
  BY DEF TypeOK
<1>3. SumFunction(funding) \in Int
  BY <1>2, AllFinite, SumFunctionType
<1>4. PaidOut \in Int
  <2> DEFINE f == [i \in settled |-> rail[i].remote]
  <2>1. DOMAIN f = settled /\ \A x \in DOMAIN f : f[x] \in Int
    BY RailType DEF TypeOK
  <2> HIDE DEF f
  <2>2. SumFunction(f) \in Int
    BY <2>1, AllFinite, SumFunctionType
  <2> QED
    BY <2>2 DEF f, PaidOut
<1> QED
  BY <1>1, <1>2, <1>3, <1>4

\* The funding transaction is accepted: the account cell it spends becomes the
\* change and the funding cell.
LEMMA FundStep ==
    ASSUME IndInv, NEW tx \in drafts, tx.kind = "fund", Broadcast(tx)
    PROVE  IndInv'
<1> DEFINE c == [cap |-> tx.change, empty |-> TRUE]
           x == tx.input
           y == tx.id
<1>1. /\ TypeOK /\ FundingAccepted(tx)
      /\ account' = AddCell(RemoveCell(account, x), y, c)
      /\ funding' = AddCell(funding, y, tx.amount)
      /\ UNCHANGED <<settled, session, rail, drafts, handed, built, lost>>
  BY DEF IndInv, Broadcast
<1>2. PICK old \in SUBSET (0 .. built) : Unborn(old)
  BY DEF IndInv
<1>3. /\ FundDraft(tx, old) /\ y \in Nat /\ x \in Nat /\ tx.change \in Nat /\ tx.amount \in Nat
      /\ y <= built /\ built \in Nat
  BY <1>1, <1>2, DraftType DEF Unborn, TypeOK
<1>4. /\ x \in DOMAIN account /\ x \notin old /\ y \in old /\ x # y
      /\ y \notin DOMAIN account /\ y \notin DOMAIN funding
  BY <1>1, <1>2, <1>3 DEF FundingAccepted, FundDraft, Unborn
<1>5. account[x].cap \in Nat
  BY <1>1, <1>4 DEF TypeOK, AccountCell
<1>6. tx.change + tx.amount = account[x].cap
  BY <1>1, <1>3, <1>4, <1>5 DEF FundDraft, Balances, FundingAccepted
<1> HIDE DEF c, x, y
<1>7. /\ DOMAIN account' = (DOMAIN account \ {x}) \cup {y} /\ account'[y] = c
      /\ \A z \in DOMAIN account \ {x} : account'[z] = account[z]
      /\ account' = [z \in DOMAIN account' |-> account'[z]]
  BY <1>1, <1>4 DEF AddCell, RemoveCell
<1>8. /\ DOMAIN funding' = DOMAIN funding \cup {y} /\ funding'[y] = tx.amount
      /\ \A z \in DOMAIN funding : funding'[z] = funding[z]
      /\ funding' = [z \in DOMAIN funding' |-> funding'[z]]
  BY <1>1, <1>4 DEF AddCell
<1>9. TypeOK'
  <2>1. c \in AccountCell
    BY <1>3 DEF c, AccountCell
  <2>2. \A z \in DOMAIN account' : account'[z] \in AccountCell
    BY <1>1, <1>7, <2>1 DEF TypeOK
  <2>3. account' \in [DOMAIN account' -> AccountCell]
    BY <1>7, <2>2
  <2>4. \A z \in DOMAIN funding' : funding'[z] \in Nat
    BY <1>1, <1>3, <1>8 DEF TypeOK
  <2>5. funding' \in [DOMAIN funding' -> Nat]
    BY <1>8, <2>4
  <2>6. DOMAIN account' \cup DOMAIN funding' \subseteq 0 .. built'
    BY <1>1, <1>3, <1>7, <1>8 DEF TypeOK
  <2> QED
    BY <1>1, <2>3, <2>5, <2>6 DEF TypeOK
<1>10. RailAgrees' /\ \A a \in App : SessionOwns(a)'
  BY <1>1 DEF IndInv, RailAgrees, SessionOwns
<1>11. (\A t, u \in drafts : t.id = u.id => t = u)'
  BY <1>1 DEF IndInv
<1>12. PICK unborn \in SUBSET (0 .. built) : unborn = old \ {y}
  BY <1>2
<1>13. Unborn(unborn)'
  <2>1. (unborn \cap (DOMAIN account \cup DOMAIN funding) = {})'
    BY <1>2, <1>7, <1>8, <1>12 DEF Unborn
  <2>2. \A z \in (0 .. built) \ old : z # y /\ (z \in DOMAIN account' => z \in DOMAIN account \ {x})
    BY <1>4, <1>7
  <2>3. ASSUME NEW u \in drafts
        PROVE  /\ u.kind = "fund" => FundDraft(u, unborn)'
               /\ u.kind = "settle" => SettleDraft(u, unborn)'
    <3>1. u.id = y => u = tx
      BY DEF IndInv, y
    <3>2. ASSUME u.kind = "fund" PROVE FundDraft(u, unborn)'
      <4>1. FundDraft(u, old)
        BY <1>2, <3>2 DEF Unborn
      <4>2. u.input \in (0 .. built') \ unborn
        BY <1>1, <1>12, <4>1 DEF FundDraft
      <4>3. u.id \in unborn \/ u.input \notin DOMAIN account'
        BY <1>4, <1>7, <1>12, <2>2, <3>1, <4>1 DEF FundDraft, x
      <4>4. Balances(u)'
        BY <1>7, <2>2, <4>1 DEF FundDraft, Balances
      <4> QED
        BY <1>1, <4>1, <4>2, <4>3, <4>4 DEF FundDraft
    <3>3. ASSUME u.kind = "settle" PROVE SettleDraft(u, unborn)'
      <4>1. SettleDraft(u, old) /\ u.id # y
        BY <1>2, <3>1, <3>3 DEF Unborn
      <4>2. u.id \in unborn \/ u.input \notin unborn \cup DOMAIN funding'
        BY <1>4, <1>8, <1>12, <4>1 DEF SettleDraft
      <4> QED
        BY <1>1, <4>1, <4>2 DEF SettleDraft
    <3> QED
      BY <3>2, <3>3
  <2>4. ASSUME NEW a \in App, session[a].st = "new"
        PROVE  /\ session[a].input \in (0 .. built) \ unborn
               /\ session[a].input \in DOMAIN account'
                     => session[a].cap = account'[session[a].input].cap
    BY <1>2, <1>7, <1>12, <2>2, <2>4 DEF Unborn
  <2>5. \A i \in settled : rail[i].funding \notin unborn \cup DOMAIN funding'
    BY <1>2, <1>4, <1>8, <1>12 DEF Unborn
  <2> QED
    BY <1>1, <1>2, <2>1, <2>3, <2>4, <2>5 DEF Unborn
<1>14. Funded'
  <2>1. \A i \in DOMAIN rail : rail[i].funding = y => rail[i].local + rail[i].remote = tx.amount
    BY <1>3 DEF FundDraft, y
  <2> QED
    <3>1. FundedChannels'
      BY <1>1, <1>8, <2>1 DEF IndInv, Funded, FundedChannels
    <3>2. \A u \in drafts : u.kind = "fund" /\ u.id \in DOMAIN funding' => funding'[u.id] = u.amount
      <4>1. \A u \in drafts : u.id = y => u = tx
        BY DEF IndInv, y
      <4>2. \A u \in drafts : u.kind = "fund" /\ u.id \in DOMAIN funding => funding[u.id] = u.amount
        BY DEF IndInv, Funded
      <4> QED
        BY <1>8, <4>1, <4>2
    <3> QED
      BY <1>1, <3>1, <3>2 DEF Funded
<1>15. Conserved'
  <2>1. CapacityOf(account') = CapacityOf(account) + (tx.change - account[x].cap)
    BY <1>1, <1>3, <1>4, AllFinite, CapsType, CapacityReplaced DEF c
  <2>2. SumFunction(funding') = SumFunction(funding) + tx.amount
    BY <1>1, <1>3, <1>4, <1>8, AllFinite, TermsType, SumExtend
  <2>3. PaidOut' = PaidOut
    BY <1>1 DEF PaidOut
  <2>4. CapacityOf(account) + SumFunction(funding) + PaidOut = SumFunction(Deposits)
    BY DEF IndInv, Conserved
  <2>5. CapacityOf(account) \in Int /\ SumFunction(funding) \in Int /\ PaidOut \in Int
    BY <1>1, TermsType
  <2>6. CapacityOf(account)' + SumFunction(funding)' + PaidOut' = SumFunction(Deposits)
    BY <1>3, <1>5, <1>6, <2>1, <2>2, <2>3, <2>4, <2>5 DEF CapacityOf
  <2> QED
    BY <2>6 DEF Conserved
<1> QED
  BY <1>1, <1>9, <1>10, <1>11, <1>12, <1>13, <1>14, <1>15 DEF IndInv

\* The settle transaction is accepted: the funding cell it spends becomes an
\* account cell, and the peer has the rest.
LEMMA SettleStep ==
    ASSUME IndInv, NEW tx \in drafts, tx.kind = "settle", Broadcast(tx)
    PROVE  IndInv'
<1> DEFINE c == [cap |-> tx.local, empty |-> TRUE]
           x == tx.input
           y == tx.id
           n == tx.channel
<1>1. /\ TypeOK /\ SettleAccepted(tx)
      /\ account' = AddCell(account, y, c)
      /\ funding' = RemoveCell(funding, x)
      /\ settled' = settled \cup {n}
      /\ UNCHANGED <<session, rail, drafts, handed, built, lost>>
  BY DEF IndInv, Broadcast
<1>2. PICK old \in SUBSET (0 .. built) : Unborn(old)
  BY DEF IndInv
<1>3. /\ SettleDraft(tx, old) /\ y \in Nat /\ x \in Nat /\ tx.local \in Nat
      /\ y <= built /\ built \in Nat
  BY <1>1, <1>2, DraftType DEF Unborn, TypeOK
<1>4. /\ x \in DOMAIN funding /\ x \notin old /\ y \in old
      /\ y \notin DOMAIN account /\ y \notin DOMAIN funding
  BY <1>1, <1>2, <1>3 DEF SettleAccepted, SettleDraft, Unborn
<1>5. /\ n \in DOMAIN rail /\ n \notin settled /\ rail[n].funding = x /\ rail[n].local = tx.local
      /\ rail[n].remote \in Nat
      /\ funding[x] = tx.local + rail[n].remote
  <2>1. n \in DOMAIN rail /\ rail[n].funding = x /\ rail[n].local = tx.local
    BY <1>3 DEF SettleDraft
  <2>2. n \notin settled
    BY <1>2, <1>4, <2>1 DEF Unborn
  <2>3. funding[x] = tx.local + rail[n].remote
    BY <1>4, <2>1 DEF IndInv, Funded, FundedChannels
  <2> QED
    BY <1>1, <2>1, <2>2, <2>3, RailType
<1>6. \A a \in App : session[a].st = "open" => session[a].channel # n
  BY DEF IndInv, SessionOwns
<1> HIDE DEF c, x, y, n
<1>7. /\ DOMAIN account' = DOMAIN account \cup {y} /\ account'[y] = c
      /\ \A z \in DOMAIN account : account'[z] = account[z]
      /\ account' = [z \in DOMAIN account' |-> account'[z]]
  BY <1>1, <1>4 DEF AddCell
<1>8. /\ DOMAIN funding' = DOMAIN funding \ {x}
      /\ \A z \in DOMAIN funding \ {x} : funding'[z] = funding[z]
      /\ funding' = [z \in DOMAIN funding' |-> funding'[z]]
  BY <1>1 DEF RemoveCell
<1>9. TypeOK'
  <2>1. c \in AccountCell
    BY <1>3 DEF c, AccountCell
  <2>2. \A z \in DOMAIN account' : account'[z] \in AccountCell
    BY <1>1, <1>7, <2>1 DEF TypeOK
  <2>3. account' \in [DOMAIN account' -> AccountCell]
    BY <1>7, <2>2
  <2>4. \A z \in DOMAIN funding' : funding'[z] \in Nat
    BY <1>1, <1>8 DEF TypeOK
  <2>5. funding' \in [DOMAIN funding' -> Nat]
    BY <1>8, <2>4
  <2>6. DOMAIN account' \cup DOMAIN funding' \subseteq 0 .. built'
    BY <1>1, <1>3, <1>7, <1>8 DEF TypeOK
  <2>7. settled' \subseteq DOMAIN rail'
    BY <1>1, <1>5 DEF TypeOK
  <2> QED
    BY <1>1, <2>3, <2>5, <2>6, <2>7 DEF TypeOK
<1>10. RailAgrees'
  BY <1>1 DEF IndInv, RailAgrees
<1>11. ASSUME NEW a \in App PROVE SessionOwns(a)'
  BY <1>1, <1>6 DEF IndInv, SessionOwns
<1>12. (\A t, u \in drafts : t.id = u.id => t = u)'
  BY <1>1 DEF IndInv
<1>13. PICK unborn \in SUBSET (0 .. built) : unborn = old \ {y}
  BY <1>2
<1>14. Unborn(unborn)'
  <2>1. (unborn \cap (DOMAIN account \cup DOMAIN funding) = {})'
    BY <1>2, <1>7, <1>8, <1>13 DEF Unborn
  <2>2. \A z \in (0 .. built) \ old : z # y /\ (z \in DOMAIN account' => z \in DOMAIN account)
    BY <1>4, <1>7
  <2>3. ASSUME NEW u \in drafts
        PROVE  /\ u.kind = "fund" => FundDraft(u, unborn)'
               /\ u.kind = "settle" => SettleDraft(u, unborn)'
    <3>1. u.id = y => u = tx
      BY DEF IndInv, y
    <3>2. ASSUME u.kind = "fund" PROVE FundDraft(u, unborn)'
      <4>1. FundDraft(u, old) /\ u.id # y
        BY <1>2, <3>1, <3>2 DEF Unborn
      <4>2. u.input \in (0 .. built') \ unborn
        BY <1>1, <1>13, <4>1 DEF FundDraft
      <4>3. u.id \in unborn \/ u.input \notin DOMAIN account'
        BY <1>7, <1>13, <2>2, <4>1 DEF FundDraft
      <4>4. Balances(u)'
        BY <1>7, <2>2, <4>1 DEF FundDraft, Balances
      <4> QED
        BY <1>1, <4>1, <4>2, <4>3, <4>4 DEF FundDraft
    <3>3. ASSUME u.kind = "settle" PROVE SettleDraft(u, unborn)'
      <4>1. SettleDraft(u, old)
        BY <1>2, <3>3 DEF Unborn
      <4>2. u.id \in unborn \/ u.input \notin unborn \cup DOMAIN funding'
        BY <1>4, <1>8, <1>13, <3>1, <4>1 DEF SettleDraft, x
      <4> QED
        BY <1>1, <4>1, <4>2 DEF SettleDraft
    <3> QED
      BY <3>2, <3>3
  <2>4. ASSUME NEW a \in App, session[a].st = "new"
        PROVE  /\ session[a].input \in (0 .. built) \ unborn
               /\ session[a].input \in DOMAIN account'
                     => session[a].cap = account'[session[a].input].cap
    BY <1>2, <1>7, <1>13, <2>2, <2>4 DEF Unborn
  <2>5. \A i \in settled' : rail[i].funding \notin unborn \cup DOMAIN funding'
    BY <1>1, <1>2, <1>4, <1>5, <1>8, <1>13 DEF Unborn
  <2> QED
    BY <1>1, <1>2, <2>1, <2>3, <2>4, <2>5 DEF Unborn
<1>15. Funded'
  BY <1>1, <1>8 DEF IndInv, Funded, FundedChannels
<1>16. Conserved'
  <2>1. CapacityOf(account') = CapacityOf(account) + tx.local
    BY <1>1, <1>3, <1>4, AllFinite, CapsType, CapacityAdded DEF c
  <2>0. IsFiniteSet(DOMAIN funding')
    <3>1. IsFiniteSet(DOMAIN funding \ {x})
      BY <1>1, AllFinite, FS_RemoveElement
    <3> QED
      BY <1>8, <3>1
  <2>2. SumFunction(funding) = SumFunction(funding') + funding[x]
    <3>1. x \notin DOMAIN funding' /\ DOMAIN funding = DOMAIN funding' \cup {x}
      BY <1>4, <1>8
    <3>2. \A z \in DOMAIN funding' : funding[z] = funding'[z] /\ funding'[z] \in Int
      BY <1>1, <1>8, TermsType
    <3>3. funding[x] \in Int
      BY <1>1, <1>4, TermsType
    <3> QED
      BY <2>0, <3>1, <3>2, <3>3, SumExtend
  <2>3. PaidOut' = PaidOut + rail[n].remote
    <3> DEFINE f == [i \in settled |-> rail[i].remote]
               g == [i \in settled' |-> rail[i].remote]
    <3>1. /\ DOMAIN f = settled /\ DOMAIN g = settled \cup {n} /\ n \notin DOMAIN f
          /\ g[n] = rail[n].remote /\ g[n] \in Int
          /\ \A i \in DOMAIN f : g[i] = f[i] /\ f[i] \in Int
      BY <1>1, <1>5, RailType DEF TypeOK
    <3>2. IsFiniteSet(DOMAIN f)
      BY <1>1, <3>1, AllFinite
    <3> HIDE DEF f, g
    <3>3. SumFunction(g) = SumFunction(f) + g[n]
      BY <3>1, <3>2, SumExtend
    <3> QED
      BY <1>1, <3>1, <3>3 DEF f, g, PaidOut
  <2>4. CapacityOf(account) + SumFunction(funding) + PaidOut = SumFunction(Deposits)
    BY DEF IndInv, Conserved
  <2>5. CapacityOf(account) \in Int /\ SumFunction(funding) \in Int /\ PaidOut \in Int
    BY <1>1, TermsType
  <2>6. SumFunction(funding') \in Int
    <3>1. \A z \in DOMAIN funding' : funding'[z] \in Int
      BY <1>1, <1>8, TermsType
    <3> QED
      BY <2>0, <3>1, SumFunctionType
  <2>7. CapacityOf(account)' + SumFunction(funding)' + PaidOut' = SumFunction(Deposits)
    BY <1>3, <1>5, <2>1, <2>2, <2>3, <2>4, <2>5, <2>6 DEF CapacityOf
  <2> QED
    BY <2>7 DEF Conserved
<1> QED
  BY <1>1, <1>9, <1>10, <1>11, <1>12, <1>13, <1>14, <1>15, <1>16 DEF IndInv

\* The owner rewrites an account cell: its out point is a new one.
LEMMA OwnerStep ==
    ASSUME IndInv, NEW x \in DOMAIN account, NEW e \in BOOLEAN, OwnerRewrites(x, e)
    PROVE  IndInv'
<1> DEFINE c == [account[x] EXCEPT !.empty = e]
           y == NextId
<1>1. /\ TypeOK /\ built' = y
      /\ account' = AddCell(RemoveCell(account, x), y, c)
      /\ UNCHANGED <<funding, settled, session, rail, drafts, handed, lost>>
  BY DEF IndInv, OwnerRewrites
<1>2. /\ built \in Nat /\ y \in Nat /\ y > built
      /\ DOMAIN account \subseteq 0 .. built /\ DOMAIN funding \subseteq 0 .. built
      /\ x \in DOMAIN account /\ y \notin DOMAIN account /\ x # y
  BY <1>1 DEF NextId, TypeOK
<1>3. c \in AccountCell /\ c.cap = account[x].cap /\ c.cap \in Int
  <2>1. account[x] \in AccountCell
    BY <1>1, CapsType
  <2> QED
    BY <2>1 DEF AccountCell
<1> HIDE DEF c, y
<1>4. /\ DOMAIN account' = (DOMAIN account \ {x}) \cup {y} /\ account'[y] = c
      /\ \A z \in DOMAIN account \ {x} : account'[z] = account[z]
      /\ account' = [z \in DOMAIN account' |-> account'[z]]
  BY <1>1, <1>2 DEF AddCell, RemoveCell
<1>5. TypeOK'
  <2>1. \A z \in DOMAIN account' : account'[z] \in AccountCell
    BY <1>1, <1>3, <1>4 DEF TypeOK
  <2>2. account' \in [DOMAIN account' -> AccountCell]
    BY <1>4, <2>1
  <2>3. DOMAIN account' \cup DOMAIN funding' \subseteq 0 .. built'
    BY <1>1, <1>2, <1>4
  <2> QED
    BY <1>1, <1>2, <2>2, <2>3 DEF TypeOK
<1>6. RailAgrees' /\ \A a \in App : SessionOwns(a)'
  BY <1>1 DEF IndInv, RailAgrees, SessionOwns
<1>7. (\A t, u \in drafts : t.id = u.id => t = u)'
  BY <1>1 DEF IndInv
<1>8. PICK unborn \in SUBSET (0 .. built) : Unborn(unborn)
  BY DEF IndInv
<1>9. Unborn(unborn)'
  <2>1. (unborn \cap (DOMAIN account \cup DOMAIN funding) = {})'
    BY <1>1, <1>2, <1>4, <1>8 DEF Unborn
  <2>2. \A z \in (0 .. built) \ unborn :
            /\ z \in (0 .. built') \ unborn
            /\ z \in DOMAIN account' => z \in DOMAIN account \ {x}
    BY <1>1, <1>2, <1>4
  <2>3. ASSUME NEW u \in drafts
        PROVE  /\ u.id <= built'
               /\ u.kind = "fund" => FundDraft(u, unborn)'
               /\ u.kind = "settle" => SettleDraft(u, unborn)'
    <3>1. u.id <= built'
      BY <1>1, <1>2, <1>8, DraftType DEF Unborn
    <3>2. u.kind = "fund" => FundDraft(u, unborn)'
      BY <1>1, <1>4, <1>8, <2>2 DEF Unborn, FundDraft, Balances
    <3>3. u.kind = "settle" => SettleDraft(u, unborn)'
      BY <1>1, <1>8 DEF Unborn, SettleDraft
    <3> QED
      BY <3>1, <3>2, <3>3
  <2>4. ASSUME NEW a \in App, session[a].st = "new"
        PROVE  /\ session[a].input \in (0 .. built') \ unborn
               /\ session[a].input \in DOMAIN account'
                     => session[a].cap = account'[session[a].input].cap
    BY <1>4, <1>8, <2>2, <2>4 DEF Unborn
  <2> QED
    BY <1>1, <1>8, <2>1, <2>3, <2>4 DEF Unborn
<1>10. unborn \in SUBSET (0 .. built')
  BY <1>1, <1>2
<1>11. Funded'
  BY <1>1, <1>2, RailType DEF IndInv, Funded, FundedChannels
<1>12. Conserved'
  <2>1. CapacityOf(account') = CapacityOf(account) + (c.cap - account[x].cap)
    BY <1>1, <1>2, <1>3, AllFinite, CapsType, CapacityReplaced
  <2>2. CapacityOf(account') = CapacityOf(account)
    BY <1>1, <1>3, <2>1, TermsType
  <2> QED
    BY <1>1, <2>2 DEF IndInv, Conserved, PaidOut, CapacityOf
<1> QED
  BY <1>5, <1>6, <1>7, <1>9, <1>10, <1>11, <1>12 DEF IndInv

-----------------------------------------------------------------------------
(***************************************************************************)
(* The theorems.                                                           *)
(***************************************************************************)
\* The invariant the theorems below rest on: no call of an app, no broadcast
\* and no step of the owner leaves it.
THEOREM Inductive == Spec => []IndInv
<1>1. IndInv /\ [Next]_vars => IndInv'
  <2> SUFFICES ASSUME IndInv, [Next]_vars PROVE IndInv'
    OBVIOUS
  <2>1. ASSUME NEW a \in App, NEW x \in DOMAIN account, new(a, x) PROVE IndInv'
    <3>1. TypeOK /\ lost \in 0 .. MAX_LOST
      BY DEF IndInv, TypeOK
    <3>2. PICK s : s = [st |-> "new", input |-> x, cap |-> account[x].cap]
      OBVIOUS
    <3>3. x \in Nat /\ account[x].cap \in Nat
      BY <3>1 DEF TypeOK, AccountCell
    <3>4. s \in ChannelSession /\ s.st = "new" /\ s.input = x /\ s.cap = account[x].cap
      BY <3>2, <3>3 DEF ChannelSession
    <3>5. /\ session' = [session EXCEPT ![a] = s]
          /\ UNCHANGED <<chain, rail, drafts, handed, built, lost>>
      BY <2>1, <3>2 DEF new
    <3> QED
      BY <2>1, <3>1, <3>4, <3>5, SessionStep
  <2>2. ASSUME NEW a \in App, NEW b \in Budget, open(a, b) PROVE IndInv'
    BY <2>2, OpenStep
  <2>3. ASSUME NEW a \in App, NEW n \in Amount, pay(a, n) PROVE IndInv'
    BY <2>3, PayStep
  <2>4. ASSUME NEW a \in App, close(a) PROVE IndInv'
    BY <2>4, CloseStep
  <2>5. ASSUME NEW a \in App, Drop(a) PROVE IndInv'
    <3>1. NoSession \in ChannelSession /\ NoSession.st = "none" /\ lost \in 0 .. MAX_LOST
      BY DEF NoSession, ChannelSession, IndInv, TypeOK
    <3> QED
      BY <2>5, <3>1, SessionStep DEF Drop
  <2>6. ASSUME NEW tx \in handed, Broadcast(tx) PROVE IndInv'
    <3>1. tx \in drafts
      BY DEF IndInv, TypeOK
    <3> QED
      BY <2>6, <3>1, FundStep, SettleStep DEF Broadcast
  <2>7. ASSUME NEW x \in DOMAIN account, NEW e \in BOOLEAN, OwnerRewrites(x, e) PROVE IndInv'
    BY <2>7, OwnerStep
  <2>8. CASE UNCHANGED vars
    <3>1. UNCHANGED <<account, funding, settled, session, rail, drafts, handed, built, lost>>
      BY <2>8 DEF vars, chain
    <3>2. TypeOK' /\ RailAgrees' /\ Funded' /\ Conserved'
      BY <3>1 DEF IndInv, TypeOK, RailAgrees, Funded, FundedChannels, Conserved, CapacityOf, PaidOut
    <3>3. \A a \in App : SessionOwns(a)'
      BY <3>1 DEF IndInv, SessionOwns
    <3>4. (\E unborn \in SUBSET (0 .. built) : Unborn(unborn))'
      <4>1. PICK unborn \in SUBSET (0 .. built) : Unborn(unborn)
        BY DEF IndInv
      <4>2. Unborn(unborn)'
        BY <3>1, <4>1 DEF Unborn, FundDraft, SettleDraft, Balances
      <4> QED
        BY <3>1, <4>2
    <3>5. (\A t, u \in drafts : t.id = u.id => t = u)'
      BY <3>1 DEF IndInv
    <3> QED
      BY <3>2, <3>3, <3>4, <3>5 DEF IndInv
  <2> QED
    BY <2>1, <2>2, <2>3, <2>4, <2>5, <2>6, <2>7, <2>8 DEF Next
<1> QED
  BY <1>1, InitIndInv, PTL DEF Spec

\* Cells, sessions, channels and transactions keep their layouts.
THEOREM TypeCorrect == Spec => []TypeOK
<1>1. IndInv => TypeOK
  BY DEF IndInv
<1> QED
  BY <1>1, Inductive, PTL

\* ChannelSession.pay (channel.rs) counts what the rail has moved: with no
\* answer lost exactly that, and never more than the budget.
THEOREM SessionAgreesWithRail == Spec => []RailAgrees
<1>1. IndInv => RailAgrees
  BY DEF IndInv
<1> QED
  BY <1>1, Inductive, PTL

\* open and close (channel.rs) build transactions that neither lose nor mint
\* capacity, in whatever order and however often callers broadcast them.
THEOREM CapacityConserved == Spec => []Conserved
<1>1. IndInv => Conserved
  BY DEF IndInv
<1> QED
  BY <1>1, Inductive, PTL
=============================================================================
