------------------------------ MODULE Operator ------------------------------
(***************************************************************************)
(* The game operator (paymaster-service: operator.rs and the game-operator *)
(* server) between the players' pages (sdk-js GamePlayer driven by         *)
(* demo/src/game.ts) and a CKB node.  One request is served at a time, so  *)
(* a handler is one step; what interleaves is the players, their polls and *)
(* the node.                                                               *)
(*                                                                         *)
(* Every cell the node ever accepted for this game has a number, its index *)
(* in `accepted`; that number stands for the out point.  The node holds    *)
(* one committed cell and a chain of pooled transactions on top of it.     *)
(* What can go wrong is drawn from `budget`, so that each run says which   *)
(* faults it has and how many.                                             *)
(***************************************************************************)
EXTENDS GameRules, Integers

CONSTANTS
    Game,        \* this game's id
    POINTS,      \* points a click scores
    MOVES,       \* clicks that count, per player: bounds the run
    FEE,         \* shannons a transition pays by shrinking the game cell
    CAPACITY,    \* capacity of the genesis cell
    OCCUPIED,    \* occupied capacity of an empty board
    PER_PLAYER,  \* occupied capacity of one entry
    GROWTH,      \* capacity `game grow` adds
    MAX_QUEUE,   \* intents an embedding queues between flushes: bounds the run
    Faults       \* how often each fault may happen

FaultKind == {"lost", "unreachable", "unanswered", "restart", "evict", "grow"}

ASSUME OperatorAssumption ==
    /\ Game \in GameId
    /\ POINTS \in U64
    /\ MOVES \in [Player -> Nat]
    /\ {FEE, CAPACITY, OCCUPIED, PER_PLAYER, GROWTH, MAX_QUEUE} \subseteq Nat
    /\ Faults \in [FaultKind -> Nat]

VARIABLES
    accepted,   \* cells the node has accepted, in order
    committed,  \* number of the committed cell
    pool,       \* numbers of the pooled cells that follow it
    tip,        \* the operator's GameTip
    mempool,    \* its pending intents
    logged,     \* score events in the results log, by transaction
    player,     \* per player: the page's GamePlayer and what it is doing
    post,       \* per player: the request the page awaits
    orphans,    \* per player: nonces of queued requests nobody awaits
    acks,       \* history: moves answered 200, per player
    budget      \* faults left

node == <<accepted, committed, pool>>
operator == <<tip, mempool, logged>>
pages == <<player, post, orphans, acks>>
vars == <<node, operator, pages, budget>>

GameCell == [state : GameState, cap : Nat, batch : Seq(Intent)]
GameTip == [out_point : Nat, state : GameState, cap : Nat]
NoSnap == -1

TypeOK ==
    /\ accepted \in Seq(GameCell)
    /\ committed \in DOMAIN accepted
    /\ pool \in Seq(DOMAIN accepted)
    /\ tip \in GameTip
    /\ mempool \in Seq(Intent)
    /\ logged \subseteq DOMAIN accepted
    /\ player \in [Player -> [nonce : Int, pc : {"idle", "moving", "refresh"},
                              snap : {NoSnap} \cup U64]]
    /\ post \in [Player -> [st : {"none", "queued", "ok", "err"}, nonce : U64]]
    /\ orphans \in [Player -> SUBSET U64]
    /\ acks \in [Player -> Nat]
    /\ budget \in [FaultKind -> Nat]

NoPost == [st |-> "none", nonce |-> 0]
Genesis == [state |-> EmptyState, cap |-> CAPACITY, batch |-> << >>]

Init ==
    /\ accepted = <<Genesis>>
    /\ committed = 1
    /\ pool = << >>
    /\ tip = [out_point |-> 1, state |-> EmptyState, cap |-> CAPACITY]
    /\ mempool = << >>
    /\ logged = {}
    /\ player = [p \in Player |-> [nonce |-> 0, pc |-> "idle", snap |-> NoSnap]]
    /\ post = [p \in Player |-> NoPost]
    /\ orphans = [p \in Player |-> {}]
    /\ acks = [p \in Player |-> 0]
    /\ budget = Faults

Fault(kind) ==
    /\ budget[kind] > 0
    /\ budget' = [budget EXCEPT ![kind] = @ - 1]

NonceOn(s, p) == IF HasPlayer(s, p) THEN s.players[PlayerIndex(s, p)].nonce ELSE 0

-----------------------------------------------------------------------------
(***************************************************************************)
(* The node.                                                               *)
(***************************************************************************)
newest == IF pool = << >> THEN committed ELSE pool[Len(pool)]

Occupied(s) == OCCUPIED + PER_PLAYER * Len(s.players)

\* A transition is accepted when it spends the newest cell, every intent is
\* signed for this game, the batch decodes and the output can hold its data.
NodeAccepts(out_point, cap, s, batch) ==
    /\ out_point = newest
    /\ cap >= Occupied(s)
    /\ BatchDecodes(batch)
    /\ \A i \in DOMAIN batch :
         batch[i].sig =
           intent_message(Game, batch[i].hash, batch[i].points, batch[i].nonce)

\* send_transaction, as the node sees it.
Accept(cap, s, batch) ==
    /\ accepted' = Append(accepted, [state |-> s, cap |-> cap, batch |-> batch])
    /\ pool' = Append(pool, Len(accepted) + 1)
    /\ UNCHANGED committed

\* A block takes the oldest pooled transition.
Commit ==
    /\ pool # << >>
    /\ committed' = Head(pool)
    /\ pool' = Tail(pool)
    /\ UNCHANGED <<accepted, operator, pages, budget>>

\* The node forgets its pool (restart, expiry).
Evict ==
    /\ pool # << >>
    /\ Fault("evict")
    /\ pool' = << >>
    /\ UNCHANGED <<accepted, committed, operator, pages>>

\* `game grow`: somebody else spends the live cell with an empty batch.
Grow ==
    /\ newest = committed
    /\ Fault("grow")
    /\ Accept(accepted[committed].cap + GROWTH, accepted[committed].state, << >>)
    /\ UNCHANGED <<operator, pages>>

-----------------------------------------------------------------------------
(***************************************************************************)
(* GameOperator.                                                           *)
(***************************************************************************)
\* Variant of CanSubmit: checked against the tip, not the projected board.
CanSubmitTip(intent) == CanApply(tip.state, intent)

\* submit: the intent applies after the ones already queued.
CanSubmit(intent) ==
    LET projected == apply_batch(tip.state, mempool)
    IN  projected.ok /\ CanApply(projected.state, intent)

\* submit() by a program that embeds GameOperator and flushes on its own terms,
\* as the crate's tests do; the server always flushes at once.
submit(intent) ==
    /\ Len(mempool) < MAX_QUEUE
    /\ CanSubmit(intent)
    /\ mempool' = Append(mempool, intent)
    /\ UNCHANGED <<node, tip, logged, pages, budget>>

\* build_transition: the queue applies and the cell can pay the fee.
Builds(batch) ==
    /\ batch # << >>
    /\ apply_batch(tip.state, batch).ok
    /\ tip.cap >= FEE

next_state(batch) == apply_batch(tip.state, batch).state

SendAccepted(batch) ==
    NodeAccepts(tip.out_point, tip.cap - FEE, next_state(batch), batch)

\* Variants of FlushDone: the fee is not taken off the tip's capacity; the tip
\* keeps its out point.
FlushDoneKeepsCapacity(batch) ==
    /\ Builds(batch)
    /\ SendAccepted(batch)
    /\ Accept(tip.cap - FEE, next_state(batch), batch)
    /\ tip' = [out_point |-> Len(accepted) + 1, state |-> next_state(batch), cap |-> tip.cap]
    /\ mempool' = << >>
    /\ UNCHANGED budget

FlushDoneKeepsOutPoint(batch) ==
    /\ Builds(batch)
    /\ SendAccepted(batch)
    /\ Accept(tip.cap - FEE, next_state(batch), batch)
    /\ tip' = [tip EXCEPT !.state = next_state(batch), !.cap = tip.cap - FEE]
    /\ mempool' = << >>
    /\ UNCHANGED budget

\* flush: broadcast, advance the tip, drain the queue.
FlushDone(batch) ==
    /\ Builds(batch)
    /\ SendAccepted(batch)
    /\ Accept(tip.cap - FEE, next_state(batch), batch)
    /\ tip' = [out_point |-> Len(accepted) + 1, state |-> next_state(batch), cap |-> tip.cap - FEE]
    /\ mempool' = << >>
    /\ UNCHANGED budget

\* Empty, Game or Finalize: nothing was broadcast and the queue stays.
FlushNotBuilt(batch) ==
    /\ ~ Builds(batch)
    /\ mempool' = batch
    /\ UNCHANGED <<node, tip, budget>>

\* The node says no, or cannot be reached: flush_or_shed drops the queue.
FlushShed(batch) ==
    /\ Builds(batch)
    /\ \/ ~ SendAccepted(batch) /\ UNCHANGED budget
       \/ Fault("unreachable")
    /\ mempool' = << >>
    /\ UNCHANGED <<node, tip>>

\* The node accepts and the answer does not arrive: an Rpc error all the same.
FlushUnanswered(batch) ==
    /\ Builds(batch)
    /\ SendAccepted(batch)
    /\ Fault("unanswered")
    /\ Accept(tip.cap - FEE, next_state(batch), batch)
    /\ mempool' = << >>
    /\ UNCHANGED tip

\* Variants of handle_intent: the event is logged before the flush, and a
\* failed flush is answered 200.
handle_intent_logs_first(intent, status) ==
    \/ /\ ~ CanSubmit(intent)
       /\ status = "err"
       /\ UNCHANGED <<node, operator, budget>>
    \/ /\ CanSubmit(intent)
       /\ logged' = logged \cup {Len(accepted) + 1}
       /\ LET batch == Append(mempool, intent)
          IN  \/ FlushDone(batch) /\ status = "ok"
              \/ /\ FlushNotBuilt(batch) \/ FlushShed(batch) \/ FlushUnanswered(batch)
                 /\ status = "err"

handle_intent_always_ok(intent, status) ==
    \/ /\ ~ CanSubmit(intent)
       /\ status = "err"
       /\ UNCHANGED <<node, operator, budget>>
    \/ /\ CanSubmit(intent)
       /\ status = "ok"
       /\ LET batch == Append(mempool, intent)
          IN  FlushDone(batch) \/ FlushNotBuilt(batch) \/ FlushShed(batch) \/ FlushUnanswered(batch)
       /\ UNCHANGED logged

\* POST /intent: submit, then flush; a success is logged.  `status` is what
\* the answer says.
handle_intent(intent, status) ==
    \/ /\ ~ CanSubmit(intent)
       /\ status = "err"
       /\ UNCHANGED <<node, operator, budget>>
    \/ /\ CanSubmit(intent)
       /\ LET batch == Append(mempool, intent)
          IN  \/ /\ FlushDone(batch)
                 /\ logged' = logged \cup {Len(accepted) + 1}
                 /\ status = "ok"
              \/ /\ FlushNotBuilt(batch) \/ FlushShed(batch) \/ FlushUnanswered(batch)
                 /\ status = "err"
                 /\ UNCHANGED logged

\* POST /flush.
handle_flush ==
    /\ FlushDone(mempool) \/ FlushNotBuilt(mempool) \/ FlushShed(mempool) \/ FlushUnanswered(mempool)
    /\ UNCHANGED <<logged, pages>>

\* What player p signs; sig over anything else is a forgery.
SignedIntent(p, nonce) ==
    [hash |-> p, points |-> POINTS, nonce |-> nonce,
     sig |-> intent_message(Game, p, POINTS, nonce)]

ForgedIntent(p, nonce) ==
    [SignedIntent(p, nonce) EXCEPT !.sig = intent_message(Game, p, POINTS, 0)]

\* A page's request is served.
ServePost(p) ==
    /\ post[p].st = "queued"
    /\ \E status \in {"ok", "err"} :
         /\ handle_intent(SignedIntent(p, post[p].nonce), status)
         /\ post' = [post EXCEPT ![p].st = status]
         /\ acks' = [acks EXCEPT ![p] = IF status = "ok" THEN @ + 1 ELSE @]
    /\ UNCHANGED <<player, orphans>>

\* A request whose page has given up is served all the same.
ServeOrphan(p, nonce) ==
    /\ nonce \in orphans[p]
    /\ \E status \in {"ok", "err"} :
         /\ handle_intent(SignedIntent(p, nonce), status)
         /\ acks' = [acks EXCEPT ![p] = IF status = "ok" THEN @ + 1 ELSE @]
    /\ orphans' = [orphans EXCEPT ![p] = @ \ {nonce}]
    /\ UNCHANGED <<player, post>>

\* Somebody posts an intent under p's hash that p did not sign.
ServeForged(p, nonce) ==
    /\ handle_intent(ForgedIntent(p, nonce), "err")
    /\ UNCHANGED pages

\* The operator starts again: queue and open requests are gone and the tip is
\* the live cell the indexer knows, the committed one.
Restart ==
    /\ Fault("restart")
    /\ tip' = [out_point |-> committed, state |-> accepted[committed].state,
               cap |-> accepted[committed].cap]
    /\ mempool' = << >>
    /\ post' = [p \in Player |->
                  IF post[p].st = "queued" THEN [post[p] EXCEPT !.st = "err"] ELSE post[p]]
    /\ orphans' = [p \in Player |-> {}]
    /\ UNCHANGED <<node, logged, player, acks>>

-----------------------------------------------------------------------------
(***************************************************************************)
(* A player's page.                                                        *)
(***************************************************************************)
\* move(): count up and post; BigInt to u64 wraps.  The button stays disabled
\* until the page is idle again.
Move(p) ==
    /\ player[p].pc = "idle"
    /\ player[p].nonce < MOVES[p]
    /\ player' = [player EXCEPT ![p].nonce = @ + 1, ![p].pc = "moving"]
    /\ post' = [post EXCEPT ![p] =
                  [st |-> "queued", nonce |-> (player[p].nonce + 1) % (U64_MAX + 1)]]
    /\ UNCHANGED <<node, operator, orphans, acks, budget>>

\* The answer arrives; an error rolls the nonce back.
Answered(p) ==
    /\ post[p].st \in {"ok", "err"}
    /\ player' = [player EXCEPT ![p].nonce = IF post[p].st = "ok" THEN @ ELSE @ - 1,
                                ![p].pc = "refresh"]
    /\ post' = [post EXCEPT ![p] = NoPost]
    /\ UNCHANGED <<node, operator, orphans, acks, budget>>

\* The connection breaks: fetch throws, whatever the operator did or will do.
ConnectionLost(p) ==
    /\ post[p].st # "none"
    /\ Fault("lost")
    /\ player' = [player EXCEPT ![p].nonce = @ - 1, ![p].pc = "refresh"]
    /\ orphans' = [orphans EXCEPT ![p] =
                     IF post[p].st = "queued" THEN @ \cup {post[p].nonce} ELSE @]
    /\ post' = [post EXCEPT ![p] = NoPost]
    /\ UNCHANGED <<node, operator, acks>>

\* Variant of Synced: the board is ignored.
NeverSynced(nonce, onBoard) == nonce

\* syncNonce: only a player who is on the board takes the board's nonce.
Synced(nonce, onBoard) == IF onBoard = 0 THEN nonce ELSE onBoard

\* `finally`: refresh before the button works again.  A board that cannot be
\* fetched is null, and the nonce stays.
Refresh(p) ==
    /\ player[p].pc = "refresh"
    /\ \/ /\ player' = [player EXCEPT ![p].nonce = Synced(@, NonceOn(tip.state, p)), ![p].pc = "idle"]
          /\ UNCHANGED budget
       \/ /\ Fault("lost")
          /\ player' = [player EXCEPT ![p].pc = "idle"]
    /\ UNCHANGED <<node, operator, post, orphans, acks>>

\* The 1.5 s timer: GET /game now, syncNonce when the answer arrives.
PollBoard(p) ==
    /\ player[p].snap = NoSnap
    /\ player' = [player EXCEPT ![p].snap = NonceOn(tip.state, p)]
    /\ UNCHANGED <<node, operator, post, orphans, acks, budget>>

PollSync(p) ==
    /\ player[p].snap # NoSnap
    /\ player' = [player EXCEPT ![p].nonce = Synced(@, player[p].snap), ![p].snap = NoSnap]
    /\ UNCHANGED <<node, operator, post, orphans, acks, budget>>

Next ==
    \/ Commit
    \/ Evict
    \/ Grow
    \/ Restart
    \/ handle_flush
    \/ \E p \in Player :
         \/ ServePost(p)
         \/ \E nonce \in U64 : ServeOrphan(p, nonce)
         \/ \E nonce \in U64 : ServeForged(p, nonce)
         \/ \E nonce \in U64 \cap (1 .. MOVES[p]) :
              submit(SignedIntent(p, nonce)) \/ submit(ForgedIntent(p, nonce))
         \/ Move(p)
         \/ Answered(p)
         \/ ConnectionLost(p)
         \/ Refresh(p)
         \/ PollBoard(p)
         \/ PollSync(p)

Spec == Init /\ [][Next]_vars

\* The server loop serves what is queued, the node makes blocks, a page's
\* promises settle and its button is clicked again.
Fairness ==
    /\ WF_vars(Commit)
    /\ \A p \in Player :
         /\ WF_vars(ServePost(p))
         /\ WF_vars(\E nonce \in U64 : ServeOrphan(p, nonce))
         /\ WF_vars(Move(p))
         /\ WF_vars(Answered(p))
         /\ WF_vars(Refresh(p))
         /\ WF_vars(PollSync(p))

FairSpec == Spec /\ Fairness
-----------------------------------------------------------------------------
(***************************************************************************)
(* Properties.                                                             *)
(***************************************************************************)
\* The queue applies to the tip, so no flush is doomed by what submit let in,
\* as long as seq has room for it.
MempoolApplies ==
    tip.state.seq + Len(mempool) <= U64_MAX => apply_batch(tip.state, mempool).ok

\* The tip is a cell the node accepted, with that cell's board and capacity,
\* after any restarts, lost answers and evictions.
TipIsReal ==
    /\ tip.out_point \in DOMAIN accepted
    /\ tip.state = accepted[tip.out_point].state
    /\ tip.cap = accepted[tip.out_point].cap

Undisturbed ==
    \A kind \in {"unanswered", "restart", "evict", "grow"} : budget[kind] = Faults[kind]

\* While no answer of the node was lost and nobody else touched the cell, the
\* operator builds on the newest cell: forged intents, unreachable nodes and
\* lost connections never leave it behind.
InSync == Undisturbed => tip.out_point = newest

\* Each move answered 200 is one of the moves counted on the newest board, if
\* the node kept its pool.
AckedCounted ==
    budget["evict"] = Faults["evict"] =>
        \A p \in Player : acks[p] <= NonceOn(accepted[newest].state, p)

\* The inductive invariant.  InSync and AckedCounted hold while a fault has not
\* happened, and no fault happens more often than it may.
IndInv ==
    /\ TypeOK
    /\ \A kind \in FaultKind : budget[kind] <= Faults[kind]
    /\ MempoolApplies
    /\ TipIsReal
    /\ InSync
    /\ AckedCounted

\* Every player's clicks end up on the committed board, in spite of lost
\* connections, stale polls, forged intents and an unreachable node.
MovesLand == <>(\A p \in Player : NonceOn(accepted[committed].state, p) >= MOVES[p])
=============================================================================
