# A TLA+ development of ckb-controller

ckb-controller is a session-key controller for games on CKB: an owner approves a
session key once, and from then on the game signs by itself within limits that
scripts on the chain enforce.  *State* moves on L1 (signed moves, batched by an
operator into transitions of a shared game cell); *value* moves off-chain through
a payment channel that one L1 transaction opens and another one settles.

This directory models the parts of the repository that carry state, checks them
with TLC on small instances and proves with TLAPS, for every value of the constants,
the safety of all of them.  `PROJECT.json` maps every definition to the lines it models
and lists the runs, the mutants, the findings, the hazards and the theorems.

## The system

| Part | State | Operations | Talks to |
|---|---|---|---|
| game rules (`game-rules`) | none (pure) | `apply_intent`, `apply_batch`, `equals_unordered`, encodings | compiled into the type script, the operator and the client |
| game-cell type script (`contracts/controller-game-cell`) | the live game cell's data | genesis, transition | runs in the node for every transaction on a game cell |
| session lock (`contracts/controller-session-lock`) | account cells: args, data (revocation epoch), capacity | owner mode, session mode | runs in the node for every account input |
| operator (`paymaster-service/src/operator.rs`) | tip, queue | `submit`, `build_transition`, `flush`, `drop_pending` | node RPC |
| operator server (`paymaster-service/src/bin/game-operator.rs`) | operator, invoice relay, results log | `/intent`, `/flush`, `/game`, `/invoice`, `/invoice/paid`, `/results`; start-up | pages, operator, node, log file |
| player page (`sdk-js/src/game.ts`, `demo/src/game.ts`) | nonce, poll in flight | move, refresh, poll, publish / pay / confirm an invoice | server |
| channel session (`sdk/src/channel.rs`, `wasm/src/lib.rs`) | channel, funding out point, budget, spent | new, open, pay, close | rail, node |
| paymaster (`paymaster`, `paymaster-service/src/service.rs`) | the gate's revocations; nothing between requests | `sponsor`, `broadcast` | clients, node, indexer |
| live rail (`sdk-js/src/live.ts`) | budget, spent, channel id | open, waitReady, pay, newInvoice, payInvoice, waitInvoicePaid, close | Fiber node |
| shooter page (`demo/src/fiber-game-main.ts`), troops page (`demo/src/main.ts`) | shots fired, payments under way, enabled buttons | connect, tryShoot / buy, payViaHub, requestInvoice, settle | live rail, account cells |
| SDK encodings (`sdk/src/lib.rs`, `wasm/src/lib.rs`, `sdk-js/src/session.ts`) | none | params, witnesses, policy Merkle tree | session lock |

What is hard: the cell's safety must hold whoever builds the transactions and over
the whole history of a lineage; the operator, the node and the pages hold three
copies of one board that advance at different times; an RPC answer, an HTTP answer
or a rail answer may be lost after the work was done; the operator restarts while
its own transitions are in the pool; the invoice queue sheds entries that are being
paid; a revocation is written on one cell of an account that may have several; a page
pays faster than its node answers, gives up waiting for payments that succeed later,
and closes a channel with payments in it; a witness has no tags or lengths, so the
SDK and the lock must agree on where each field starts.
`PROJECT.json` lists these hazards at the lines where they bite.

What makes each part correct:

- *game cell*: a move counts once, only if signed for this game, and the board is
  exactly the sum of the moves;
- *session lock*: a session never lifts its own limits, a revoked one stays revoked,
  value leaves only to listed places and within the cap;
- *operator*: its tip is a real cell, an answered move is counted, and a page gets
  its moves onto the board in spite of losses;
- *relay*: a recorded settlement happened, a payer is handed only what they may pay,
  and every invoice is settled or shed;
- *paymaster*: both gates behind the trait keep one contract whatever holders append to a
  token, a draft is refused only for a spent input or for a fee its witnesses outgrew, the
  relayer pays each fee once, and a client that retries with a sufficient fee gets through;
- *channel*: session and rail agree, and no capacity is lost or minted;
- *live rail*: a shooter never commits more than the budget, the settlement it shows is
  better than what comes back by the closing fee at most, every wait on a node that
  answers ends and a finished game is settled;
- *witness*: what is built as documented is accepted, and what is accepted was signed
  by those who must sign and lets out only what is listed.

## Modules

| Module | Models | State and actions |
|---|---|---|
| `GameRules` | the rules crate | operators only; `CanApply` is "no error path of `apply_intent`" |
| `GameLedger` | abstract specification | `log[c]`, an append-only log per cell of signed, consecutively numbered, capped moves |
| `GameCell` | type script and its cells | `born`, `data`; history `log`.  `verify_genesis`, `verify_transition`, each a transaction the script lets through; one it fails is no step |
| `GameCellProofs` | theorems on `GameCell` | |
| `SessionLock` | what both views of the session lock share | keys, scripts and foreign outputs |
| `Account` | session lock and account cells | `cell`, `auths`, `now`; history `floor` (in a cell), `written`, `reached`, `last`.  `Deposit`, `Authorize`, `verify_owner`, `verify_session`, `Tick` |
| `Operator` | node + operator + server + pages | `accepted`, `committed`, `pool`; `tip`, `mempool`, `logged`; `player`, `post`, `orphans`; `budget` of faults.  One action per handler, node step and page step |
| `InvoiceRelay` | relay, results log and paying pages | `invoices`, `next_id`, `results`, `page`; `settled` is what really happened on Fiber.  `publish`, `next_for`, `handle_mark_paid`, `Restart`; the ways `rail.payInvoice` ends (`PayInvoice`, `PaymentFails`, `PaymentLate`), `ConfirmationLost` |
| `Channel` | channel session, rail and the L1 cells | `session`, `rail`, `account`, `funding`, `drafts` (transactions built), `handed` (those a caller has) |
| `Paymaster` | Biscuit gate, sponsor service, the relayer's cells | `token`, `revoked`, `now`; `cells`, `spent`, `listed` (what the indexer shows), `pool`, `landed`; `draft` (a balanced transaction in a client's hands), `done`.  `sponsor`, `broadcast`, `Attenuate`, `revoke_hex`, `Commit`, `Tick` |
| `LiveRail` | the live rail, over an external Fiber node and chain | `rail` (budget, spent, channel of each page), `calls` (payments and invoices begun, and what became of them), `channels`, `account`.  `open`, `OpenFails`, `pay`, `payInvoice`, `newInvoice`, `PayAnswered`, `Polled`, `TimedOut`, `Shutdown`; `NodeSends`, `NodeSettles`, `InvoiceEnds`, `FundingCommits`, `ClosingCommits`; `Drain` |
| `RailPages` | the two pages, composed with `LiveRail` | `pc`, `wish`, `fired`, `loops` (buy loops under way), `on` (enabled buttons), `tries`, `report`.  `connect`, `Opened`, `Ready`, `tryShoot`, `buy` / `BuyNext`, `payViaHub`, `requestInvoice`, `Returns`, `settle`, `Closing`, `CloseRefused`, `Closed` |
| `PolicyTree` | the policy tree and proof framing, SDK side | operators only |
| `SessionWitness` | SDK witness builders and the lock that takes the witness apart | `account`, `args`, `outputs`; `rest` (bytes the lock has not read), `params`, `index`, `pc`, `verdict`; history `signed`, `entries`, `builder`.  One action per builder (`Submit`), and one per stage of the lock: `auth`, `OwnerSignature`, `ResolveRegistered` / `ResolveCarried`, `SessionSignature`, `GuardianSignature`, `ProveOutputs` |
| `SessionLockProofs` | theorems on `Account`, `PolicyTree` and `SessionWitness` | |
| `DataLemmas` | lemmas on data, used by the proofs | no state: recursion along a sequence, sums over finite sets |
| `OperatorProofs`, `InvoiceRelayProofs`, `ChannelProofs`, `PaymasterProofs`, `RailPagesProofs` | theorems on the module of that name | |
| `MC...` | instances for TLC | constants only |

`GameCell` and `Operator` both build on `GameRules`.  `Operator` uses the type
script through `NodeAccepts`: spending the newest cell with the right signatures.
That the board is the right one it does not look at, and `OperatorTransitionsVerify`
proves that it needs not to: whatever it accepts passes `verify_transition`.  `GameCell` implements
`GameLedger` (`LedgerSpec`): the mapping is the identity on `log`, a transition appends its
batch, and a genesis stutters.

`RailPages` extends `LiveRail`: a page step is a rail call and the page's own
bookkeeping.

`SessionWitness` uses `PolicyTree` on both sides, the SDK's to build and the lock's to
verify.  It complements `Account`, where a Merkle proof exists exactly for members
and a witness is already parsed: `Authorised`, `OnlyListed` and `BuiltIsAccepted` are what
that abstraction rests on, and the theorems `ProvedIsListed` and `ListedIsProved`
say it of the tree itself.  Its definitions have names of their own (`WitnessSpec`,
`WitnessTypeOK`, `ProveOutputs` for the policy walk of `check_output_policies`, ...), so
that one module can reason about both views.

### Abstractions

- A signature is the message signed (`GameRules`) or the set of keys that signed
  the transaction (`Account`).  The hash of something is the thing itself.
- Cell data is empty, malformed or the encoding of a board; an account's data is
  empty, too short for an epoch, or an epoch.  A two-byte batch count that cannot
  carry the length makes the batch undecodable (`BatchDecodes`).
- The policy Merkle root is the set of its leaves, and a framed proof exists exactly
  for members.  A kind-0 proof uses the type script, a kind-1 proof the lock.
- A transaction in `Account` is seen from one account.  Other parties' inputs may
  add capacity, so outputs are not tied to the sum of the inputs.
- An owner transaction never writes an epoch below the one on the cell.  The lock
  does not ask for it (`verify_owner` looks at the signature only); the sources call the
  epoch monotonic, and `RevocationSticks` is about owners who keep to that.
- u64 fields keep a width (`U64_MAX`), and the additions on them are checked.  The
  JavaScript `BigInt` nonce wraps when it is encoded (`Move`).
- The server serves one request at a time, so a handler is one step.  A request
  whose page has given up is still in the server's queue (`orphans`).
- In `Operator`, an out point is the index of the cell in `accepted`.  A finalize
  step that fails to sign is left out.  `CHAIN=mock` is a node that accepts everything.
- `apply_batch` is one function, which the type script and the operator both call, and one
  operator here.  Nobody sees the board between two intents of a batch, so a transition is
  one step.
- In `Paymaster`, a token is the authority's block and the blocks holders appended, each with
  facts and checks of its own; biscuit's rule that a block sees the authority's facts and its own,
  and a policy the authority's only, is external (`ChecksPass`, `authorize`, `Granted`).  A
  transaction has two sizes: the one the service sizes the fee on, `Size`, without witnesses
  (`service.rs:120-130`), and the one the node charges for, `SignedSize`.
- The operator's signature of the fee input, which the service leaves to
  the operator, is given to exactly the drafts `sponsor` returned.  A revocation takes a
  new gate, since the running service owns its gate, and the service's binary neither calls
  `revoke_hex` nor has a setting for it: the action is a restart of one that does.
  A partial transaction is its size.  The pool is kept until it is committed.
- In `SessionWitness`, a byte is a number or a part of what was hashed or signed, so
  hashing and signing are injective and unforgeable.  A digest is two bytes, a signature
  three, a key hash one, expiry and cap one: lengths that differ, so that a field read out
  of place is cut from two others.  Where the lock reads such a byte as a kind or a length,
  it may have any value up to `MAX_BYTE`.  Transactions are their outputs; what
  `Account` checks without the witness (epoch, expiry, continuity, cap) is left to it.
- A node of the tree in a preimage is what it is the digest of, and the two nodes of
  a pair are a set, since they are put in order before hashing.
- In `LiveRail`, Fiber is a list of channels with two balances.  Peers and routes are left out;
  a routing fee is any amount up to `MAX_FEE`.  A funding transaction costs the account
  `FUNDING_FEE`, which leaves it with the channel's amount and counts against the spend cap; Fiber
  keeps `CHANNEL_RESERVE` of a side from being spent, and the closing transaction costs the
  closer `CLOSE_FEE`, out of that reserve (`live.ts:104, 227`; `docs/internals/phase2-live-run.md:73-74, 167`).
  What `account drain` sends is all of a cell, less a fee that only its recipient misses.  The
  lock is `FundingAccepted`: one account cell, at most the cap, and change that can hold itself.
- A poll that learns nothing is no step, a poll that fails is the last one, and a deadline may pass
  at any time.  `live.ts` looks at its deadlines between two awaited polls only, so this is a node that
  answers every poll, with what it knows or with an error (see the remarks).
- In `RailPages`, a page stays open.  The mock rail, which answers at once, is left out.
- In `Channel`, an out point is a number given to a transaction's contents: building the same
  transaction again gives the same number (`ChannelTx::outpoint` hashes the contents), and the
  model lets a second build be alike or, with another header dep, not.  The transaction fee is a
  sponsor's.  `build_settle_tx` has an output for the local balance only; what is left of the
  funding cell is counted as the peer's, since the funding lock, which is external, is taken to
  co-sign exactly that.
- In `InvoiceRelay`, a payment ends in one of three ways: it is made, it throws and nothing was
  paid, or it throws and goes through later (`rail.payInvoice` at its deadline).

## Runs

| Run | Instance | Shows |
|---|---|---|
| `game_cell` | 2 players, 2 games, batches of up to 2 of 11 intents (good, tampered, unsigned, over the cap, for the other game), every output board of up to 2 entries, `U64_MAX` 3 | type correctness, `UniquePlayers`, `NoReplay`, `OnlySignedMoves`, `SeqCountsMoves`, `BoardIsLog`, refinement of `GameLedger` (378 states) |
| `account_revocation` | 2 cells, epochs 0-2, a carried account and one with its session disabled | `RevocationSticks` |
| `account_spending` | 2 cells, capacities 1 and 3, a scoped, capped, guarded, expiring carried session and a scoped registered one, 3 foreign outputs | `Confined`, `OutflowBounded` |
| `operator_disturbed` | 2 pages with a move each, an embedding that also queues, a lost node answer, a restart, an eviction, a `game grow`; the cell has room for both moves only in one batch or once it has grown | `MempoolApplies`, `TipIsReal`, `AckedCounted` |
| `operator_rough` | 3 moves of one page, forged intents under both hashes, two lost HTTP exchanges, an unreachable node; fair | `InSync`, `MovesLand` |
| `invoice_relay` | a named and a nameless page, queue of 2, 3 invoices, payments that fail, and one of: a lost confirmation, a payment that goes through late, a restart; fair | `PaidIsTrue`, `PayersAddressed`, `InvoicesSettle` |
| `paymaster` | 3 clients (one with a token for another scope, and a fee its witnesses outgrow), 3 fee cells (one dust, pages of 2), a holder who narrows or one who writes the facts of a better token, a revocation, expiries, a lost answer; fair | `GatesAgree`, `DraftsPay`, `PaysFeesOnly`, `GetsThrough` (19,384 states) |
| `channel` | 2 apps, one account of 7, budgets 3 (the cap) and 8 (too much), 4 transactions, 2 channels, on one funding transaction or on two, a lost rail answer | `RailAgrees`, `Conserved` (1,429,325 states) |
| `rail_pages` | a page of either kind, deposit of 12 CKB, cap 6, budgets 5 and 6 (over the cap with its funding fee), 2 channels, 3 calls in four mixes, a fraction of a CKB as routing, funding and closing fee, as reserve and as invoice; fair | `NeverOvercommits`, `ReportSafe`, `CallsEnd`, `GameSettles` (147,364 states) |
| `session_witness` | lists of 0, 1, 2, 3 and 5 scripts and the wildcard, both models, guardian or none, signatures by wrong keys, left out or added, every region of up to 2 entries, every transaction of up to 2 outputs | `BuiltIsAccepted`, `OnlyListed`, `Authorised` |

Why the bounds are enough for the questions: two players and two entries are the
smallest board on which an output can drop, double or reorder an entry; two cells
of one account are the smallest in which a revocation can miss one; a queue of two
with three invoices sheds; five is the least list that is odd at two levels of the tree, two outputs
the least that can be proved in the wrong order, and any kind of mistake in one
entry is a mistake in a region of two; three calls are two buy loops running at once because an invoice was paid
between them, or shots up to the budget and one more; four transactions and two channels are two channels opened and
settled, on one funding cell or on two, or one and an owner who gets in between; the faults of one
run meet each other but in `invoice_relay`, where one of them is enough for `lost > 0` or
`restarts > 0`.  A fee that covers the witnesses and one that
falls short of them both occur (`MCSize`, `MCSignedSize`), and so does a budget that fits the cap without its funding
fee and not with it.  `MAX_TX`,
`MAX_CHANNELS`, `MAX_CALLS`, `MIXES`, `MAX_OUTPUTS`, `MAX_ENTRIES`, `MAX_BYTE`, `MAX_INVOICES`, `MAX_FAULTS`, `MAX_LOST`, `MAX_TIME`, `MAX_BLOCKS`, `MAX_REVOKED`, `MAX_QUEUE`, `MOVES` and
`Faults` bound the runs and nothing else.  Cell slots in `Account`, apps in
`Channel` and the two pages of `operator_disturbed` are
interchangeable and no liveness is checked in those runs,
so they use symmetry.  All models but `GameCell` may stop
(a bound is reached, or nobody has anything to do), so deadlock is not checked there.

### Fairness

`Operator!Fairness`: the node makes blocks, the server loop serves its queue, the
promises of a page settle, and the player clicks again while moves are left.  No
fault is fair, nor are polls, flushes by third parties and forged posts.  The one
assumption on people is the clicking: the code retries nothing by itself.
`InvoiceRelay!FairSpec`: a payer keeps polling, what a page has paid it confirms
(the `pay-bounty` handler run to its end), and a payment that is tried over and over is
answered at last (strong fairness of `PayInvoice`: no route and no balance come and go, and
an invoice that nobody could ever pay would hold up its payers for ever).  Neither failures, late payments nor faults are fair.
`Paymaster!Spec`: blocks are made, and a client goes on trying until it knows it is
through; neither attenuation, revocation nor time passing is fair.  A client whose fee does not
cover its witnesses goes on as well, for nothing.
`RailPages!Fairness`: the node answers what it is asked, polls included, a payment is settled or expires
(a TLC has an expiry), timers run, and a player whose game is over clicks until it is settled
(the page enables the button again after a failure).  Neither funding, closing,
invoices of others, drains nor clicks during play are fair.

### Where the repository says more than the code does

Each of these runs checks one sentence of the repository and finds it violated;
the quotations are in `PROJECT.json`.

| Run | Sentence | What happens |
|---|---|---|
| `account_revoked_everywhere` | "every session authorized under the old epoch immediately stops working" | only on cells that descend from the rewritten one; another cell of the account still obeys |
| `account_expiry` | "an expired session key unlocks nothing" | any old header is accepted as the time |

More remarks from the modelling, which no run is about.

- `verify_genesis` lets anybody create any number of cells under one game id, and an intent is
  bound to the id only, so each of them counts the same signed move once: `NoReplay` holds per
  cell, while `game-rules/src/lib.rs:219` says "no cross-game reuse, no replay" and
  `controller-game-cell/src/main.rs:22` calls a game "a distinct singleton".
- After a lost node answer, and after somebody else spent the cell (`game grow`), the operator's
  tip is a spent cell: it does not look again, and every later flush is refused until a restart,
  although `game-operator.rs:376` says "Players simply resubmit".  `InSync` is stated for the time
  before.  When the node drops its pool, moves answered 200 are gone: `AckedCounted` is stated for a
  node that keeps it.
- A score behind a lost node answer is committed and never logged (`FlushUnanswered`),
  although "every score" is to be appended.
- `submit` does not ask whether `seq` has room, so with 2^64 - 1 moves behind it an intent is
  queued that no flush can build; `MempoolApplies` makes that exception.  A queue of 65536
  intents would be encoded with a truncated count (`BatchDecodes`).
- A forged intent makes the node refuse the whole batch it is in, and the honest ones in it are
  dropped.  The server flushes after every intent, so that takes an embedding that queues.
- Ids restart at 1 with the server, so a confirmation of before a restart can mark another
  invoice; `PaidIsTrue` is stated for a server that stays up.  An invoice shed between its
  payment and the confirmation is settled and never logged, while the comment at the
  shedding says its settlement "is already in the results log".
- `next_for` hands out the oldest unpaid invoice, so one that can no longer be paid keeps its payers
  from every later one until it is shed.  A lost confirmation leaves such an invoice, and so does a
  payment that goes through after `payInvoice` gave up; `InvoicesSettle` excuses both (`lost > 0`).
- `close` gives up the channel and its funding out point before the rail answers.  When the rail fails, the
  session is gone and the funding cell stays; nothing in the SDK brings it back, and `Conserved`
  counts it where it is.  Two channels opened alike name one funding cell: one of them is settled,
  and the other's transaction has lost its input.
- The service sizes its fee on the transaction without witnesses, while `paymaster/src/assemble.rs:28-30`
  says that "the real relayer would size against the final tx".  Where the
  witnesses make more of a difference than `FEE_RATE` has over the node's rate and
  `MIN_FEE_SHANNONS` over both (`FeeCovers` fails), every draft of that client is refused, each time
  it tries (`DraftsPay`).
- The spend cap bounds one transaction (`OutflowBounded`), not what a session takes in several.
- When `waitReady` gives up, or the signed funding transaction was not answered, the page starts over
  with a new channel; the one it gave up on may still be funded, and no page closes a channel but
  its current one, so its budget stays there.
- `waitReady`, `waitPaymentSuccess` and `waitInvoicePaid` compare the clock with the deadline when a
  poll has returned.  A poll the node never answers keeps the page waiting for ever, and `CallsEnd`
  is stated for a node that answers.
- What the pages show as coming back leaves out the fee of the closing transaction, which the closer
  pays (`CLOSE_FEE` in `ReportSafe`).  What the troops page shows is also too much by the payments of
  invoices that succeeded after `waitPaymentSuccess` had given up, or that it had not seen succeed
  when it closed (`unseen`).
- `payViaHub` redraws and thereby enables the buy buttons while a buy loop waits, so that two loops may
  run over one budget and `remainingCkb()` go below 0; the channel refuses what it has not got.
- The shooter tells a player whose account has several cells to run `account drain` "to merge"
  (`fiber-game-main.ts:143`); the command moves the smallest cell to the owner's own key, and
  refuses when that is above the cap (`Drain`).
- `GuardianSig` follows the builders, which take an empty signature for no guardian.  A page
  whose session has a guardian cannot open a channel: `signFundingTx` leaves the guardian out
  and the lock refuses (`WitnessLenError`).

## Proofs

TLAPS proves, for every value of the constants that satisfies the assumptions, every
invariant that a passing run checks, the one action property, and the refinement:

| Module | Invariants of its `Spec` | Besides |
|---|---|---|
| `GameCellProofs` | `TypeOK`, `UniquePlayers`, `NoReplay`, `OnlySignedMoves`, `SeqCountsMoves`, `BoardIsLog` | `Spec => LedgerSpec`: it implements `GameLedger` |
| `SessionLockProofs` | of `Account`: `TypeOK`, `RevocationSticks`, `Confined` | `Spec => OutflowBounded`, an action property |
| | of `SessionWitness`: `WitnessTypeOK`, `Authorised`, `OnlyListed`, `BuiltIsAccepted` | of `PolicyTree`: `ProvedIsListed` and `ListedIsProved`, soundness and completeness of membership proofs |
| `OperatorProofs` | `TypeOK`, `MempoolApplies`, `TipIsReal`, `InSync`, `AckedCounted` | `Spec => TransitionsVerify`: what the node accepts, the type script would |
| `InvoiceRelayProofs` | `TypeOK`, `PaidIsTrue`, `PayersAddressed` | |
| `ChannelProofs` | `TypeOK`, `RailAgrees`, `Conserved` | |
| `PaymasterProofs` | `TypeOK`, `GatesAgree`, `DraftsPay`, `PaysFeesOnly` | |
| `RailPagesProofs` | `TypeOK`, `NeverOvercommits`, `ReportSafe` | |

Each of these modules defines or cites one inductive invariant (`IndInv`; `Sound` and `Whole` for
the witness), has one lemma per action that the action keeps it, and a theorem
`Spec => []IndInv` from which the others follow.  `Operator`, `InvoiceRelay`, `Paymaster` and `RailPages` state fairness; no proof
uses it.

The assumptions say that the constants are of their types (`RulesAssumption`,
`CellAssumption`, `SessionLockAssumption`, `AccountAssumption`, `SessionWitnessAssumption`, `OperatorAssumption`, `RelayAssumption`,
`ChannelAssumption`, `PaymasterAssumption`, `RailAssumption`, `PagesAssumption`), and
little else: the queue of invoices holds at least one, a CKB is at least a shannon, the channel reserve
covers the closing fee (`CLOSE_FEE <= CHANNEL_RESERVE`), a signed transaction is no smaller than an unsigned one, u64 is
not empty, the placeholders `NoKey`, `NoScript` and `Anyone` are not members of what they
stand in for, the out points of an account are finitely many (an out point is a hash
and an index), keys and signatures have at least a byte, and the tree of an allow-list is less
than 256 high (the length of a proof is one byte; a higher tree has more than 2^255 scripts).  The sets of players, clients, apps, pages, cells, keys and scripts may be
infinite, but for the deposits of `Channel`.

**Game cell.**  None of the properties is inductive.  `equals_unordered` asks only
that every computed entry occurs in an output of the same length; that determines
the output when the computed board has distinct players, so `UniquePlayers` needs
the computed board to be free of duplicates, after every intent of the batch.
`NoReplay` needs more: that no earlier move of a player has a nonce above the
player's entry.  `Accounted(s, moves)` says both of a board and the moves behind it, and
`Tallied(s, moves)` relates every entry of a board to the sum of the points and to the number of
moves its player has in the log, which is `BoardIsLog`.  `IndInv` says both of every committed
board with its `log`, together with the count and the signatures.  The lemmas:
`ApplyIntentEntries` (one move changes one entry), `EqualsUnorderedPermutes` (the
output is a permutation of the computed board: an injection between finite sets of
the same size is onto), `ApplyKeepsAccounted` and `ApplyKeepsTallied` (one intent),
`ReorderKeepsAccounted` and `ReorderKeepsTallied` (the output's order).  `RanSteps` gives the boards
`apply_batch` goes through, `MoveReaches` takes the whole invariant of a board through one intent
and `BatchReaches` through a batch of any length.  For the ledger, the
moves of a batch continue the log by moves that `GameLedger` would append (`Continues`,
`LegalNext`), so that a transition is one step of it (`TransitionAdvances`).

**Account.**  `RevocationSticks` follows from `FloorKept`: the epoch on a cell is at
least what the owner wrote on its ancestors.  A deposit starts a cell with floor 0, an
owner's output with its own epoch, and a session's output with the floor of the one
cell the group may spend, whose data it copies.  `Confined` is kept because a session
in use is one of the account's sessions and those only grow.  `IndInv` is their
conjunction with `TypeOK`.  `OutflowBounded` compares two sums: the lock lets one
input of the group through and adds up the outputs under itself, so what the account's
cells lose is what leaves that one input.

**Policy tree.**  `ProvedIsListed`: a proof climbs from the leaf to the root by pairing
(`VerifyClimbs`), and every node is the digest of a script or of a pair, so the root, which is in
the tree (`Within`), can be taken apart again (`PairOf`, since hashing is injective): if
`pair(x, y)` is a node of a level, `x` is a node of the level below (`WithinBelow`), and a leaf
cannot be a pair.  Going down along the proof, what was climbed from is in the tree, and a digest
of a script in the tree is a leaf.  A zero node is not the digest of anything, so padding proves
nothing, nor does the zero root of the empty list.  `ListedIsProved` goes up: `LevelShape` and
`DepthShape` say that the levels halve down to one node, and `StepUp` that the sibling
`merkle_proof` takes at a level, out of the padded one, is what the place's node is paired with.

**Witness.**  Every field of a witness is found by counting bytes, so what has to be shown is
that no count lands in the wrong place unnoticed.  For `Authorised`, a byte string is `Vouched` when
each part of a signature in it is part of one that was given (`signed`); that is kept by
joining and by cutting at any place, whatever the entries are (`VouchedConcat`, and `RegionBytes`
for the proof region).  So a string that matches a signature, wherever it was cut, is one that was
given: `Checked` collects what the stages behind `pc` have thereby established, and `Sound` is
its conjunction with `Kept` (types, and that the resolved params are the account's, `ParamsRead`)
and with the two properties.  In a carried account, the block the witness brings is the account's,
because the owner's signature over it was given for no other.  `OnlyListed` needs of the walk only
what `ProvedIsListed` says of any siblings read: an output that was passed is listed, and `ProveOutputs`
passes them one by one.

`BuiltIsAccepted` needs where every byte is: `Remaining` says, for each stage, what is still to be
read of a witness made as documented, and `Whole` that this is so.  In the proof region
(`RegionFrom`) it is the frames of the entries from the place of the next foreign output on, which
takes `Place`, the count of foreign outputs so far (`PlaceCounts`), and that concatenating a
sequence of strings is associative (`FlattenJoins`, `JoinsSplit`).  `FrameRead` reads back one frame, whose
siblings `ListedIsProved` accepts; the walk is past the last output when the region is empty.

**Operator.**  `MempoolApplies` says that `apply_batch` succeeds on the operator's queue, a
fact about a recursion that three of the handlers change: `RanSteps` gives the board
after each turn, `BatchExtends` what one more intent does, and `RanNonces` and
`BatchCounts` that no turn takes a nonce back and that a batch counts the intents in it.
`TipIsReal`, `InSync` and `AckedCounted` then go together: an answered flush makes the
operator's tip the newest cell, whose board counts the intents of the batch, and no later
cell of the lineage takes a nonce back, so that what a page was told stays true.  `InSync`
holds while no fault that can part the two has been used and `AckedCounted` while nothing
was evicted; a fault used up never comes back (`budget` only falls below `Faults`), so
both are vacuous from then on and nothing has to be kept.  The proof asks nowhere that a
board has distinct players, since `find` takes the first entry, here as in the code.
`TransitionsVerify` follows from `TipIsReal`: a flush is accepted on the newest cell only, the
operator's board of that cell is the cell's, so `apply_batch` gave it what the type script will
compute (`BroadcastVerifies`); `game grow` is the empty batch (`GrowVerifies`).

**Invoice relay.**  `PaidIsTrue` is about a server that has not restarted, and its
invariant `IdsAgree` is kept only until then: no two copies of an invoice (in the queue, in
a page's hands) share an id unless they are the same, and a page that confirms has
settled.  Shedding and marking only remove or mark copies (`ShedAppend`, `StillOnce`), and a page
that gives up, whatever its payment does, confirms nothing (`GivesUp`).
`PayersAddressed` needs what a page is paying to be what it was handed (`HandedOut`), since
the invoice may have been shed meanwhile; it survives restarts.

**Channel.**  What makes `Conserved` hold is that a transaction which was built may still
be broadcast, long after others were.  `Unborn` gives a set of transaction numbers that
were built and not accepted: no live cell bears one of them, a draft spends a cell that has
been there, and a draft whose number is not among them has an input that is gone for good.
So a funding or settle transaction lands once, and the balance it was built with is the
one it lands with (`FundDraft`, `SettleDraft`, `Funded`; `SessionOwns` keeps a second
session off the channel).  Two channels may name one funding cell, since they were opened by the
same transaction; `FundedChannels` says that either of them holds what is in it, so whichever
settles takes out that much, and the other's transaction has lost its input.  The
places of capacity are sums over finite sets, of which
each action changes one or two terms (`CellsAdded`, `CellsRemoved`, `CapacityReplaced`).

**Paymaster.**  `GatesAgree` holds in every well-typed state, and `OneContract` says why: a token's
own checks include the authority's, whose only expiry fact is the one that was issued, so a holder's
facts can make the holder's own blocks pass and nothing else.  `DraftsPay` and
`PaysFeesOnly` need `DraftsFunded`, that a draft is the cell it spends less its client's
fee and can hold itself (`FeeCellPays`), and `DraftsPay` needs `LandedCovered` besides, that whatever landed
paid for its witnesses: the node asks a draft for what `FeeCovers` compares the fee with (`FundedAccepted`, `AcceptedCovered`).  A landed draft takes one
term out of the sum of unspent cells, adds its change and adds its client's fee.

**Live rail.**  `IndInv` ties four parties together: a pending channel holds nothing and a
call is where its status says it is (`RailInv`), no two pages play over one channel
(`OwnChannels`), a connected page's channel holds its budget, the reserve included, less what the
page has sent (`HasChannel`, with sums over the calls), and the rail has counted at least what it saw
succeed (`PageInv`).  The shooter only pays for shots, so its calls add up to `fired`
(`ShooterInv`).  `NeverOvercommits` and `ReportSafe` then are arithmetic on those sums
(`SettlementCovered`).

**Induction over data.**  Runs, boards and sums are defined by recursion, over the length
of a sequence or over the subsets of a set.  `DataLemmas` proves what they compute without an
induction rule: of the arguments for which a claim fails one is least (`MinIsLeast`,
`MinimalSubset`), and the recursion equation refutes it there.  `StepsReach` and `StepsExist` do
this for a function that makes one step per element, `SumIsRecursion` to `SumChange` for sums:
a sum exists, it is a natural if its terms are, it changes by a term that is added, removed or
replaced, it is covered by any sum of larger terms.

Only model-checked: liveness (`MovesLand`, `InvoicesSettle`, `GetsThrough`, `CallsEnd`,
`GameSettles`: fairness and ENABLED are beyond the prover), and the two sentences that are
refuted.  `TransitionsVerify` is only proved: no run lists it.

## Not modelled

- The byte layouts of tokens; the Ed25519 reference gate (`paymaster/src/authz.rs`) is modelled as the
  contract the Biscuit gate is held to, since the service does not use it.
- The mock rail of sdk-js beyond the session it wraps: it answers at once, and its invoices are a
  map in one page.
- Molecule and hex encodings, the byte layouts of boards and intents beyond what can be malformed,
  address derivation, key files, signing (it is assumed to succeed), configuration, CORS and JSON.
- Booting the in-browser node, peers and routes: a failure there is `ConnectFails`.
- Rendering, and the command line but for `game grow` and `account drain`: one-shot scripts
  around a wallet library.
- The browser profile under `demo/` is data.

## What could follow

The plan is done: every module is checked, and every safety property of a passing run is proved.  What
would say more about the system is to follow one board end to end: that the log of a cell in
`GameCell` is the concatenation of the batches that `Operator` saw accepted (`TransitionsVerify` has
it step by step), and that a channel opened by `LiveRail` satisfies the lock of `Account` and the
witness of `SessionWitness` at once, where `FundingAccepted` now stands for both.
