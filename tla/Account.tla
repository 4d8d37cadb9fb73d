------------------------------ MODULE Account ------------------------------
(***************************************************************************)
(* The session lock (contracts/controller-session-lock) and the account    *)
(* cells it guards.  An account is the set of live cells carrying one lock *)
(* script, that is one value of `args`; anybody may add a cell to it, the  *)
(* owner may do anything with a cell, and a session key may do what        *)
(* verify_session lets through.                                            *)
(*                                                                         *)
(* A transaction is seen from one account: `ins` are its inputs under that *)
(* lock (the script group), `outs` its outputs under the session-lock code *)
(* with any args, `foreign` the outputs under other locks.  Inputs of      *)
(* other parties add capacity, so outputs are not tied to the inputs' sum. *)
(* Signatures are the sets of keys that signed; the hash of a script, of   *)
(* params or of a transaction is the thing hashed.                         *)
(***************************************************************************)
EXTENDS SessionLock, Naturals, FiniteSetsExt, Functions

CONSTANTS
    Slot,          \* out points
    Args,          \* lock args in use: one value per account
    Params,        \* session params an owner may bless (carried model)
    Data,          \* cell data in use
    Capacity,      \* capacities in use
    Witness,       \* the sets of keys that may sign one transaction
    MILLIS,        \* milliseconds in a second
    NO_EXPIRY,     \* u64::MAX
    UNLIMITED,     \* u128::MAX, SPEND_CAP_UNLIMITED
    MAX_TIME       \* bound on the clock, in milliseconds

(***************************************************************************)
(* Layouts.                                                                *)
(***************************************************************************)
SessionParams ==
    [ session_pubkey_hash  : Key \cup {NoKey},
      expires_at           : Nat,
      wildcard             : BOOLEAN,        \* policies_root = WILDCARD_ROOT
      policies             : SUBSET Script,  \* otherwise, the root's leaves
      spend_cap            : Nat,
      guardian_pubkey_hash : Key \cup {NoKey} ]

\* The length of args picks the trust model; any other length unlocks nothing.
ArgsLayout ==
    [model : {"registered"}, owner : Key, params : SessionParams]
        \cup [model : {"carried", "malformed"}, owner : Key]

DataLayout == [tag : {"empty", "short"}] \cup [tag : {"epoch"}, epoch : Nat]

ASSUME AccountAssumption ==
    /\ IsFiniteSet(Slot)   \* an out point is a hash and an index
    /\ Args \subseteq ArgsLayout
    /\ Params \subseteq SessionParams
    /\ Data \subseteq DataLayout
    /\ Capacity \subseteq Nat
    /\ Witness \subseteq SUBSET Key
    /\ MILLIS \in Nat \ {0}
    /\ MAX_TIME \in Nat

VARIABLES
    cell,       \* live account cells, by out point
    auths,      \* authorizations owners have signed (carried model)
    now,        \* chain time, in milliseconds
    written,    \* history: the epochs owner transactions raised an account to
    reached,    \* history: outputs session transactions made, per account
    last        \* history: the session transaction just made, if one was

vars == <<cell, auths, now, written, reached, last>>

\* `floor` is history: the highest epoch the owner wrote on this cell or on a
\* cell it descends from.
AccountCell == [args : Args, data : Data, cap : Capacity, floor : Nat]

Output == [args : Args, data : Data, cap : Capacity]

Authorization == [args : Args, epoch : Nat, params : Params]

Destination ==
    [kind : {"foreign"}, out : Foreign] \cup [kind : {"account"}, args : Args]

NoSession == [by |-> "other"]

TypeOK ==
    /\ DOMAIN cell \subseteq Slot
    /\ cell \in [DOMAIN cell -> AccountCell]
    /\ auths \subseteq Authorization
    /\ now \in 0 .. MAX_TIME
    /\ written \in [Args -> SUBSET Nat]
    /\ reached \in [Args -> SUBSET Destination]
    /\ last \in {NoSession} \cup
         [by : {"session"}, args : Args, params : SessionParams, at : 0 .. MAX_TIME]

Init ==
    /\ cell = [x \in {} |-> 0]
    /\ auths = {}
    /\ now = 0
    /\ written = [a \in Args |-> {}]
    /\ reached = [a \in Args |-> {}]
    /\ last = NoSession

-----------------------------------------------------------------------------
(***************************************************************************)
(* The checks of the lock.                                                 *)
(***************************************************************************)
verify_signature(k, signers) == k \in signers

\* One account cell per script group: a second group input is MultipleInputs.
OneGroupInput(ins) == \A s, t \in ins : s = t

\* First eight bytes of the cell's data, 0 when there are fewer.
current_revocation_epoch(d) == IF d.tag = "epoch" THEN d.epoch ELSE 0

\* Variant of session_auth_message: the params are not bound.
session_auth_unbound(args, epoch, params) == [args |-> args, epoch |-> epoch]

session_auth_message(args, epoch, params) ==
    [args |-> args, epoch |-> epoch, params |-> params]

\* The owner's signature m authorizes params for the cell being spent.
Blesses(m, c, params) ==
    m = session_auth_message(c.args, current_revocation_epoch(c.data), params)

\* Where the session params come from: the args, or the witness blessed by
\* the owner at the epoch of the cell being spent.
ResolvesTo(c, params) ==
    \/ c.args.model = "registered" /\ params = c.args.params
    \/ /\ c.args.model = "carried"
       /\ \E m \in auths : Blesses(m, c, params)

SignedBySession(params, signers) ==
    /\ params.session_pubkey_hash # NoKey
    /\ verify_signature(params.session_pubkey_hash, signers)
    /\ params.guardian_pubkey_hash # NoKey =>
         verify_signature(params.guardian_pubkey_hash, signers)

\* Timestamps a header dep may carry: those of blocks already on the chain.
HeaderDeps == 0 .. now

current_timestamp_ms(header) == header

\* A session that never expires needs no header dep.
NotExpired(params) ==
    params.expires_at # NO_EXPIRY =>
        {h \in HeaderDeps : current_timestamp_ms(h) \div MILLIS < params.expires_at} # {}

\* Every foreign output has a framed proof of its lock or of its type hash.
check_output_policies(params, foreign) ==
    \A o \in foreign : {o.lock, o.type} \cap params.policies # {}

\* Variants of enforce_account_outputs: data not compared, args not compared.
enforce_args_only(c, outs) == \A x \in DOMAIN outs : outs[x].args = c.args
enforce_data_only(c, outs) == \A x \in DOMAIN outs : outs[x].data = c.data

\* Outputs under this code keep args and data of the spent cell.
enforce_account_outputs(c, outs) ==
    \A x \in DOMAIN outs : outs[x].args = c.args /\ outs[x].data = c.data

CapacityOf(cs) == SumFunction([x \in DOMAIN cs |-> cs[x].cap])

\* Variant of check_spend_cap: what stays is taken for what leaves.
check_spend_cap_swapped(cap, input_capacity, returned_capacity) ==
    cap = UNLIMITED \/ returned_capacity <= input_capacity + cap

check_spend_cap(cap, input_capacity, returned_capacity) ==
    cap = UNLIMITED \/ input_capacity <= returned_capacity + cap

(***************************************************************************)
(* Transactions.                                                           *)
(***************************************************************************)
\* Spend ins, create outs; floor[x] is the floor output x starts with.
Replace(cells, ins, outs, floor) ==
    [x \in (DOMAIN cells \ ins) \cup DOMAIN outs |->
        IF x \in DOMAIN outs
        THEN [args |-> outs[x].args, data |-> outs[x].data,
              cap |-> outs[x].cap, floor |-> floor[x]]
        ELSE cells[x]]

\* Script groups a transaction can hold: live cells of one account.
Groups == {ins \in SUBSET DOMAIN cell :
             ins # {} /\ \A s, t \in ins : cell[s].args = cell[t].args}

\* Out points a transaction spending ins can give to its account outputs.
FreeSlots(ins) == (Slot \ DOMAIN cell) \cup ins

\* Anybody pays into an account, with any data.
Deposit(x, o) ==
    /\ x \notin DOMAIN cell
    /\ cell' = Replace(cell, {}, [y \in {x} |-> o], [y \in {x} |-> 0])
    /\ last' = NoSession
    /\ UNCHANGED <<auths, now, written, reached>>

\* The owner blesses a session at the epoch of a live account cell.
Authorize(s, params) ==
    /\ cell[s].args.model = "carried"
    /\ auths' = auths \cup
         {session_auth_message(cell[s].args, current_revocation_epoch(cell[s].data), params)}
    /\ last' = NoSession
    /\ UNCHANGED <<cell, now, written, reached>>

\* MODE_OWNER: one signature and full control.  An owner never writes an epoch
\* below the one on the cell ("monotonic revocation epoch").
verify_owner(ins, s, signers, outs) ==
    /\ OneGroupInput(ins)
    /\ cell[s].args.model # "malformed"
    /\ verify_signature(cell[s].args.owner, signers)
    /\ \A x \in DOMAIN outs :
         current_revocation_epoch(outs[x].data) >= current_revocation_epoch(cell[s].data)
    /\ cell' = Replace(cell, ins, outs, [x \in DOMAIN outs |-> current_revocation_epoch(outs[x].data)])
    /\ written' = [a \in Args |-> written[a] \cup
         {current_revocation_epoch(outs[x].data) : x \in {y \in DOMAIN outs :
            outs[y].args = a /\ \A z \in DOMAIN outs : outs[z].args = a =>
              current_revocation_epoch(outs[y].data) <= current_revocation_epoch(outs[z].data)}}]
    /\ last' = NoSession
    /\ UNCHANGED <<auths, now, reached>>

\* MODE_SESSION: the checks in the order of the code, then the transaction.
verify_session(ins, s, params, signers, outs, foreign) ==
    /\ OneGroupInput(ins)
    /\ ResolvesTo(cell[s], params)
    /\ SignedBySession(params, signers)
    /\ NotExpired(params)
    /\ params.wildcard \/ check_output_policies(params, foreign)
    /\ enforce_account_outputs(cell[s], outs)
    /\ check_spend_cap(params.spend_cap, CapacityOf([t \in ins |-> cell[t]]), CapacityOf(outs))
    /\ cell' = Replace(cell, ins, outs, [x \in DOMAIN outs |-> Max({cell[t].floor : t \in ins})])
    /\ reached' = [reached EXCEPT ![cell[s].args] =
         @ \cup {[kind |-> "foreign", out |-> o] : o \in foreign}
           \cup {[kind |-> "account", args |-> outs[x].args] : x \in DOMAIN outs}]
    /\ last' = [by |-> "session", args |-> cell[s].args, params |-> params, at |-> now]
    /\ UNCHANGED <<auths, now, written>>

\* Blocks are produced.
Tick ==
    /\ now < MAX_TIME
    /\ now' = now + 1
    /\ last' = NoSession
    /\ UNCHANGED <<cell, auths, written, reached>>

OwnerTx ==
    \E ins \in Groups : \E s \in ins : \E signers \in Witness :
        \E S \in SUBSET FreeSlots(ins) : \E outs \in [S -> Output] :
            verify_owner(ins, s, signers, outs)

SessionTx ==
    \E ins \in Groups : \E s \in ins :
        \E params \in Params \cup {cell[t].args.params : t \in {u \in ins : cell[u].args.model = "registered"}} :
            \E signers \in Witness :
                \E S \in SUBSET FreeSlots(ins) : \E outs \in [S -> Output] :
                    \E foreign \in SUBSET Foreign :
                        verify_session(ins, s, params, signers, outs, foreign)

Next ==
    \/ \E x \in Slot : \E o \in Output : Deposit(x, o)
    \/ \E s \in DOMAIN cell : \E params \in Params : Authorize(s, params)
    \/ OwnerTx
    \/ SessionTx
    \/ Tick

Spec == Init /\ [][Next]_vars

-----------------------------------------------------------------------------
(***************************************************************************)
(* Properties.                                                             *)
(***************************************************************************)
\* An authorization the owner has revoked on a cell unlocks no descendant of
\* that cell, whatever sessions did with the cells in between.
RevocationSticks ==
    \A s \in DOMAIN cell : \A m \in auths :
        m.epoch < cell[s].floor => ~ Blesses(m, cell[s], m.params)

\* The sessions that have ever been valid for an account.
SessionsOf(a) ==
    IF a.model = "registered" THEN {a.params} ELSE {m.params : m \in {n \in auths : n.args = a}}

\* An account all of whose sessions are scoped has, without its owner, reached
\* only scripts some session lists and its own lock.  The policy walk skips
\* every output under the session-lock code, so this also needs the args check.
Confined ==
    \A a \in Args :
        (\A p \in SessionsOf(a) : ~ p.wildcard) =>
            \A d \in reached[a] :
                /\ d.kind = "account" => d.args = a
                /\ d.kind = "foreign" =>
                     \E p \in SessionsOf(a) : d.out.lock \in p.policies \/ d.out.type \in p.policies

Worth(cells, a) ==
    CapacityOf([s \in {t \in DOMAIN cells : cells[t].args = a} |-> cells[s]])

\* A session transaction lowers what the account holds by at most its cap.
OutflowBounded ==
    [][last'.by = "session" /\ last'.params.spend_cap # UNLIMITED =>
         Worth(cell, last'.args) <= Worth(cell', last'.args) + last'.params.spend_cap]_vars

\* The epoch on a cell is never below what the owner wrote on its ancestors.
FloorKept ==
    \A s \in DOMAIN cell : cell[s].floor <= current_revocation_epoch(cell[s].data)

\* The inductive invariant behind RevocationSticks and Confined.
IndInv == TypeOK /\ FloorKept /\ Confined

(***************************************************************************)
(* What the documentation says beyond what the lock does; see the README.  *)
(***************************************************************************)
\* "every session authorized under the old epoch immediately stops working":
\* once the owner wrote epoch e on the account, older authorizations unlock
\* none of its cells.
RevokedEverywhere ==
    \A s \in DOMAIN cell : \A m \in auths :
        (\E e \in written[m.args] : m.epoch < e) => ~ Blesses(m, cell[s], m.params)

\* "an expired session key unlocks nothing".
ExpiredUnlocksNothing ==
    last.by = "session" /\ last.params.expires_at # NO_EXPIRY =>
        last.at \div MILLIS < last.params.expires_at
=============================================================================
