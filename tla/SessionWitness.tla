--------------------------- MODULE SessionWitness ---------------------------
(***************************************************************************)
(* The witness that unlocks an account cell, from both ends: the SDK and   *)
(* the session class of sdk-js put it together byte by byte, the session   *)
(* lock takes it apart (auth, verify_owner, verify_session and             *)
(* check_output_policies).  `rest` is what the lock has not read yet.      *)
(*                                                                         *)
(* Module Account has the checks that read nothing from the witness:       *)
(* epoch, expiry, outputs under the lock itself and the spend cap.         *)
(***************************************************************************)
EXTENDS SessionLock, PolicyTree

CONSTANTS
    OWNER,           \* the owner's key
    Policies,        \* allow-lists in use
    Accounts,        \* accounts in use
    Signer,          \* keys that may be asked for the session's signature
    Cosigner,        \* keys that may be asked for the guardian's, NoKey for none
    KEY_LEN,         \* bytes of a public-key hash, 20 in the code
    SIGNATURE_LEN,   \* bytes of a signature, 65 in the code
    MAX_OUTPUTS,     \* bound on the outputs of a transaction
    MAX_ENTRIES,     \* bound on the entries of a proof region
    MAX_BYTE         \* bound on the value of a byte that is not a number

\* An account: its trust model and the session its owner wanted.  `scope` is
\* the allow-list, or that there is none.
AccountLayout ==
    [ model    : {"registered", "carried"},
      session  : Key \cup {NoKey},
      guardian : Key \cup {NoKey},
      scope    : [wildcard : BOOLEAN, policies : Policies] ]

\* An output under the session lock, with any args.
SelfOutput == [self |-> TRUE]

ASSUME SessionWitnessAssumption ==
    /\ Policies \subseteq Seq(Script)
    \* A list has fewer than 2^255 scripts: the length of a proof fits its byte.
    /\ \A p \in Policies : Depth(Leaves(p)) < 256
    /\ Accounts \subseteq AccountLayout
    /\ OWNER \in Key
    /\ Signer \subseteq Key
    /\ Cosigner \subseteq Key \cup {NoKey}
    /\ {KEY_LEN, SIGNATURE_LEN} \subseteq Nat \ {0}
    /\ {MAX_OUTPUTS, MAX_ENTRIES, MAX_BYTE} \subseteq Nat

VARIABLES
    account,    \* the account being spent
    args,       \* the session params in its args, or to be blessed
    outputs,    \* the transaction's outputs
    signed,     \* history: signatures in the witness, as <<key, message>>
    entries,    \* history: the entries its proof region was framed from
    builder,    \* history: the function that made the witness, and its signers
    pc,         \* where the lock is
    rest,       \* bytes of the witness the lock has not read
    params,     \* session params the lock has resolved
    index,      \* the output the lock looks at
    verdict     \* the lock's answer

witnessVars == <<account, args, outputs, signed, entries, builder, pc, rest, params, index, verdict>>

-----------------------------------------------------------------------------
(***************************************************************************)
(* Encodings.                                                              *)
(***************************************************************************)
KeyHash(k) ==
    IF k = NoKey THEN Zeros(KEY_LEN) ELSE [i \in 1 .. KEY_LEN |-> <<"key", k, i>>]

Signature(pubkey_hash, message) ==
    [i \in 1 .. SIGNATURE_LEN |-> <<"sig", <<pubkey_hash, message>>, i>>]

signature_matches(sig, message, pubkey_hash) == sig = Signature(pubkey_hash, message)

tx_message == <<"tx">>

PoliciesRoot(scope) ==
    IF scope.wildcard THEN WILDCARD_ROOT ELSE merkle_root(Leaves(scope.policies))

\* session_hash, expires_at, policies_root, spend_cap, guardian; a byte each
\* stands for expires_at and spend_cap.
session_params(a) ==
    KeyHash(a.session) \o <<Num(1)>> \o PoliciesRoot(a.scope) \o <<Num(2)>>
        \o KeyHash(a.guardian)

SESSION_PARAMS_LEN == 2 * KEY_LEN + HASH_LEN + 2

parse_session_params(b) ==
    [ session_pubkey_hash  |-> SubSeq(b, 1, KEY_LEN),
      policies_root        |-> SubSeq(b, KEY_LEN + 2, KEY_LEN + 1 + HASH_LEN),
      guardian_pubkey_hash |-> SubSeq(b, KEY_LEN + HASH_LEN + 3, SESSION_PARAMS_LEN) ]

params_auth_message(params_block) == <<"session-auth", params_block>>

MODE_OWNER == Num(0)
MODE_SESSION == Num(1)

owner_witness(owner_sig) == <<MODE_OWNER>> \o owner_sig

\* guardian_sig is empty when there is none.
session_witness_registered(session_sig, guardian_sig, region) ==
    <<MODE_SESSION>> \o session_sig \o guardian_sig \o region

session_witness_carried(params_block, owner_auth, session_sig, guardian_sig, region) ==
    <<MODE_SESSION>> \o params_block \o owner_auth \o session_sig \o guardian_sig \o region

-----------------------------------------------------------------------------
(***************************************************************************)
(* The client.                                                             *)
(***************************************************************************)
\* Proofs the SDK can make for an allow-list, and an empty one.
Proofs(policies) ==
    {<<>>} \cup {merkle_proof(Leaves(policies), i - 1) : i \in DOMAIN policies}

Entry(policies) ==
    [kind : {POLICY_KIND_TYPE, POLICY_KIND_LOCK}, proof : Proofs(policies)]

\* The function that built a witness and the signers it was given.
By(fn, k, g) == [fn |-> fn, key |-> k, guardian |-> g]

WitnessInit ==
    /\ account \in Accounts
    /\ args = session_params(account)
    /\ outputs = <<>> /\ signed = {} /\ entries = <<>> /\ builder = By("none", NoKey, NoKey)
    /\ pc = "build" /\ rest = <<>> /\ index = 1 /\ verdict = "none"
    /\ params = parse_session_params(args)

Submit(how, signatures, es, witness) ==
    /\ builder' = how
    /\ signed' = signatures
    /\ entries' = es
    /\ rest' = witness
    /\ outputs' \in SeqOf(Foreign \cup {SelfOutput}, MAX_OUTPUTS)
    /\ pc' = "auth"
    /\ UNCHANGED <<account, args, params, index, verdict>>

TxSig(k) == Signature(KeyHash(k), tx_message)

\* The empty guardian_sig is "no guardian".
GuardianSig(g) == IF g = NoKey THEN <<>> ELSE TxSig(g)

Signatures(k, g) == {<<signer, tx_message>> : signer \in {k, g} \ {NoKey}}

OwnerSigns(k) ==
    Submit(By("owner", k, NoKey), {<<k, tx_message>>}, <<>>, owner_witness(TxSig(k)))

SessionSigns(k, g, es) ==
    Submit(By("registered", k, g), Signatures(k, g), es,
           session_witness_registered(TxSig(k), GuardianSig(g), proof_region(es)))

\* The owner blessed the params of the account.
SessionSignsCarried(k, g, es) ==
    LET message == params_auth_message(args)
    IN  Submit(By("carried", k, g), Signatures(k, g) \cup {<<OWNER, message>>}, es,
               session_witness_carried(args, Signature(KeyHash(OWNER), message), TxSig(k),
                                       GuardianSig(g), proof_region(es)))

\* Session.signFundingTx: no guardian, one empty proof of a lock.
signFundingTx(k) ==
    Submit(By("registered", k, NoKey), {<<k, tx_message>>},
           <<[kind |-> POLICY_KIND_LOCK, proof |-> <<>>]>>,
           session_witness_registered(TxSig(k), <<>>, channel_proof_region))

\* The slot holds no signature: it is empty, or has a mode and nothing else.
Unsigned ==
    \E left \in {<<>>, <<MODE_OWNER>>, <<MODE_SESSION>>, <<Num(2)>>} :
        Submit(By("none", NoKey, NoKey), {}, <<>>, left)

-----------------------------------------------------------------------------
(***************************************************************************)
(* The lock.                                                               *)
(***************************************************************************)
clientVars == <<account, args, outputs, signed, entries, builder>>

\* The first n bytes not yet read, and what follows them.
First(n) == SubSeq(rest, 1, n)
After(n) == SubSeq(rest, n + 1, Len(rest))

Answer(v) ==
    /\ verdict' = v /\ pc' = "done"
    /\ UNCHANGED <<clientVars, rest, params, index>>

GoTo(label, n) ==
    /\ pc' = label /\ rest' = After(n)
    /\ UNCHANGED <<clientVars, params, index, verdict>>

auth ==
    /\ pc = "auth"
    /\ \/ rest = <<>> /\ Answer("EmptyWitnessError")
       \/ rest # <<>> /\ rest[1] = MODE_OWNER /\ GoTo("owner", 1)
       \/ rest # <<>> /\ rest[1] = MODE_SESSION /\ GoTo("resolve", 1)
       \/ rest # <<>> /\ rest[1] \notin {MODE_OWNER, MODE_SESSION} /\ Answer("InvalidMode")

\* A signature of the length n is missing, wrong, or good.
Short(n) == Len(rest) < n
Good(pubkey_hash) ==
    ~Short(SIGNATURE_LEN) /\ signature_matches(First(SIGNATURE_LEN), tx_message, pubkey_hash)
Wrong(pubkey_hash) == ~Short(SIGNATURE_LEN) /\ ~Good(pubkey_hash)

OwnerSignature ==
    /\ pc = "owner"
    /\ \/ Short(SIGNATURE_LEN) /\ Answer("WitnessLenError")
       \/ Wrong(KeyHash(OWNER)) /\ Answer("AuthError")
       \/ Good(KeyHash(OWNER)) /\ Answer("accept")

\* The registered params are in the args; the others must be blessed.
ResolveRegistered ==
    /\ pc = "resolve" /\ account.model = "registered"
    /\ params' = parse_session_params(args)
    /\ pc' = "session"
    /\ UNCHANGED <<clientVars, rest, index, verdict>>

ResolveCarried ==
    LET block == First(SESSION_PARAMS_LEN)
        fields == SESSION_PARAMS_LEN + SIGNATURE_LEN
        owner_auth == SubSeq(rest, SESSION_PARAMS_LEN + 1, fields)
        blessed == signature_matches(owner_auth, params_auth_message(block), KeyHash(OWNER))
    IN  /\ pc = "resolve" /\ account.model = "carried"
        /\ \/ Short(fields) /\ Answer("WitnessLenError")
           \/ ~Short(fields) /\ ~blessed /\ Answer("AuthError")
           \/ /\ ~Short(fields) /\ blessed
              /\ params' = parse_session_params(block)
              /\ rest' = After(fields)
              /\ pc' = "session"
              /\ UNCHANGED <<clientVars, index, verdict>>

SessionSignature ==
    LET enabled == params.session_pubkey_hash # Zeros(KEY_LEN)
    IN  /\ pc = "session"
        /\ \/ ~enabled /\ Answer("SessionDisabled")
           \/ enabled /\ Short(SIGNATURE_LEN) /\ Answer("WitnessLenError")
           \/ enabled /\ Wrong(params.session_pubkey_hash) /\ Answer("AuthError")
           \/ enabled /\ Good(params.session_pubkey_hash) /\ GoTo("guardian", SIGNATURE_LEN)

Guarded == params.guardian_pubkey_hash # Zeros(KEY_LEN)

\* Variant of GuardianSignature: a witness too short for it goes without.
GuardianSignatureIfThere ==
    /\ pc = "guardian"
    /\ \/ ~Guarded \/ Short(SIGNATURE_LEN)
       \/ Good(params.guardian_pubkey_hash)
    /\ GoTo("policies", IF Guarded /\ ~Short(SIGNATURE_LEN) THEN SIGNATURE_LEN ELSE 0)

GuardianSignature ==
    /\ pc = "guardian"
    /\ \/ ~Guarded /\ GoTo("policies", 0)
       \/ Guarded /\ Short(SIGNATURE_LEN) /\ Answer("WitnessLenError")
       \/ Guarded /\ Wrong(params.guardian_pubkey_hash) /\ Answer("AuthError")
       \/ Guarded /\ Good(params.guardian_pubkey_hash) /\ GoTo("policies", SIGNATURE_LEN)

Scoped == params.policies_root # WILDCARD_ROOT

\* The value of a byte; one that is part of a digest or of a signature can
\* have any.
Values(byte) == IF byte[1] = "num" THEN {byte[2]} ELSE 0 .. MAX_BYTE

\* Variant of the leaf of an output: one without a type is let through.
AllowedIfTyped(kind, out, proof) ==
    \/ kind = POLICY_KIND_TYPE /\ out.type = NoScript
    \/ merkle_verify(params.policies_root,
                     policy_leaf(IF kind = POLICY_KIND_TYPE THEN out.type ELSE out.lock), proof)

\* The output's type or lock hash, as the entry says, is a leaf of the tree.
Allowed(kind, out, proof) ==
    /\ kind = POLICY_KIND_TYPE => out.type # NoScript
    /\ merkle_verify(params.policies_root,
                     policy_leaf(IF kind = POLICY_KIND_TYPE THEN out.type ELSE out.lock), proof)

\* The n digests after the two bytes of an entry.
SiblingsRead(n) ==
    [i \in 1 .. n |-> SubSeq(rest, 3 + HASH_LEN * (i - 1), 2 + HASH_LEN * i)]

NextOutput(n) ==
    /\ index' = index + 1 /\ rest' = After(n)
    /\ UNCHANGED <<clientVars, pc, params, verdict>>

\* Variant of SkipSelf: the index is moved on twice.
SkipSelfTwice ==
    /\ outputs[index] = SelfOutput
    /\ index' = index + 2
    /\ UNCHANGED <<clientVars, pc, rest, params, verdict>>

SkipSelf == outputs[index] = SelfOutput /\ NextOutput(0)

ProveForeign ==
    /\ outputs[index] # SelfOutput
    /\ \/ Len(rest) < 2 /\ Answer("PolicyProofMissing")
       \/ /\ Len(rest) >= 2
          /\ \E kind \in Values(rest[1]), proof_len \in Values(rest[2]) :
               LET bytes == proof_len * HASH_LEN
                   known == kind \in {POLICY_KIND_TYPE, POLICY_KIND_LOCK}
                   ok == known /\ Allowed(kind, outputs[index], SiblingsRead(proof_len))
               IN  \/ Len(rest) < 2 + bytes /\ Answer("PolicyProofMalformed")
                   \/ Len(rest) >= 2 + bytes /\ ~known /\ Answer("PolicyProofMalformed")
                   \/ Len(rest) >= 2 + bytes /\ known /\ ~ok /\ Answer("PolicyNotAllowed")
                   \/ Len(rest) >= 2 + bytes /\ ok /\ NextOutput(2 + bytes)

ProveOutputs ==
    /\ pc = "policies" /\ Scoped
    /\ \/ index > Len(outputs) /\ Answer("accept")
       \/ index <= Len(outputs) /\ (SkipSelf \/ ProveForeign)

Unscoped == pc = "policies" /\ ~Scoped /\ Answer("accept")

-----------------------------------------------------------------------------
\* The entries to try: a wrong key is refused before the lock gets to them, and
\* a signature too many or too few puts every entry out of place.
EntriesWith(k, g) ==
    SeqOf(Entry(account.scope.policies),
          IF k # account.session THEN 0 ELSE IF g # account.guardian THEN 1 ELSE MAX_ENTRIES)

Client ==
    /\ pc = "build"
    /\ \/ Unsigned
       \/ \E k \in Signer :
            \/ OwnerSigns(k)
            \/ signFundingTx(k)
            \/ \E g \in Cosigner : \E es \in EntriesWith(k, g) :
                  SessionSigns(k, g, es) \/ SessionSignsCarried(k, g, es)

Lock ==
    \/ auth \/ OwnerSignature \/ ResolveRegistered \/ ResolveCarried
    \/ SessionSignature \/ GuardianSignature \/ ProveOutputs \/ Unscoped

WitnessNext == Client \/ Lock

WitnessSpec == WitnessInit /\ [][WitnessNext]_witnessVars

-----------------------------------------------------------------------------
(***************************************************************************)
(* Properties.                                                             *)
(***************************************************************************)
\* Type invariant: the walk of check_output_policies stays within the outputs
\* and one past them, and every verdict is a code of the lock.
WitnessTypeOK ==
    /\ account \in Accounts
    /\ outputs \in Seq(Foreign \cup {SelfOutput})
    /\ pc \in {"build", "auth", "owner", "resolve", "session", "guardian", "policies", "done"}
    /\ index \in 1 .. Len(outputs) + 1
    /\ verdict \in {"none", "accept", "EmptyWitnessError", "InvalidMode", "WitnessLenError",
                    "AuthError", "SessionDisabled", "PolicyProofMissing",
                    "PolicyProofMalformed", "PolicyNotAllowed"}
    /\ (pc = "done") = (verdict # "none")

Listed(out) ==
    \E i \in DOMAIN account.scope.policies : account.scope.policies[i] \in {out.lock, out.type}

\* The entry is merkle_proof for the output's type or lock hash.
Proves(entry, out) ==
    \E i \in DOMAIN account.scope.policies :
        /\ account.scope.policies[i] = (IF entry.kind = POLICY_KIND_TYPE THEN out.type ELSE out.lock)
        /\ entry.proof = merkle_proof(Leaves(account.scope.policies), i - 1)

\* The entry of output i is that of its place among the foreign outputs.
Place(i) == Cardinality({j \in 1 .. i : outputs[j] # SelfOutput})

\* A witness made as the SDK documents it, with the account's own model.
WellBuilt ==
    /\ builder = By(account.model, account.session, account.guardian)
    /\ account.session # NoKey
    /\ account.scope.wildcard \/
         /\ Len(entries) = Place(Len(outputs))
         /\ \A i \in DOMAIN outputs :
              outputs[i] # SelfOutput => Proves(entries[Place(i)], outputs[i])

\* What the SDK frames is what the lock reads: a witness built for listed outputs
\* is never refused, whatever the size of the list, the place of the account's own
\* outputs, the trust model and the guardian, and no byte of it is left over.
BuiltIsAccepted ==
    verdict # "none" /\ WellBuilt =>
        verdict = "accept" /\ (account.scope.wildcard \/ rest = <<>>)

\* An accepted session transaction of a scoped account has no output outside the
\* account but those whose lock or type script is on the list, whatever the witness
\* says; an empty list lets nothing out.
OnlyListed ==
    verdict = "accept" /\ builder.fn # "owner" /\ ~account.scope.wildcard =>
        \A i \in DOMAIN outputs : outputs[i] = SelfOutput \/ Listed(outputs[i])

\* A transaction is accepted only with the owner's signature, or with the session
\* key's and, where the session has one, the guardian's, under params the owner
\* registered or blessed: no other field of the witness is ever read as a signature.
Authorised ==
    verdict = "accept" =>
        \/ <<OWNER, tx_message>> \in signed /\ builder.fn = "owner"
        \/ /\ account.session # NoKey /\ <<account.session, tx_message>> \in signed
           /\ account.guardian # NoKey => <<account.guardian, tx_message>> \in signed
           /\ account.model = "carried" =>
                <<OWNER, params_auth_message(args)>> \in signed
=============================================================================
