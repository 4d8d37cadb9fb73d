---------------------------- MODULE SessionLock ----------------------------
(***************************************************************************)
(* What every view of the session lock talks about: keys, scripts, and the *)
(* outputs of a transaction that are not under the lock itself.            *)
(***************************************************************************)
CONSTANTS
    Key,           \* public-key hashes
    NoKey,         \* twenty zero bytes
    Script,        \* scripts other than the session lock
    NoScript,      \* an output without a type script
    Foreign        \* outputs under other locks in use

ForeignOutput == [lock : Script, type : Script \cup {NoScript}]

ASSUME SessionLockAssumption ==
    /\ NoKey \notin Key
    /\ NoScript \notin Script
    /\ Foreign \subseteq ForeignOutput
=============================================================================
