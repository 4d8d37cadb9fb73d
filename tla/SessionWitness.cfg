SPECIFICATION WitnessSpec
CONSTANTS
    owner = owner
    key = key
    guardian = guardian
    NoKey = NoKey
    a = a
    b = b
    c = c
    d = d
    e = e
    x = x
    NoScript = NoScript
    Key = {owner, key, guardian}
    OWNER = owner
    Script = {a, b, c, d, e, x}
    Policies <- MCPolicies
    Accounts <- MCAccounts
    Foreign <- MCForeign
    Signer = {owner, key}
    Cosigner = {NoKey, guardian, owner}
    KEY_LEN = 1
    SIGNATURE_LEN = 3
    MAX_OUTPUTS = 2
    MAX_ENTRIES = 2
    MAX_BYTE = 2
INVARIANTS WitnessTypeOK BuiltIsAccepted OnlyListed Authorised
CHECK_DEADLOCK FALSE
