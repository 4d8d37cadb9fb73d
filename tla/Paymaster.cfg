SPECIFICATION Spec
CONSTANTS
    c1 = c1  c2 = c2  c3 = c3
    Client = {c1, c2, c3}
    Issued <- MCIssued
    Genuine = {c1, c2, c3}
    SCOPE = "sponsor"
    Attenuation <- MCAttenuation
    Size <- MCSize
    SignedSize <- MCSignedSize
    FEE_RATE = 1200
    NODE_FEE_RATE = 1000
    MIN_FEE_SHANNONS = 1000
    MIN_CHANGE = 600
    PAGE = 2
    FeeCells <- MCFeeCells
    MAX_TIME = 1
    MAX_BLOCKS = 1
    MAX_REVOKED = 1
    MAX_LOST = 1
INVARIANTS
    TypeOK
    GatesAgree
    DraftsPay
    PaysFeesOnly
PROPERTY GetsThrough
CHECK_DEADLOCK FALSE
