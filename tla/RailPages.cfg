SPECIFICATION Spec
CONSTANTS
    p1 = p1
    Page = {p1}
    CKB = 2
    DEPOSIT = 24
    SPEND_CAP = 12
    FUNDING_FEE = 1
    CLOSE_FEE = 1
    CHANNEL_RESERVE = 1
    MIN_CHANGE = 2
    MAX_FEE = 1
    MAX_CHANNELS = 2
    MAX_CALLS = 3
    MIXES <- MCMixes
    Budget = {5, 6}
    COST = 2
    BATCH = 2
    Invoices = {1}
    Asked = {1}
    MIN_FUNDING = 1
    RESERVE = 1
    RETRIES = 1
INVARIANTS
    TypeOK
    NeverOvercommits
    ReportSafe
PROPERTIES
    CallsEnd
    GameSettles
CHECK_DEADLOCK FALSE
