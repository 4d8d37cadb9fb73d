SPECIFICATION FairSpec
CONSTANTS
    p1 = p1  p2 = p2
    Player = {p1, p2}
    Named = {p1}
    Anyone = Anyone
    INVOICE_CAP = 2
    MAX_INVOICES = 3
    MAX_FAULTS = 1
INVARIANTS
    TypeOK
    PaidIsTrue
    PayersAddressed
PROPERTY InvoicesSettle
CHECK_DEADLOCK FALSE
