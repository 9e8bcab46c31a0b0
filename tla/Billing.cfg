SPECIFICATION Spec
CONSTANTS
    Month = 2
    Grace = 2
    Retries <- RetryOnce
    Lease = 1
    Workers = {w1, w2}
    RefundKeys = {r1}
    MaxTime = 3
    MaxPayments = 2
    MaxCheckouts = 1
    SavePaymentMethod = TRUE
    MaxFaults = 1
INVARIANTS
    TypeOK
    RenewedOncePerPeriod
    PaidIsPro
PROPERTIES
    LedgerSpec
    OnlyRefundShortens
SYMMETRY SymmetricWorkers
CHECK_DEADLOCK FALSE
