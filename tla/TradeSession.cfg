SPECIFICATION Spec
CONSTANTS
    Prices = {1, 2}
    IsOnlyBuy = FALSE
    Size = 2
    MaxOrders = 3
    MaxSessions = 2
    MaxStarts = 2
    MaxFaults = 1
INVARIANTS
    TypeOK
    OneActiveSession
    SavedIsFinal
    OnlyFaultsHideOrders
    NeverOverClosed
    EndedIsFlatOrPartial
    MemoryIsLedger
CHECK_DEADLOCK FALSE
