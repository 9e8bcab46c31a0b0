\* docs/entitlements.md: STOP commands can safely stop trading.
SPECIFICATION Spec
CONSTANTS
    Workers = {w1}
    Bots = {b1}
    Children = {c1, c2}
    Timers = {t1}
    Kinds = {"START", "STOP"}
    Faults = {"childFailure"}
    MaxCommands = 2
    RestartLimit = 1
    Main = main
    None = none
INVARIANT
    StopIsSafe
CHECK_DEADLOCK FALSE
