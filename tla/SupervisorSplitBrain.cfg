\* The leader loses its lock session or its database calls fail: two leaders at work.
SPECIFICATION Spec
CONSTANTS
    Workers = {w1, w2}
    Bots = {b1}
    Children = {c1}
    Timers = {}
    Kinds = {"START", "EMERGENCY_STOP"}
    Faults = {"lockLoss", "dbError", "shutdown", "trade"}
    MaxCommands = 2
    RestartLimit = 1
    Main = main
    None = none
SYMMETRY Symmetry
INVARIANT
    ClaimedOnce
PROPERTY
    StatusMovesForward
