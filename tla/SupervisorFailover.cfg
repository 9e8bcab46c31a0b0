\* Leaders crash, are shut down and time out on stops, bots are deleted; lock, database and children are reliable.
SPECIFICATION Spec
CONSTANTS
    Workers = {w1, w2}
    Bots = {b1}
    Children = {c1, c2}
    Timers = {}
    Kinds = {"START", "STOP", "RESTART", "DELETE", "EMERGENCY_STOP"}
    Faults = {"crash", "shutdown", "stopTimeout", "disable"}
    MaxCommands = 2
    RestartLimit = 3
    Main = main
    None = none
SYMMETRY Symmetry
INVARIANTS
    TypeOK
    OnlyOneLeader
    AtMostOneTrading
    StopIsSafe
    OnlyEmergencyCloses
    DeletedIsGone
    RegistryFollowsRow
