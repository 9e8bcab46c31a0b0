\* README: only one worker replica becomes leader.
SPECIFICATION Spec
CONSTANTS
    Workers = {w1, w2}
    Bots = {b1}
    Children = {c1}
    Timers = {}
    Kinds = {"START"}
    Faults = {"lockLoss"}
    MaxCommands = 1
    RestartLimit = 1
    Main = main
    None = none
INVARIANT
    OnlyOneLeader
