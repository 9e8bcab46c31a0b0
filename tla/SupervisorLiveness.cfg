\* Progress over crashes and shutdowns of leaders; no symmetry, because of liveness.
SPECIFICATION FairSpec
CONSTANTS
    Workers = {w1, w2}
    Bots = {b1}
    Children = {c1, c2}
    Timers = {}
    Kinds = {"RESTART"}
    Faults = {"crash", "shutdown"}
    MaxCommands = 2
    RestartLimit = 3
    Main = main
    None = none
PROPERTIES
    CommandsAreClaimed
    ShutdownCompletes
    RunningIsRestored
