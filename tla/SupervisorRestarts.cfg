\* Trading processes fail at any point; restart timers race the leader loop.
SPECIFICATION Spec
CONSTANTS
    Workers = {w1}
    Bots = {b1}
    Children = {c1, c2}
    Timers = {t1}
    Kinds = {"START", "DELETE"}
    Faults = {"childFailure"}
    MaxCommands = 2
    RestartLimit = 1
    Main = main
    None = none
SYMMETRY Symmetry
INVARIANTS
    TrackedIsUnasked
CHECK_DEADLOCK FALSE
