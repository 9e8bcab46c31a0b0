\* test/trading-worker-shutdown.test.js: emergency stop closes the position.
SPECIFICATION Spec
CONSTANTS
    Workers = {w1}
    Bots = {b1}
    Children = {c1}
    Timers = {}
    Kinds = {"START", "STOP", "EMERGENCY_STOP"}
    Faults = {"trade"}
    MaxCommands = 3
    RestartLimit = 1
    Main = main
    None = none
PROPERTY
    EmergencyStopCloses
