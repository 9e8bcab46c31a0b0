\* One server with two configurations: starts, stops, failures, relaunches and restarts of the server.
SPECIFICATION FairSpec
CONSTANTS
    MaxRestarts = 1
    MaxConfigs = 2
    MaxProcs = 3
    MaxCalls = 4
INVARIANTS
    TypeOK
    LoneTrader
PROPERTY
    DiesWithHost
CHECK_DEADLOCK FALSE
