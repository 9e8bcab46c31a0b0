SPECIFICATION Spec
CONSTANTS
    Configs <- MCConfigs
    Prices <- MCPrices
    Unit = 10
    Quote = 40
    Base = 6
    MaxOrders = 3
    MaxRestarts = 1
INVARIANTS
    TypeOK
    BookedIsRealised
    RestartKeepsLadder
PROPERTIES
    AveragesTowardsMarket
CHECK_DEADLOCK FALSE
