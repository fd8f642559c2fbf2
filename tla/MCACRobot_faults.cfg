SPECIFICATION RobotSpec
CONSTANTS
    Word = 4194304
    Threshold = 100
    FanTurns = 2
    InitialBalance = 20
    Deposits <- MCDeposits
    MaxIncome = 260
    RpcFails = TRUE
    Leftovers <- MCLeftovers
    MaxMisreads = 1
    RestFails = TRUE
    RestCrashes = TRUE
    Restarts = TRUE
INVARIANTS
    SharesWithinIncome
    FanStopsInTime
PROPERTIES
    FanRunsItsTurns
CHECK_DEADLOCK FALSE
