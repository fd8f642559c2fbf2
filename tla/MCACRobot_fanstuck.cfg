SPECIFICATION RobotSpec
CONSTANTS
    Word = 4194304
    Threshold = 100
    FanTurns = 8
    InitialBalance = 20
    Deposits <- MCDeposits
    MaxIncome = 130
    RpcFails = FALSE
    Leftovers <- NoLeftovers
    MaxMisreads = 0
    RestFails = TRUE
    RestCrashes = FALSE
    Restarts = FALSE
PROPERTIES
    FanGoesOff
