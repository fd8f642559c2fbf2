SPECIFICATION RobotSpec
CONSTANTS
    Word = 4194304
    Threshold = 100
    FanTurns = 2
    InitialBalance = 120
    Deposits <- NoDeposits
    MaxIncome = 0
    RpcFails = FALSE
    Leftovers <- MCLeftovers
    MaxMisreads = 1
    RestFails = FALSE
    RestCrashes = FALSE
    Restarts = FALSE
INVARIANTS
    OwnShareKept
