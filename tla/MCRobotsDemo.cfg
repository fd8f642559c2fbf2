SPECIFICATION DemoSpec
CONSTANTS
    TransferInterval = 2
    Degrees <- MCDegrees
    Word = 4194304
    Threshold = 100
    FanTurns = 4
    InitialBalance = 20
    Deposits <- NoDeposits
    MaxIncome = 120
    RpcFails = FALSE
    Leftovers <- NoLeftovers
    MaxMisreads = 0
    RestFails = FALSE
    RestCrashes = FALSE
    Restarts = FALSE
    Payment = 20
    PaymentsFail = TRUE
    Registers <- MCRegisters
    ModemFails <- MCModemFails
    SetUpFails <- MCSetUpFails
INVARIANTS
    FanIsPaidFor
    BooksBalance
    EndsOffline
PROPERTIES
    PaymentsTurnFanOn
    FanGoesOff
    RobotsGetGoing
CHECK_DEADLOCK FALSE
