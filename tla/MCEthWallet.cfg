SPECIFICATION WalletSpec
CONSTANTS
    Txs <- MCTxs
    WaitTimeout = 30
    MineInterval = 3
    SyncModes <- MCBoth
    RpcFails = TRUE
    ChainSlow = TRUE
INVARIANTS
    NoNonceGap
    SuccessesInOrder
PROPERTIES
    ImplementsService
    CallsReturn
CHECK_DEADLOCK FALSE
