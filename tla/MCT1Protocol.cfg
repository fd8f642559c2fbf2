SPECIFICATION T1Spec
CONSTANTS
    MaxInf = 2
    FrameRetry = 1
    TimeoutRetry = 1
    RnackLimit = 1
    WtxLimit = 2
    CmdLens = {3}
    IfscSizes = {1}
    ReplyBlocks = {2}
    MaxFaults = 2
    MaxWtx = 2
    MaxSessions = 2
    MaxCommands = 2
INVARIANTS
    CommandsWhole
PROPERTIES
    EveryCallEnds
    ImplementsLink
    NoTruncatedReply
    StaysInStep
CHECK_DEADLOCK FALSE
