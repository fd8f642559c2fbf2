SPECIFICATION RpcSpec
CONSTANTS
    Step = 3
    RecvStep = 3
    RequestLens <- MCRequestLens
    ChunkLens <- MCChunkLens
    ResultLens <- MCResultLens
    MaxChunks = 2
    MaxCalls = 3
INVARIANTS
    BuffersHold
    PostedRequestIsWhole
    ResponseIsThisCalls
    NoStaleAnswer
    HealthyCallAnswers
CHECK_DEADLOCK FALSE
