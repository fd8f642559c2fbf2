SPECIFICATION ThreadSpec
CONSTANTS
    TransferInterval = 5
    Degrees <- MCBytes
    SensorDegrees <- MCSensorDegrees
    NoiseBytes <- MCNoiseBytes
    UartBufSize = 9
    Lines <- MCLines
    MaxNoise = 2
    MaxLine = 6
INVARIANTS
    NoResponseMissed
    ReadsFitBuffer
    PaysForHeat
PROPERTIES
    PaymentsSpaced
    ExitEndsThread
CHECK_DEADLOCK FALSE
