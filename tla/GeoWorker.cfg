SPECIFICATION WorkerSpec
CONSTANTS
    GenMod = 5
INVARIANTS
    WorkerTypeOK
    NoLostWakeup
    RequestIsHeld
    DownMeansJoined
PROPERTIES
    DecodeReturns
    ShutdownReturns
    KickIsServed
