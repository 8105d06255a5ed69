SPECIFICATION FairSpec
CONSTANTS
    Env <- NoEvents
    CmdCap = 2
    MsgCap = 2
    CtrlCap = 3
INVARIANTS
    CleanupAfterEngineOff
PROPERTIES
    SessionProtocol
    CallsReturn
