SPECIFICATION Spec
CONSTANTS
    Env <- NoEvents
    CmdCap = 2
    MsgCap = 2
    CtrlCap = 3
INVARIANTS
    EngineOnAfterFirstNmea
