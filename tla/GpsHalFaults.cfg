SPECIFICATION Spec
CONSTANTS
    Env <- AllEvents
    CmdCap = 1
    MsgCap = 2
    CtrlCap = 2
INVARIANTS
    TypeOK
    FdsOpenWhileThreadRuns
    NoLostStart
    CleanupJoinsThreads
CHECK_DEADLOCK FALSE
