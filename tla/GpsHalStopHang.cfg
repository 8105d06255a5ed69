SPECIFICATION FairSpec
CONSTANTS
    Env <- MnlDies
    CmdCap = 2
    MsgCap = 2
    CtrlCap = 3
PROPERTIES
    StopReturns
CHECK_DEADLOCK FALSE
