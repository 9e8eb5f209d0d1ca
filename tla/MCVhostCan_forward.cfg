SPECIFICATION FairSpec
CONSTANTS
    BusFrames = {1, 2}
    Fd = {1, 2}
    ErrFrames = {}
    TxMsgs = {}
    Bad = {}
    CtrlMsgs = {}
    RxBufs = {b1, b2, b3}
    EventIdx = FALSE
    EarlyFrames = FALSE
    Refusals = FALSE
CHECK_DEADLOCK FALSE
PROPERTIES FramesForwarded
