SPECIFICATION FairSpec
CONSTANTS
    BusFrames = {1, 2, 3}
    Fd = {1, 3}
    ErrFrames = {2}
    TxMsgs = {m1, m2, m3}
    Bad = {m2}
    CtrlMsgs = {start}
    RxBufs = {b1}
    EventIdx = TRUE
    EarlyFrames = TRUE
    Refusals = TRUE
CHECK_DEADLOCK FALSE
INVARIANTS TypeOK RxInOrder TxConserved TxInOrder
PROPERTIES RxForwarded RequestsAnswered
