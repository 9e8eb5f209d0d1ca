SPECIFICATION FairSpec
CONSTANTS
    RxBufs = {b1, b2}
    MaxFrames = 2
    BadFrames = {1}
    MaxBusOffs = 1
    MaxOps = 2
    Quota = 1
    DoneMax = 1
    AutoRestart = TRUE
    ReportFails = FALSE
    PmSleep = TRUE
CHECK_DEADLOCK FALSE
INVARIANTS TypeOK RxAccounted CtrlExclusive
PROPERTIES RxDrained BusOffReported OpsReturn
