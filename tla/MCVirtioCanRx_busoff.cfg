SPECIFICATION FairSpec
CONSTANTS
    RxBufs = {b1}
    MaxFrames = 0
    BadFrames = {}
    MaxBusOffs = 1
    MaxOps = 1
    Quota = 1
    DoneMax = 1
    AutoRestart = FALSE
    ReportFails = TRUE
    PmSleep = FALSE
CHECK_DEADLOCK FALSE
PROPERTY BusOffReported
