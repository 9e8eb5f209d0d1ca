SPECIFICATION FairSpec
CONSTANTS
    SocketCount = 2
    Guests = {g1, g2, g3}
    SetupFails = FALSE
    RequestFails = FALSE
    WorkerBreaks = TRUE
CHECK_DEADLOCK FALSE
PROPERTY PanicContained
