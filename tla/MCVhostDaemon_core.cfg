SPECIFICATION FairSpec
CONSTANTS
    SocketCount = 2
    Guests = {g1, g2, g3}
    SetupFails = TRUE
    RequestFails = TRUE
    WorkerBreaks = TRUE
CHECK_DEADLOCK FALSE
INVARIANTS TypeOK 
PROPERTIES ListensAgain SomebodyServed
