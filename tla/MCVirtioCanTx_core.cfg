SPECIFICATION FairSpec
CONSTANTS
    Skbs = {s1, s2}
    NoSkb = NoSkb
    EchoSkbMax = 2
    VqSize = 3
    Indirect = FALSE
    Quota = 1
    BurstMax = 2
    AutoRestart = TRUE
    MemPressure = FALSE
    PmSleep = FALSE
INVARIANTS TypeOK NoEnospc InflightCounts EchoLoopedBack SkbOwnedOnce
PROPERTIES EchoReturned WokenByReap
