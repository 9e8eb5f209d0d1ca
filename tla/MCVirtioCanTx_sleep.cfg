SPECIFICATION Spec
CONSTANTS
    Skbs = {s1, s2}
    NoSkb = NoSkb
    EchoSkbMax = 2
    VqSize = 4
    Indirect = FALSE
    Quota = 2
    BurstMax = 1
    AutoRestart = FALSE
    MemPressure = FALSE
    PmSleep = TRUE
INVARIANTS InflightCounts
