SPECIFICATION Spec
CONSTANTS
    Skbs = {s1, s2}
    NoSkb = NoSkb
    EchoSkbMax = 2
    VqSize = 3
    Indirect = TRUE
    Quota = 1
    BurstMax = 1
    AutoRestart = FALSE
    MemPressure = TRUE
    PmSleep = TRUE
SYMMETRY SkbSymmetry
INVARIANTS SlotAccounting NoBugOn  RingBacked
