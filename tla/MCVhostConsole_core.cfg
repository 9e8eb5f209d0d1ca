SPECIFICATION FairSpec
CONSTANTS
    NTexts = 3
    Bad = {2}
    NKeys = 2
    CtrlBufs = {b1, b2}
    RxBufs = {r1}
    EventIdx = TRUE
    MaxReads = 1
    MaxOpens = 1
CHECK_DEADLOCK FALSE
INVARIANTS TypeOK InputNeverOlder
PROPERTIES TextInOrder ControlInOrder HandshakeCompletes TextPrinted
