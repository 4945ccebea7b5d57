SPECIFICATION Spec
CONSTANTS
    Conns = 1
    Length = 4
    MaxSegment = 2
    RxSize = 4
    BodyCap = 7
    FinWaits = FALSE
    NxtBound = 6
INVARIANTS RxInOrder
CHECK_DEADLOCK FALSE
