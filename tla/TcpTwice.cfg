SPECIFICATION Spec
CONSTANTS
    Conns = 1
    Length = 4
    MaxSegment = 2
    RxSize = 4
    BodyCap = 7
    FinWaits = TRUE
    NxtBound = 6
INVARIANTS BodyInOrder
CHECK_DEADLOCK FALSE
