SPECIFICATION Spec
CONSTANTS
    b1 = b1
    b2 = b2
    b3 = b3
    view = view
    static = static
    FreeHead = free
    Null = Null
    Box <- MCBox
    Root <- MCRoot
    Symbol <- MCSymbol
    Cell <- MCCell
    FreeCount = 3
INVARIANTS MarksAreLive WayBack LiveUntouched ExactlyGarbage GainCounted
PROPERTY Terminates
CHECK_DEADLOCK FALSE
