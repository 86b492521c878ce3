SPECIFICATION Spec
CONSTANTS
    Box = {b1, b2}
    Static = {s}
    Plain = {x}
    NoCall = NoCall
    MinSize = 5
    Increase = 3
    MaxSize = 10
    FreeCount = 2
    MaxView = 2
INVARIANTS NoDangling CellsAccounted
PROPERTIES Transparent CallsReturn
CHECK_DEADLOCK FALSE
