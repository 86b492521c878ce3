SPECIFICATION Spec
CONSTANTS
    Cell <- MCCell
    Block <- MCBlock
    Process = {p}
    FreeHead = 0
    Null = Null
    MinSize = 4
    Increase = 3
    MaxSize = 6
INVARIANTS TypeOK PointersAgree CellsConserved
PROPERTY Implements
CHECK_DEADLOCK FALSE
