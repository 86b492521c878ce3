SPECIFICATION Spec
CONSTANTS
    Name = {m, n}
    Value = {v, w}
    None = None
    MinSize = 5
    Increase = 3
    MaxSize = 18
    MaxStop = 3
    Wrap = 8
    MaxTerms = 2
    MaxPlain = 5
    MaxItems = 2
    MaxDepth = 3
INVARIANTS BlockRestored NeverAborts CellsAccounted StepsCounted
PROPERTIES StoreFollows EveryStepEnds
CHECK_DEADLOCK FALSE
