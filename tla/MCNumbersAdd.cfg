CONSTANTS
    SHIFT_MAX = 2
    Calls <- Sums
SPECIFICATION Spec
INVARIANT SumIsExact
CHECK_DEADLOCK FALSE
