CONSTANTS
    SHIFT_MAX = 2
    Calls <- AllCalls
SPECIFICATION Spec
INVARIANTS TypeOK Exact DividendConserved
PROPERTY Ends
CHECK_DEADLOCK FALSE
