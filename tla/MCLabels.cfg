SPECIFICATION Spec
CONSTANTS
    n1 = n1
    n2 = n2
    n3 = n3
    None = none
    Wild = wild
    Name = {n1, n2, n3}
    External = {x1}
    Body <- MCBody
    MaxDirectives = 5
    MaxErrors = 1
    MaxInfo = 20
INVARIANTS EquivalentNames CodeLinked KindsChecked
CHECK_DEADLOCK FALSE
