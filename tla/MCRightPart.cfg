SPECIFICATION Spec
CONSTANTS
    k1 = k1
    f1 = f1
    k = k
    f = f
    l = l
    x = x
    r = r
    y = y
    d = d
    d1 = d1
    v = v
    b = b
    b1 = b1
    z = z
    h = h
    e1 = e1
    e2 = e2
    e3 = e3
    e4 = e4
    fun = fun
    sym = sym
    Quasi = quasi
    Null = null
    Cell <- MCCell
    Scenes <- MCScenes
    Symbol <- MCSymbol
INVARIANTS CellsConserved BracketsPaired DotsChained LackHarmless
PROPERTY MeansRightSide
CHECK_DEADLOCK FALSE
