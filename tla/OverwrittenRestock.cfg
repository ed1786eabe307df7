SPECIFICATION ListingsSpec
CONSTANTS
    Tabs = {t1}
    i1 = i1
    i2 = i2
    i3 = i3
    Images = {i1, i2, i3}
    MaxImages = 2
    MaxStock = 2
    MaxVersion = 4
    MaxMoves = 4
INVARIANTS
    StockAlwaysExplained
CHECK_DEADLOCK FALSE
SYMMETRY ImageSymmetry
