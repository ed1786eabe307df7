SPECIFICATION Spec
CONSTANTS
    s1 = s1
    p1 = p1
    p2 = p2
    Sales = {s1}
    Payouts = {}
    Amounts = {1}
    Adjustments <- NoAdjustments
    Gross = 3
    Shipping = 1
    Commission = 1
PROPERTIES
    RepairsMissingSalesOnly
CHECK_DEADLOCK FALSE
