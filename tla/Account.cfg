SPECIFICATION Spec
CONSTANTS
    s1 = s1
    p1 = p1
    p2 = p2
    Sales = {s1}
    Payouts = {p1, p2}
    Amounts = {1, 2}
    Adjustments <- MCAdjustments
    Gross = 3
    Shipping = 1
    Commission = 1
SYMMETRY MCPayoutSymmetry
INVARIANTS
    EarnedWithinCredits
    PaidWithinCredits
PROPERTIES
    ImplementsWallet
CHECK_DEADLOCK FALSE
