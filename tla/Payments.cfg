SPECIFICATION Spec
CONSTANTS
    customer = customer
    store = store
    affiliate = affiliate
    storeCard = storeCard
    affiliateCard = affiliateCard
    Orders = {o1, o2}
    Users = {customer}
    Buyer <- MCBuyer
    Products = {storeCard}
    Sellers = {store}
    Store = store
    SellerOf <- MCSellerOf
    InitialStock <- MCInitialStock
    Deltas <- MCDeltas
    MaxOnHand = 2
    InitialPoints <- MCInitialPoints
    Actors = {}
    Delivery <- MCDelivery
    Gross = 2
    Shipping = 0
    Commission = 0
    Discount = 1
    Restocking = {TRUE}
    Methods = {"BANK_TRANSFER", "MERCADO_PAGO"}
    Receipts = {r1}
    Fetchers = {f1}
    Outcomes = {"APPROVED"}
SYMMETRY MCSymmetry
INVARIANTS
    ReservedMatchesActive
    StoreStockCovered
    PointsReservedMatchOrders
    BalanceMatchesEntries
    ExpiredHoldsNothing
PROPERTIES
    ReleasedUnitsReturnOnlyLate
    StockSpec
    LoyaltySpec
CHECK_DEADLOCK FALSE
