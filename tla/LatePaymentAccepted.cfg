SPECIFICATION Spec
CONSTANTS
    customer = customer
    store = store
    affiliate = affiliate
    storeCard = storeCard
    affiliateCard = affiliateCard
    Orders = {o1}
    Users = {customer}
    Buyer <- MCBuyer
    Products = {storeCard}
    Sellers = {store}
    Store = store
    SellerOf <- MCSellerOf
    InitialStock <- MCInitialStock
    Deltas <- NoDeltas
    MaxOnHand = 1
    InitialPoints <- MCInitialPoints
    Actors = {}
    Delivery <- MCDelivery
    Gross = 2
    Shipping = 0
    Commission = 0
    Discount = 1
    Restocking = {FALSE}
    Methods = {"MERCADO_PAGO"}
    Receipts = {}
    Fetchers = {f1}
    Outcomes = {"APPROVED"}
INVARIANTS
    AcceptedPaymentsNotCancelled
CHECK_DEADLOCK FALSE
