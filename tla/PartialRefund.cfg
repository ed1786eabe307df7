SPECIFICATION Spec
CONSTANTS
    customer = customer
    store = store
    affiliate = affiliate
    storeCard = storeCard
    affiliateCard = affiliateCard
    Orders = {o1}
    Users = {customer}
    Buyer <- MCBuyer
    Products = {affiliateCard}
    Sellers = {store, affiliate}
    Store = store
    SellerOf <- MCSellerOf
    InitialStock <- MCInitialStock
    Deltas <- NoDeltas
    MaxOnHand = 1
    InitialPoints <- MCInitialPoints
    Actors = {"ADMIN"}
    Delivery <- MCDelivery
    Gross = 2
    Shipping = 0
    Commission = 0
    Discount = 1
    Restocking = {FALSE}
    Methods = {"BANK_TRANSFER"}
    Receipts = {r1}
    Fetchers = {}
    Outcomes <- MCOutcomes
INVARIANTS
    ClosedOrdersOweNothing
CHECK_DEADLOCK FALSE
