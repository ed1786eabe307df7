SPECIFICATION Spec
CONSTANTS
    customer = customer
    store = store
    affiliate = affiliate
    storeCard = storeCard
    affiliateCard = affiliateCard
    Orders = {o1}
    Users = {customer}
    Buyer <- MCBuyer
    Products = {storeCard, affiliateCard}
    Sellers = {store, affiliate}
    Store = store
    SellerOf <- MCSellerOf
    InitialStock <- MCInitialStock
    Deltas <- NoDeltas
    MaxOnHand = 1
    InitialPoints <- MCInitialPoints
    Actors = {"AFFILIATE", "ADMIN", "BUYER", "SYSTEM"}
    Delivery <- MCDelivery
    Gross = 2
    Shipping = 0
    Commission = 1
    Discount = 1
    Restocking = {TRUE}
    Methods = {"BANK_TRANSFER"}
    Receipts = {r1, r2}
    Fetchers = {}
    Outcomes <- MCOutcomes
INVARIANTS
    TypeOK
    OneReceiptDecides
    PendingOrdersIntact
PROPERTIES
    ReopenedOnlyByDecision
CHECK_DEADLOCK FALSE
