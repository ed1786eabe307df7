SPECIFICATION FairSpec
CONSTANTS
    customer = customer
    store = store
    affiliate = affiliate
    storeCard = storeCard
    affiliateCard = affiliateCard
    Orders = {o1}
    Users = {customer}
    Buyer <- MCBuyer
    Products = {storeCard, affiliateCard}
    Sellers = {store, affiliate}
    Store = store
    SellerOf <- MCSellerOf
    InitialStock <- MCInitialStock
    Deltas <- NoDeltas
    MaxOnHand = 1
    InitialPoints <- MCInitialPoints
    Actors = {"ADMIN"}
    Delivery <- MCDelivery
    Gross = 2
    Shipping = 0
    Commission = 0
    Discount = 1
    Restocking = {FALSE}
    Methods = {"BANK_TRANSFER", "MERCADO_PAGO"}
    Receipts = {r1}
    Fetchers = {f1, f2}
    Outcomes = {"APPROVED", "REFUNDED", "PARTIALLY_REFUNDED", "DISPUTED"}
INVARIANTS
    AccreditedStockConsumed
    EarningsWithinSale
PROPERTIES
    OrdersLeavePayment
CHECK_DEADLOCK FALSE
