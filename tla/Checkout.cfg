SPECIFICATION CheckoutSpec
CONSTANTS
    Scale = 10
    Admins = {a}
    z1 = z1
    z2 = z2
    za = za
    p1 = p1
    InitialPrice = 4
    r1 = r1
    k1 = k1
    blue = blue
    oficial = oficial
    plain = plain
    StoreZones = {z1, z2}
    AffiliateZones = {za}
    Provinces = {p1}
    Rates = {r1}
    Prices = {1, 2}
    Points = {k1}
    Programs <- mcPrograms
    Casas = {blue, oficial}
    Commissions = {1000, 2500}
    NoOverride = NoOverride
    Texts = {plain}
    MaxWrites = 1
    InitialValues <- mcInitialValues
    InitialZones <- mcInitialZones
    InitialPickups <- mcInitialPickups
    Carts <- mcCarts
    Available = 3
    ProductPrices = {4, 5}
    MarketRates = {12, 15}
    MaxSnapshots = 2
INVARIANTS
    OneOrderPerKey
    OrderCostsAsPreviewed
    SellersArePaid
CHECK_DEADLOCK FALSE
