SPECIFICATION BackOfficeSpec
CONSTANTS
    Scale = 10
    a = a
    b = b
    Admins = {a, b}
    z1 = z1
    z2 = z2
    za = za
    p1 = p1
    r1 = r1
    k1 = k1
    blue = blue
    oficial = oficial
    plain = plain
    StoreZones = {z1, z2}
    AffiliateZones = {za}
    Provinces = {p1}
    Rates = {r1}
    Prices = {1, 2}
    Points = {k1}
    Programs <- mcPrograms
    Casas = {blue, oficial}
    Commissions = {1000, 2500}
    NoOverride = NoOverride
    Texts = {plain}
    MaxWrites = 3
    InitialValues <- mcInitialValues
    InitialZones <- mcInitialZones
    InitialPickups <- mcInitialPickups
SYMMETRY AdminSymmetry
INVARIANTS
    StoreZonesDisjoint
PROPERTIES
    SavesOverwriteWhatWasShown
CHECK_DEADLOCK FALSE
