----------------------------- MODULE BackOffice -----------------------------
(***************************************************************************)
(* What administrators and affiliates set up and checkout reads: the       *)
(* documents whose writes carry the version of the page they were edited   *)
(* on, and the delivery options, which have no version.  Every handler is  *)
(* one coordinated transaction; the page an administrator edits was loaded *)
(* earlier, and what others saved in between decides what happens to it.   *)
(***************************************************************************)
EXTENDS Quotes

CONSTANTS
    Admins,        \* administrators, each with one page open at most
    StoreZones, AffiliateZones,   \* identifiers of shipping zones
    Provinces,     \* provinces, equal when the code compares them
    Rates,         \* identifiers of shipping rates
    Prices,        \* prices of a rate
    Points,        \* identifiers of pickup points
    Programs,      \* loyalty programs that may be configured
    Casas,         \* exchange houses
    Commissions,   \* commissions in basis points
    NoOverride,    \* an affiliate without a commission of its own
    Texts,         \* contents of the documents nothing else reads
    InitialValues, InitialZones, InitialPickups,   \* what the shop starts with
    MaxWrites      \* bound: administrative writes in a behaviour

\* The form of a loyalty program.
LoyaltyPrograms == [enabled : BOOLEAN, pointValue : Nat \ {0}, spendPerPoint : Nat \ {0},
                    pointsPerStep : Nat, minimum : Nat, percent : Nat]

ASSUME BackOfficeAssumption ==
    /\ MaxWrites \in Nat
    /\ StoreZones \cap AffiliateZones = {}
    /\ Programs \subseteq LoyaltyPrograms
    /\ Prices \subseteq Nat
    /\ Commissions \subseteq 0..10000

VARIABLES
    docs,      \* each document's version and value
    pages,     \* the page each administrator has open
    zones,     \* shipping zones with their provinces and rates
    pickups,   \* pickup points
    writes     \* administrative writes so far

backOfficeVars == <<docs, pages, zones, pickups, writes>>

Zones == StoreZones \cup AffiliateZones
None == [doc |-> "none"]
NoZone == [active |-> FALSE]
IsZone(z) == zones[z] # NoZone

TransferValues == {v \in [enabled : BOOLEAN, complete : BOOLEAN] :
                     v.enabled => v.complete}

Values == [loyalty |-> Programs,
           exchange |-> Casas,
           transfer |-> TransferValues,
           newsSettings |-> Texts,
           news |-> Texts,
           supplier |-> [text : Texts, active : BOOLEAN],
           settings |-> Commissions,
           affiliate |-> [text : Texts, active : BOOLEAN,
                          override : Commissions \cup {NoOverride}]]
Documents == DOMAIN Values

\* The versions of a row that is not there: the news item and the supplier
\* are created, at version 1, and the news item may be deleted.
NotYet == 0
Deleted == -1
Exists(d) == docs[d].version > 0

RateValues == [price : Prices, active : BOOLEAN]
RateLists == UNION {[R -> RateValues] : R \in SUBSET Rates}
NoRates == [r \in {} |-> {}]
SomeProvinces == SUBSET Provinces \ {{}}

Owner(z) == IF z \in StoreZones THEN "STORE" ELSE "AFFILIATE"
ZoneValues(z) == [active : BOOLEAN, owner : {Owner(z)},
                  provinces : SomeProvinces, rates : RateLists]
PickupValues == [active : BOOLEAN, owner : {"STORE", "AFFILIATE"}]

\* What the shop starts with is what its handlers could have written.
ASSUME InitialAssumption ==
    /\ \A d \in Documents : InitialValues[d] \in Values[d]
    /\ DOMAIN InitialZones = Zones
    /\ \A z \in Zones : InitialZones[z] \in ZoneValues(z) \cup {NoZone}
    /\ \A y, z \in StoreZones :
         y # z /\ InitialZones[y].active /\ InitialZones[z].active
             => InitialZones[y].provinces \cap InitialZones[z].provinces = {}
    /\ InitialPickups \in [Points -> PickupValues \cup {NoZone}]

BackOfficeInit ==
    /\ docs = [d \in Documents |->
                 [version |-> IF d \in {"news", "supplier"} THEN NotYet ELSE 1,
                  value |-> InitialValues[d]]]
    /\ pages = [a \in Admins |-> None]
    /\ zones = InitialZones
    /\ pickups = InitialPickups
    /\ writes = 0

Write == /\ writes < MaxWrites
         /\ writes' = writes + 1

(***************************************************************************)
(* Documents.  Save is what their handlers share: the row is written only  *)
(* where it still has the version of the page, and gets the next one.      *)
(***************************************************************************)
OpenPage(a, d) ==
    /\ pages[a] = None
    /\ Exists(d)
    /\ pages' = [pages EXCEPT ![a] = [doc |-> d, version |-> docs[d].version,
                                     value |-> docs[d].value]]
    /\ UNCHANGED <<docs, zones, pickups, writes>>

PageFresh(a, d) == pages[a].doc = d /\ pages[a].version = docs[d].version
ClosePage(a) == pages' = [pages EXCEPT ![a] = None]

Save(a, d, v) ==
    /\ PageFresh(a, d)
    /\ Write
    /\ docs' = [docs EXCEPT ![d] = [version |-> @.version + 1, value |-> v]]
    /\ ClosePage(a)
    /\ UNCHANGED <<zones, pickups>>

UpdateLoyaltyProgram(a, v) == Save(a, "loyalty", v)
UpdateExchangeRateSettings(a, casa) == Save(a, "exchange", casa)
UpdateTransferSettings(a, v) == (v.enabled => v.complete) /\ Save(a, "transfer", v)
UpdateNewsSettings(a, t) == Save(a, "newsSettings", t)
UpdateNews(a, t) == Save(a, "news", t)
UpdateSupplier(a, t) ==
    Save(a, "supplier", [docs.supplier.value EXCEPT !.text = t])

UpdateAffiliateSettings(a, bps) == Save(a, "settings", bps)
UpdateAffiliate(a, active, bps) ==
    Save(a, "affiliate", [docs.affiliate.value EXCEPT !.active = active,
                                                      !.override = bps])
UpdateProfile(a, t) ==
    Save(a, "affiliate", [docs.affiliate.value EXCEPT !.text = t])

Create(d, v) ==
    /\ docs[d].version = NotYet
    /\ Write
    /\ docs' = [docs EXCEPT ![d] = [version |-> 1, value |-> v]]
    /\ UNCHANGED <<pages, zones, pickups>>

CreateNews(t) == Create("news", t)
CreateSupplier(t) == Create("supplier", [text |-> t, active |-> TRUE])

DeleteNews(a) ==
    /\ PageFresh(a, "news")
    /\ Write
    /\ docs' = [docs EXCEPT !.news.version = Deleted]
    /\ ClosePage(a)
    /\ UNCHANGED <<zones, pickups>>

\* Wrong form of SetSupplierActive: the version is not raised.
SetSupplierActiveUnversioned(a, active) ==
    /\ PageFresh(a, "supplier")
    /\ Write
    /\ docs' = [docs EXCEPT !.supplier.value.active = active]
    /\ ClosePage(a)
    /\ UNCHANGED <<zones, pickups>>

\* A supplier that is already so is answered without a write.
SetSupplierActive(a, active) ==
    \/ /\ active # docs.supplier.value.active
       /\ Save(a, "supplier", [docs.supplier.value EXCEPT !.active = active])
    \/ /\ active = docs.supplier.value.active
       /\ PageFresh(a, "supplier")
       /\ ClosePage(a)
       /\ UNCHANGED <<docs, zones, pickups, writes>>

SaveRefused(a) ==
    /\ pages[a] # None
    /\ ~PageFresh(a, pages[a].doc)
    /\ ClosePage(a)
    /\ UNCHANGED <<docs, zones, pickups, writes>>

DocumentsNext ==
    \E a \in Admins :
        \/ \E d \in Documents : OpenPage(a, d)
        \/ \E v \in Programs : UpdateLoyaltyProgram(a, v)
        \/ \E v \in Casas : UpdateExchangeRateSettings(a, v)
        \/ \E v \in [enabled : BOOLEAN, complete : BOOLEAN] :
             UpdateTransferSettings(a, v)
        \/ \E t \in Texts : UpdateNewsSettings(a, t)
        \/ \E t \in Texts : UpdateNews(a, t)
        \/ \E t \in Texts : UpdateSupplier(a, t)
        \/ \E b \in BOOLEAN : SetSupplierActive(a, b)
        \/ \E bps \in Commissions : UpdateAffiliateSettings(a, bps)
        \/ \E b \in BOOLEAN, bps \in Commissions \cup {NoOverride} :
             UpdateAffiliate(a, b, bps)
        \/ \E t \in Texts : UpdateProfile(a, t)
        \/ DeleteNews(a)
        \/ SaveRefused(a)
        \/ \E t \in Texts : CreateNews(t) \/ CreateSupplier(t)

(***************************************************************************)
(* Delivery options.  The store's zones are checked against every active   *)
(* zone, the affiliates' too; an affiliate's own are not checked at all.   *)
(***************************************************************************)
WriteZone(z, zone) ==
    /\ Write
    /\ zones' = [zones EXCEPT ![z] = zone]
    /\ UNCHANGED <<docs, pages, pickups>>

ProvincesAvailable(ps, z, active) ==
    active => /\ ps # {}
              /\ \A y \in Zones \ {z} :
                   zones[y].active => zones[y].provinces \cap ps = {}

CreateShippingZone(z, ps, active, rates) ==
    /\ ~IsZone(z)
    /\ ProvincesAvailable(ps, z, active)
    /\ WriteZone(z, [active |-> active, owner |-> "STORE", provinces |-> ps,
                     rates |-> rates])

\* Rates the page does not list are deactivated, never deleted.
Rewritten(old, listed) ==
    [r \in DOMAIN old \cup DOMAIN listed |->
        IF r \in DOMAIN listed THEN listed[r] ELSE [old[r] EXCEPT !.active = FALSE]]

UpdateShippingZone(z, ps, active, rates) ==
    /\ IsZone(z)
    /\ ProvincesAvailable(ps, z, active)
    /\ WriteZone(z, [zones[z] EXCEPT !.active = active, !.provinces = ps,
                                     !.rates = Rewritten(@, rates)])

\* Wrong form of SetShippingZoneActive: the provinces are not compared.
SetShippingZoneActiveUnchecked(z, active) ==
    /\ IsZone(z)
    /\ WriteZone(z, [zones[z] EXCEPT !.active = active])

SetShippingZoneActive(z, active) ==
    /\ IsZone(z)
    /\ ProvincesAvailable(zones[z].provinces, z, active)
    /\ WriteZone(z, [zones[z] EXCEPT !.active = active])

DeleteShippingZone(z) == IsZone(z) /\ WriteZone(z, NoZone)

\* An affiliate sets up its own delivery while it is active.
AffiliateActive == docs.affiliate.value.active

CreateOwnZone(z, ps) ==
    /\ AffiliateActive
    /\ ~IsZone(z)
    /\ WriteZone(z, [active |-> TRUE, owner |-> "AFFILIATE", provinces |-> ps,
                     rates |-> NoRates])

Owned(z) == AffiliateActive /\ IsZone(z) /\ zones[z].owner = "AFFILIATE"

CreateOwnRate(z, r, price) ==
    /\ Owned(z)
    /\ r \notin DOMAIN zones[z].rates
    /\ WriteZone(z, [zones[z] EXCEPT
            !.rates = Rewritten([s \in {r} |-> [price |-> price, active |-> TRUE]],
                                @)])

PatchOwnZone(z, ps, active) ==
    /\ Owned(z)
    /\ WriteZone(z, [zones[z] EXCEPT !.active = active, !.provinces = ps])

PatchOwnRate(z, r, rate) ==
    /\ Owned(z)
    /\ r \in DOMAIN zones[z].rates
    /\ WriteZone(z, [zones[z] EXCEPT !.rates[r] = rate])

\* Pickup points have an owner, a flag and nothing that refuses a write.
WritePickup(p, point) ==
    /\ Write
    /\ pickups' = [pickups EXCEPT ![p] = point]
    /\ UNCHANGED <<docs, pages, zones>>

IsPickup(p) == pickups[p] # NoZone

CreatePickupPoint(p, active) ==
    /\ ~IsPickup(p)
    /\ WritePickup(p, [active |-> active, owner |-> "STORE"])

\* A point edited in the back office may be an affiliate's: it keeps its
\* owner, and is active unless the page says it is not.
UpdatePickupPoint(p, active) ==
    /\ IsPickup(p)
    /\ WritePickup(p, [pickups[p] EXCEPT !.active = active])

SetPickupPointActive(p, active) ==
    /\ IsPickup(p)
    /\ WritePickup(p, [pickups[p] EXCEPT !.active = active])

DeletePickupPoint(p) == IsPickup(p) /\ WritePickup(p, NoZone)

CreateOwnPickup(p) ==
    /\ AffiliateActive
    /\ ~IsPickup(p)
    /\ WritePickup(p, [active |-> TRUE, owner |-> "AFFILIATE"])

PatchOwnPickup(p, active) ==
    /\ AffiliateActive
    /\ IsPickup(p) /\ pickups[p].owner = "AFFILIATE"
    /\ WritePickup(p, [pickups[p] EXCEPT !.active = active])

DeliveryNext ==
    \/ \E ps \in SomeProvinces, active \in BOOLEAN, rates \in RateLists :
         \/ \E z \in StoreZones : CreateShippingZone(z, ps, active, rates)
         \/ \E z \in Zones : UpdateShippingZone(z, ps, active, rates)
    \/ \E z \in Zones, active \in BOOLEAN : SetShippingZoneActive(z, active)
    \/ \E z \in Zones : DeleteShippingZone(z)
    \/ \E z \in AffiliateZones, ps \in SomeProvinces :
         \/ CreateOwnZone(z, ps)
         \/ \E active \in BOOLEAN : PatchOwnZone(z, ps, active)
    \/ \E z \in AffiliateZones, r \in Rates :
         \/ \E price \in Prices : CreateOwnRate(z, r, price)
         \/ \E rate \in RateValues : PatchOwnRate(z, r, rate)
    \/ \E p \in Points, b \in BOOLEAN :
         \/ CreatePickupPoint(p, b)
         \/ UpdatePickupPoint(p, b)
         \/ SetPickupPointActive(p, b)
         \/ PatchOwnPickup(p, b)
    \/ \E p \in Points : CreateOwnPickup(p) \/ DeletePickupPoint(p)

BackOfficeNext == DocumentsNext \/ DeliveryNext

BackOfficeSpec == BackOfficeInit /\ [][BackOfficeNext]_backOfficeVars

-----------------------------------------------------------------------------
(***************************************************************************)
(* Properties.                                                             *)
(***************************************************************************)
BackOfficeTypeOK ==
    /\ DOMAIN docs = Documents
    /\ \A d \in Documents :
         docs[d] \in [version : Deleted .. MaxWrites + 1, value : Values[d]]
    /\ DOMAIN pages = Admins
    /\ DOMAIN zones = Zones
    /\ \A z \in Zones : zones[z] \in ZoneValues(z) \cup {NoZone}
    /\ pickups \in [Points -> PickupValues \cup {NoZone}]
    /\ writes \in 0..MaxWrites

\* Two active zones of the store never share a province, whichever of the
\* three ways a zone becomes active or gets its provinces (1427-1435).
StoreZonesDisjoint ==
    \A y, z \in StoreZones :
        y # z /\ zones[y].active /\ zones[z].active
            => zones[y].provinces \cap zones[z].provinces = {}

\* A save or a deletion overwrites only what the administrator was shown:
\* equal versions are equal contents, so no other save is lost.
SavesOverwriteWhatWasShown ==
    [][\A d \in Documents :
         Exists(d) /\ (docs'[d].value # docs[d].value \/ ~Exists(d)') =>
         \E a \in Admins : /\ pages[a].doc = d /\ pages'[a] = None
                           /\ pages[a].value = docs[d].value]_backOfficeVars
=============================================================================
