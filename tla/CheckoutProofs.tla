--------------------------- MODULE CheckoutProofs ---------------------------
(***************************************************************************)
(* Proofs about the back office and the checkout, for any documents,       *)
(* zones, prices, programs and carts.                                      *)
(*                                                                         *)
(* The back office: a page holds the contents of the version it names,     *)
(* which only a save replaces, and a save takes a new version (PageInv).   *)
(* The checkout: a quote keeps the prices of the versions it was made      *)
(* with, so two quotes for one request differ at most in what has no       *)
(* version (Quoted, OrderInv).                                             *)
(***************************************************************************)
EXTENDS Checkout, SequenceTheorems, WellFoundedInduction, TLAPS

\* What a page shows is what its version of the document contained.
PageInv(a, d) ==
    pages[a].doc = d =>
        /\ pages[a].version \in Nat \ {0}
        /\ docs[d].version = Deleted \/ pages[a].version <= docs[d].version
        /\ pages[a].version = docs[d].version => pages[a].value = docs[d].value

DocsInv ==
    /\ DOMAIN docs = Documents
    /\ \A d \in Documents :
          /\ docs[d] \in [version : Deleted .. MaxWrites + 1, value : Values[d]]
          /\ docs[d].version <= writes + 1
    /\ DOMAIN pages = Admins
    /\ \A a \in Admins : pages[a] = None \/ pages[a].doc \in Documents
    /\ \A a \in Admins, d \in Documents : PageInv(a, d)
    /\ writes \in 0..MaxWrites

ZonesInv ==
    /\ DOMAIN zones = Zones
    /\ \A z \in Zones : zones[z] \in ZoneValues(z) \cup {NoZone}
    /\ pickups \in [Points -> PickupValues \cup {NoZone}]
    /\ StoreZonesDisjoint

BackOfficeInv == DocsInv /\ ZonesInv

\* A quote for a cart is made with the prices of the versions it names.
Quoted(q, c, versions) ==
    /\ \A s \in Sellers : q.gross[s] \in Nat /\ q.shipping[s] \in Nat
    /\ q.total = q.gross["STORE"] + q.gross["AFFILIATE"] - Discount(q.program, c.points)
    /\ \A s \in Sellers \ Selling(c) : q.gross[s] = q.shipping[s]
    /\ \A s \in Selling(c) :
          /\ versions[s] \in Nat /\ versions[s] <= products[s].version
          /\ versions[s] = products[s].version =>
                 q.gross[s] = SellerSubtotal(c, s) + q.shipping[s]

BuyerTyped ==
    /\ DOMAIN buyer = {"at", "cart", "versions", "quote", "casa", "snapshot", "rate"}
    /\ buyer.at \in BuyerSteps \ {"browsing"}
    /\ buyer.cart \in Carts
    /\ buyer.casa \in Casas

Priced == buyer.at \in {"previewed", "sent", "done"}

BuyerInv ==
    /\ buyer = Browsing \/ BuyerTyped
    /\ buyer.at # "browsing" => Quoted(buyer.quote, buyer.cart, buyer.versions)
    /\ Priced /\ buyer.cart.method = "MERCADO_PAGO" =>
          /\ buyer.snapshot \in DOMAIN snapshots
          /\ snapshots[buyer.snapshot].rate = buyer.rate
    /\ buyer.at = "done" => orders # <<>> /\ orders[1].request = Request

\* The shares make up the total, which covers what the affiliate is owed.
Shared(q) ==
    /\ q.total + q.discount = q.net["STORE"] + q.net["AFFILIATE"] + q.commission["AFFILIATE"]
    /\ q.commission["STORE"] = 0
    /\ q.net["AFFILIATE"] >= 0
    /\ q.total >= q.gross["AFFILIATE"] + q.shipping["STORE"]

\* Apart from the shipping, two quotes for the same request say the same.
SameGoods(p, q) ==
    \A s \in Sellers : p.gross[s] - p.shipping[s] = q.gross[s] - q.shipping[s]

OrderOK(o) ==
    /\ o.request.cart \in Carts
    /\ Quoted(o.quote, o.request.cart, o.request.versions)
    /\ Shared(o.quote)
    /\ o.request.cart.method = "MERCADO_PAGO" => o.request.snapshot \in DOMAIN snapshots
    /\ o.provider = IF o.request.cart.method = "BANK_TRANSFER" THEN 0
                    ELSE UsdMinorToArsMinor(o.quote.total, snapshots[o.request.snapshot].rate)
    /\ /\ buyer.at # "browsing" /\ buyer.cart = o.request.cart
       /\ buyer.versions = o.request.versions
       => SameGoods(buyer.quote, o.quote)

OrderInv == orders # <<>> => orders = <<orders[1]>> /\ OrderOK(orders[1])

GoodsOK ==
    /\ products \in [Sellers -> [version : 1 .. MaxWrites + 1, price : ProductPrices]]
    /\ \A s \in Sellers : products[s].version <= writes + 1
    /\ snapshots \in Seq([casa : Casas, rate : MarketRates, fresh : BOOLEAN])
    /\ visitor = Elsewhere \/ visitor \in [at : {"lookup", "fetching"}, casa : Casas]

CheckoutInv == BackOfficeInv /\ GoodsOK /\ BuyerInv /\ OrderInv

-----------------------------------------------------------------------------
(* The documents.                                                           *)

LEMMA DocumentNames ==
    /\ Documents = {"loyalty", "exchange", "transfer", "newsSettings", "news", "supplier",
                    "settings", "affiliate"}
    /\ Values["loyalty"] = Programs /\ Values["exchange"] = Casas
    /\ Values["transfer"] = TransferValues /\ Values["newsSettings"] = Texts
    /\ Values["news"] = Texts /\ Values["supplier"] = [text : Texts, active : BOOLEAN]
    /\ Values["settings"] = Commissions
    /\ Values["affiliate"] = [text : Texts, active : BOOLEAN,
                              override : Commissions \cup {NoOverride}]
BY DEF Documents, Values

\* The page goes, and nothing is written.
Closed(a) == ClosePage(a) /\ UNCHANGED <<docs, zones, pickups, writes>>

\* The ways a handler may leave the documents.
DocumentStep ==
    \/ \E a \in Admins, d \in Documents : OpenPage(a, d)
    \/ \E a \in Admins, d \in Documents : \E v \in Values[d] : Save(a, d, v)
    \/ \E d \in Documents : \E v \in Values[d] : Create(d, v)
    \/ \E a \in Admins : DeleteNews(a)
    \/ \E a \in Admins : Closed(a)

LEMMA DocumentSteps ==
    ASSUME DocsInv, DocumentsNext
    PROVE  DocumentStep
<1>1. /\ docs["supplier"].value \in [text : Texts, active : BOOLEAN]
      /\ docs["affiliate"].value \in [text : Texts, active : BOOLEAN,
                                      override : Commissions \cup {NoOverride}]
  BY DocumentNames DEF DocsInv
<1>2. PICK a \in Admins :
        \/ \E d \in Documents : OpenPage(a, d)
        \/ \E v \in Programs : UpdateLoyaltyProgram(a, v)
        \/ \E v \in Casas : UpdateExchangeRateSettings(a, v)
        \/ \E v \in [enabled : BOOLEAN, complete : BOOLEAN] : UpdateTransferSettings(a, v)
        \/ \E t \in Texts : UpdateNewsSettings(a, t)
        \/ \E t \in Texts : UpdateNews(a, t)
        \/ \E t \in Texts : UpdateSupplier(a, t)
        \/ \E b \in BOOLEAN : SetSupplierActive(a, b)
        \/ \E bps \in Commissions : UpdateAffiliateSettings(a, bps)
        \/ \E b \in BOOLEAN, bps \in Commissions \cup {NoOverride} : UpdateAffiliate(a, b, bps)
        \/ \E t \in Texts : UpdateProfile(a, t)
        \/ DeleteNews(a)
        \/ SaveRefused(a)
        \/ \E t \in Texts : CreateNews(t) \/ CreateSupplier(t)
  BY DEF DocumentsNext
<1>3. ASSUME NEW v \in Programs, UpdateLoyaltyProgram(a, v) PROVE DocumentStep
  BY <1>3, DocumentNames DEF UpdateLoyaltyProgram, DocumentStep
<1>4. ASSUME NEW v \in Casas, UpdateExchangeRateSettings(a, v) PROVE DocumentStep
  BY <1>4, DocumentNames DEF UpdateExchangeRateSettings, DocumentStep
<1>5. ASSUME NEW v \in [enabled : BOOLEAN, complete : BOOLEAN], UpdateTransferSettings(a, v)
      PROVE  DocumentStep
  BY <1>5, DocumentNames DEF UpdateTransferSettings, TransferValues, DocumentStep
<1>6. ASSUME NEW t \in Texts, UpdateNewsSettings(a, t) \/ UpdateNews(a, t) PROVE DocumentStep
  BY <1>6, DocumentNames DEF UpdateNewsSettings, UpdateNews, DocumentStep
<1>7. ASSUME NEW t \in Texts, UpdateSupplier(a, t) PROVE DocumentStep
  <2>1. [docs.supplier.value EXCEPT !.text = t] \in Values["supplier"]
    BY <1>1, DocumentNames
  <2> QED
    BY <1>7, <2>1, DocumentNames DEF UpdateSupplier, DocumentStep
<1>8. ASSUME NEW b \in BOOLEAN, SetSupplierActive(a, b) PROVE DocumentStep
  <2>1. [docs.supplier.value EXCEPT !.active = b] \in Values["supplier"]
    BY <1>1, DocumentNames
  <2> QED
    BY <1>8, <2>1, DocumentNames DEF SetSupplierActive, Closed, DocumentStep
<1>9. ASSUME NEW bps \in Commissions, UpdateAffiliateSettings(a, bps) PROVE DocumentStep
  BY <1>9, DocumentNames DEF UpdateAffiliateSettings, DocumentStep
<1>10. ASSUME NEW b \in BOOLEAN, NEW bps \in Commissions \cup {NoOverride},
              UpdateAffiliate(a, b, bps)
       PROVE  DocumentStep
  <2>1. [docs.affiliate.value EXCEPT !.active = b, !.override = bps] \in Values["affiliate"]
    BY <1>1, DocumentNames
  <2> QED
    BY <1>10, <2>1, DocumentNames DEF UpdateAffiliate, DocumentStep
<1>11. ASSUME NEW t \in Texts, UpdateProfile(a, t) PROVE DocumentStep
  <2>1. [docs.affiliate.value EXCEPT !.text = t] \in Values["affiliate"]
    BY <1>1, DocumentNames
  <2> QED
    BY <1>11, <2>1, DocumentNames DEF UpdateProfile, DocumentStep
<1>12. ASSUME NEW t \in Texts, CreateNews(t) \/ CreateSupplier(t) PROVE DocumentStep
  BY <1>12, DocumentNames DEF CreateNews, CreateSupplier, DocumentStep
<1>13. CASE SaveRefused(a)
  BY <1>13 DEF SaveRefused, Closed, DocumentStep
<1>14. CASE (\E d \in Documents : OpenPage(a, d)) \/ DeleteNews(a)
  BY <1>14 DEF DocumentStep
<1> QED
  BY <1>2, <1>3, <1>4, <1>5, <1>6, <1>7, <1>8, <1>9, <1>10, <1>11, <1>12, <1>13, <1>14

\* A document keeps its record, and only the version it has may be newer.
LEMMA DocumentsKept ==
    ASSUME DocsInv, DocumentStep
    PROVE  DocsInv' /\ UNCHANGED <<zones, pickups>>
<1> DEFINE DocOK(d) == /\ docs[d] \in [version : Deleted .. MaxWrites + 1, value : Values[d]]
                       /\ docs[d].version <= writes + 1
<1>0. /\ "none" \notin Documents /\ "news" \in Documents
      /\ MaxWrites \in Nat
  BY DocumentNames, BackOfficeAssumption
<1>a. /\ DOMAIN docs = Documents /\ DOMAIN pages = Admins
      /\ writes \in 0..MaxWrites
      /\ \A a \in Admins : pages[a] = None \/ pages[a].doc \in Documents
  BY DEF DocsInv
<1>b. ASSUME NEW d \in Documents
      PROVE  /\ docs[d].version \in Int /\ -1 <= docs[d].version
             /\ docs[d].version <= writes + 1 /\ docs[d].version <= MaxWrites + 1
             /\ docs[d].value \in Values[d]
             /\ docs[d] \in [version : Deleted .. MaxWrites + 1, value : Values[d]]
  BY <1>0 DEF DocsInv, Deleted
<1>c. ASSUME NEW a \in Admins, NEW d \in Documents PROVE PageInv(a, d)
  BY DEF DocsInv
<1>1. ASSUME NEW a \in Admins, NEW d \in Documents, OpenPage(a, d)
      PROVE  DocsInv' /\ UNCHANGED <<zones, pickups>>
  <2>1. /\ UNCHANGED <<docs, zones, pickups, writes>>
        /\ pages' = [pages EXCEPT ![a] = [doc |-> d, version |-> docs[d].version,
                                          value |-> docs[d].value]]
        /\ docs[d].version > 0
    BY <1>1 DEF OpenPage, Exists
  <2>2. docs[d].version \in Nat \ {0}
    BY <2>1, <1>b
  <2>3. ASSUME NEW b \in Admins, NEW e \in Documents PROVE PageInv(b, e)'
    <3>1. CASE b = a
      <4>1. /\ pages'[b].doc = d /\ pages'[b].version = docs[d].version
            /\ pages'[b].value = docs[d].value
        BY <2>1, <3>1, <1>a
      <4> QED
        BY <2>1, <2>2, <4>1 DEF PageInv
    <3>2. CASE b # a
      BY <2>1, <3>2, <1>c, <1>a DEF PageInv
    <3> QED
      BY <3>1, <3>2
  <2>4. \A b \in Admins : pages'[b] = None \/ pages'[b].doc \in Documents
    BY <2>1, <1>a
  <2> QED
    BY <2>1, <2>3, <2>4, <1>a DEF DocsInv
<1>2. ASSUME NEW a \in Admins, pages' = [pages EXCEPT ![a] = None]
      PROVE  /\ DOMAIN pages' = Admins
             /\ \A b \in Admins : pages'[b] = None \/ pages'[b].doc \in Documents
             /\ \A b \in Admins, e \in Documents : pages'[b].doc = e => pages'[b] = pages[b]
  BY <1>2, <1>a, <1>0 DEF None
<1>3. ASSUME NEW a \in Admins, NEW d \in Documents, NEW v \in Values[d], Save(a, d, v)
      PROVE  DocsInv' /\ UNCHANGED <<zones, pickups>>
  <2>1. /\ UNCHANGED <<zones, pickups>>
        /\ pages' = [pages EXCEPT ![a] = None]
        /\ docs' = [docs EXCEPT ![d] = [version |-> docs[d].version + 1, value |-> v]]
        /\ pages[a].doc = d /\ pages[a].version = docs[d].version
        /\ writes < MaxWrites /\ writes' = writes + 1
    BY <1>3 DEF Save, PageFresh, ClosePage, Write
  <2>2. docs[d].version \in Nat \ {0}
    BY <2>1, <1>c DEF PageInv
  <2>3. docs'[d] = [version |-> docs[d].version + 1, value |-> v]
    BY <2>1, <1>a
  <2>4. ASSUME NEW b \in Admins, NEW e \in Documents PROVE PageInv(b, e)'
    <3> SUFFICES ASSUME pages'[b].doc = e PROVE PageInv(b, e)'
      BY DEF PageInv
    <3>1. pages'[b] = pages[b] /\ PageInv(b, e)
      BY <2>1, <1>2, <1>c
    <3>2. CASE e = d
      BY <2>2, <2>3, <3>1, <3>2 DEF PageInv, Deleted
    <3>3. CASE e # d
      <4>1. docs'[e] = docs[e]
        BY <2>1, <3>3, <1>a
      <4> QED
        BY <3>1, <4>1 DEF PageInv
    <3> QED
      BY <3>2, <3>3
  <2>5. ASSUME NEW e \in Documents PROVE DocOK(e)'
    <3>1. CASE e = d
      BY <2>1, <2>2, <2>3, <3>1, <1>0, <1>a, <1>b DEF Deleted
    <3>2. CASE e # d
      BY <2>1, <3>2, <1>a, <1>b DEF Deleted
    <3> QED
      BY <3>1, <3>2
  <2>6. writes' \in 0..MaxWrites
    BY <2>1, <1>0, <1>a
  <2> QED
    BY <2>1, <2>4, <2>5, <2>6, <1>a, <1>2 DEF DocsInv
<1>4. ASSUME NEW d \in Documents, NEW v \in Values[d], Create(d, v)
      PROVE  DocsInv' /\ UNCHANGED <<zones, pickups>>
  <2>1. /\ UNCHANGED <<zones, pickups, pages>>
        /\ docs' = [docs EXCEPT ![d] = [version |-> 1, value |-> v]]
        /\ docs[d].version = 0
        /\ writes < MaxWrites /\ writes' = writes + 1
    BY <1>4 DEF Create, Write, NotYet
  <2>2. docs'[d] = [version |-> 1, value |-> v]
    BY <2>1, <1>a
  <2>3. ASSUME NEW b \in Admins, NEW e \in Documents PROVE PageInv(b, e)'
    <3>1. CASE e = d
      BY <2>1, <2>2, <3>1, <1>c DEF PageInv, Deleted
    <3>2. CASE e # d
      <4>1. docs'[e] = docs[e]
        BY <2>1, <3>2, <1>a
      <4> QED
        BY <2>1, <4>1, <1>c DEF PageInv
    <3> QED
      BY <3>1, <3>2
  <2>4. ASSUME NEW e \in Documents PROVE DocOK(e)'
    <3>1. CASE e = d
      BY <2>1, <2>2, <3>1, <1>0, <1>a DEF Deleted
    <3>2. CASE e # d
      BY <2>1, <3>2, <1>a, <1>b DEF Deleted
    <3> QED
      BY <3>1, <3>2
  <2>5. writes' \in 0..MaxWrites /\ DOMAIN docs' = Documents
    BY <2>1, <1>0, <1>a
  <2> QED
    BY <2>1, <2>3, <2>4, <2>5, <1>a DEF DocsInv
<1>5. ASSUME NEW a \in Admins, DeleteNews(a) PROVE DocsInv' /\ UNCHANGED <<zones, pickups>>
  <2>1. /\ UNCHANGED <<zones, pickups>>
        /\ pages' = [pages EXCEPT ![a] = None]
        /\ docs' = [docs EXCEPT !["news"].version = -1]
        /\ writes < MaxWrites /\ writes' = writes + 1
    BY <1>5 DEF DeleteNews, ClosePage, Write, Deleted
  <2>2. docs'["news"] = [version |-> -1, value |-> docs["news"].value]
    BY <2>1, <1>0, <1>a, <1>b
  <2>3. ASSUME NEW b \in Admins, NEW e \in Documents PROVE PageInv(b, e)'
    <3> SUFFICES ASSUME pages'[b].doc = e PROVE PageInv(b, e)'
      BY DEF PageInv
    <3>1. pages'[b] = pages[b] /\ PageInv(b, e)
      BY <2>1, <1>2, <1>c
    <3>2. CASE e = "news"
      BY <2>2, <3>1, <3>2 DEF PageInv, Deleted
    <3>3. CASE e # "news"
      <4>1. docs'[e] = docs[e]
        BY <2>1, <3>3, <1>a
      <4> QED
        BY <3>1, <4>1 DEF PageInv
    <3> QED
      BY <3>2, <3>3
  <2>4. ASSUME NEW e \in Documents PROVE DocOK(e)'
    <3>1. CASE e = "news"
      BY <2>1, <2>2, <3>1, <1>0, <1>a, <1>b DEF Deleted
    <3>2. CASE e # "news"
      BY <2>1, <3>2, <1>a, <1>b DEF Deleted
    <3> QED
      BY <3>1, <3>2
  <2>5. writes' \in 0..MaxWrites /\ DOMAIN docs' = Documents
    BY <2>1, <1>0, <1>a
  <2> QED
    BY <2>1, <2>3, <2>4, <2>5, <1>2 DEF DocsInv
<1>6. ASSUME NEW a \in Admins, Closed(a) PROVE DocsInv' /\ UNCHANGED <<zones, pickups>>
  <2>1. /\ UNCHANGED <<docs, zones, pickups, writes>>
        /\ pages' = [pages EXCEPT ![a] = None]
    BY <1>6 DEF Closed, ClosePage
  <2>2. ASSUME NEW b \in Admins, NEW e \in Documents PROVE PageInv(b, e)'
    <3> SUFFICES ASSUME pages'[b].doc = e PROVE PageInv(b, e)'
      BY DEF PageInv
    <3>1. pages'[b] = pages[b] /\ PageInv(b, e)
      BY <2>1, <1>2, <1>c
    <3> QED
      BY <2>1, <3>1 DEF PageInv
  <2> QED
    BY <2>1, <2>2, <1>2, <1>a, <1>b DEF DocsInv
<1> QED
  BY <1>1, <1>3, <1>4, <1>5, <1>6 DEF DocumentStep

\* What is overwritten or deleted is what a page, now closed, was showing.
OverwritesShown ==
    \A d \in Documents :
        Exists(d) /\ (docs'[d].value # docs[d].value \/ ~Exists(d)') =>
            \E a \in Admins : /\ pages[a].doc = d /\ pages'[a] = None
                              /\ pages[a].value = docs[d].value

LEMMA StepsOverwriteShown ==
    ASSUME DocsInv, DocumentStep
    PROVE  OverwritesShown
<1> SUFFICES ASSUME NEW d \in Documents, Exists(d),
                    docs'[d].value # docs[d].value \/ ~Exists(d)'
             PROVE  \E a \in Admins : /\ pages[a].doc = d /\ pages'[a] = None
                                      /\ pages[a].value = docs[d].value
  BY DEF OverwritesShown
<1>0. /\ DOMAIN docs = Documents /\ DOMAIN pages = Admins /\ "news" \in Documents
      /\ docs[d].version \in Int
  BY DocumentNames DEF DocsInv
<1>1. ASSUME NEW a \in Admins, PageFresh(a, d), ClosePage(a)
      PROVE  \E b \in Admins : /\ pages[b].doc = d /\ pages'[b] = None
                               /\ pages[b].value = docs[d].value
  <2>1. PageInv(a, d)
    BY DEF DocsInv
  <2> QED
    BY <1>0, <1>1, <2>1 DEF PageFresh, ClosePage, PageInv
<1>2. ASSUME NEW a \in Admins, NEW e \in Documents, OpenPage(a, e) PROVE FALSE
  BY <1>2 DEF OpenPage, Exists
<1>3. ASSUME NEW a \in Admins, NEW e \in Documents, NEW v \in Values[e], Save(a, e, v)
      PROVE  PageFresh(a, d) /\ ClosePage(a)
  <2>1. e = d
    BY <1>0, <1>3 DEF Save, Exists
  <2> QED
    BY <1>3, <2>1 DEF Save
<1>4. ASSUME NEW e \in Documents, NEW v \in Values[e], Create(e, v) PROVE FALSE
  <2>1. e # d
    BY <1>4 DEF Create, NotYet, Exists
  <2> QED
    BY <1>0, <1>4, <2>1 DEF Create, Exists
<1>5. ASSUME NEW a \in Admins, DeleteNews(a) PROVE PageFresh(a, d) /\ ClosePage(a)
  <2>1. "news" = d
    BY <1>0, <1>5 DEF DeleteNews, Exists
  <2> QED
    BY <1>5, <2>1 DEF DeleteNews
<1>6. ASSUME NEW a \in Admins, Closed(a) PROVE FALSE
  BY <1>6 DEF Closed, Exists
<1> QED
  BY <1>1, <1>2, <1>3, <1>4, <1>5, <1>6 DEF DocumentStep

-----------------------------------------------------------------------------
(* The delivery options.                                                    *)

LEMMA RewrittenRates ==
    ASSUME NEW old \in RateLists, NEW listed \in RateLists
    PROVE  Rewritten(old, listed) \in RateLists
<1>1. PICK R \in SUBSET Rates : old \in [R -> RateValues]
  BY DEF RateLists
<1>2. PICK S \in SUBSET Rates : listed \in [S -> RateValues]
  BY DEF RateLists
<1>3. R \cup S \in SUBSET Rates
  OBVIOUS
<1>4. Rewritten(old, listed) \in [R \cup S -> RateValues]
  BY <1>1, <1>2 DEF Rewritten, RateValues
<1> QED
  BY <1>3, <1>4 DEF RateLists

\* The ways a handler may leave the delivery options.
DeliveryStep ==
    \/ \E z \in Zones : \E zone \in ZoneValues(z) \cup {NoZone} :
          /\ WriteZone(z, zone)
          /\ z \in StoreZones /\ zone.active => ProvincesAvailable(zone.provinces, z, TRUE)
    \/ \E p \in Points : \E point \in PickupValues \cup {NoZone} : WritePickup(p, point)

LEMMA DeliverySteps ==
    ASSUME DocsInv, ZonesInv, DeliveryNext
    PROVE  DeliveryStep
<1> DEFINE Written(z, zone) ==
        /\ zone \in ZoneValues(z) \cup {NoZone}
        /\ WriteZone(z, zone)
        /\ z \in StoreZones /\ zone.active => ProvincesAvailable(zone.provinces, z, TRUE)
<1>0. \A z \in Zones : \A zone : Written(z, zone) => DeliveryStep
  BY DEF DeliveryStep
<1>a. ASSUME NEW z \in Zones, IsZone(z) PROVE zones[z] \in ZoneValues(z)
  BY <1>a DEF ZonesInv, IsZone
<1>b. /\ StoreZones \subseteq Zones /\ AffiliateZones \subseteq Zones
      /\ \A z \in AffiliateZones : z \notin StoreZones
      /\ \A z \in StoreZones : Owner(z) = "STORE"
      /\ \A z \in AffiliateZones : Owner(z) = "AFFILIATE"
  BY BackOfficeAssumption DEF Zones, Owner
<1>1. ASSUME NEW ps \in SomeProvinces, NEW active \in BOOLEAN, NEW rates \in RateLists,
             NEW z \in StoreZones, CreateShippingZone(z, ps, active, rates)
      PROVE  DeliveryStep
  <2> DEFINE zone == [active |-> active, owner |-> "STORE", provinces |-> ps, rates |-> rates]
  <2>1. zone \in ZoneValues(z)
    BY <1>b DEF ZoneValues
  <2>2. WriteZone(z, zone) /\ ProvincesAvailable(ps, z, active)
    BY <1>1 DEF CreateShippingZone
  <2>3. active => ProvincesAvailable(ps, z, TRUE)
    BY <2>2 DEF ProvincesAvailable
  <2>4. Written(z, zone)
    BY <2>1, <2>2, <2>3
  <2> QED
    BY <1>0, <1>b, <2>4
<1>2. ASSUME NEW ps \in SomeProvinces, NEW active \in BOOLEAN, NEW rates \in RateLists,
             NEW z \in Zones, UpdateShippingZone(z, ps, active, rates)
      PROVE  DeliveryStep
  <2> DEFINE zone == [zones[z] EXCEPT !.active = active, !.provinces = ps,
                                      !.rates = Rewritten(@, rates)]
  <2>1. zones[z] \in ZoneValues(z)
    BY <1>2, <1>a DEF UpdateShippingZone
  <2>2. Rewritten(zones[z].rates, rates) \in RateLists
    BY <2>1, RewrittenRates DEF ZoneValues
  <2>3. zone \in ZoneValues(z) /\ zone.active = active /\ zone.provinces = ps
    BY <2>1, <2>2 DEF ZoneValues
  <2>4. WriteZone(z, zone) /\ ProvincesAvailable(ps, z, active)
    BY <1>2 DEF UpdateShippingZone
  <2>5. active => ProvincesAvailable(ps, z, TRUE)
    BY <2>4 DEF ProvincesAvailable
  <2> HIDE DEF zone
  <2>6. Written(z, zone)
    BY <2>3, <2>4, <2>5
  <2> QED
    BY <1>0, <2>6
<1>3. ASSUME NEW z \in Zones, NEW active \in BOOLEAN, SetShippingZoneActive(z, active)
      PROVE  DeliveryStep
  <2> DEFINE zone == [zones[z] EXCEPT !.active = active]
  <2>1. zones[z] \in ZoneValues(z)
    BY <1>3, <1>a DEF SetShippingZoneActive
  <2>2. /\ zone \in ZoneValues(z) /\ zone.active = active
        /\ zone.provinces = zones[z].provinces
    BY <2>1 DEF ZoneValues
  <2>3. WriteZone(z, zone) /\ ProvincesAvailable(zones[z].provinces, z, active)
    BY <1>3 DEF SetShippingZoneActive
  <2>4. active => ProvincesAvailable(zones[z].provinces, z, TRUE)
    BY <2>3 DEF ProvincesAvailable
  <2> HIDE DEF zone
  <2>5. Written(z, zone)
    BY <2>2, <2>3, <2>4
  <2> QED
    BY <1>0, <2>5
<1>4. ASSUME NEW z \in Zones, DeleteShippingZone(z) PROVE DeliveryStep
  <2>1. Written(z, NoZone)
    BY <1>4 DEF DeleteShippingZone, NoZone
  <2> QED
    BY <1>0, <2>1
<1>5. ASSUME NEW z \in AffiliateZones, NEW ps \in SomeProvinces, CreateOwnZone(z, ps)
      PROVE  DeliveryStep
  <2> DEFINE zone == [active |-> TRUE, owner |-> "AFFILIATE", provinces |-> ps, rates |-> NoRates]
  <2>1. NoRates \in [{} -> RateValues]
    BY DEF NoRates
  <2>2. NoRates \in RateLists
    BY <2>1 DEF RateLists
  <2>3. zone \in ZoneValues(z)
    BY <1>b, <2>2 DEF ZoneValues
  <2>4. Written(z, zone)
    BY <1>5, <1>b, <2>3 DEF CreateOwnZone
  <2> QED
    BY <1>0, <1>b, <2>4
<1>6. ASSUME NEW z \in AffiliateZones, NEW ps \in SomeProvinces, NEW active \in BOOLEAN,
             PatchOwnZone(z, ps, active)
      PROVE  DeliveryStep
  <2> DEFINE zone == [zones[z] EXCEPT !.active = active, !.provinces = ps]
  <2>1. zones[z] \in ZoneValues(z)
    BY <1>6, <1>a, <1>b DEF PatchOwnZone, Owned
  <2>2. zone \in ZoneValues(z)
    BY <2>1 DEF ZoneValues
  <2>3. WriteZone(z, zone)
    BY <1>6 DEF PatchOwnZone
  <2> HIDE DEF zone
  <2>4. Written(z, zone)
    BY <1>b, <2>2, <2>3
  <2> QED
    BY <1>0, <1>b, <2>4
<1>7. ASSUME NEW z \in AffiliateZones, NEW r \in Rates, NEW price \in Prices,
             CreateOwnRate(z, r, price)
      PROVE  DeliveryStep
  <2> DEFINE one == [t \in {r} |-> [price |-> price, active |-> TRUE]]
             zone == [zones[z] EXCEPT !.rates = Rewritten(one, @)]
  <2>1. zones[z] \in ZoneValues(z)
    BY <1>7, <1>a, <1>b DEF CreateOwnRate, Owned
  <2>2. one \in [{r} -> RateValues] /\ {r} \in SUBSET Rates
    BY DEF RateValues
  <2>3. one \in RateLists
    BY <2>2 DEF RateLists
  <2> HIDE DEF one
  <2>4. Rewritten(one, zones[z].rates) \in RateLists
    BY <2>1, <2>3, RewrittenRates DEF ZoneValues
  <2>5. zone \in ZoneValues(z)
    BY <2>1, <2>4 DEF ZoneValues
  <2>6. WriteZone(z, zone)
    BY <1>7 DEF CreateOwnRate, one
  <2> HIDE DEF zone
  <2>7. Written(z, zone)
    BY <1>b, <2>5, <2>6
  <2> QED
    BY <1>0, <1>b, <2>7
<1>8. ASSUME NEW z \in AffiliateZones, NEW r \in Rates, NEW rate \in RateValues,
             PatchOwnRate(z, r, rate)
      PROVE  DeliveryStep
  <2> DEFINE zone == [zones[z] EXCEPT !.rates[r] = rate]
  <2>1. zones[z] \in ZoneValues(z)
    BY <1>8, <1>a, <1>b DEF PatchOwnRate, Owned
  <2>2. PICK R \in SUBSET Rates : zones[z].rates \in [R -> RateValues]
    BY <2>1 DEF ZoneValues, RateLists
  <2>3. [zones[z].rates EXCEPT ![r] = rate] \in [R -> RateValues]
    BY <2>2
  <2>4. [zones[z].rates EXCEPT ![r] = rate] \in RateLists
    BY <2>3 DEF RateLists
  <2>5. zone \in ZoneValues(z)
    BY <2>1, <2>4 DEF ZoneValues
  <2>6. WriteZone(z, zone)
    BY <1>8 DEF PatchOwnRate
  <2> HIDE DEF zone
  <2>7. Written(z, zone)
    BY <1>b, <2>5, <2>6
  <2> QED
    BY <1>0, <1>b, <2>7
<1>9. ASSUME NEW p \in Points, NEW b \in BOOLEAN,
             \/ CreatePickupPoint(p, b) \/ UpdatePickupPoint(p, b)
             \/ SetPickupPointActive(p, b) \/ PatchOwnPickup(p, b)
      PROVE  DeliveryStep
  <2>1. /\ [active |-> b, owner |-> "STORE"] \in PickupValues
        /\ IsPickup(p) => [pickups[p] EXCEPT !.active = b] \in PickupValues
    BY DEF PickupValues, ZonesInv, IsPickup
  <2>2. \E point \in PickupValues : WritePickup(p, point)
    BY <1>9, <2>1 DEF CreatePickupPoint, UpdatePickupPoint, SetPickupPointActive, PatchOwnPickup
  <2> QED
    BY <2>2 DEF DeliveryStep
<1>10. ASSUME NEW p \in Points, CreateOwnPickup(p) \/ DeletePickupPoint(p) PROVE DeliveryStep
  <2>1. [active |-> TRUE, owner |-> "AFFILIATE"] \in PickupValues
    BY DEF PickupValues
  <2>2. \E point \in PickupValues \cup {NoZone} : WritePickup(p, point)
    BY <1>10, <2>1 DEF CreateOwnPickup, DeletePickupPoint
  <2> QED
    BY <2>2 DEF DeliveryStep
<1> HIDE DEF Written
<1> QED
  BY <1>1, <1>2, <1>3, <1>4, <1>5, <1>6, <1>7, <1>8, <1>9, <1>10 DEF DeliveryNext

LEMMA DeliveryKept ==
    ASSUME DocsInv, ZonesInv, DeliveryStep
    PROVE  DocsInv' /\ ZonesInv' /\ UNCHANGED <<docs, pages>>
<1>1. /\ UNCHANGED <<docs, pages>>
      /\ writes < MaxWrites /\ writes' = writes + 1
  BY DEF DeliveryStep, WriteZone, WritePickup, Write
<1>2. DocsInv'
  <2>1. \A a \in Admins, d \in Documents : PageInv(a, d)'
    BY <1>1 DEF DocsInv, PageInv
  <2>2. /\ writes' \in 0..MaxWrites
        /\ \A d \in Documents :
              /\ docs'[d] \in [version : Deleted .. MaxWrites + 1, value : Values[d]]
              /\ docs'[d].version <= writes' + 1
    <3>1. MaxWrites \in Nat /\ writes \in 0..MaxWrites
      BY BackOfficeAssumption DEF DocsInv
    <3>2. ASSUME NEW d \in Documents
          PROVE  /\ docs'[d] \in [version : Deleted .. MaxWrites + 1, value : Values[d]]
                 /\ docs'[d].version <= writes' + 1
      <4>1. /\ docs[d] \in [version : Deleted .. MaxWrites + 1, value : Values[d]]
            /\ docs[d].version <= writes + 1
        BY DEF DocsInv
      <4>2. docs[d].version \in Int
        BY <3>1, <4>1 DEF Deleted
      <4> QED
        BY <1>1, <3>1, <4>1, <4>2
    <3> QED
      BY <1>1, <3>1, <3>2
  <2> QED
    BY <1>1, <2>1, <2>2 DEF DocsInv
<1>3. ZonesInv'
  <2>1. ASSUME NEW z \in Zones, NEW zone \in ZoneValues(z) \cup {NoZone}, WriteZone(z, zone),
               z \in StoreZones /\ zone.active => ProvincesAvailable(zone.provinces, z, TRUE)
        PROVE  ZonesInv'
    <3>1. /\ zones' = [zones EXCEPT ![z] = zone] /\ pickups' = pickups
          /\ DOMAIN zones' = Zones
          /\ zones'[z] = zone
          /\ \A y \in Zones \ {z} : zones'[y] = zones[y]
          /\ StoreZones \subseteq Zones
      BY <2>1 DEF WriteZone, ZonesInv, Zones
    <3>2. \A y \in Zones : zones'[y] \in ZoneValues(y) \cup {NoZone}
      BY <2>1, <3>1 DEF ZonesInv
    <3>3. StoreZonesDisjoint'
      BY <2>1, <3>1 DEF ZonesInv, StoreZonesDisjoint, ProvincesAvailable
    <3> QED
      BY <3>1, <3>2, <3>3 DEF ZonesInv
  <2>2. ASSUME NEW p \in Points, NEW point \in PickupValues \cup {NoZone}, WritePickup(p, point)
        PROVE  ZonesInv'
    BY <2>2 DEF WritePickup, ZonesInv, StoreZonesDisjoint
  <2> QED
    BY <2>1, <2>2 DEF DeliveryStep
<1> QED
  BY <1>1, <1>2, <1>3

LEMMA BackOfficeStarts == BackOfficeInit => BackOfficeInv
<1> SUFFICES ASSUME BackOfficeInit PROVE BackOfficeInv
  OBVIOUS
<1>1. MaxWrites \in Nat /\ writes = 0 /\ "none" \notin Documents
  BY BackOfficeAssumption, DocumentNames DEF BackOfficeInit
<1>2. ASSUME NEW d \in Documents
      PROVE  /\ docs[d] \in [version : Deleted .. MaxWrites + 1, value : Values[d]]
             /\ docs[d].version <= writes + 1
  <2>1. docs[d] = [version |-> IF d \in {"news", "supplier"} THEN 0 ELSE 1,
                   value |-> InitialValues[d]]
    BY DEF BackOfficeInit, NotYet
  <2> QED
    BY <1>1, <2>1, InitialAssumption DEF Deleted
<1>3. DocsInv
  BY <1>1, <1>2 DEF BackOfficeInit, DocsInv, PageInv, None
<1>4. ZonesInv
  BY InitialAssumption DEF BackOfficeInit, ZonesInv, StoreZonesDisjoint
<1> QED
  BY <1>3, <1>4 DEF BackOfficeInv

LEMMA BackOfficeKept ==
    ASSUME BackOfficeInv, [BackOfficeNext]_backOfficeVars
    PROVE  BackOfficeInv' /\ (OverwritesShown \/ UNCHANGED backOfficeVars)
<1>1. CASE DocumentsNext
  <2>1. DocumentStep
    BY <1>1, DocumentSteps DEF BackOfficeInv
  <2>2. ZonesInv'
    BY <2>1, DocumentsKept DEF BackOfficeInv, ZonesInv, StoreZonesDisjoint
  <2> QED
    BY <2>1, <2>2, DocumentsKept, StepsOverwriteShown DEF BackOfficeInv
<1>2. CASE DeliveryNext
  <2>1. DocsInv' /\ ZonesInv' /\ UNCHANGED <<docs, pages>>
    BY <1>2, DeliverySteps, DeliveryKept DEF BackOfficeInv
  <2> QED
    BY <2>1 DEF BackOfficeInv, OverwritesShown, Exists
<1>3. CASE UNCHANGED backOfficeVars
  BY <1>3 DEF backOfficeVars, BackOfficeInv, DocsInv, PageInv, ZonesInv, StoreZonesDisjoint
<1> QED
  BY <1>1, <1>2, <1>3 DEF BackOfficeNext

(***************************************************************************)
(* Every variable of the back office keeps its type, pages show what their *)
(* version contained, and two active zones of the store share no province, *)
(* whichever handler activated them or gave them their provinces.          *)
(***************************************************************************)
THEOREM BackOfficeInvariance == BackOfficeSpec => []BackOfficeInv
<1>1. BackOfficeInv /\ [BackOfficeNext]_backOfficeVars => BackOfficeInv'
  BY BackOfficeKept
<1> QED
  BY <1>1, BackOfficeStarts, PTL DEF BackOfficeSpec

(***************************************************************************)
(* The documents, the delivery options and the count of writes are always  *)
(* what the handlers' schemas let through.                                 *)
(***************************************************************************)
THEOREM BackOfficeTypes == BackOfficeSpec => []BackOfficeTypeOK
<1>1. BackOfficeInv => BackOfficeTypeOK
  BY DEF BackOfficeInv, DocsInv, ZonesInv, BackOfficeTypeOK
<1> QED
  BY <1>1, BackOfficeInvariance, PTL

(***************************************************************************)
(* Two active zones of the store never share a province.                   *)
(***************************************************************************)
THEOREM ZonesStayDisjoint == BackOfficeSpec => []StoreZonesDisjoint
<1>1. BackOfficeInv => StoreZonesDisjoint
  BY DEF BackOfficeInv, ZonesInv
<1> QED
  BY <1>1, BackOfficeInvariance, PTL

(***************************************************************************)
(* No save is lost: one overwrites or deletes a document only from a page  *)
(* that shows the document's present contents, so equal versions are equal *)
(* contents for any number of administrators and saves.                    *)
(***************************************************************************)
THEOREM NoSaveLost == BackOfficeSpec => SavesOverwriteWhatWasShown
<1>1. BackOfficeInv /\ [BackOfficeNext]_backOfficeVars =>
        [\A d \in Documents :
           Exists(d) /\ (docs'[d].value # docs[d].value \/ ~Exists(d)') =>
           \E a \in Admins : /\ pages[a].doc = d /\ pages'[a] = None
                             /\ pages[a].value = docs[d].value]_backOfficeVars
  BY BackOfficeKept DEF OverwritesShown
<1> QED
  BY <1>1, BackOfficeInvariance, PTL DEF BackOfficeSpec, SavesOverwriteWhatWasShown

-----------------------------------------------------------------------------
(* The arithmetic of a quote.                                               *)

\* The commission is a part of the subtotal.
LEMMA CommissionBounds ==
    ASSUME NEW subtotal \in Nat, NEW bps \in Nat, bps <= 10000
    PROVE  /\ CommissionOn(subtotal, bps) \in Nat
           /\ CommissionOn(subtotal, bps) <= subtotal
<1>1. subtotal * bps \in Nat /\ subtotal * bps <= subtotal * 10000
  OBVIOUS
<1> DEFINE part == subtotal * bps
<1>3. part \in Nat /\ part <= subtotal * 10000
  BY <1>1
<1> HIDE DEF part
<1>4. /\ (part + 9999) \div 10000 \in Nat
      /\ (part + 9999) \div 10000 <= subtotal
  BY <1>3
<1> QED
  BY <1>4 DEF CommissionOn, part

LEMMA NoCommission ==
    ASSUME NEW subtotal \in Nat
    PROVE  CommissionOn(subtotal, 0) = 0
<1>1. subtotal * 0 = 0 /\ (0 + 9999) \div 10000 = 0
  OBVIOUS
<1> QED
  BY <1>1 DEF CommissionOn

\* Rounding down and multiplying back never exceeds.
LEMMA DivisionRoundsDown ==
    ASSUME NEW m \in Nat, NEW n \in Nat \ {0}
    PROVE  m \div n \in Nat /\ (m \div n) * n <= m
OBVIOUS

LEMMA ProgramTypes ==
    ASSUME NEW program \in Programs
    PROVE  program.pointValue \in Nat \ {0} /\ program.percent \in Nat
<1>1. program \in LoyaltyPrograms
  BY BackOfficeAssumption
<1> QED
  BY <1>1 DEF LoyaltyPrograms

\* The points accepted are worth at most what they may pay for.
LEMMA DiscountBounds ==
    ASSUME NEW program \in Programs, NEW available \in Nat, NEW subtotal \in Nat,
           NEW points \in Nat, RedemptionAccepted(program, available, subtotal, points)
    PROVE  Discount(program, points) \in Nat /\ Discount(program, points) <= subtotal
<1> DEFINE value == program.pointValue
           cap == Lesser((subtotal * program.percent) \div 100, subtotal)
<1>1. value \in Nat \ {0} /\ program.percent \in Nat
  BY ProgramTypes
<1>2. subtotal * program.percent \in Nat
  BY <1>1
<1>3. (subtotal * program.percent) \div 100 \in Nat
  BY <1>2
<1>4. cap \in Nat /\ cap <= subtotal
  BY <1>3 DEF Lesser
<1> HIDE DEF cap, value
<1>5. cap \div value \in Nat /\ (cap \div value) * value <= cap
  BY <1>1, <1>4, DivisionRoundsDown
<1>6. points <= cap \div value \/ points = 0
  <2>1. RedeemableByMoney(program, subtotal) = cap \div value
    BY DEF RedeemableByMoney, cap, value
  <2>2. points <= MaximumRedeemable(program, available, subtotal)
    BY DEF RedemptionAccepted
  <2> QED
    BY <1>5, <2>1, <2>2 DEF MaximumRedeemable, Lesser
<1>7. points * value \in Nat /\ points * value <= cap
  <2>1. CASE points = 0
    BY <1>1, <1>4, <2>1
  <2>2. CASE points <= cap \div value
    <3>1. points * value <= (cap \div value) * value
      BY <1>1, <1>5, <2>2
    <3> QED
      BY <1>1, <1>4, <1>5, <3>1
  <2> QED
    BY <1>6, <2>1, <2>2
<1> QED
  BY <1>4, <1>7 DEF Discount, value

-----------------------------------------------------------------------------
(* What a quote says.                                                       *)

LEMMA CartTypes ==
    ASSUME NEW c \in Carts
    PROVE  /\ c.points \in Nat /\ c.method \in {"BANK_TRANSFER", "MERCADO_PAGO"}
           /\ \A s \in Sellers : c.units[s] \in Nat /\ c.delivery[s] \in Deliveries
BY CheckoutAssumption

\* The shop's settings, as checkout reads them.
LEMMA SettingTypes ==
    ASSUME BackOfficeInv
    PROVE  /\ Program \in Programs
           /\ \A s \in Sellers : SellerBps(s) \in Nat /\ SellerBps(s) <= 10000
<1>1. /\ docs["loyalty"].value \in Programs
      /\ docs["settings"].value \in Commissions
      /\ docs["affiliate"].value.override \in Commissions \cup {NoOverride}
  <2>1. \A d \in Documents : docs[d].value \in Values[d]
    BY DEF BackOfficeInv, DocsInv
  <2>2. docs["affiliate"].value \in [text : Texts, active : BOOLEAN,
                                     override : Commissions \cup {NoOverride}]
    BY <2>1, DocumentNames
  <2> QED
    BY <2>1, <2>2, DocumentNames
<1>2. ASSUME NEW s \in Sellers PROVE SellerBps(s) \in Nat /\ SellerBps(s) <= 10000
  <2>1. SellerBps(s) \in Commissions \/ SellerBps(s) = 0
    BY <1>1 DEF SellerBps
  <2>2. \A bps \in Commissions : bps \in Nat /\ bps <= 10000
    BY BackOfficeAssumption
  <2>3. 0 \in Nat /\ 0 <= 10000
    OBVIOUS
  <2> QED
    BY <2>1, <2>2, <2>3
<1> QED
  BY <1>1, <1>2 DEF Program

LEMMA ShippingTypes ==
    ASSUME BackOfficeInv, NEW c \in Carts, Quotable(c), NEW s \in Sellers
    PROVE  SellerShipping(c, s) \in Nat
<1>1. CASE s \in Selling(c) /\ c.delivery[s].type = "SHIPMENT"
  <2> DEFINE d == c.delivery[s]
  <2>1. d \in Deliveries
    BY CartTypes
  <2>2. d \in [type : {"SHIPMENT"}, zone : Zones, rate : Rates, province : Provinces]
    BY <1>1, <2>1 DEF Deliveries
  <2>3. /\ zones[d.zone].active /\ d.rate \in DOMAIN zones[d.zone].rates
    BY <1>1 DEF Quotable, DeliveryAvailable
  <2>4. zones[d.zone] \in ZoneValues(d.zone)
    BY <2>2, <2>3 DEF BackOfficeInv, ZonesInv, NoZone
  <2>5. PICK R \in SUBSET Rates : zones[d.zone].rates \in [R -> RateValues]
    BY <2>4 DEF ZoneValues, RateLists
  <2>6. zones[d.zone].rates[d.rate] \in RateValues
    BY <2>3, <2>5
  <2>7. zones[d.zone].rates[d.rate].price \in Prices
    BY <2>6 DEF RateValues
  <2>8. Prices \subseteq Nat
    BY BackOfficeAssumption
  <2> QED
    BY <1>1, <2>7, <2>8 DEF SellerShipping
<1>2. CASE ~(s \in Selling(c) /\ c.delivery[s].type = "SHIPMENT")
  BY <1>2 DEF SellerShipping
<1> QED
  BY <1>1, <1>2

LEMMA SubtotalTypes ==
    ASSUME GoodsOK, NEW c \in Carts, NEW s \in Sellers
    PROVE  /\ SellerSubtotal(c, s) \in Nat
           /\ products[s].version \in Nat
           /\ s \notin Selling(c) => SellerSubtotal(c, s) = 0
<1>1. c.units[s] \in Nat
  BY CartTypes
<1>2. products[s].price \in Nat /\ products[s].version \in Nat
  <2>1. /\ products[s].version \in 1 .. MaxWrites + 1
        /\ products[s].price \in ProductPrices
    BY DEF GoodsOK
  <2>2. ProductPrices \subseteq Nat /\ MaxWrites \in Nat
    BY CheckoutAssumption, BackOfficeAssumption
  <2>3. products[s].version \in Nat
    BY <2>1, <2>2
  <2> QED
    BY <2>1, <2>2, <2>3
<1>3. s \notin Selling(c) => c.units[s] = 0
  BY <1>1 DEF Selling
<1> QED
  BY <1>1, <1>2, <1>3 DEF SellerSubtotal

\* A quote made now has the prices of now, and shares that make up its total.
LEMMA QuoteFacts ==
    ASSUME BackOfficeInv, GoodsOK, NEW c \in Carts, Quotable(c)
    PROVE  /\ Quoted(QuoteOf(c), c, Versions(c))
           /\ Shared(QuoteOf(c))
           /\ \A s \in Sellers :
                 QuoteOf(c).gross[s] - QuoteOf(c).shipping[s] = SellerSubtotal(c, s)
           /\ QuoteOf(c).program = Program
<1> DEFINE q == QuoteOf(c)
           discount == Discount(Program, c.points)
           commission(s) == CommissionOn(SellerSubtotal(c, s), SellerBps(s))
<1>1. ASSUME NEW s \in Sellers
      PROVE  /\ SellerSubtotal(c, s) \in Nat /\ SellerShipping(c, s) \in Nat
             /\ products[s].version \in Nat
             /\ s \notin Selling(c) => SellerSubtotal(c, s) = 0
             /\ commission(s) \in Nat /\ commission(s) <= SellerSubtotal(c, s)
  <2>1. /\ SellerSubtotal(c, s) \in Nat /\ SellerBps(s) \in Nat /\ SellerBps(s) <= 10000
        /\ products[s].version \in Nat
        /\ s \notin Selling(c) => SellerSubtotal(c, s) = 0
    BY SubtotalTypes, SettingTypes
  <2>2. commission(s) \in Nat /\ commission(s) <= SellerSubtotal(c, s)
    BY <2>1, CommissionBounds
  <2> QED
    BY <2>1, <2>2, ShippingTypes
<1>2. commission("STORE") = 0
  <2>1. SellerBps("STORE") = 0
    BY DEF SellerBps
  <2>2. SellerSubtotal(c, "STORE") \in Nat
    BY <1>1 DEF Sellers
  <2>3. CommissionOn(SellerSubtotal(c, "STORE"), 0) = 0
    BY <2>2, NoCommission
  <2> QED
    BY <2>1, <2>3
<1>3. discount \in Nat /\ discount <= SellerSubtotal(c, "STORE")
  <2>1. RedemptionAccepted(Program, Available, SellerSubtotal(c, "STORE"), c.points)
    BY DEF Quotable, PointsSubtotal
  <2>2. Program \in Programs /\ Available \in Nat /\ c.points \in Nat
    BY SettingTypes, CartTypes, CheckoutAssumption
  <2> QED
    BY <1>1, <2>1, <2>2, DiscountBounds DEF Sellers
<1>4. /\ \A s \in Sellers : /\ q.gross[s] = SellerSubtotal(c, s) + SellerShipping(c, s)
                            /\ q.shipping[s] = SellerShipping(c, s)
                            /\ q.commission[s] = commission(s)
                            /\ q.net[s] = SellerSubtotal(c, s) + SellerShipping(c, s) - commission(s)
      /\ q.discount = discount /\ q.program = Program
      /\ q.total = q.gross["STORE"] + q.gross["AFFILIATE"] - discount
  BY DEF QuoteOf, SellerNet
<1>5. \A s \in Selling(c) : s \in Sellers /\ Versions(c)[s] = products[s].version
  BY DEF Versions, Selling
<1> HIDE DEF q, discount, commission
<1>6. Quoted(q, c, Versions(c))
  <2>1. \A s \in Sellers : q.gross[s] \in Nat /\ q.shipping[s] \in Nat
    BY <1>1, <1>4
  <2>2. \A s \in Sellers \ Selling(c) : q.gross[s] = q.shipping[s]
    BY <1>1, <1>4
  <2>3. \A s \in Selling(c) :
          /\ Versions(c)[s] \in Nat /\ Versions(c)[s] <= products[s].version
          /\ Versions(c)[s] = products[s].version =>
                 q.gross[s] = SellerSubtotal(c, s) + q.shipping[s]
    BY <1>1, <1>4, <1>5
  <2> QED
    BY <1>4, <2>1, <2>2, <2>3 DEF Quoted, discount
<1>7. Shared(q)
  BY <1>1, <1>2, <1>3, <1>4 DEF Shared, Sellers
<1>8. \A s \in Sellers : q.gross[s] - q.shipping[s] = SellerSubtotal(c, s)
  BY <1>1, <1>4
<1> QED
  BY <1>4, <1>6, <1>7, <1>8 DEF q

-----------------------------------------------------------------------------
(* The snapshots.                                                           *)

\* A nonempty set of positions has a last one.
LEMMA LastOne ==
    ASSUME NEW n \in Nat, NEW T \in SUBSET (1..n), T # {}
    PROVE  \E i \in T : \A j \in T : j <= i
<1> DEFINE Below == {n - i : i \in T}
<1>a. \A i \in T : i \in Nat /\ i <= n
  OBVIOUS
<1>b. \A i \in T : n - i \in Nat
  BY <1>a
<1>1. Below \subseteq Nat /\ Below # {}
  BY <1>b
<1>2. PICK m \in Below : \A k \in Below : ~(<<k, m>> \in OpToRel(<, Nat))
  BY <1>1, NatLessThanWellFounded, WFMin
<1>3. \A k \in Below : ~(k < m)
  BY <1>1, <1>2 DEF OpToRel
<1>4. PICK i \in T : m = n - i
  BY <1>2
<1>5. ASSUME NEW j \in T PROVE j <= i
  <2>1. n - j \in Below /\ ~(n - j < n - i)
    BY <1>3, <1>4
  <2>2. i \in Int /\ j \in Int
    OBVIOUS
  <2> QED
    BY <2>1, <2>2
<1> QED
  BY <1>5

LEMMA LatestFound ==
    ASSUME GoodsOK, NEW casa, Cached(casa) # {}
    PROVE  Latest(casa) \in DOMAIN snapshots
<1>1. Len(snapshots) \in Nat /\ DOMAIN snapshots = 1..Len(snapshots)
  BY DEF GoodsOK
<1>2. Cached(casa) \in SUBSET (1..Len(snapshots))
  BY <1>1 DEF Cached
<1>3. \E i \in Cached(casa) : \A j \in Cached(casa) : j <= i
  BY <1>1, <1>2, LastOne
<1>4. Latest(casa) \in Cached(casa)
  BY <1>3 DEF Latest
<1> QED
  BY <1>1, <1>2, <1>4

\* A snapshot stays where it is, with its rate.
RatesKept ==
    /\ DOMAIN snapshots \subseteq DOMAIN snapshots'
    /\ \A i \in DOMAIN snapshots : snapshots'[i].rate = snapshots[i].rate

LEMMA SnapshotMade ==
    ASSUME GoodsOK, NEW casa \in Casas, NEW rate \in MarketRates, NewSnapshot(casa, rate)
    PROVE  /\ snapshots' \in Seq([casa : Casas, rate : MarketRates, fresh : BOOLEAN])
           /\ RatesKept
           /\ Len(snapshots) + 1 \in DOMAIN snapshots'
           /\ snapshots'[Len(snapshots) + 1].rate = rate
BY DEF GoodsOK, NewSnapshot, RatesKept

LEMMA SnapshotExpired ==
    ASSUME GoodsOK, NEW i \in DOMAIN snapshots, SnapshotExpires(i)
    PROVE  /\ snapshots' \in Seq([casa : Casas, rate : MarketRates, fresh : BOOLEAN])
           /\ RatesKept
<1> DEFINE S == [casa : Casas, rate : MarketRates, fresh : BOOLEAN]
           expired == [snapshots[i] EXCEPT !.fresh = FALSE]
<1>1. snapshots' = [snapshots EXCEPT ![i] = expired]
  BY DEF SnapshotExpires
<1>2. snapshots \in Seq(S) /\ i \in 1..Len(snapshots)
  BY DEF GoodsOK
<1>3. snapshots[i] \in S
  BY <1>2, ElementOfSeq
<1>4. expired \in S /\ expired.rate = snapshots[i].rate
  BY <1>3
<1> HIDE DEF S, expired
<1>5. /\ snapshots' \in Seq(S) /\ Len(snapshots') = Len(snapshots)
      /\ \A j \in 1..Len(snapshots) : snapshots'[j] = IF j = i THEN expired ELSE snapshots[j]
  BY <1>1, <1>2, <1>4, ExceptSeq
<1>6. RatesKept
  BY <1>2, <1>4, <1>5 DEF RatesKept
<1> QED
  BY <1>5, <1>6 DEF S

-----------------------------------------------------------------------------
(* What the steps keep.                                                     *)

\* The prices of the versions a quote was made with do not change.
LEMMA QuotedKept ==
    ASSUME GoodsOK, NEW q, NEW c \in Carts, NEW versions, Quoted(q, c, versions),
           \A s \in Sellers : \/ products'[s] = products[s]
                              \/ products'[s].version = products[s].version + 1
    PROVE  Quoted(q, c, versions)'
<1>1. ASSUME NEW s \in Selling(c)
      PROVE  /\ versions[s] <= products'[s].version
             /\ versions[s] = products'[s].version =>
                   q.gross[s] = c.units[s] * products'[s].price + q.shipping[s]
  <2>1. s \in Sellers /\ products[s].version \in Nat
    BY SubtotalTypes DEF Selling
  <2>2. /\ versions[s] \in Nat /\ versions[s] <= products[s].version
        /\ versions[s] = products[s].version =>
              q.gross[s] = c.units[s] * products[s].price + q.shipping[s]
    BY DEF Quoted, SellerSubtotal
  <2>3. CASE products'[s] = products[s]
    BY <2>2, <2>3
  <2>4. CASE products'[s].version = products[s].version + 1
    BY <2>1, <2>2, <2>4
  <2> QED
    BY <2>1, <2>3, <2>4
<1> QED
  BY <1>1 DEF Quoted, SellerSubtotal, Selling

\* The order, once made, stays as it is.
LEMMA OrderKept ==
    ASSUME CheckoutInv, RatesKept, orders' = orders,
           \A s \in Sellers : \/ products'[s] = products[s]
                              \/ products'[s].version = products[s].version + 1,
           \/ buyer' = Browsing
           \/ /\ buyer.at # "browsing" /\ buyer'.cart = buyer.cart
              /\ buyer'.versions = buyer.versions /\ buyer'.quote = buyer.quote
           \/ buyer' = buyer
    PROVE  OrderInv'
<1> SUFFICES ASSUME orders # <<>> PROVE OrderOK(orders[1])' /\ orders' = <<orders[1]>>
  BY DEF OrderInv
<1>1. orders = <<orders[1]>> /\ OrderOK(orders[1])
  BY DEF CheckoutInv, OrderInv
<1> DEFINE o == orders[1]
<1> HIDE DEF o
<1>2. /\ o.request.cart \in Carts
      /\ Quoted(o.quote, o.request.cart, o.request.versions)
      /\ Shared(o.quote)
      /\ o.request.cart.method = "MERCADO_PAGO" => o.request.snapshot \in DOMAIN snapshots
      /\ o.provider = IF o.request.cart.method = "BANK_TRANSFER" THEN 0
                      ELSE UsdMinorToArsMinor(o.quote.total, snapshots[o.request.snapshot].rate)
      /\ buyer.at # "browsing" /\ buyer.cart = o.request.cart /\ buyer.versions = o.request.versions
           => SameGoods(buyer.quote, o.quote)
  BY <1>1 DEF OrderOK, o
<1>3. Quoted(o.quote, o.request.cart, o.request.versions)'
  <2>1. o' = o
    BY DEF o
  <2>2. GoodsOK
    BY DEF CheckoutInv
  <2> QED
    BY <1>2, <2>1, <2>2, QuotedKept
<1>4. o.request.cart.method \in {"BANK_TRANSFER", "MERCADO_PAGO"}
  BY <1>2, CartTypes
<1>5. o.provider = IF o.request.cart.method = "BANK_TRANSFER" THEN 0
                   ELSE UsdMinorToArsMinor(o.quote.total, snapshots'[o.request.snapshot].rate)
  BY <1>2, <1>4 DEF RatesKept
<1>6. o' = o /\ o' = orders'[1]
  BY DEF o
<1>7. buyer'.at # "browsing" /\ buyer'.cart = o.request.cart /\ buyer'.versions = o.request.versions
        => SameGoods(buyer'.quote, o.quote)
  BY <1>2 DEF Browsing
<1>8. OrderOK(o)'
  BY <1>2, <1>3, <1>5, <1>6, <1>7 DEF OrderOK, RatesKept, Shared, SameGoods
<1> QED
  BY <1>1, <1>6, <1>8

\* A buyer that does nothing keeps what it knows.
LEMMA BuyerSame ==
    ASSUME CheckoutInv, RatesKept, UNCHANGED <<buyer, orders>>,
           \A s \in Sellers : \/ products'[s] = products[s]
                              \/ products'[s].version = products[s].version + 1
    PROVE  BuyerInv'
<1>1. BuyerInv /\ GoodsOK
  BY DEF CheckoutInv
<1>2. (buyer = Browsing \/ BuyerTyped)'
  BY <1>1 DEF BuyerInv, BuyerTyped
<1>3. (buyer.at # "browsing" => Quoted(buyer.quote, buyer.cart, buyer.versions))'
  <2> SUFFICES ASSUME buyer.at # "browsing"
               PROVE  Quoted(buyer.quote, buyer.cart, buyer.versions)'
    OBVIOUS
  <2> DEFINE q == buyer.quote
             c == buyer.cart
             v == buyer.versions
  <2>1. Quoted(q, c, v) /\ c \in Carts
    BY <1>1 DEF BuyerInv, BuyerTyped, Browsing
  <2>2. q' = q /\ c' = c /\ v' = v
    OBVIOUS
  <2> HIDE DEF q, c, v
  <2>3. Quoted(q, c, v)'
    BY <1>1, <2>1, <2>2, QuotedKept
  <2> QED
    BY <2>3 DEF q, c, v
<1>4. (Priced /\ buyer.cart.method = "MERCADO_PAGO" =>
          /\ buyer.snapshot \in DOMAIN snapshots
          /\ snapshots[buyer.snapshot].rate = buyer.rate)'
  BY <1>1 DEF BuyerInv, Priced, RatesKept
<1>5. (buyer.at = "done" => orders # <<>> /\ orders[1].request = Request)'
  BY <1>1 DEF BuyerInv, Request
<1> QED
  BY <1>2, <1>3, <1>4, <1>5 DEF BuyerInv

\* A buyer that gets on with the same cart, before it is answered.
LEMMA BuyerMoves ==
    ASSUME CheckoutInv, RatesKept, UNCHANGED <<products, orders>>, buyer.at # "browsing",
           DOMAIN buyer' = DOMAIN buyer,
           UNCHANGED <<buyer.cart, buyer.versions, buyer.quote>>,
           buyer'.at \in BuyerSteps \ {"browsing", "done"}, buyer'.casa \in Casas,
           Priced' /\ buyer.cart.method = "MERCADO_PAGO" =>
               buyer'.snapshot \in DOMAIN snapshots' /\ snapshots'[buyer'.snapshot].rate = buyer'.rate
    PROVE  BuyerInv' /\ OrderInv'
<1>1. BuyerInv /\ GoodsOK
  BY DEF CheckoutInv
<1>2. BuyerTyped'
  BY <1>1 DEF BuyerInv, BuyerTyped, Browsing
<1>3. Quoted(buyer.quote, buyer.cart, buyer.versions)'
  BY <1>1 DEF BuyerInv, Quoted, SellerSubtotal, Selling
<1>4. OrderInv'
  BY OrderKept
<1> QED
  BY <1>2, <1>3, <1>4 DEF BuyerInv

LEMMA BrowsingAgain ==
    ASSUME CheckoutInv, RatesKept, UNCHANGED <<products, orders>>, buyer' = Browsing
    PROVE  BuyerInv' /\ OrderInv'
<1>1. BuyerInv'
  BY DEF BuyerInv, Browsing, Priced
<1>2. OrderInv'
  BY OrderKept
<1> QED
  BY <1>1, <1>2

\* What the buyer's steps keep of the rest of the shop.
LEMMA ShopSame ==
    ASSUME CheckoutInv, UNCHANGED <<backOfficeVars, products>>
    PROVE  /\ BackOfficeInv'
           /\ /\ visitor' = Elsewhere \/ visitor' \in [at : {"lookup", "fetching"}, casa : Casas]
              /\ snapshots' \in Seq([casa : Casas, rate : MarketRates, fresh : BOOLEAN])
              => GoodsOK'
<1>1. BackOfficeInv'
  BY DEF CheckoutInv, backOfficeVars, BackOfficeInv, DocsInv, PageInv, ZonesInv, StoreZonesDisjoint
<1>2. /\ products' \in [Sellers -> [version : 1 .. MaxWrites + 1, price : ProductPrices]]
      /\ \A s \in Sellers : products'[s].version <= writes' + 1
  BY DEF CheckoutInv, GoodsOK, backOfficeVars
<1> QED
  BY <1>1, <1>2 DEF GoodsOK

LEMMA WritesGrow ==
    ASSUME BackOfficeInv, BackOfficeNext
    PROVE  writes' \in {writes, writes + 1}
<1>1. CASE DocumentsNext
  <2>1. DocumentStep
    BY <1>1, DocumentSteps DEF BackOfficeInv
  <2> QED
    BY <2>1 DEF DocumentStep, OpenPage, Save, Create, DeleteNews, Closed, Write
<1>2. CASE DeliveryNext
  <2>1. DeliveryStep
    BY <1>2, DeliverySteps DEF BackOfficeInv
  <2> QED
    BY <2>1 DEF DeliveryStep, WriteZone, WritePickup, Write
<1> QED
  BY <1>1, <1>2 DEF BackOfficeNext

-----------------------------------------------------------------------------
(* The steps of the checkout.                                               *)

LEMMA OfficeKeeps ==
    ASSUME CheckoutInv, BackOfficeNext, UNCHANGED <<products, snapshots, visitor, buyer, orders>>
    PROVE  CheckoutInv'
<1>1. BackOfficeInv'
  BY BackOfficeKept DEF CheckoutInv
<1>2. GoodsOK'
  <2>1. writes' \in {writes, writes + 1} /\ writes \in Int
    BY WritesGrow DEF CheckoutInv, BackOfficeInv, DocsInv
  <2>2. \A s \in Sellers : products[s].version \in Int /\ products[s].version <= writes + 1
    <3>1. MaxWrites \in Nat
      BY BackOfficeAssumption
    <3> QED
      BY <3>1 DEF CheckoutInv, GoodsOK
  <2>3. \A s \in Sellers : products[s].version <= writes' + 1
    BY <2>1, <2>2
  <2> QED
    BY <2>3 DEF CheckoutInv, GoodsOK
<1>3. RatesKept
  BY DEF RatesKept
<1>4. BuyerInv' /\ OrderInv'
  BY <1>3, BuyerSame, OrderKept
<1> QED
  BY <1>1, <1>2, <1>4 DEF CheckoutInv

LEMMA EditKeeps ==
    ASSUME CheckoutInv, NEW s \in Sellers, NEW price \in ProductPrices, EditProduct(s, price)
    PROVE  CheckoutInv'
<1>1. /\ writes < MaxWrites /\ writes' = writes + 1
      /\ products' = [products EXCEPT ![s] = [version |-> products[s].version + 1, price |-> price]]
      /\ UNCHANGED <<docs, pages, zones, pickups, snapshots, visitor, buyer, orders>>
  BY DEF EditProduct, Write
<1>2. /\ MaxWrites \in Nat /\ writes \in 0..MaxWrites
  BY BackOfficeAssumption DEF CheckoutInv, BackOfficeInv, DocsInv
<1>3. BackOfficeInv'
  <2>1. \A a \in Admins, d \in Documents : PageInv(a, d)'
    BY <1>1 DEF CheckoutInv, BackOfficeInv, DocsInv, PageInv
  <2>2. ASSUME NEW d \in Documents
        PROVE  /\ docs'[d] \in [version : Deleted .. MaxWrites + 1, value : Values[d]]
               /\ docs'[d].version <= writes' + 1
    <3>1. /\ docs[d] \in [version : Deleted .. MaxWrites + 1, value : Values[d]]
          /\ docs[d].version <= writes + 1
      BY DEF CheckoutInv, BackOfficeInv, DocsInv
    <3>2. docs[d].version \in Int
      BY <1>2, <3>1 DEF Deleted
    <3> QED
      BY <1>1, <1>2, <3>1, <3>2
  <2>3. DocsInv'
    BY <1>1, <1>2, <2>1, <2>2 DEF CheckoutInv, BackOfficeInv, DocsInv
  <2>4. ZonesInv'
    BY <1>1 DEF CheckoutInv, BackOfficeInv, ZonesInv, StoreZonesDisjoint
  <2> QED
    BY <2>3, <2>4 DEF BackOfficeInv
<1>4. ASSUME NEW t \in Sellers
      PROVE  /\ products[t] \in [version : 1 .. MaxWrites + 1, price : ProductPrices]
             /\ products[t].version \in Nat /\ 1 <= products[t].version
             /\ products[t].version <= writes + 1
  <2>1. products[t] \in [version : 1 .. MaxWrites + 1, price : ProductPrices]
    BY DEF CheckoutInv, GoodsOK
  <2> QED
    BY <1>2, <2>1 DEF CheckoutInv, GoodsOK
<1>5. \A t \in Sellers : \/ products'[t] = products[t]
                         \/ products'[t].version = products[t].version + 1
  BY <1>1, <1>4 DEF CheckoutInv, GoodsOK
<1>6. GoodsOK'
  <2>1. [version |-> products[s].version + 1, price |-> price]
            \in [version : 1 .. MaxWrites + 1, price : ProductPrices]
    BY <1>1, <1>2, <1>4
  <2>2. products' \in [Sellers -> [version : 1 .. MaxWrites + 1, price : ProductPrices]]
    BY <1>1, <2>1 DEF CheckoutInv, GoodsOK
  <2>3. \A t \in Sellers : products'[t].version <= writes' + 1
    BY <1>1, <1>2, <1>4, <1>5
  <2> QED
    BY <1>1, <2>2, <2>3 DEF CheckoutInv, GoodsOK
<1>7. RatesKept
  BY <1>1 DEF RatesKept
<1>8. BuyerInv' /\ OrderInv'
  BY <1>1, <1>5, <1>7, BuyerSame, OrderKept
<1> QED
  BY <1>3, <1>6, <1>8 DEF CheckoutInv

LEMMA CasaKnown ==
    ASSUME BackOfficeInv
    PROVE  docs["exchange"].value \in Casas
<1>1. \A d \in Documents : docs[d].value \in Values[d]
  BY DEF BackOfficeInv, DocsInv
<1> QED
  BY <1>1, DocumentNames

LEMMA BuyerRateKeeps ==
    ASSUME CheckoutInv, BuyerReadsCasa \/ BuyerFindsRate \/ BuyerFetches
    PROVE  CheckoutInv'
<1>1. BuyerInv /\ GoodsOK /\ BackOfficeInv
  BY DEF CheckoutInv
<1>2. /\ UNCHANGED <<backOfficeVars, products, orders, visitor>>
      /\ buyer.at \in {"casa", "lookup", "fetching"}
  BY DEF BuyerReadsCasa, BuyerFindsRate, BuyerFetches, UnchangedByRates
<1>3. BuyerTyped
  BY <1>1, <1>2 DEF BuyerInv, Browsing
<1>4. RatesKept
  BY <1>1, <1>3, SnapshotMade
  DEF BuyerReadsCasa, BuyerFindsRate, BuyerFetches, RatesKept, BuyerTyped
<1>5. BackOfficeInv' /\ GoodsOK'
  <2>1. snapshots' \in Seq([casa : Casas, rate : MarketRates, fresh : BOOLEAN])
    BY <1>1, <1>3, SnapshotMade
    DEF BuyerReadsCasa, BuyerFindsRate, BuyerFetches, GoodsOK, BuyerTyped
  <2> QED
    BY <1>1, <1>2, <2>1, ShopSame DEF GoodsOK
<1>6. ASSUME NEW i \in DOMAIN snapshots', NEW rate, buyer' = Previewed(i, rate),
             snapshots'[i].rate = rate
      PROVE  BuyerInv' /\ OrderInv'
  <2>1. /\ DOMAIN buyer' = DOMAIN buyer
        /\ UNCHANGED <<buyer.cart, buyer.versions, buyer.quote>>
        /\ buyer'.at = "previewed" /\ buyer'.casa = buyer.casa
        /\ buyer'.snapshot = i /\ buyer'.rate = rate
    BY <1>3, <1>6 DEF Previewed, BuyerTyped
  <2>2. buyer.at # "browsing" /\ buyer'.casa \in Casas
    BY <1>2, <1>3, <2>1 DEF BuyerTyped
  <2> QED
    BY <1>2, <1>4, <1>6, <2>1, <2>2, BuyerMoves DEF BuyerSteps
<1>7. ASSUME NEW at \in {"lookup", "fetching"}, NEW casa \in Casas,
             buyer' = [buyer EXCEPT !.at = at, !.casa = casa]
      PROVE  BuyerInv' /\ OrderInv'
  <2>1. /\ DOMAIN buyer' = DOMAIN buyer
        /\ UNCHANGED <<buyer.cart, buyer.versions, buyer.quote>>
        /\ buyer'.at = at /\ buyer'.casa = casa
    BY <1>3, <1>7 DEF BuyerTyped
  <2> QED
    BY <1>2, <1>4, <2>1, BuyerMoves DEF BuyerSteps, Priced
<1>8. BuyerInv' /\ OrderInv'
  <2>1. CASE BuyerReadsCasa
    BY <1>1, <1>7, <2>1, CasaKnown DEF BuyerReadsCasa, ReadCasa
  <2>2. CASE BuyerFindsRate
    <3>1. CASE Cached(buyer.casa) # {} /\ buyer' = Previewed(Latest(buyer.casa), snapshots[Latest(buyer.casa)].rate)
      BY <1>1, <1>6, <2>2, <3>1, LatestFound DEF BuyerFindsRate
    <3>2. CASE buyer' = [buyer EXCEPT !.at = "fetching"]
      <4>1. buyer' = [buyer EXCEPT !.at = "fetching", !.casa = buyer.casa]
        BY <1>3, <3>2 DEF BuyerTyped
      <4> QED
        BY <1>3, <1>7, <4>1 DEF BuyerTyped
    <3> QED
      BY <2>2, <3>1, <3>2 DEF BuyerFindsRate
  <2>3. CASE BuyerFetches
    <3>1. ASSUME NEW rate \in MarketRates, NewSnapshot(buyer.casa, rate),
                 buyer' = Previewed(Len(snapshots) + 1, rate)
          PROVE  BuyerInv' /\ OrderInv'
      BY <1>1, <1>3, <1>6, <3>1, SnapshotMade DEF BuyerTyped
    <3>2. CASE buyer' = Browsing
      BY <1>2, <1>4, <3>2, BrowsingAgain
    <3> QED
      BY <2>3, <3>1, <3>2 DEF BuyerFetches
  <2> QED
    BY <2>1, <2>2, <2>3
<1> QED
  BY <1>5, <1>8 DEF CheckoutInv

LEMMA OthersRateKeeps ==
    ASSUME CheckoutInv,
           \/ VisitorAsks \/ VisitorFetches \/ VisitorFetched
           \/ \E i \in DOMAIN snapshots : SnapshotExpires(i)
    PROVE  CheckoutInv'
<1>1. GoodsOK /\ BackOfficeInv
  BY DEF CheckoutInv
<1>2. UNCHANGED <<backOfficeVars, products, orders, buyer>>
  BY DEF VisitorAsks, VisitorFetches, VisitorFetched, SnapshotExpires, UnchangedByRates
<1>3. visitor = Elsewhere \/ visitor \in [at : {"lookup", "fetching"}, casa : Casas]
  BY <1>1 DEF GoodsOK
<1>4. visitor' = Elsewhere \/ visitor' \in [at : {"lookup", "fetching"}, casa : Casas]
  <2>1. CASE VisitorAsks
    BY <1>1, <2>1, CasaKnown DEF VisitorAsks, ReadCasa
  <2>2. CASE VisitorFetches
    BY <1>3, <2>2 DEF VisitorFetches, Elsewhere
  <2>3. CASE VisitorFetched
    BY <2>3 DEF VisitorFetched
  <2>4. CASE \E i \in DOMAIN snapshots : SnapshotExpires(i)
    BY <1>3, <2>4 DEF SnapshotExpires
  <2> QED
    BY <2>1, <2>2, <2>3, <2>4
<1>5. RatesKept /\ snapshots' \in Seq([casa : Casas, rate : MarketRates, fresh : BOOLEAN])
  <2>1. CASE UNCHANGED snapshots
    BY <1>1, <2>1 DEF RatesKept, GoodsOK
  <2>2. CASE VisitorFetched
    <3>1. ASSUME NEW rate \in MarketRates, NewSnapshot(visitor.casa, rate)
          PROVE  /\ RatesKept
                 /\ snapshots' \in Seq([casa : Casas, rate : MarketRates, fresh : BOOLEAN])
      <4>1. visitor.casa \in Casas
        BY <1>3, <2>2 DEF VisitorFetched, Elsewhere
      <4> QED
        BY <1>1, <3>1, <4>1, SnapshotMade
    <3> QED
      BY <2>1, <2>2, <3>1 DEF VisitorFetched
  <2>3. CASE \E i \in DOMAIN snapshots : SnapshotExpires(i)
    BY <1>1, <2>3, SnapshotExpired
  <2> QED
    BY <2>1, <2>2, <2>3 DEF VisitorAsks, VisitorFetches
<1>6. BackOfficeInv' /\ GoodsOK'
  BY <1>2, <1>4, <1>5, ShopSame
<1>7. BuyerInv' /\ OrderInv'
  BY <1>2, <1>5, BuyerSame, OrderKept
<1> QED
  BY <1>6, <1>7 DEF CheckoutInv

LEMMA PreviewKeeps ==
    ASSUME CheckoutInv, NEW c \in Carts, Preview(c)
    PROVE  CheckoutInv'
<1>1. GoodsOK /\ BackOfficeInv /\ BuyerInv /\ OrderInv
  BY DEF CheckoutInv
<1>2. /\ UNCHANGED <<backOfficeVars, products, snapshots, visitor, orders>>
      /\ buyer.at = "browsing" /\ Quotable(c)
      /\ buyer' = [at |-> IF c.method = "BANK_TRANSFER" THEN "previewed" ELSE "casa",
                   cart |-> c, versions |-> Versions(c), quote |-> QuoteOf(c),
                   casa |-> docs.exchange.value, snapshot |-> 0, rate |-> 0]
  BY DEF Preview, UnchangedByBuyer
<1>3. BackOfficeInv' /\ GoodsOK'
  BY <1>1, <1>2, ShopSame DEF GoodsOK
<1>4. /\ Quoted(QuoteOf(c), c, Versions(c))
      /\ \A s \in Sellers : QuoteOf(c).gross[s] - QuoteOf(c).shipping[s] = SellerSubtotal(c, s)
  BY <1>1, <1>2, QuoteFacts
<1> DEFINE q == QuoteOf(c)
           v == Versions(c)
<1>5. /\ buyer'.at \in {"previewed", "casa"} /\ buyer'.cart = c
      /\ buyer'.versions = v /\ buyer'.quote = q /\ buyer'.casa \in Casas
      /\ DOMAIN buyer' = {"at", "cart", "versions", "quote", "casa", "snapshot", "rate"}
      /\ c.method = "MERCADO_PAGO" => buyer'.at = "casa"
  BY <1>1, <1>2, CasaKnown
<1>6. \A s \in Selling(c) : s \in Sellers /\ v[s] = products[s].version
  BY DEF Versions, Selling
<1> HIDE DEF q, v
<1>7. BuyerInv'
  <2>1. BuyerTyped'
    BY <1>5 DEF BuyerTyped, BuyerSteps
  <2>2. Quoted(buyer.quote, buyer.cart, buyer.versions)'
    BY <1>2, <1>4, <1>5 DEF Quoted, Selling, SellerSubtotal, q, v
  <2> QED
    BY <1>5, <2>1, <2>2 DEF BuyerInv, Priced
<1>8. OrderInv'
  <2> SUFFICES ASSUME orders # <<>> PROVE (orders = <<orders[1]>> /\ OrderOK(orders[1]))'
    BY <1>2 DEF OrderInv
  <2> DEFINE o == orders[1]
  <2>1. orders = <<o>> /\ OrderOK(o) /\ o' = o
    BY <1>1, <1>2 DEF OrderInv
  <2> HIDE DEF o
  <2>2. ASSUME o.request.cart = c, o.request.versions = v
        PROVE  SameGoods(q, o.quote)
    <3>1. Quoted(o.quote, c, v)
      BY <2>1, <2>2 DEF OrderOK
    <3>2. ASSUME NEW s \in Sellers
          PROVE  q.gross[s] - q.shipping[s] = o.quote.gross[s] - o.quote.shipping[s]
      <4>1. /\ SellerSubtotal(c, s) \in Nat
            /\ s \notin Selling(c) => SellerSubtotal(c, s) = 0
        BY <1>1, SubtotalTypes
      <4>2. o.quote.gross[s] = SellerSubtotal(c, s) + o.quote.shipping[s]
        BY <1>6, <3>1, <4>1 DEF Quoted
      <4>3. o.quote.shipping[s] \in Nat
        BY <3>1 DEF Quoted
      <4> QED
        BY <1>4, <4>1, <4>2, <4>3 DEF q
    <3> QED
      BY <3>2 DEF SameGoods
  <2>3. /\ o.request.cart \in Carts
        /\ Quoted(o.quote, o.request.cart, o.request.versions)'
        /\ Shared(o.quote)
        /\ o.request.cart.method = "MERCADO_PAGO" => o.request.snapshot \in DOMAIN snapshots
        /\ o.provider = IF o.request.cart.method = "BANK_TRANSFER" THEN 0
                        ELSE UsdMinorToArsMinor(o.quote.total, snapshots[o.request.snapshot].rate)
    BY <1>2, <2>1 DEF OrderOK, Quoted, SellerSubtotal, Selling
  <2>4. OrderOK(o)'
    BY <1>2, <1>5, <2>1, <2>2, <2>3 DEF OrderOK, SameGoods, Shared
  <2> QED
    BY <1>2, <2>1, <2>4 DEF o
<1> QED
  BY <1>3, <1>7, <1>8 DEF CheckoutInv

LEMMA SendKeeps ==
    ASSUME CheckoutInv, Send \/ OrderRefused
    PROVE  CheckoutInv'
<1>1. GoodsOK /\ BackOfficeInv /\ BuyerInv
  BY DEF CheckoutInv
<1>2. /\ UNCHANGED <<backOfficeVars, products, snapshots, visitor, orders>>
      /\ buyer.at \in {"previewed", "sent"}
  BY DEF Send, OrderRefused, UnchangedByBuyer
<1>3. BackOfficeInv' /\ GoodsOK' /\ RatesKept
  BY <1>1, <1>2, ShopSame DEF GoodsOK, RatesKept
<1>4. BuyerTyped
  BY <1>1, <1>2 DEF BuyerInv, Browsing
<1>5. BuyerInv' /\ OrderInv'
  <2>1. CASE buyer' = Browsing
    BY <1>2, <1>3, <2>1, BrowsingAgain
  <2>2. CASE buyer' = [buyer EXCEPT !.at = "sent"]
    <3>1. /\ DOMAIN buyer' = DOMAIN buyer
          /\ UNCHANGED <<buyer.cart, buyer.versions, buyer.quote>>
          /\ buyer'.at = "sent" /\ buyer'.casa = buyer.casa
          /\ buyer'.snapshot = buyer.snapshot /\ buyer'.rate = buyer.rate
      BY <1>4, <2>2 DEF BuyerTyped
    <3>2. buyer.cart.method = "MERCADO_PAGO" =>
            buyer.snapshot \in DOMAIN snapshots /\ snapshots[buyer.snapshot].rate = buyer.rate
      BY <1>1, <1>2 DEF BuyerInv, Priced
    <3> QED
      BY <1>2, <1>3, <1>4, <3>1, <3>2, BuyerMoves DEF BuyerTyped, BuyerSteps
  <2> QED
    BY <2>1, <2>2 DEF Send, OrderRefused
<1> QED
  BY <1>3, <1>5 DEF CheckoutInv

LEMMA PlaceOrderKeeps ==
    ASSUME CheckoutInv, PlaceOrder
    PROVE  CheckoutInv'
<1>1. GoodsOK /\ BackOfficeInv /\ BuyerInv /\ OrderInv
  BY DEF CheckoutInv
<1>2. /\ UNCHANGED <<backOfficeVars, products, snapshots, visitor>>
      /\ buyer.at = "sent"
  BY DEF PlaceOrder, UnchangedByBuyer
<1>3. BackOfficeInv' /\ GoodsOK' /\ RatesKept
  BY <1>1, <1>2, ShopSame DEF GoodsOK, RatesKept
<1>4. BuyerTyped
  BY <1>1, <1>2 DEF BuyerInv, Browsing
<1>5. /\ DOMAIN buyer' = {"at", "cart", "versions", "quote", "casa", "snapshot", "rate"}
      /\ UNCHANGED <<buyer.cart, buyer.versions, buyer.quote, buyer.casa, buyer.snapshot,
                     buyer.rate>>
      /\ buyer'.at \in {"done", "previewed"}
  BY <1>4 DEF PlaceOrder, Answered, BuyerTyped
<1>6. BuyerTyped' /\ Quoted(buyer.quote, buyer.cart, buyer.versions)'
  BY <1>1, <1>2, <1>4, <1>5
  DEF BuyerTyped, BuyerSteps, BuyerInv, Quoted, Selling, SellerSubtotal
<1>7. buyer.cart.method = "MERCADO_PAGO" =>
        buyer.snapshot \in DOMAIN snapshots /\ snapshots[buyer.snapshot].rate = buyer.rate
  BY <1>1, <1>2 DEF BuyerInv, Priced
<1>8. Request' = Request
  BY <1>5 DEF Request
<1>9. CASE AlreadyPlaced /\ orders[1].request = Request /\ UNCHANGED orders
  <2>1. OrderInv'
    BY <1>2, <1>3, <1>5, <1>9, OrderKept
  <2>2. BuyerInv'
    BY <1>2, <1>5, <1>6, <1>7, <1>8, <1>9 DEF BuyerInv, AlreadyPlaced
  <2> QED
    BY <1>3, <2>1, <2>2 DEF CheckoutInv
<1>10. CASE /\ ~AlreadyPlaced /\ Acceptable
            /\ LET quote == QuoteOf(buyer.cart) IN
               orders' = Append(orders, [request |-> Request, quote |-> quote,
                                         provider |-> ProviderAmount(buyer.cart, quote)])
  <2> DEFINE c == buyer.cart
             q == QuoteOf(c)
             v == buyer.versions
             o == [request |-> Request, quote |-> q, provider |-> ProviderAmount(c, q)]
  <2>1. orders' = <<o>> /\ orders' # <<>> /\ orders'[1] = o
    BY <1>10 DEF AlreadyPlaced
  <2>2. c \in Carts /\ v = Versions(c) /\ Quotable(c)
    BY <1>4, <1>10 DEF BuyerTyped, Acceptable, VersionsMatch
  <2>3. /\ Quoted(q, c, v) /\ Shared(q)
        /\ \A s \in Sellers : q.gross[s] - q.shipping[s] = SellerSubtotal(c, s)
    BY <1>1, <2>2, QuoteFacts
  <2>4. /\ o.request.cart = c /\ o.request.versions = v /\ o.request.snapshot = buyer.snapshot
        /\ o.quote = q
        /\ o.provider = IF c.method = "BANK_TRANSFER" THEN 0
                        ELSE UsdMinorToArsMinor(q.total, snapshots[buyer.snapshot].rate)
    BY DEF Request, ProviderAmount
  <2>5. \A s \in Selling(c) : s \in Sellers /\ v[s] = products[s].version
    BY <2>2 DEF Versions, Selling
  <2>6. o.request = Request
    OBVIOUS
  <2> HIDE DEF q, o
  <2>7. SameGoods(buyer.quote, q)
    <3>1. Quoted(buyer.quote, c, v)
      BY <1>1, <1>2 DEF BuyerInv
    <3>2. ASSUME NEW s \in Sellers
          PROVE  buyer.quote.gross[s] - buyer.quote.shipping[s] = q.gross[s] - q.shipping[s]
      <4>1. /\ SellerSubtotal(c, s) \in Nat
            /\ s \notin Selling(c) => SellerSubtotal(c, s) = 0
        BY <1>1, <2>2, SubtotalTypes
      <4>2. buyer.quote.gross[s] = SellerSubtotal(c, s) + buyer.quote.shipping[s]
        BY <2>5, <3>1, <4>1 DEF Quoted
      <4>3. buyer.quote.shipping[s] \in Nat
        BY <3>1 DEF Quoted
      <4> QED
        BY <2>3, <4>1, <4>2, <4>3
    <3> QED
      BY <3>2 DEF SameGoods
  <2>8. OrderInv'
    <3>1. ASSUME NEW p, p = o PROVE OrderOK(p)'
      <4>1. /\ p.request.cart = c /\ p.request.versions = v
            /\ p.request.snapshot = buyer.snapshot /\ p.quote = q
            /\ p.provider = IF c.method = "BANK_TRANSFER" THEN 0
                            ELSE UsdMinorToArsMinor(q.total, snapshots[buyer.snapshot].rate)
        BY <2>4, <3>1
      <4>2. Quoted(p.quote, p.request.cart, p.request.versions)'
        <5>1. Quoted(p.quote, p.request.cart, p.request.versions)
          BY <2>3, <4>1
        <5> QED
          BY <1>2, <5>1 DEF Quoted, Selling, SellerSubtotal
      <4>3. Shared(p.quote)' /\ SameGoods(buyer'.quote, p.quote)
        BY <1>5, <2>3, <2>7, <4>1 DEF Shared, SameGoods
      <4> QED
        BY <1>2, <1>5, <1>7, <2>2, <4>1, <4>2, <4>3 DEF OrderOK, SameGoods
    <3>2. PICK p : p = o
      OBVIOUS
    <3>3. OrderOK(p)' /\ orders' = <<p>> /\ orders'[1] = p
      BY <2>1, <3>1, <3>2
    <3> QED
      BY <3>3 DEF OrderInv, OrderOK
  <2>9. BuyerInv'
    BY <1>2, <1>5, <1>6, <1>7, <1>8, <2>1, <2>6 DEF BuyerInv
  <2> QED
    BY <1>3, <2>8, <2>9 DEF CheckoutInv
<1> QED
  BY <1>9, <1>10 DEF PlaceOrder

-----------------------------------------------------------------------------
(* The theorems.                                                            *)

LEMMA CheckoutStarts == CheckoutInit => CheckoutInv
<1> SUFFICES ASSUME CheckoutInit PROVE CheckoutInv
  OBVIOUS
<1>1. BackOfficeInv
  BY BackOfficeStarts DEF CheckoutInit
<1>2. GoodsOK
  <2>1. InitialPrice \in ProductPrices /\ MaxWrites \in Nat
    BY CheckoutAssumption, BackOfficeAssumption
  <2>2. [version |-> 1, price |-> InitialPrice] \in [version : 1 .. MaxWrites + 1, price : ProductPrices]
    BY <2>1
  <2>3. products = [s \in Sellers |-> [version |-> 1, price |-> InitialPrice]] /\ writes = 0
    BY DEF CheckoutInit, BackOfficeInit
  <2>4. snapshots \in Seq([casa : Casas, rate : MarketRates, fresh : BOOLEAN])
    BY DEF CheckoutInit
  <2> QED
    BY <2>2, <2>3, <2>4 DEF CheckoutInit, GoodsOK
<1>3. BuyerInv /\ OrderInv
  BY DEF CheckoutInit, BuyerInv, OrderInv, Browsing, Priced
<1> QED
  BY <1>1, <1>2, <1>3 DEF CheckoutInv

LEMMA CheckoutSteps == CheckoutInv /\ [CheckoutNext]_checkoutVars => CheckoutInv'
<1> SUFFICES ASSUME CheckoutInv, [CheckoutNext]_checkoutVars PROVE CheckoutInv'
  OBVIOUS
<1>1. CASE UNCHANGED checkoutVars
  <2>1. UNCHANGED <<backOfficeVars, products, snapshots, visitor, buyer, orders>>
    BY <1>1 DEF checkoutVars
  <2>2. BackOfficeInv' /\ GoodsOK' /\ RatesKept
    BY <2>1, ShopSame DEF CheckoutInv, GoodsOK, RatesKept
  <2> QED
    BY <2>1, <2>2, BuyerSame, OrderKept DEF CheckoutInv
<1>2. CASE CheckoutNext
  BY <1>2, OfficeKeeps, EditKeeps, BuyerRateKeeps, OthersRateKeeps, PreviewKeeps, SendKeeps,
     PlaceOrderKeeps
  DEF CheckoutNext
<1> QED
  BY <1>1, <1>2

(***************************************************************************)
(* The quote a buyer holds and the order it makes keep the prices of the   *)
(* product versions they name, while the back office and the rates change. *)
(***************************************************************************)
THEOREM CheckoutInvariance == CheckoutSpec => []CheckoutInv
<1> QED
  BY CheckoutStarts, CheckoutSteps, PTL DEF CheckoutSpec

(***************************************************************************)
(* Every variable of the checkout keeps its type.                          *)
(***************************************************************************)
THEOREM CheckoutTypes == CheckoutSpec => []CheckoutTypeOK
<1>1. CheckoutInv => CheckoutTypeOK
  <2> SUFFICES ASSUME CheckoutInv PROVE CheckoutTypeOK
    OBVIOUS
  <2>1. BackOfficeTypeOK
    BY DEF CheckoutInv, BackOfficeInv, DocsInv, ZonesInv, BackOfficeTypeOK
  <2>2. visitor.at \in {"elsewhere", "lookup", "fetching"}
    BY DEF CheckoutInv, GoodsOK, Elsewhere
  <2>3. buyer.at \in BuyerSteps
    BY DEF CheckoutInv, BuyerInv, BuyerTyped, Browsing, BuyerSteps
  <2> QED
    BY <2>1, <2>2, <2>3 DEF CheckoutInv, GoodsOK, CheckoutTypeOK
<1> QED
  BY <1>1, CheckoutInvariance, PTL

(***************************************************************************)
(* An idempotency key makes one order, however often its request is sent.  *)
(***************************************************************************)
THEOREM KeyMakesOneOrder == CheckoutSpec => []OneOrderPerKey
<1>1. CheckoutInv => OneOrderPerKey
  <2> SUFFICES ASSUME CheckoutInv PROVE Len(orders) <= 1
    BY DEF OneOrderPerKey
  <2>1. CASE orders = <<>>
    BY <2>1
  <2>2. CASE orders = <<orders[1]>>
    BY <2>2
  <2> QED
    BY <2>1, <2>2 DEF CheckoutInv, OrderInv
<1> QED
  BY <1>1, CheckoutInvariance, PTL

(***************************************************************************)
(* The order a buyer is answered with costs what its preview said, in      *)
(* dollars and in pesos, unless the shipping price or the loyalty program  *)
(* changed: also when it was made by an earlier send of the same request,  *)
(* previewed again in between.                                             *)
(***************************************************************************)
THEOREM PreviewedCost == CheckoutSpec => []OrderCostsAsPreviewed
<1>1. CheckoutInv => OrderCostsAsPreviewed
  <2> DEFINE o == orders[1]
             b == buyer.quote
  <2> SUFFICES ASSUME CheckoutInv, buyer.at = "done",
                      o.quote.shipping = b.shipping, o.quote.program = b.program
               PROVE  /\ o.quote.total = b.total
                      /\ o.provider = IF buyer.cart.method = "BANK_TRANSFER" THEN 0
                                      ELSE UsdMinorToArsMinor(b.total, buyer.rate)
    BY DEF OrderCostsAsPreviewed
  <2>1. /\ OrderOK(o) /\ o.request = Request
        /\ Quoted(b, buyer.cart, buyer.versions) /\ buyer.cart \in Carts
    BY DEF CheckoutInv, BuyerInv, BuyerTyped, Browsing, OrderInv
  <2>2. /\ o.request.cart = buyer.cart /\ o.request.versions = buyer.versions
        /\ o.request.snapshot = buyer.snapshot
    BY <2>1 DEF Request
  <2>3. buyer.cart.method = "MERCADO_PAGO" => snapshots[buyer.snapshot].rate = buyer.rate
    BY DEF CheckoutInv, BuyerInv, Priced
  <2>4. /\ SameGoods(b, o.quote) /\ Quoted(o.quote, buyer.cart, buyer.versions)
        /\ o.provider = IF buyer.cart.method = "BANK_TRANSFER" THEN 0
                        ELSE UsdMinorToArsMinor(o.quote.total, snapshots[buyer.snapshot].rate)
    BY <2>1, <2>2 DEF OrderOK
  <2> HIDE DEF o, b
  <2>5. ASSUME NEW s \in Sellers PROVE o.quote.gross[s] = b.gross[s]
    <3>1. /\ o.quote.gross[s] \in Nat /\ o.quote.shipping[s] \in Nat
          /\ b.gross[s] \in Nat /\ b.shipping[s] \in Nat
          /\ b.gross[s] - b.shipping[s] = o.quote.gross[s] - o.quote.shipping[s]
          /\ b.shipping[s] = o.quote.shipping[s]
      BY <2>1, <2>4 DEF Quoted, SameGoods
    <3> QED
      BY <3>1
  <2>6. o.quote.total = b.total
    BY <2>1, <2>4, <2>5 DEF Quoted, Sellers
  <2>7. buyer.cart.method \in {"BANK_TRANSFER", "MERCADO_PAGO"}
    BY <2>1, CartTypes
  <2> QED
    BY <2>3, <2>4, <2>6, <2>7
<1> QED
  BY <1>1, CheckoutInvariance, PTL

(***************************************************************************)
(* The shares of the sellers and the commission make up the total, the     *)
(* store pays no commission, and no discount reaches the affiliate's part. *)
(***************************************************************************)
THEOREM SharesMakeTotal == CheckoutSpec => []SellersArePaid
<1>1. CheckoutInv => SellersArePaid
  <2> SUFFICES ASSUME CheckoutInv, NEW k \in DOMAIN orders PROVE Shared(orders[k].quote)
    BY DEF SellersArePaid, Shared
  <2>1. orders # <<>>
    OBVIOUS
  <2>2. orders = <<orders[1]>> /\ Shared(orders[1].quote)
    BY <2>1 DEF CheckoutInv, OrderInv, OrderOK
  <2>3. DOMAIN orders = {1}
    BY <2>2
  <2> QED
    BY <2>2, <2>3
<1> QED
  BY <1>1, CheckoutInvariance, PTL
=============================================================================
