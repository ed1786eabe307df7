------------------------------ MODULE Checkout ------------------------------
(***************************************************************************)
(* A buyer previews a cart, looks at the total, and orders it later, while *)
(* prices, delivery options, the loyalty program, the exchange house and   *)
(* the transfer settings may change.  The peso rate is fetched from the    *)
(* provider and kept as snapshots that several requests share.             *)
(*                                                                         *)
(* The stock and the points an order reserves are in Stock and Loyalty;    *)
(* here a buyer has a fixed number of points available.                    *)
(***************************************************************************)
EXTENDS BackOffice, Sequences

CONSTANTS
    InitialPrice,   \* price of both products at first
    Carts,          \* what the buyer may order
    Available,      \* points the buyer has available
    ProductPrices,  \* prices a product may have
    MarketRates,    \* what the provider may answer
    MaxSnapshots    \* bound: exchange rate snapshots


VARIABLES
    products,    \* version and price of each seller's product
    snapshots,   \* ExchangeRateSnapshot rows in the order they were made
    visitor,     \* another request that asks for the configured rate
    buyer,       \* where the buyer's checkout is
    orders       \* the orders made with the buyer's idempotency key

checkoutVars == <<backOfficeVars, products, snapshots, visitor, buyer, orders>>

Sellers == {"STORE", "AFFILIATE"}
Deliveries == [type : {"PICKUP"}, point : Points]
                 \cup [type : {"SHIPMENT"}, zone : Zones, rate : Rates,
                       province : Provinces]

ASSUME CheckoutAssumption ==
    /\ Available \in Nat /\ MaxSnapshots \in Nat
    /\ ProductPrices \subseteq Nat /\ InitialPrice \in ProductPrices
    /\ Carts \subseteq [units : [Sellers -> Nat], points : Nat,
                       method : {"BANK_TRANSFER", "MERCADO_PAGO"},
                       delivery : [Sellers -> Deliveries]]

Browsing == [at |-> "browsing"]
Elsewhere == [at |-> "elsewhere"]

(***************************************************************************)
(* calculateCheckout over what is stored now.                              *)
(***************************************************************************)
Selling(c) == {s \in Sellers : c.units[s] > 0}
SellerSubtotal(c, s) == c.units[s] * products[s].price
Program == docs.loyalty.value

SellerBps(s) ==
    IF s = "STORE" THEN 0
    ELSE IF docs.affiliate.value.override # NoOverride
           THEN docs.affiliate.value.override
           ELSE docs.settings.value

DeliveryAvailable(d, s) ==
    IF d.type = "PICKUP"
      THEN /\ pickups[d.point].active
           /\ pickups[d.point].owner = s
      ELSE /\ zones[d.zone].active
           /\ zones[d.zone].owner = s
           /\ d.province \in zones[d.zone].provinces
           /\ d.rate \in DOMAIN zones[d.zone].rates
           /\ zones[d.zone].rates[d.rate].active

SellerShipping(c, s) ==
    LET d == c.delivery[s] IN
    IF s \in Selling(c) /\ d.type = "SHIPMENT"
      THEN zones[d.zone].rates[d.rate].price ELSE 0

\* Wrong form of PointsSubtotal: points pay for every seller's products.
WholeSubtotal(c) == SellerSubtotal(c, "STORE") + SellerSubtotal(c, "AFFILIATE")

PointsSubtotal(c) == SellerSubtotal(c, "STORE")

Quotable(c) ==
    /\ "AFFILIATE" \in Selling(c) => AffiliateActive
    /\ \A s \in Selling(c) : DeliveryAvailable(c.delivery[s], s)
    /\ RedemptionAccepted(Program, Available, PointsSubtotal(c), c.points)

QuoteOf(c) ==
    LET gross == [s \in Sellers |-> SellerSubtotal(c, s) + SellerShipping(c, s)]
        discount == Discount(Program, c.points)
    IN [gross |-> gross,
        shipping |-> [s \in Sellers |-> SellerShipping(c, s)],
        commission |-> [s \in Sellers |->
                          CommissionOn(SellerSubtotal(c, s), SellerBps(s))],
        net |-> [s \in Sellers |-> SellerNet(SellerSubtotal(c, s),
                                             SellerShipping(c, s), SellerBps(s))],
        program |-> Program,
        discount |-> discount,
        earned |-> PointsToEarn(Program, PointsSubtotal(c), c.points),
        total |-> gross["STORE"] + gross["AFFILIATE"] - discount]

Versions(c) == [s \in Selling(c) |-> products[s].version]
TransferOn == docs.transfer.value.enabled
MethodOn(c) == c.method = "BANK_TRANSFER" => TransferOn

CheckoutInit ==
    /\ BackOfficeInit
    /\ products = [s \in Sellers |-> [version |-> 1, price |-> InitialPrice]]
    /\ snapshots = <<>>
    /\ visitor = Elsewhere
    /\ buyer = Browsing
    /\ orders = <<>>

\* Either seller edits its product's price (Listings has the other edits).
EditProduct(s, price) ==
    /\ Write
    /\ products' = [products EXCEPT ![s] = [version |-> @.version + 1,
                                           price |-> price]]
    /\ UNCHANGED <<docs, pages, zones, pickups, snapshots, visitor, buyer, orders>>

(***************************************************************************)
(* getConfiguredUsdArsRate, for the buyer's preview and for any other      *)
(* request: it reads the house, then looks for a snapshot of it that has   *)
(* not expired, and asks the provider otherwise, each after the other.     *)
(***************************************************************************)
UnchangedByRates == UNCHANGED <<backOfficeVars, products, orders>>

Cached(casa) == {i \in DOMAIN snapshots :
                   snapshots[i].casa = casa /\ snapshots[i].fresh}
Latest(casa) == CHOOSE i \in Cached(casa) : \A j \in Cached(casa) : j <= i

ReadCasa(r) == [r EXCEPT !.at = "lookup", !.casa = docs.exchange.value]
Fetching(r) == r.at = "lookup" /\ Cached(r.casa) = {}
NewSnapshot(casa, rate) ==
    /\ Len(snapshots) < MaxSnapshots
    /\ snapshots' = Append(snapshots, [casa |-> casa, rate |-> rate, fresh |-> TRUE])

Previewed(i, rate) == [buyer EXCEPT !.at = "previewed", !.snapshot = i, !.rate = rate]

BuyerReadsCasa ==
    /\ buyer.at = "casa"
    /\ buyer' = ReadCasa(buyer)
    /\ UNCHANGED <<snapshots, visitor>> /\ UnchangedByRates

BuyerFindsRate ==
    /\ buyer.at = "lookup"
    /\ \/ /\ Cached(buyer.casa) # {}
          /\ LET i == Latest(buyer.casa) IN buyer' = Previewed(i, snapshots[i].rate)
       \/ /\ Fetching(buyer)
          /\ buyer' = [buyer EXCEPT !.at = "fetching"]
    /\ UNCHANGED <<snapshots, visitor>> /\ UnchangedByRates

BuyerFetches ==
    /\ buyer.at = "fetching"
    /\ \/ \E rate \in MarketRates :
            /\ NewSnapshot(buyer.casa, rate)
            /\ buyer' = Previewed(Len(snapshots) + 1, rate)
       \/ buyer' = Browsing /\ UNCHANGED snapshots
    /\ UNCHANGED visitor /\ UnchangedByRates

VisitorAsks ==
    /\ visitor = Elsewhere
    /\ visitor' = ReadCasa([at |-> "casa", casa |-> docs.exchange.value])
    /\ UNCHANGED <<snapshots, buyer>> /\ UnchangedByRates

VisitorFetches ==
    /\ visitor.at = "lookup"
    /\ \/ Fetching(visitor) /\ visitor' = [visitor EXCEPT !.at = "fetching"]
       \/ ~Fetching(visitor) /\ visitor' = Elsewhere
    /\ UNCHANGED <<snapshots, buyer>> /\ UnchangedByRates

VisitorFetched ==
    /\ visitor.at = "fetching"
    /\ \/ \E rate \in MarketRates : NewSnapshot(visitor.casa, rate)
       \/ UNCHANGED snapshots
    /\ visitor' = Elsewhere
    /\ UNCHANGED buyer /\ UnchangedByRates

SnapshotExpires(i) ==
    /\ snapshots[i].fresh
    /\ snapshots' = [snapshots EXCEPT ![i].fresh = FALSE]
    /\ UNCHANGED <<visitor, buyer>> /\ UnchangedByRates

(***************************************************************************)
(* The buyer's preview and order.                                          *)
(***************************************************************************)
UnchangedByBuyer == UNCHANGED <<backOfficeVars, products, snapshots, visitor>>

Preview(c) ==
    /\ buyer.at = "browsing"
    /\ MethodOn(c) /\ Quotable(c)
    /\ buyer' = [at |-> IF c.method = "BANK_TRANSFER" THEN "previewed" ELSE "casa",
                 cart |-> c, versions |-> Versions(c), quote |-> QuoteOf(c),
                 casa |-> docs.exchange.value, snapshot |-> 0, rate |-> 0]
    /\ UNCHANGED orders /\ UnchangedByBuyer

\* The transfer settings are also read before the transaction: a retry of an
\* order that was made is refused here once transfers are off.
Send ==
    /\ buyer.at = "previewed"
    /\ buyer' = IF MethodOn(buyer.cart) THEN [buyer EXCEPT !.at = "sent"] ELSE Browsing
    /\ UNCHANGED orders /\ UnchangedByBuyer

RateUsable(i) == /\ snapshots[i].fresh
                 /\ snapshots[i].casa = docs.exchange.value

\* Wrong form of VersionsMatch: the product versions are not compared.
VersionsKept == TRUE

VersionsMatch == buyer.versions = Versions(buyer.cart)

Acceptable ==
    LET c == buyer.cart IN
    /\ MethodOn(c)
    /\ VersionsMatch
    /\ Quotable(c)
    /\ c.method = "MERCADO_PAGO" => RateUsable(buyer.snapshot)

ProviderAmount(c, quote) ==
    IF c.method = "BANK_TRANSFER" THEN 0
    ELSE UsdMinorToArsMinor(quote.total, snapshots[buyer.snapshot].rate)

\* The answer may be lost, and then the buyer sends the same request again.
Answered == \/ buyer' = [buyer EXCEPT !.at = "done"]
            \/ buyer' = [buyer EXCEPT !.at = "previewed"]

\* Wrong form of AlreadyPlaced: the key is not looked up.
NeverPlaced == FALSE

AlreadyPlaced == orders # <<>>

\* What the request says, and the hash kept beside the key stands for.
Request == [cart |-> buyer.cart, versions |-> buyer.versions,
            snapshot |-> buyer.snapshot]

PlaceOrder ==
    /\ buyer.at = "sent"
    /\ \/ AlreadyPlaced /\ orders[1].request = Request /\ UNCHANGED orders
       \/ /\ ~AlreadyPlaced /\ Acceptable
          /\ LET quote == QuoteOf(buyer.cart) IN
             orders' = Append(orders, [request |-> Request, quote |-> quote,
                                       provider |-> ProviderAmount(buyer.cart, quote)])
    /\ Answered
    /\ UnchangedByBuyer

OrderRefused ==
    /\ buyer.at = "sent"
    /\ IF AlreadyPlaced THEN orders[1].request # Request ELSE ~Acceptable
    /\ buyer' = Browsing
    /\ UNCHANGED orders /\ UnchangedByBuyer

-----------------------------------------------------------------------------
CheckoutNext ==
    \/ BackOfficeNext /\ UNCHANGED <<products, snapshots, visitor, buyer, orders>>
    \/ \E s \in Sellers, price \in ProductPrices : EditProduct(s, price)
    \/ BuyerReadsCasa \/ BuyerFindsRate \/ BuyerFetches
    \/ VisitorAsks \/ VisitorFetches \/ VisitorFetched
    \/ \E i \in DOMAIN snapshots : SnapshotExpires(i)
    \/ \E c \in Carts : Preview(c)
    \/ Send \/ PlaceOrder \/ OrderRefused

CheckoutSpec == CheckoutInit /\ [][CheckoutNext]_checkoutVars

-----------------------------------------------------------------------------
(***************************************************************************)
(* Properties.                                                             *)
(***************************************************************************)
BuyerSteps == {"browsing", "casa", "lookup", "fetching", "previewed", "sent",
               "done"}

CheckoutTypeOK ==
    /\ BackOfficeTypeOK
    /\ products \in [Sellers -> [version : 1 .. MaxWrites + 1, price : ProductPrices]]
    /\ snapshots \in Seq([casa : Casas, rate : MarketRates, fresh : BOOLEAN])
    /\ visitor.at \in {"elsewhere", "lookup", "fetching"}
    /\ buyer.at \in BuyerSteps

\* However often the buyer sends the order, it is made once.
OneOrderPerKey == Len(orders) <= 1

\* An order costs what its preview said, in dollars and in pesos, unless a
\* delivery price or the loyalty program changed in between: those have no
\* version in the request (orders.ts:28-35).
OrderCostsAsPreviewed ==
    buyer.at = "done" =>
        LET order == orders[1]
            same == /\ order.quote.shipping = buyer.quote.shipping
                    /\ order.quote.program = buyer.quote.program
        IN same => /\ order.quote.total = buyer.quote.total
                   /\ order.provider =
                        IF buyer.cart.method = "BANK_TRANSFER" THEN 0
                        ELSE UsdMinorToArsMinor(buyer.quote.total, buyer.rate)

\* The shares of the sellers and the commission make up the total, and the
\* discount never reaches into what the affiliate's part costs: the buyer
\* pays at least that, and the store never gives away its own part.
SellersArePaid ==
    \A k \in DOMAIN orders :
        LET q == orders[k].quote IN
        /\ q.total + q.discount = q.net["STORE"] + q.net["AFFILIATE"]
                                     + q.commission["AFFILIATE"]
        /\ q.commission["STORE"] = 0
        /\ q.net["AFFILIATE"] >= 0
        /\ q.total >= q.gross["AFFILIATE"] + q.shipping["STORE"]
=============================================================================
