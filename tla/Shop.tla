-------------------------------- MODULE Shop --------------------------------
(***************************************************************************)
(* The fixed data of the card shop that every component refers to: the     *)
(* orders that may be placed, who places them, the products on sale and    *)
(* the sellers (the store itself and its affiliates) who own them.         *)
(*                                                                         *)
(* One order is one (user, idempotency key) pair, so a replayed POST       *)
(* /orders is the same element of Orders.  Every line of an order is one   *)
(* unit of one product.                                                    *)
(***************************************************************************)
EXTENDS Integers, FiniteSets

CONSTANTS
    Orders,         \* orders that may be placed
    Users,          \* customers
    Buyer,          \* Buyer[o]: the customer who places order o
    Products,       \* products on sale
    Sellers,        \* the store and the affiliates
    Store,          \* the shop itself (sellerType STORE)
    SellerOf        \* SellerOf[p]: the seller that owns product p

ASSUME OrdersAssumption == IsFiniteSet(Orders)
ASSUME BuyerAssumption == Buyer \in [Orders -> Users]
ASSUME SellersAssumption == Store \in Sellers /\ IsFiniteSet(Sellers)
ASSUME SellerOfAssumption == SellerOf \in [Products -> Sellers]

\* The affiliates: every seller but the store.
Affiliates == Sellers \ {Store}

\* The sellers whose products appear among a set of lines.
SellersOf(lines) == {SellerOf[p] : p \in lines}
=============================================================================
