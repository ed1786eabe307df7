------------------------------- MODULE Stock --------------------------------
(***************************************************************************)
(* Inventory and the reservations orders hold on it.                       *)
(*                                                                         *)
(* Inventory.onHand and Inventory.reserved are counters kept next to the   *)
(* InventoryReservation rows; no database constraint ties them together.   *)
(* A row is ACTIVE while releasedAt and consumedAt are both null.          *)
(*                                                                         *)
(* The operators below are the loops the handlers run over the rows of one *)
(* order, each inside the handler's own database transaction.  StockSpec   *)
(* is the protocol they promise to keep; OrderPayments composes them into  *)
(* whole handlers and is checked, and proved, to implement it.             *)
(***************************************************************************)
EXTENDS Shop

CONSTANTS
    InitialStock,   \* InitialStock[p]: units on hand when the shop opens
    Deltas,         \* inventory adjustments an administrator may enter
    MaxOnHand       \* bound on the units an adjustment may lead to

ASSUME StockAssumption ==
    /\ InitialStock \in [Products -> Nat]
    /\ Deltas \subseteq Int
    /\ MaxOnHand \in Nat

VARIABLES
    onHand,         \* onHand[p]: Inventory.onHand
    reserved,       \* reserved[p]: Inventory.reserved
    reservation     \* reservation[o][p]: the row of order o for product p

stockVars == <<onHand, reserved, reservation>>

ReservationStates == {"NONE", "ACTIVE", "RELEASED", "CONSUMED"}

StockTypeOK ==
    /\ onHand \in [Products -> Int]
    /\ reserved \in [Products -> Int]
    /\ reservation \in [Orders -> [Products -> ReservationStates]]

StockInit ==
    /\ onHand = InitialStock
    /\ reserved = [p \in Products |-> 0]
    /\ reservation = [o \in Orders |-> [p \in Products |-> "NONE"]]

-----------------------------------------------------------------------------
(* The rows of an order.                                                    *)

LinesIn(o, states) == {p \in Products : reservation[o][p] \in states}
Lines(o) == LinesIn(o, {"ACTIVE", "RELEASED", "CONSUMED"})
Active(o) == LinesIn(o, {"ACTIVE"})

\* A per-product counter with d added on the given lines.
Shift(counter, lines, d) ==
    [p \in Products |-> IF p \in lines THEN counter[p] + d ELSE counter[p]]

\* The rows after those of order o for the given lines move to a state.
Marked(o, lines, state) ==
    [reservation EXCEPT ![o] =
        [p \in Products |-> IF p \in lines THEN state ELSE reservation[o][p]]]

-----------------------------------------------------------------------------
(* The loops the handlers run.                                              *)

\* Wrong form of ReserveStock: the availability test is off by one.
ReserveStockOffByOne(o, lines) ==
    /\ lines # {}
    /\ Lines(o) = {}
    /\ \A p \in lines : reserved[p] <= onHand[p]
    /\ reserved' = Shift(reserved, lines, 1)
    /\ reservation' = Marked(o, lines, "ACTIVE")
    /\ UNCHANGED onHand

\* Checkout: every line is available, its unit is counted and its row made.
ReserveStock(o, lines) ==
    /\ lines # {}
    /\ Lines(o) = {}
    /\ \A p \in lines : reserved[p] <= onHand[p] - 1
    /\ reserved' = Shift(reserved, lines, 1)
    /\ reservation' = Marked(o, lines, "ACTIVE")
    /\ UNCHANGED onHand

\* Wrong form of ReleaseReservations: the rows are not closed.
ReleaseReservationsUnmarked(o) ==
    /\ reserved' = Shift(reserved, Active(o), -1)
    /\ UNCHANGED <<onHand, reservation>>

\* The release loop of checkout, webhooks and the expiry job: no guard.
ReleaseReservations(o) ==
    /\ reserved' = Shift(reserved, Active(o), -1)
    /\ reservation' = Marked(o, Active(o), "RELEASED")
    /\ UNCHANGED onHand

\* The release loop of the back office, which refuses to go below zero.
ReleaseReservationsChecked(o) ==
    /\ \A p \in Active(o) : reserved[p] >= 1
    /\ ReleaseReservations(o)

\* The consume loop of an approved Mercado Pago payment: no guard.
TakeReserved(o) ==
    /\ onHand' = Shift(onHand, Active(o), -1)
    /\ reserved' = Shift(reserved, Active(o), -1)
    /\ reservation' = Marked(o, Active(o), "CONSUMED")

\* The consume loop of an approved transfer.
ConsumeReservations(o) ==
    /\ Active(o) # {}
    /\ \A p \in Active(o) : onHand[p] >= 1 /\ reserved[p] >= 1
    /\ TakeReserved(o)

\* Wrong form of AcquireLateStock: released rows are skipped.
AcquireLateStockActiveOnly(o) ==
    /\ Lines(o) # {}
    /\ \A p \in Active(o) : onHand[p] >= 1 /\ reserved[p] >= 1
    /\ TakeReserved(o)

\* A late payment: active rows are consumed, released ones taken again from
\* the units nobody holds.
AcquireLateStock(o) ==
    LET released == LinesIn(o, {"RELEASED"})
    IN  /\ Lines(o) # {}
        /\ \A p \in Active(o) : onHand[p] >= 1 /\ reserved[p] >= 1
        /\ \A p \in released : onHand[p] - reserved[p] >= 1
        /\ onHand' = Shift(onHand, Active(o) \cup released, -1)
        /\ reserved' = Shift(reserved, Active(o), -1)
        /\ reservation' = Marked(o, Active(o) \cup released, "CONSUMED")

\* A refund with restock puts the refunded lines back on the shelf.
Restock(lines) ==
    /\ onHand' = Shift(onHand, lines, 1)
    /\ UNCHANGED <<reserved, reservation>>

\* The administrator's stock delta, refused when it would go below the
\* reserved units.
AdjustInventory(p, delta) ==
    /\ onHand[p] + delta >= reserved[p]
    /\ onHand[p] + delta <= MaxOnHand
    /\ onHand' = [onHand EXCEPT ![p] = @ + delta]
    /\ UNCHANGED <<reserved, reservation>>

\* An affiliate's edit of a listing overwrites the units on hand.
SetAffiliateStock(p, units) ==
    /\ SellerOf[p] # Store
    /\ onHand' = [onHand EXCEPT ![p] = units]
    /\ UNCHANGED <<reserved, reservation>>

-----------------------------------------------------------------------------
(* The reservation protocol.                                                *)

StockNext ==
    \/ \E o \in Orders :
        \/ \E lines \in SUBSET Products : ReserveStock(o, lines)
        \/ ReleaseReservations(o)
        \/ TakeReserved(o)
        \/ AcquireLateStock(o)
    \/ \E lines \in SUBSET Products : Restock(lines)
    \/ \E p \in Products :
        \/ \E delta \in Deltas : AdjustInventory(p, delta)
        \/ \E units \in 0 .. MaxOnHand : SetAffiliateStock(p, units)

StockSpec == StockInit /\ [][StockNext]_stockVars

-----------------------------------------------------------------------------
(* What the protocol guarantees.                                            *)

Holders(p) == {o \in Orders : reservation[o][p] = "ACTIVE"}

\* Inventory.reserved, a counter five different handlers increment and
\* decrement, always equals the number of reservations that are neither
\* released nor consumed: no path releases a unit twice, forgets one or
\* consumes a released one as if it were still counted.
ReservedMatchesActive ==
    \A p \in Products : reserved[p] = Cardinality(Holders(p))

\* The units of a store product that orders hold are on the shelf: two
\* checkouts, a late payment and an inventory adjustment never promise the
\* same unit twice.  (An affiliate's listing edit overwrites its own stock.)
StoreStockCovered ==
    \A p \in Products : SellerOf[p] = Store => reserved[p] <= onHand[p]

\* A unit that was sold stays sold: no later release, expiry, refund webhook
\* or second approval takes a consumed reservation back or counts it again.
ConsumedIsFinal ==
    [][\A o \in Orders, p \in Products :
        reservation[o][p] = "CONSUMED" => reservation'[o][p] = "CONSUMED"]_stockVars
=============================================================================
