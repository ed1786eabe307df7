------------------------ MODULE OrderPaymentsProofs -------------------------
(***************************************************************************)
(* Theorems about orders and their payment, for any set of orders,         *)
(* products, sellers, customers and answers.  Five parts:                  *)
(*                                                                         *)
(* 1. What the operations of the shop are built from: the reservations of  *)
(* Stock, the points of Loyalty, and one sale's Earnings.                  *)
(*                                                                         *)
(* 2. Every handler of OrderPayments moves stock only by the loops of the  *)
(* reservation protocol and points only by the operations of the points    *)
(* protocol, so OrderPayments implements StockSpec and LoyaltySpec and     *)
(* inherits what part 1 proves of them.                                    *)
(*                                                                         *)
(* 3. The operations on seller orders keep their types: no status leaves   *)
(* the enumerations of the schema, and what a handler remembers of a       *)
(* seller order (the previous status of an issue or of a cancellation) is  *)
(* a status it can be given back.                                          *)
(*                                                                         *)
(* 4. With the types of stock and points this gives the type invariant,    *)
(* handler by handler.                                                     *)
(*                                                                         *)
(* 5. The life of one order.  Each step is summed up by what it does to an *)
(* order (the order opens, closes unpaid, is accredited, is refunded, one  *)
(* of its seller orders moves, or it is left alone); the invariants are    *)
(* then proved once per kind of move.                                      *)
(***************************************************************************)
EXTENDS OrderPayments, FiniteSetTheorems, TLAPS

-----------------------------------------------------------------------------
(***************************************************************************)
(* 1. THE OPERATIONS OF THE SHOP                                           *)
(*                                                                         *)
(* Of Stock the inductive invariant is StockInv: the types, the counter    *)
(* equation and the cover of store products.  The counter equation is      *)
(* inductive because each loop changes Inventory.reserved of a product by  *)
(* exactly the change of its set of holders, which HoldersMarked computes. *)
(*                                                                         *)
(* Of Loyalty the two equations (reserved points, balance) are not         *)
(* inductive alone: RedemptionOK is needed, which says that a redemption   *)
(* still reserved was not debited and that an order not yet placed has no  *)
(* history.                                                                *)
(*                                                                         *)
(* Of Earnings: every ledger operation leads from a ledger to a ledger,    *)
(* and none takes the earnings of a sale above its amount.                 *)
(***************************************************************************)

StockInv == StockTypeOK /\ ReservedMatchesActive /\ StoreStockCovered

-----------------------------------------------------------------------------
(* The operators the loops are built from.                                  *)

\* Moving a counter on some lines keeps it a function on products.
LEMMA ShiftType ==
    ASSUME NEW counter \in [Products -> Int], NEW lines, NEW d \in Int
    PROVE  /\ Shift(counter, lines, d) \in [Products -> Int]
           /\ \A p \in Products :
                Shift(counter, lines, d)[p] =
                    IF p \in lines THEN counter[p] + d ELSE counter[p]
BY DEF Shift

\* Moving some rows of one order to a state keeps the rows well typed.
LEMMA MarkedType ==
    ASSUME StockTypeOK, NEW o \in Orders, NEW lines, NEW state \in ReservationStates
    PROVE  Marked(o, lines, state) \in [Orders -> [Products -> ReservationStates]]
BY DEF Marked, StockTypeOK

\* The orders holding a product after some rows of one order moved to a
\* state: only that order may join them or leave them.
LEMMA HoldersMarked ==
    ASSUME StockTypeOK, NEW o \in Orders, NEW lines, NEW state \in ReservationStates,
           reservation' = Marked(o, lines, state), NEW p \in Products
    PROVE  Holders(p)' = IF p \notin lines THEN Holders(p)
                         ELSE IF state = "ACTIVE" THEN Holders(p) \cup {o}
                         ELSE Holders(p) \ {o}
<1>1. \A q \in Orders : q # o => reservation'[q][p] = reservation[q][p]
  BY DEF Marked, StockTypeOK
<1>2. reservation'[o][p] = IF p \in lines THEN state ELSE reservation[o][p]
  BY DEF Marked, StockTypeOK
<1>3. Holders(p)' = {q \in Orders : reservation'[q][p] = "ACTIVE"}
  BY DEF Holders
<1> QED
  BY <1>1, <1>2, <1>3 DEF Holders

\* The holders of a product are finitely many.
LEMMA HoldersFinite ==
    ASSUME NEW p
    PROVE  IsFiniteSet(Holders(p)) /\ Cardinality(Holders(p)) \in Nat
<1>1. Holders(p) \subseteq Orders
  BY DEF Holders
<1>2. IsFiniteSet(Holders(p))
  BY <1>1, OrdersAssumption, FS_Subset
<1> QED
  BY <1>2, FS_CardinalityType

\* A counter that takes a unit where a holder joins, gives one back where a
\* holder leaves and is left alone elsewhere keeps counting the holders.
LEMMA CountFollowsHolders ==
    ASSUME NEW p, NEW o, NEW count \in Int, count = Cardinality(Holders(p))
    PROVE  /\ o \notin Holders(p) => count + 1 = Cardinality(Holders(p) \cup {o})
           /\ o \in Holders(p) => count - 1 = Cardinality(Holders(p) \ {o})
           /\ o \notin Holders(p) => Holders(p) \ {o} = Holders(p)
<1>1. IsFiniteSet(Holders(p)) /\ Cardinality(Holders(p)) \in Nat
  BY HoldersFinite
<1>2. Cardinality(Holders(p) \cup {o}) =
        IF o \in Holders(p) THEN Cardinality(Holders(p)) ELSE Cardinality(Holders(p)) + 1
  BY <1>1, FS_AddElement
<1>3. Cardinality(Holders(p) \ {o}) =
        IF o \in Holders(p) THEN Cardinality(Holders(p)) - 1 ELSE Cardinality(Holders(p))
  BY <1>1, FS_RemoveElement
<1> QED
  BY <1>2, <1>3

-----------------------------------------------------------------------------
(* One lemma per loop.                                                      *)

\* Checkout: the order joins the holders of each of its lines.
LEMMA ReserveStockKeeps ==
    ASSUME StockInv, NEW o \in Orders, NEW lines \in SUBSET Products, ReserveStock(o, lines)
    PROVE  StockInv'
<1> USE DEF StockInv
<1>1. StockTypeOK'
  BY ShiftType, MarkedType DEF ReserveStock, StockTypeOK, ReservationStates
<1>2. ASSUME NEW p \in Products
      PROVE  /\ Holders(p)' = IF p \in lines THEN Holders(p) \cup {o} ELSE Holders(p)
             /\ o \notin Holders(p)
             /\ reserved'[p] = IF p \in lines THEN reserved[p] + 1 ELSE reserved[p]
  <2>1. reservation[o][p] # "ACTIVE"
    BY DEF ReserveStock, Lines, LinesIn
  <2>2. Holders(p)' = IF p \in lines THEN Holders(p) \cup {o} ELSE Holders(p)
    BY HoldersMarked DEF ReserveStock, ReservationStates
  <2> QED
    BY <2>1, <2>2, ShiftType DEF ReserveStock, StockTypeOK, Holders
<1>3. ReservedMatchesActive'
  <2> SUFFICES ASSUME NEW p \in Products
               PROVE  reserved'[p] = Cardinality(Holders(p)')
    BY DEF ReservedMatchesActive
  <2>1. reserved[p] \in Int /\ reserved[p] = Cardinality(Holders(p))
    BY DEF StockTypeOK, ReservedMatchesActive
  <2> QED
    BY <1>2, <2>1, CountFollowsHolders
<1>4. StoreStockCovered'
  BY <1>2 DEF StoreStockCovered, ReserveStock, StockTypeOK
<1> QED
  BY <1>1, <1>3, <1>4

\* The rows of an order leave the state ACTIVE: the order stops holding them.
LEMMA ActiveRowsLeave ==
    ASSUME StockInv, NEW o \in Orders, NEW lines, Active(o) \subseteq lines,
           NEW state \in {"RELEASED", "CONSUMED"},
           reserved' = Shift(reserved, Active(o), -1),
           reservation' = Marked(o, lines, state)
    PROVE  ReservedMatchesActive'
<1> USE DEF StockInv
<1> SUFFICES ASSUME NEW p \in Products
             PROVE  reserved'[p] = Cardinality(Holders(p)')
  BY DEF ReservedMatchesActive
<1>1. reserved[p] \in Int /\ reserved[p] = Cardinality(Holders(p))
  BY DEF StockTypeOK, ReservedMatchesActive
<1>2. p \in Active(o) <=> o \in Holders(p)
  BY DEF Active, LinesIn, Holders
<1>3. reserved'[p] = IF p \in Active(o) THEN reserved[p] - 1 ELSE reserved[p]
  BY ShiftType DEF StockTypeOK
<1>4. Holders(p)' = IF p \notin lines THEN Holders(p) ELSE Holders(p) \ {o}
  BY HoldersMarked DEF ReservationStates
<1>5. CASE p \in Active(o)
  <2>1. Holders(p)' = Holders(p) \ {o} /\ o \in Holders(p)
    BY <1>2, <1>4, <1>5
  <2>2. reserved'[p] = reserved[p] - 1
    BY <1>3, <1>5
  <2> QED
    BY <1>1, <2>1, <2>2, CountFollowsHolders
<1>6. CASE p \notin Active(o)
  <2>1. Holders(p)' = Holders(p)
    BY <1>2, <1>4, <1>6
  <2> QED
    BY <1>1, <1>3, <1>6, <2>1
<1> QED
  BY <1>5, <1>6

\* Release: units on hand stay, fewer of them are reserved.
LEMMA ReleaseReservationsKeeps ==
    ASSUME StockInv, NEW o \in Orders, ReleaseReservations(o)
    PROVE  StockInv'
<1> USE DEF StockInv
<1>1. StockTypeOK'
  <2>1. reserved' \in [Products -> Int]
    BY ShiftType DEF ReleaseReservations, StockTypeOK
  <2>2. reservation' \in [Orders -> [Products -> ReservationStates]]
    BY MarkedType DEF ReleaseReservations, ReservationStates
  <2> QED
    BY <2>1, <2>2 DEF ReleaseReservations, StockTypeOK
<1>2. ReservedMatchesActive'
  BY ActiveRowsLeave DEF ReleaseReservations
<1>3. StoreStockCovered'
  BY ShiftType DEF StoreStockCovered, ReleaseReservations, StockTypeOK
<1> QED
  BY <1>1, <1>2, <1>3

\* Consumption: each unit leaves the shelf and the reserved count together.
LEMMA TakeReservedKeeps ==
    ASSUME StockInv, NEW o \in Orders, TakeReserved(o)
    PROVE  StockInv'
<1> USE DEF StockInv
<1>1. StockTypeOK'
  <2>1. onHand' \in [Products -> Int] /\ reserved' \in [Products -> Int]
    BY ShiftType DEF TakeReserved, StockTypeOK
  <2>2. reservation' \in [Orders -> [Products -> ReservationStates]]
    BY MarkedType DEF TakeReserved, ReservationStates
  <2> QED
    BY <2>1, <2>2 DEF StockTypeOK
<1>2. ReservedMatchesActive'
  BY ActiveRowsLeave DEF TakeReserved
<1>3. StoreStockCovered'
  BY ShiftType DEF StoreStockCovered, TakeReserved, StockTypeOK
<1> QED
  BY <1>1, <1>2, <1>3

\* A late payment takes released units only where some are left unreserved.
LEMMA AcquireLateStockKeeps ==
    ASSUME StockInv, NEW o \in Orders, AcquireLateStock(o)
    PROVE  StockInv'
<1> USE DEF StockInv
<1> DEFINE released == LinesIn(o, {"RELEASED"})
           taken == Active(o) \cup released
<1>1. /\ \A p \in released : onHand[p] - reserved[p] >= 1
      /\ onHand' = Shift(onHand, taken, -1)
      /\ reserved' = Shift(reserved, Active(o), -1)
      /\ reservation' = Marked(o, taken, "CONSUMED")
  BY DEF AcquireLateStock
<1>2. StockTypeOK'
  <2>1. onHand' \in [Products -> Int] /\ reserved' \in [Products -> Int]
    BY <1>1, ShiftType DEF StockTypeOK
  <2>2. reservation' \in [Orders -> [Products -> ReservationStates]]
    BY <1>1, MarkedType DEF ReservationStates
  <2> QED
    BY <2>1, <2>2 DEF StockTypeOK
<1>3. ReservedMatchesActive'
  BY <1>1, ActiveRowsLeave
<1>4. StoreStockCovered'
  <2> SUFFICES ASSUME NEW p \in Products, SellerOf[p] = Store
               PROVE  reserved'[p] <= onHand'[p]
    BY DEF StoreStockCovered
  <2>1. reserved[p] \in Int /\ onHand[p] \in Int /\ reserved[p] <= onHand[p]
    BY DEF StockTypeOK, StoreStockCovered
  <2>2. reserved'[p] = IF p \in Active(o) THEN reserved[p] - 1 ELSE reserved[p]
    BY <1>1, ShiftType DEF StockTypeOK
  <2>3. onHand'[p] = IF p \in taken THEN onHand[p] - 1 ELSE onHand[p]
    BY <1>1, ShiftType DEF StockTypeOK
  <2> QED
    BY <1>1, <2>1, <2>2, <2>3
<1> QED
  BY <1>2, <1>3, <1>4

\* Restocks, adjustments and listing edits move units on hand only, and an
\* edit never touches a product of the store.
LEMMA OnHandChangesKeep ==
    ASSUME StockInv,
           \/ \E lines \in SUBSET Products : Restock(lines)
           \/ \E p \in Products, delta \in Deltas : AdjustInventory(p, delta)
           \/ \E p \in Products, units \in 0 .. MaxOnHand : SetAffiliateStock(p, units)
    PROVE  StockInv'
<1> USE DEF StockInv
<1>1. reserved' = reserved /\ reservation' = reservation
  BY DEF Restock, AdjustInventory, SetAffiliateStock
<1>2. ReservedMatchesActive'
  BY <1>1 DEF ReservedMatchesActive, Holders
<1>3. CASE \E lines \in SUBSET Products : Restock(lines)
  <2>1. PICK lines \in SUBSET Products : onHand' = Shift(onHand, lines, 1)
    BY <1>3 DEF Restock
  <2>2. /\ onHand' \in [Products -> Int]
        /\ \A p \in Products : onHand'[p] = IF p \in lines THEN onHand[p] + 1 ELSE onHand[p]
    BY <2>1, ShiftType DEF StockTypeOK
  <2> QED
    BY <1>1, <1>2, <2>2 DEF StockTypeOK, StoreStockCovered
<1>4. CASE \E p \in Products, delta \in Deltas : AdjustInventory(p, delta)
  BY <1>1, <1>2, <1>4, StockAssumption DEF AdjustInventory, StockTypeOK, StoreStockCovered
<1>5. CASE \E p \in Products, units \in 0 .. MaxOnHand : SetAffiliateStock(p, units)
  BY <1>1, <1>2, <1>5, StockAssumption DEF SetAffiliateStock, StockTypeOK, StoreStockCovered
<1> QED
  BY <1>3, <1>4, <1>5

-----------------------------------------------------------------------------
(* The protocol.                                                            *)

\* The shop opens with no reservation at all.
LEMMA StockInvInit == StockInit => StockInv
<1> SUFFICES ASSUME StockInit PROVE StockInv
  OBVIOUS
<1>1. StockTypeOK
  BY StockAssumption DEF StockInit, StockTypeOK, ReservationStates
<1>2. \A p \in Products : Holders(p) = {}
  BY DEF StockInit, Holders
<1>3. ReservedMatchesActive
  BY <1>2, FS_EmptySet DEF StockInit, ReservedMatchesActive
<1>4. StoreStockCovered
  BY StockAssumption DEF StockInit, StoreStockCovered
<1> QED
  BY <1>1, <1>3, <1>4 DEF StockInv

\* Every step of the protocol keeps the invariant.
LEMMA StockInvNext == StockInv /\ [StockNext]_stockVars => StockInv'
<1> SUFFICES ASSUME StockInv, [StockNext]_stockVars PROVE StockInv'
  OBVIOUS
<1>1. ASSUME NEW o \in Orders, NEW lines \in SUBSET Products, ReserveStock(o, lines)
      PROVE  StockInv'
  BY <1>1, ReserveStockKeeps
<1>2. ASSUME NEW o \in Orders, ReleaseReservations(o) PROVE StockInv'
  BY <1>2, ReleaseReservationsKeeps
<1>3. ASSUME NEW o \in Orders, TakeReserved(o) PROVE StockInv'
  BY <1>3, TakeReservedKeeps
<1>4. ASSUME NEW o \in Orders, AcquireLateStock(o) PROVE StockInv'
  BY <1>4, AcquireLateStockKeeps
<1>5. ASSUME \/ \E lines \in SUBSET Products : Restock(lines)
             \/ \E p \in Products, delta \in Deltas : AdjustInventory(p, delta)
             \/ \E p \in Products, units \in 0 .. MaxOnHand : SetAffiliateStock(p, units)
      PROVE  StockInv'
  BY <1>5, OnHandChangesKeep
<1>6. CASE UNCHANGED stockVars
  BY <1>6 DEF stockVars, StockInv, StockTypeOK, ReservedMatchesActive, Holders, StoreStockCovered
<1> QED
  BY <1>1, <1>2, <1>3, <1>4, <1>5, <1>6 DEF StockNext

\* Whatever loops the handlers run, in whatever order, the reserved counter
\* is the number of active reservations and no store unit is promised twice.
THEOREM StockInvariance == StockSpec => []StockInv
<1>1. StockInit => StockInv
  BY StockInvInit
<1>2. StockInv /\ [StockNext]_stockVars => StockInv'
  BY StockInvNext
<1> QED
  BY <1>1, <1>2, PTL DEF StockSpec

\* No loop of the protocol takes a consumed row back: release, consume and
\* late acquisition touch rows that are active or released.
THEOREM ConsumedStaysConsumed == StockSpec => ConsumedIsFinal
<1> DEFINE Final ==
        \A o \in Orders, p \in Products :
            reservation[o][p] = "CONSUMED" => reservation'[o][p] = "CONSUMED"
<1>1. StockInv /\ [StockNext]_stockVars => [Final]_stockVars
  <2> SUFFICES ASSUME StockInv, StockNext PROVE Final
    OBVIOUS
  <2>1. ASSUME NEW o \in Orders, NEW lines, NEW state,
               \A p \in lines : reservation[o][p] # "CONSUMED",
               reservation' = Marked(o, lines, state)
        PROVE  Final
    BY <2>1 DEF Marked, StockInv, StockTypeOK
  <2>2. ASSUME NEW o \in Orders, NEW lines \in SUBSET Products, ReserveStock(o, lines)
        PROVE  Final
    <3>1. \A p \in lines : reservation[o][p] # "CONSUMED"
      BY <2>2 DEF ReserveStock, Lines, LinesIn
    <3> QED
      BY <2>1, <2>2, <3>1 DEF ReserveStock
  <2>3. ASSUME NEW o \in Orders, ReleaseReservations(o) \/ TakeReserved(o) PROVE Final
    <3>1. \A p \in Active(o) : reservation[o][p] # "CONSUMED"
      BY DEF Active, LinesIn
    <3> QED
      BY <2>1, <2>3, <3>1 DEF ReleaseReservations, TakeReserved
  <2>4. ASSUME NEW o \in Orders, AcquireLateStock(o) PROVE Final
    <3>1. \A p \in Active(o) \cup LinesIn(o, {"RELEASED"}) : reservation[o][p] # "CONSUMED"
      BY DEF Active, LinesIn
    <3> QED
      BY <2>1, <2>4, <3>1 DEF AcquireLateStock
  <2>5. CASE UNCHANGED reservation
    BY <2>5
  <2> QED
    BY <2>2, <2>3, <2>4, <2>5 DEF StockNext, Restock, AdjustInventory, SetAffiliateStock
<1> QED
  BY <1>1, StockInvariance, PTL DEF StockSpec, ConsumedIsFinal

-----------------------------------------------------------------------------
(* Points.                                                                  *)

RedemptionOK ==
    \A o \in Orders :
        /\ redemption[o] = "RESERVED" => "REDEEM" \notin entries[o]
        /\ redemption[o] = "ABSENT" => ~earns[o] /\ entries[o] = {}

LoyaltyInv ==
    LoyaltyTypeOK /\ RedemptionOK /\ PointsReservedMatchOrders /\ BalanceMatchesEntries

-----------------------------------------------------------------------------
(* Counting orders.                                                         *)

\* Sets of orders are finite, and one order more or less changes their
\* cardinality by one.
LEMMA OrdersCount ==
    ASSUME NEW S, S \subseteq Orders, NEW o
    PROVE  /\ Cardinality(S) \in Nat
           /\ Cardinality(S \cup {o}) = IF o \in S THEN Cardinality(S) ELSE Cardinality(S) + 1
           /\ Cardinality(S \ {o}) = IF o \in S THEN Cardinality(S) - 1 ELSE Cardinality(S)
<1>1. IsFiniteSet(S)
  BY OrdersAssumption, FS_Subset
<1> QED
  BY <1>1, FS_CardinalityType, FS_AddElement, FS_RemoveElement

\* The orders of a customer holding points, once one order's redemption has
\* changed: only that order may join or leave.
LEMMA HoldingAfter ==
    ASSUME LoyaltyTypeOK, NEW o \in Orders, NEW status,
           redemption' = [redemption EXCEPT ![o] = status], NEW u
    PROVE  Holding(u)' = IF Buyer[o] # u THEN Holding(u)
                         ELSE IF status = "RESERVED" THEN Holding(u) \cup {o}
                         ELSE Holding(u) \ {o}
<1>1. \A q \in Orders : redemption'[q] = IF q = o THEN status ELSE redemption[q]
  BY DEF LoyaltyTypeOK
<1>2. Holding(u)' = {q \in Orders : Buyer[q] = u /\ redemption'[q] = "RESERVED"}
  BY DEF Holding
<1> QED
  BY <1>1, <1>2 DEF Holding

\* Lots are counted in integers.
LEMMA LotsType == \A b : Lots(b) \in Int
  BY DEF Lots

-----------------------------------------------------------------------------
(* The two equations, step by step.                                         *)

\* Reserved points move by one lot exactly when the redemption of an order
\* becomes RESERVED or stops being it.
LEMMA PointsFollowRedemption ==
    ASSUME LoyaltyInv, NEW o \in Orders, NEW status,
           redemption' = [redemption EXCEPT ![o] = status],
           pointsReserved' = [pointsReserved EXCEPT ![Buyer[o]] =
               @ + Lots(status = "RESERVED") - Lots(redemption[o] = "RESERVED")]
    PROVE  PointsReservedMatchOrders'
<1> SUFFICES ASSUME NEW u \in Users
             PROVE  pointsReserved'[u] = Cardinality(Holding(u)')
  BY DEF PointsReservedMatchOrders
<1>1. pointsReserved[u] \in Int /\ pointsReserved[u] = Cardinality(Holding(u))
  BY DEF LoyaltyInv, LoyaltyTypeOK, PointsReservedMatchOrders
<1>2. Holding(u) \subseteq Orders /\ (o \in Holding(u) <=> Buyer[o] = u /\ redemption[o] = "RESERVED")
  BY DEF Holding
<1>3. Holding(u)' = IF Buyer[o] # u THEN Holding(u)
                    ELSE IF status = "RESERVED" THEN Holding(u) \cup {o} ELSE Holding(u) \ {o}
  BY HoldingAfter DEF LoyaltyInv
<1>4. CASE Buyer[o] # u
  BY <1>1, <1>3, <1>4 DEF LoyaltyInv, LoyaltyTypeOK
<1>5. CASE Buyer[o] = u
  <2>1. pointsReserved'[u] =
          pointsReserved[u] + Lots(status = "RESERVED") - Lots(redemption[o] = "RESERVED")
    BY <1>5 DEF LoyaltyInv, LoyaltyTypeOK
  <2>2. /\ Cardinality(Holding(u) \cup {o}) =
             IF o \in Holding(u) THEN Cardinality(Holding(u)) ELSE Cardinality(Holding(u)) + 1
        /\ Cardinality(Holding(u) \ {o}) =
             IF o \in Holding(u) THEN Cardinality(Holding(u)) - 1 ELSE Cardinality(Holding(u))
    BY <1>2, OrdersCount
  <2> QED
    BY <1>1, <1>2, <1>3, <1>5, <2>1, <2>2 DEF Lots
<1> QED
  BY <1>4, <1>5

\* With, of any record of transactions.
WithIn(e, u, type) == {o \in Orders : Buyer[o] = u /\ type \in e[o]}

\* Any record of transactions, once an order was given new ones.
Given(e, o, new) == [e EXCEPT ![o] = @ \cup new]

\* One, when that gives the customer an order more of that type.
Gain(e, o, new, u, type) == IF Buyer[o] = u /\ type \in new \ e[o] THEN 1 ELSE 0

\* The orders of a customer with a transaction of a type, once one order was
\* given new ones: it joins them when it had none of that type.
LEMMA WithAfter ==
    ASSUME NEW e \in [Orders -> SUBSET EntryTypes], NEW o \in Orders, NEW new, NEW u, NEW type
    PROVE  /\ Cardinality(WithIn(e, u, type)) \in Nat
           /\ Cardinality(WithIn(Given(e, o, new), u, type)) =
                Cardinality(WithIn(e, u, type)) + Gain(e, o, new, u, type)
<1> DEFINE before == WithIn(e, u, type)
           after == WithIn(Given(e, o, new), u, type)
<1>1. /\ before \subseteq Orders
      /\ o \in before <=> Buyer[o] = u /\ type \in e[o]
  BY DEF WithIn
<1>2. after = IF Buyer[o] = u /\ type \in new THEN before \cup {o} ELSE before
  BY DEF WithIn, Given
<1>3. /\ Cardinality(before) \in Nat
      /\ Cardinality(before \cup {o}) =
           IF o \in before THEN Cardinality(before) ELSE Cardinality(before) + 1
  BY <1>1, OrdersCount
<1> HIDE DEF before, after
<1>4. Cardinality(after) = Cardinality(before) +
        (IF Buyer[o] = u /\ type \in new \ e[o] THEN 1 ELSE 0)
  <2>1. CASE Buyer[o] = u /\ type \in new
    <3>1. after = before \cup {o}
      BY <1>2, <2>1
    <3>2. o \in before <=> type \in e[o]
      BY <1>1, <2>1
    <3> QED
      BY <1>3, <2>1, <3>1, <3>2
  <2>2. CASE ~(Buyer[o] = u /\ type \in new)
    <3>1. after = before
      BY <1>2, <2>2
    <3> QED
      BY <1>3, <2>2, <3>1
  <2> QED
    BY <2>1, <2>2
<1> QED
  BY <1>3, <1>4 DEF before, after, Gain

\* The balance moves by one lot for each transaction written for the first
\* time.
LEMMA BalanceFollowsEntries ==
    ASSUME LoyaltyInv, NEW o \in Orders, NEW new, new \cap entries[o] = {},
           entries' = [entries EXCEPT ![o] = @ \cup new],
           balance' = [balance EXCEPT ![Buyer[o]] =
               @ - Lots("REDEEM" \in new) + Lots("REDEEM_REVERSAL" \in new)
                 + Lots("EARN" \in new) - Lots("EARN_REVERSAL" \in new)]
    PROVE  BalanceMatchesEntries'
<1> SUFFICES ASSUME NEW u \in Users
             PROVE  balance'[u] = InitialPoints[u]
                                  - Cardinality(With(u, "REDEEM")')
                                  + Cardinality(With(u, "REDEEM_REVERSAL")')
                                  + Cardinality(With(u, "EARN")')
                                  - Cardinality(With(u, "EARN_REVERSAL")')
  BY DEF BalanceMatchesEntries
<1>1. /\ balance[u] \in Int /\ InitialPoints[u] \in Nat
      /\ balance[u] = InitialPoints[u]
                      - Cardinality(With(u, "REDEEM"))
                      + Cardinality(With(u, "REDEEM_REVERSAL"))
                      + Cardinality(With(u, "EARN"))
                      - Cardinality(With(u, "EARN_REVERSAL"))
  BY PointsAssumption DEF LoyaltyInv, LoyaltyTypeOK, BalanceMatchesEntries
<1>2. ASSUME NEW type
      PROVE  /\ Cardinality(With(u, type)) \in Nat
             /\ Cardinality(With(u, type)') =
                  Cardinality(With(u, type)) + (IF Buyer[o] = u /\ type \in new THEN 1 ELSE 0)
  <2>1. type \in new <=> type \in new \ entries[o]
    OBVIOUS
  <2>2. With(u, type) = WithIn(entries, u, type) /\ With(u, type)' = WithIn(entries', u, type)
    BY DEF With, WithIn
  <2>3. entries \in [Orders -> SUBSET EntryTypes]
    BY DEF LoyaltyInv, LoyaltyTypeOK
  <2>4. entries' = Given(entries, o, new)
    BY DEF Given
  <2>5. Cardinality(WithIn(entries, u, type)) \in Nat
    BY <2>3, WithAfter
  <2>6. Cardinality(WithIn(Given(entries, o, new), u, type)) =
          Cardinality(WithIn(entries, u, type)) + Gain(entries, o, new, u, type)
    BY <2>3, WithAfter
  <2> QED
    BY <2>1, <2>2, <2>4, <2>5, <2>6 DEF Gain
<1>3. balance'[u] = IF Buyer[o] = u
                    THEN balance[u] - Lots("REDEEM" \in new) + Lots("REDEEM_REVERSAL" \in new)
                           + Lots("EARN" \in new) - Lots("EARN_REVERSAL" \in new)
                    ELSE balance[u]
  BY DEF LoyaltyInv, LoyaltyTypeOK
<1> QED
  BY <1>1, <1>2, <1>3 DEF Lots

\* A refund leaves the lots of an order where its entries put them.
LEMMA ReversalArithmetic ==
    ASSUME LoyaltyInv, NEW o \in Orders,
           balance' = ReversedBalance(o), entries' = ReversedEntries(o)
    PROVE  BalanceMatchesEntries'
<1> DEFINE new == {t \in {"EARN_REVERSAL"} : EarnReversible(o)}
                  \cup {t \in {"REDEEM_REVERSAL"} : RedeemReversible(o)}
<1>1. /\ "EARN_REVERSAL" \in new <=> EarnReversible(o)
      /\ "REDEEM_REVERSAL" \in new <=> RedeemReversible(o)
      /\ "EARN" \notin new /\ "REDEEM" \notin new
  OBVIOUS
<1>2. new \cap entries[o] = {}
  BY DEF EarnReversible, RedeemReversible
<1>3. entries' = [entries EXCEPT ![o] = @ \cup new]
  BY DEF ReversedEntries, LoyaltyInv, LoyaltyTypeOK
<1>4. balance' = [balance EXCEPT ![Buyer[o]] =
                    @ - Lots("REDEEM" \in new) + Lots("REDEEM_REVERSAL" \in new)
                      + Lots("EARN" \in new) - Lots("EARN_REVERSAL" \in new)]
  <2>1. balance[Buyer[o]] \in Int
    BY BuyerAssumption DEF LoyaltyInv, LoyaltyTypeOK
  <2>2. /\ Lots("REDEEM" \in new) = 0 /\ Lots("EARN" \in new) = 0
        /\ Lots("REDEEM_REVERSAL" \in new) = Lots(RedeemReversible(o))
        /\ Lots("EARN_REVERSAL" \in new) = Lots(EarnReversible(o))
    BY <1>1 DEF Lots
  <2> HIDE DEF new
  <2>3. balance[Buyer[o]] - Lots(EarnReversible(o)) + Lots(RedeemReversible(o))
          = balance[Buyer[o]] - Lots("REDEEM" \in new) + Lots("REDEEM_REVERSAL" \in new)
              + Lots("EARN" \in new) - Lots("EARN_REVERSAL" \in new)
    BY <2>1, <2>2, LotsType
  <2> QED
    BY <2>3 DEF ReversedBalance
<1> HIDE DEF new
<1> QED
  BY <1>2, <1>3, <1>4, BalanceFollowsEntries

-----------------------------------------------------------------------------
(* One lemma per operation.                                                 *)

\* Checkout: the order starts without a history.
LEMMA ReserveLoyaltyPointsKeeps ==
    ASSUME LoyaltyInv, NEW o \in Orders, NEW redeems \in BOOLEAN, NEW earned \in BOOLEAN,
           ReserveLoyaltyPoints(o, redeems, earned)
    PROVE  LoyaltyInv'
<1> USE BuyerAssumption
<1> DEFINE status == IF redeems THEN "RESERVED" ELSE "NONE"
<1>1. LoyaltyTypeOK'
  <2>1. pointsReserved[Buyer[o]] + Lots(redeems) \in Int
    BY LotsType DEF LoyaltyInv, LoyaltyTypeOK
  <2>2. status \in RedemptionStates
    BY DEF RedemptionStates
  <2>3. pointsReserved' \in [Users -> Int]
    BY <2>1 DEF ReserveLoyaltyPoints, LoyaltyInv, LoyaltyTypeOK
  <2>4. redemption' \in [Orders -> RedemptionStates]
    BY <2>2 DEF ReserveLoyaltyPoints, LoyaltyInv, LoyaltyTypeOK
  <2>5. earns' \in [Orders -> BOOLEAN]
    BY DEF ReserveLoyaltyPoints, LoyaltyInv, LoyaltyTypeOK
  <2> QED
    BY <2>3, <2>4, <2>5 DEF ReserveLoyaltyPoints, LoyaltyInv, LoyaltyTypeOK
<1>2. RedemptionOK'
  BY DEF ReserveLoyaltyPoints, LoyaltyInv, LoyaltyTypeOK, RedemptionOK
<1>3. PointsReservedMatchOrders'
  <2>1. redemption' = [redemption EXCEPT ![o] = status]
    BY DEF ReserveLoyaltyPoints
  <2>2. pointsReserved[Buyer[o]] \in Int
    BY DEF LoyaltyInv, LoyaltyTypeOK
  <2>3. pointsReserved' = [pointsReserved EXCEPT ![Buyer[o]] =
                             @ + Lots(status = "RESERVED") - Lots(redemption[o] = "RESERVED")]
    <3>1. Lots(status = "RESERVED") = Lots(redeems) /\ Lots(redemption[o] = "RESERVED") = 0
      BY DEF ReserveLoyaltyPoints, Lots
    <3>2. pointsReserved[Buyer[o]] + Lots(redeems) =
            pointsReserved[Buyer[o]] + Lots(status = "RESERVED") - Lots(redemption[o] = "RESERVED")
      <4> HIDE DEF status
      <4> QED
        BY <2>2, <3>1, LotsType
    <3> QED
      BY <3>2 DEF ReserveLoyaltyPoints
  <2> HIDE DEF status
  <2> QED
    BY <2>1, <2>3, PointsFollowRedemption
<1>4. BalanceMatchesEntries'
  BY DEF ReserveLoyaltyPoints, LoyaltyInv, BalanceMatchesEntries, With
<1> QED
  BY <1>1, <1>2, <1>3, <1>4 DEF LoyaltyInv

\* A redemption that is released is no longer reserved, and no longer counted.
LEMMA ReleasedPointsMatch ==
    ASSUME LoyaltyInv, NEW o \in Orders, NEW status, status # "RESERVED",
           redemption' = [redemption EXCEPT ![o] = status],
           pointsReserved' = ReleasedPoints(o)
    PROVE  PointsReservedMatchOrders'
<1>1. pointsReserved[Buyer[o]] \in Int
  BY BuyerAssumption DEF LoyaltyInv, LoyaltyTypeOK
<1>2. pointsReserved' = [pointsReserved EXCEPT ![Buyer[o]] =
                           @ + Lots(status = "RESERVED") - Lots(redemption[o] = "RESERVED")]
  <2>1. Lots(status = "RESERVED") = 0
    BY DEF Lots
  <2>2. pointsReserved[Buyer[o]] - Lots(redemption[o] = "RESERVED") =
          pointsReserved[Buyer[o]] + Lots(status = "RESERVED") - Lots(redemption[o] = "RESERVED")
    BY <1>1, <2>1, LotsType
  <2> QED
    BY <2>2 DEF ReleasedPoints
<1> QED
  BY <1>2, PointsFollowRedemption

\* What a release and a reversal write has its type.
LEMMA ReleasedPointsType ==
    ASSUME LoyaltyTypeOK, NEW o \in Orders
    PROVE  ReleasedPoints(o) \in [Users -> Int]
<1>1. pointsReserved[Buyer[o]] - Lots(redemption[o] = "RESERVED") \in Int
  BY BuyerAssumption, LotsType DEF LoyaltyTypeOK
<1> QED
  BY <1>1 DEF ReleasedPoints, LoyaltyTypeOK

LEMMA ReversalType ==
    ASSUME LoyaltyTypeOK, NEW o \in Orders
    PROVE  /\ ReversedBalance(o) \in [Users -> Int]
           /\ ReversedEntries(o) \in [Orders -> SUBSET EntryTypes]
<1>1. balance[Buyer[o]] - Lots(EarnReversible(o)) + Lots(RedeemReversible(o)) \in Int
  BY BuyerAssumption, LotsType DEF LoyaltyTypeOK
<1>2. entries[o] \cup {t \in {"EARN_REVERSAL"} : EarnReversible(o)}
                 \cup {t \in {"REDEEM_REVERSAL"} : RedeemReversible(o)} \in SUBSET EntryTypes
  BY DEF LoyaltyTypeOK, EntryTypes
<1>3. ReversedBalance(o) \in [Users -> Int]
  BY <1>1 DEF ReversedBalance, LoyaltyTypeOK
<1>4. ReversedEntries(o) \in [Orders -> SUBSET EntryTypes]
  BY <1>2 DEF ReversedEntries, LoyaltyTypeOK
<1> QED
  BY <1>3, <1>4

LEMMA ReleaseLoyaltyKeeps ==
    ASSUME LoyaltyInv, NEW o \in Orders, ReleaseOrderLoyaltyReservation(o)
    PROVE  LoyaltyInv'
<1> USE BuyerAssumption
<1>1. LoyaltyTypeOK'
  <2>1. redemption' \in [Orders -> RedemptionStates]
    BY DEF ReleaseOrderLoyaltyReservation, AfterRelease, LoyaltyInv, LoyaltyTypeOK,
           RedemptionStates
  <2> QED
    BY <2>1, ReleasedPointsType DEF ReleaseOrderLoyaltyReservation, LoyaltyInv, LoyaltyTypeOK
<1>2. RedemptionOK'
  BY DEF ReleaseOrderLoyaltyReservation, AfterRelease, LoyaltyInv, LoyaltyTypeOK, RedemptionOK
<1>3. PointsReservedMatchOrders'
  <2>1. redemption' = [redemption EXCEPT ![o] = AfterRelease(redemption[o])]
    BY DEF ReleaseOrderLoyaltyReservation
  <2>2. AfterRelease(redemption[o]) # "RESERVED"
    BY DEF AfterRelease
  <2> QED
    BY <2>1, <2>2, ReleasedPointsMatch DEF ReleaseOrderLoyaltyReservation
<1>4. BalanceMatchesEntries'
  BY DEF ReleaseOrderLoyaltyReservation, LoyaltyInv, BalanceMatchesEntries, With
<1> QED
  BY <1>1, <1>2, <1>3, <1>4 DEF LoyaltyInv

\* A refund: only a debited redemption is restored, so none that is reserved.
LEMMA ReverseLoyaltyKeeps ==
    ASSUME LoyaltyInv, NEW o \in Orders, ReverseOrderLoyalty(o)
    PROVE  LoyaltyInv'
<1> USE BuyerAssumption
<1>1. LoyaltyTypeOK'
  <2>1. redemption' \in [Orders -> RedemptionStates]
    BY DEF ReverseOrderLoyalty, AfterReversal, LoyaltyInv, LoyaltyTypeOK, RedemptionStates
  <2> QED
    BY <2>1, ReversalType DEF ReverseOrderLoyalty, LoyaltyInv, LoyaltyTypeOK
<1>2. RedemptionOK'
  BY DEF ReverseOrderLoyalty, ReversedEntries, AfterReversal, EarnReversible, RedeemReversible,
         LoyaltyInv, LoyaltyTypeOK, RedemptionOK
<1>3. PointsReservedMatchOrders'
  <2> DEFINE status == AfterReversal(o, redemption[o])
  <2>1. redemption' = [redemption EXCEPT ![o] = status]
    BY DEF ReverseOrderLoyalty
  <2>2. status = "RESERVED" <=> redemption[o] = "RESERVED"
    BY DEF AfterReversal, RedeemReversible, LoyaltyInv, RedemptionOK
  <2>3. pointsReserved[Buyer[o]] \in Int /\ pointsReserved' = pointsReserved
    BY DEF ReverseOrderLoyalty, LoyaltyInv, LoyaltyTypeOK
  <2>4. pointsReserved' = [pointsReserved EXCEPT ![Buyer[o]] =
                             @ + Lots(status = "RESERVED") - Lots(redemption[o] = "RESERVED")]
    <3> HIDE DEF status
    <3> QED
      BY <2>2, <2>3 DEF Lots, LoyaltyInv, LoyaltyTypeOK
  <2> HIDE DEF status
  <2> QED
    BY <2>1, <2>4, PointsFollowRedemption
<1>4. BalanceMatchesEntries'
  BY ReversalArithmetic DEF ReverseOrderLoyalty
<1> QED
  BY <1>1, <1>2, <1>3, <1>4 DEF LoyaltyInv

\* The refund webhook: released, then reversed.
LEMMA ReleaseAndReverseKeeps ==
    ASSUME LoyaltyInv, NEW o \in Orders, ReleaseAndReverseLoyalty(o)
    PROVE  LoyaltyInv'
<1> USE BuyerAssumption
<1>1. LoyaltyTypeOK'
  <2>1. redemption' \in [Orders -> RedemptionStates]
    BY DEF ReleaseAndReverseLoyalty, AfterReversal, AfterRelease, LoyaltyInv, LoyaltyTypeOK,
           RedemptionStates
  <2> QED
    BY <2>1, ReleasedPointsType, ReversalType
       DEF ReleaseAndReverseLoyalty, LoyaltyInv, LoyaltyTypeOK
<1>2. RedemptionOK'
  BY DEF ReleaseAndReverseLoyalty, ReversedEntries, AfterReversal, AfterRelease, EarnReversible,
         RedeemReversible, LoyaltyInv, LoyaltyTypeOK, RedemptionOK
<1>3. PointsReservedMatchOrders'
  <2>1. redemption' = [redemption EXCEPT ![o] = AfterReversal(o, AfterRelease(redemption[o]))]
    BY DEF ReleaseAndReverseLoyalty
  <2>2. AfterReversal(o, AfterRelease(redemption[o])) # "RESERVED"
    BY DEF AfterReversal, AfterRelease
  <2> QED
    BY <2>1, <2>2, ReleasedPointsMatch DEF ReleaseAndReverseLoyalty
<1>4. BalanceMatchesEntries'
  BY ReversalArithmetic DEF ReleaseAndReverseLoyalty
<1> QED
  BY <1>1, <1>2, <1>3, <1>4 DEF LoyaltyInv

\* Accreditation: what was reserved is debited and no longer reserved.
LEMMA SettleLoyaltyKeeps ==
    ASSUME LoyaltyInv, NEW o \in Orders, SettleOrderLoyalty(o)
    PROVE  LoyaltyInv'
<1> USE BuyerAssumption
<1> DEFINE redeems == redemption[o] \in {"RESERVED", "RELEASED"}
           debits == redeems /\ "REDEEM" \notin entries[o]
           fromReserved == debits /\ redemption[o] = "RESERVED"
           credits == earns[o] /\ "EARN" \notin entries[o]
           new == {t \in {"REDEEM"} : debits} \cup {t \in {"EARN"} : credits}
           status == IF redeems THEN "REDEEMED" ELSE redemption[o]
<1>1. /\ balance' = [balance EXCEPT ![Buyer[o]] = @ - Lots(debits) + Lots(credits)]
      /\ pointsReserved' = [pointsReserved EXCEPT ![Buyer[o]] = @ - Lots(fromReserved)]
      /\ entries' = [entries EXCEPT ![o] = @ \cup {t \in {"REDEEM"} : debits}
                                             \cup {t \in {"EARN"} : credits}]
      /\ redemption' = [redemption EXCEPT ![o] = status]
      /\ earns' = earns
  BY DEF SettleOrderLoyalty
<1>2. LoyaltyTypeOK'
  <2>1. entries[o] \cup {t \in {"REDEEM"} : debits} \cup {t \in {"EARN"} : credits}
          \in SUBSET EntryTypes
    BY DEF LoyaltyInv, LoyaltyTypeOK, EntryTypes
  <2>2. status \in RedemptionStates
    BY DEF LoyaltyInv, LoyaltyTypeOK, RedemptionStates
  <2> HIDE DEF debits, credits, fromReserved, status
  <2>3. /\ balance[Buyer[o]] - Lots(debits) + Lots(credits) \in Int
        /\ pointsReserved[Buyer[o]] - Lots(fromReserved) \in Int
    BY LotsType DEF LoyaltyInv, LoyaltyTypeOK
  <2>4. balance' \in [Users -> Int] /\ pointsReserved' \in [Users -> Int]
    BY <1>1, <2>3 DEF LoyaltyInv, LoyaltyTypeOK
  <2>5. entries' \in [Orders -> SUBSET EntryTypes]
    BY <1>1, <2>1 DEF LoyaltyInv, LoyaltyTypeOK
  <2>6. redemption' \in [Orders -> RedemptionStates]
    BY <1>1, <2>2 DEF LoyaltyInv, LoyaltyTypeOK
  <2> QED
    BY <1>1, <2>4, <2>5, <2>6 DEF LoyaltyInv, LoyaltyTypeOK
<1>3. RedemptionOK'
  BY <1>1 DEF LoyaltyInv, LoyaltyTypeOK, RedemptionOK
<1>4. PointsReservedMatchOrders'
  <2>1. status # "RESERVED" /\ (fromReserved <=> redemption[o] = "RESERVED")
    BY DEF LoyaltyInv, RedemptionOK
  <2>2. pointsReserved' = ReleasedPoints(o)
    BY <1>1, <2>1 DEF ReleasedPoints, Lots
  <2> HIDE DEF status
  <2> QED
    BY <1>1, <2>1, <2>2, ReleasedPointsMatch
<1>5. BalanceMatchesEntries'
  <2>1. /\ "REDEEM" \in new <=> debits
        /\ "EARN" \in new <=> credits
        /\ "REDEEM_REVERSAL" \notin new /\ "EARN_REVERSAL" \notin new
    OBVIOUS
  <2>2. new \cap entries[o] = {}
    OBVIOUS
  <2>3. entries' = [entries EXCEPT ![o] = @ \cup new]
    BY <1>1 DEF LoyaltyInv, LoyaltyTypeOK
  <2>4. balance' = [balance EXCEPT ![Buyer[o]] =
                      @ - Lots("REDEEM" \in new) + Lots("REDEEM_REVERSAL" \in new)
                        + Lots("EARN" \in new) - Lots("EARN_REVERSAL" \in new)]
    <3>1. balance[Buyer[o]] \in Int
      BY DEF LoyaltyInv, LoyaltyTypeOK
    <3>2. /\ Lots("REDEEM" \in new) = Lots(debits) /\ Lots("EARN" \in new) = Lots(credits)
          /\ Lots("REDEEM_REVERSAL" \in new) = 0 /\ Lots("EARN_REVERSAL" \in new) = 0
      BY <2>1 DEF Lots
    <3> HIDE DEF debits, credits, new
    <3>3. balance[Buyer[o]] - Lots(debits) + Lots(credits)
            = balance[Buyer[o]] - Lots("REDEEM" \in new) + Lots("REDEEM_REVERSAL" \in new)
                + Lots("EARN" \in new) - Lots("EARN_REVERSAL" \in new)
      BY <3>1, <3>2, LotsType
    <3> QED
      BY <1>1, <3>3
  <2> HIDE DEF new
  <2> QED
    BY <2>2, <2>3, <2>4, BalanceFollowsEntries
<1> QED
  BY <1>2, <1>3, <1>4, <1>5 DEF LoyaltyInv

-----------------------------------------------------------------------------
(* Points promised to open orders.                                          *)

\* An order's step moves the balance by b and the reserved points by r; its
\* customer has them, or loses no more than a new EARN_REVERSAL accounts for.
Affordable(o, b, r, new) ==
    /\ balance' = [balance EXCEPT ![Buyer[o]] = @ + b]
    /\ pointsReserved' = [pointsReserved EXCEPT ![Buyer[o]] = @ + r]
    /\ entries' = [entries EXCEPT ![o] = @ \cup new]
    /\ \/ b - r + Lots("EARN_REVERSAL" \in new \ entries[o]) >= 0
       \/ Available(Buyer[o]) + b - r >= 0

LEMMA CoveredAfter ==
    ASSUME LoyaltyTypeOK, ReservedPointsCovered, NEW o \in Orders, NEW b \in Int, NEW r \in Int,
           NEW new, Affordable(o, b, r, new)
    PROVE  ReservedPointsCovered'
<1> USE DEF Affordable
<1> SUFFICES ASSUME NEW u \in Users
             PROVE  balance'[u] - pointsReserved'[u] + Cardinality(With(u, "EARN_REVERSAL")') >= 0
  BY DEF ReservedPointsCovered, Available
<1> DEFINE n == Cardinality(With(u, "EARN_REVERSAL"))
<1>1. /\ n \in Nat
      /\ Cardinality(With(u, "EARN_REVERSAL")') =
           n + (IF Buyer[o] = u /\ "EARN_REVERSAL" \in new \ entries[o] THEN 1 ELSE 0)
  <2>1. /\ With(u, "EARN_REVERSAL") = WithIn(entries, u, "EARN_REVERSAL")
        /\ With(u, "EARN_REVERSAL")' = WithIn(entries', u, "EARN_REVERSAL")
    BY DEF With, WithIn
  <2>2. entries \in [Orders -> SUBSET EntryTypes]
    BY DEF LoyaltyTypeOK
  <2>3. entries' = Given(entries, o, new)
    BY DEF Given
  <2>4. Cardinality(WithIn(entries, u, "EARN_REVERSAL")) \in Nat
    BY <2>2, WithAfter
  <2>5. Cardinality(WithIn(Given(entries, o, new), u, "EARN_REVERSAL")) =
          Cardinality(WithIn(entries, u, "EARN_REVERSAL"))
          + Gain(entries, o, new, u, "EARN_REVERSAL")
    BY <2>2, WithAfter
  <2> QED
    BY <2>1, <2>3, <2>4, <2>5 DEF Gain
<1>2. /\ balance[u] \in Int /\ pointsReserved[u] \in Int
      /\ balance[u] - pointsReserved[u] + n >= 0
  BY DEF LoyaltyTypeOK, ReservedPointsCovered, Available
<1>3. /\ balance'[u] = IF Buyer[o] = u THEN balance[u] + b ELSE balance[u]
      /\ pointsReserved'[u] = IF Buyer[o] = u THEN pointsReserved[u] + r ELSE pointsReserved[u]
  BY DEF LoyaltyTypeOK
<1> HIDE DEF n
<1> QED
  BY <1>1, <1>2, <1>3 DEF Lots, Available

LEMMA ReserveCovers ==
    ASSUME LoyaltyTypeOK, ReservedPointsCovered, NEW o \in Orders,
           NEW redeems \in BOOLEAN, NEW earned \in BOOLEAN,
           ReserveLoyaltyPoints(o, redeems, earned)
    PROVE  ReservedPointsCovered'
<1>1. /\ balance' = [balance EXCEPT ![Buyer[o]] = @ + 0]
      /\ entries' = [entries EXCEPT ![o] = @ \cup {}]
      /\ pointsReserved' = [pointsReserved EXCEPT ![Buyer[o]] = @ + Lots(redeems)]
  BY BuyerAssumption DEF ReserveLoyaltyPoints, LoyaltyTypeOK
<1>2. Lots(redeems) \in Int
  BY LotsType
<1>3. Available(Buyer[o]) \in Int
  BY BuyerAssumption DEF Available, LoyaltyTypeOK
<1>4. \/ 0 - Lots(redeems) + Lots("EARN_REVERSAL" \in {} \ entries[o]) >= 0
      \/ Available(Buyer[o]) + 0 - Lots(redeems) >= 0
  BY <1>3 DEF ReserveLoyaltyPoints, Lots
<1>5. Affordable(o, 0, Lots(redeems), {})
  BY <1>1, <1>4 DEF Affordable
<1> QED
  BY <1>2, <1>5, CoveredAfter

LEMMA ReleaseCovers ==
    ASSUME LoyaltyTypeOK, ReservedPointsCovered, NEW o \in Orders,
           ReleaseOrderLoyaltyReservation(o)
    PROVE  ReservedPointsCovered'
<1> DEFINE r == 0 - Lots(redemption[o] = "RESERVED")
<1>1. balance' = [balance EXCEPT ![Buyer[o]] = @ + 0]
  BY BuyerAssumption DEF ReleaseOrderLoyaltyReservation, LoyaltyTypeOK
<1>2. entries' = [entries EXCEPT ![o] = @ \cup {}]
  BY DEF ReleaseOrderLoyaltyReservation, LoyaltyTypeOK
<1>3. pointsReserved' = [pointsReserved EXCEPT ![Buyer[o]] = @ + r]
  <2>1. pointsReserved[Buyer[o]] - Lots(redemption[o] = "RESERVED") = pointsReserved[Buyer[o]] + r
    BY BuyerAssumption, LotsType DEF LoyaltyTypeOK
  <2> QED
    BY <2>1 DEF ReleaseOrderLoyaltyReservation, ReleasedPoints
<1>4. r \in Int /\ 0 - r + Lots("EARN_REVERSAL" \in {} \ entries[o]) >= 0
  BY DEF Lots
<1> HIDE DEF r
<1>5. Affordable(o, 0, r, {})
  BY <1>1, <1>2, <1>3, <1>4 DEF Affordable
<1> QED
  BY <1>4, <1>5, CoveredAfter

\* A reversal takes earned points back only with its entry.
LEMMA ReversalCovers ==
    ASSUME LoyaltyTypeOK, ReservedPointsCovered, NEW o \in Orders, NEW r \in Int, r <= 0,
           balance' = ReversedBalance(o), entries' = ReversedEntries(o),
           pointsReserved' = [pointsReserved EXCEPT ![Buyer[o]] = @ + r]
    PROVE  ReservedPointsCovered'
<1> DEFINE b == Lots(RedeemReversible(o)) - Lots(EarnReversible(o))
           new == {t \in {"EARN_REVERSAL"} : EarnReversible(o)}
                  \cup {t \in {"REDEEM_REVERSAL"} : RedeemReversible(o)}
<1>1. balance' = [balance EXCEPT ![Buyer[o]] = @ + b]
  <2>1. balance[Buyer[o]] - Lots(EarnReversible(o)) + Lots(RedeemReversible(o))
          = balance[Buyer[o]] + b
    BY BuyerAssumption, LotsType DEF LoyaltyTypeOK
  <2> QED
    BY <2>1 DEF ReversedBalance
<1>2. entries' = [entries EXCEPT ![o] = @ \cup new]
  BY DEF ReversedEntries, LoyaltyTypeOK
<1>3. b \in Int /\ b - r + Lots("EARN_REVERSAL" \in new \ entries[o]) >= 0
  <2>1. EarnReversible(o) => "EARN_REVERSAL" \in new \ entries[o]
    BY DEF EarnReversible
  <2> HIDE DEF new
  <2> QED
    BY <2>1 DEF Lots
<1> HIDE DEF b, new
<1>4. Affordable(o, b, r, new)
  BY <1>1, <1>2, <1>3 DEF Affordable
<1> QED
  BY <1>3, <1>4, CoveredAfter

LEMMA ReverseCovers ==
    ASSUME LoyaltyTypeOK, ReservedPointsCovered, NEW o \in Orders, ReverseOrderLoyalty(o)
    PROVE  ReservedPointsCovered'
<1>1. pointsReserved' = [pointsReserved EXCEPT ![Buyer[o]] = @ + 0]
  BY BuyerAssumption DEF ReverseOrderLoyalty, LoyaltyTypeOK
<1>2. balance' = ReversedBalance(o) /\ entries' = ReversedEntries(o)
  BY DEF ReverseOrderLoyalty
<1> DEFINE r == 0
<1>3. r \in Int /\ r <= 0 /\ pointsReserved' = [pointsReserved EXCEPT ![Buyer[o]] = @ + r]
  BY <1>1
<1> HIDE DEF r
<1> QED
  BY <1>2, <1>3, ReversalCovers

LEMMA ReleaseAndReverseCovers ==
    ASSUME LoyaltyTypeOK, ReservedPointsCovered, NEW o \in Orders, ReleaseAndReverseLoyalty(o)
    PROVE  ReservedPointsCovered'
<1> DEFINE r == 0 - Lots(redemption[o] = "RESERVED")
<1>1. pointsReserved' = [pointsReserved EXCEPT ![Buyer[o]] = @ + r]
  <2>1. pointsReserved[Buyer[o]] - Lots(redemption[o] = "RESERVED") = pointsReserved[Buyer[o]] + r
    BY BuyerAssumption, LotsType DEF LoyaltyTypeOK
  <2> QED
    BY <2>1 DEF ReleaseAndReverseLoyalty, ReleasedPoints
<1>2. r \in Int /\ r <= 0
  BY DEF Lots
<1> HIDE DEF r
<1> QED
  BY <1>1, <1>2, ReversalCovers DEF ReleaseAndReverseLoyalty

\* A redemption released before is debited only when it is still available.
LEMMA SettleCovers ==
    ASSUME LoyaltyTypeOK, ReservedPointsCovered, NEW o \in Orders, SettleOrderLoyalty(o)
    PROVE  ReservedPointsCovered'
<1> DEFINE redeems == redemption[o] \in {"RESERVED", "RELEASED"}
           debits == redeems /\ "REDEEM" \notin entries[o]
           fromReserved == debits /\ redemption[o] = "RESERVED"
           credits == earns[o] /\ "EARN" \notin entries[o]
           new == {t \in {"REDEEM"} : debits} \cup {t \in {"EARN"} : credits}
           b == Lots(credits) - Lots(debits)
           r == 0 - Lots(fromReserved)
<1>1. /\ debits /\ ~fromReserved => Available(Buyer[o]) >= 1
      /\ balance' = [balance EXCEPT ![Buyer[o]] = @ - Lots(debits) + Lots(credits)]
      /\ pointsReserved' = [pointsReserved EXCEPT ![Buyer[o]] = @ - Lots(fromReserved)]
      /\ entries' = [entries EXCEPT ![o] = @ \cup {t \in {"REDEEM"} : debits}
                                             \cup {t \in {"EARN"} : credits}]
  BY DEF SettleOrderLoyalty
<1>2. entries' = [entries EXCEPT ![o] = @ \cup new]
  BY <1>1 DEF LoyaltyTypeOK
<1>3. fromReserved => debits
  OBVIOUS
<1>4. Available(Buyer[o]) \in Int
  BY BuyerAssumption DEF Available, LoyaltyTypeOK
<1> HIDE DEF debits, fromReserved, credits, new
<1>5. balance' = [balance EXCEPT ![Buyer[o]] = @ + b]
  <2>1. balance[Buyer[o]] - Lots(debits) + Lots(credits) = balance[Buyer[o]] + b
    BY BuyerAssumption, LotsType DEF LoyaltyTypeOK
  <2> QED
    BY <1>1, <2>1
<1>6. pointsReserved' = [pointsReserved EXCEPT ![Buyer[o]] = @ + r]
  <2>1. pointsReserved[Buyer[o]] - Lots(fromReserved) = pointsReserved[Buyer[o]] + r
    BY BuyerAssumption, LotsType DEF LoyaltyTypeOK
  <2> QED
    BY <1>1, <2>1
<1>7. /\ b \in Int /\ r \in Int
      /\ \/ b - r + Lots("EARN_REVERSAL" \in new \ entries[o]) >= 0
         \/ Available(Buyer[o]) + b - r >= 0
  BY <1>1, <1>3, <1>4 DEF Lots
<1> HIDE DEF b, r
<1>8. Affordable(o, b, r, new)
  BY <1>2, <1>5, <1>6, <1>7 DEF Affordable
<1> QED
  BY <1>7, <1>8, CoveredAfter

-----------------------------------------------------------------------------
(* The protocol.                                                            *)

LEMMA LoyaltyInvInit == LoyaltyInit => LoyaltyInv
<1> SUFFICES ASSUME LoyaltyInit PROVE LoyaltyInv
  OBVIOUS
<1>1. LoyaltyTypeOK
  BY PointsAssumption DEF LoyaltyInit, LoyaltyTypeOK, RedemptionStates, EntryTypes
<1>2. RedemptionOK
  BY DEF LoyaltyInit, RedemptionOK
<1>3. PointsReservedMatchOrders
  <2>1. \A u \in Users : Holding(u) = {}
    BY DEF LoyaltyInit, Holding
  <2> QED
    BY <2>1, FS_EmptySet DEF LoyaltyInit, PointsReservedMatchOrders
<1>4. BalanceMatchesEntries
  <2>1. \A u \in Users : \A type : With(u, type) = {}
    BY DEF LoyaltyInit, With
  <2> QED
    <3> SUFFICES ASSUME NEW u \in Users
                 PROVE  balance[u] = InitialPoints[u]
                                     - Cardinality(With(u, "REDEEM"))
                                     + Cardinality(With(u, "REDEEM_REVERSAL"))
                                     + Cardinality(With(u, "EARN"))
                                     - Cardinality(With(u, "EARN_REVERSAL"))
      BY DEF BalanceMatchesEntries
    <3>1. /\ With(u, "REDEEM") = {} /\ With(u, "REDEEM_REVERSAL") = {}
          /\ With(u, "EARN") = {} /\ With(u, "EARN_REVERSAL") = {}
      BY <2>1
    <3>2. Cardinality({}) = 0 /\ balance[u] = InitialPoints[u] /\ InitialPoints[u] \in Nat
      BY FS_EmptySet, PointsAssumption DEF LoyaltyInit
    <3> QED
      BY <3>1, <3>2
<1> QED
  BY <1>1, <1>2, <1>3, <1>4 DEF LoyaltyInv

LEMMA LoyaltyInvNext == LoyaltyInv /\ [LoyaltyNext]_loyaltyVars => LoyaltyInv'
<1> SUFFICES ASSUME LoyaltyInv, [LoyaltyNext]_loyaltyVars PROVE LoyaltyInv'
  OBVIOUS
<1>1. CASE UNCHANGED loyaltyVars
  BY <1>1 DEF loyaltyVars, LoyaltyInv, LoyaltyTypeOK, RedemptionOK,
              PointsReservedMatchOrders, Holding, BalanceMatchesEntries, With
<1>2. CASE LoyaltyNext
  BY <1>2, ReserveLoyaltyPointsKeeps, ReleaseLoyaltyKeeps, SettleLoyaltyKeeps,
     ReverseLoyaltyKeeps, ReleaseAndReverseKeeps DEF LoyaltyNext
<1> QED
  BY <1>1, <1>2

\* Whatever is retried and in whatever order: reserved points are those of
\* the orders still reserving, and the balance is the ledger's.
THEOREM LoyaltyInvariance == LoyaltySpec => []LoyaltyInv
<1> QED
  BY LoyaltyInvInit, LoyaltyInvNext, PTL DEF LoyaltySpec
LEMMA CoveredInit == LoyaltyInit => ReservedPointsCovered
<1> SUFFICES ASSUME LoyaltyInit, NEW u \in Users
             PROVE  Available(u) + Cardinality(With(u, "EARN_REVERSAL")) >= 0
  BY DEF ReservedPointsCovered
<1>1. With(u, "EARN_REVERSAL") = {}
  BY DEF LoyaltyInit, With
<1>2. Cardinality(With(u, "EARN_REVERSAL")) = 0
  BY <1>1, FS_EmptySet
<1>3. Available(u) = InitialPoints[u] - 0 /\ InitialPoints[u] \in Nat
  BY PointsAssumption DEF LoyaltyInit, Available
<1> QED
  BY <1>2, <1>3

LEMMA CoveredNext ==
    LoyaltyTypeOK /\ ReservedPointsCovered /\ [LoyaltyNext]_loyaltyVars => ReservedPointsCovered'
<1> SUFFICES ASSUME LoyaltyTypeOK, ReservedPointsCovered, [LoyaltyNext]_loyaltyVars
             PROVE  ReservedPointsCovered'
  OBVIOUS
<1>1. CASE UNCHANGED loyaltyVars
  BY <1>1 DEF loyaltyVars, ReservedPointsCovered, Available, With
<1>2. CASE LoyaltyNext
  BY <1>2, ReserveCovers, ReleaseCovers, SettleCovers, ReverseCovers, ReleaseAndReverseCovers
     DEF LoyaltyNext
<1> QED
  BY <1>1, <1>2

\* A late settlement never takes points that the customer promised to other
\* orders since: what is reserved stays covered, refunds of spent points apart.
THEOREM PointsCovered == LoyaltySpec => []ReservedPointsCovered
<1>1. LoyaltyInv => LoyaltyTypeOK
  BY DEF LoyaltyInv
<1> QED
  BY <1>1, LoyaltyInvariance, CoveredInit, CoveredNext, PTL DEF LoyaltySpec

-----------------------------------------------------------------------------
(* The earnings of one sale.                                                *)

\* A ledger whose fields are replaced by values of their types is a ledger.
LEMMA LedgerWith ==
    ASSUME NEW l \in Ledgers, NEW p \in Int, NEW a \in Int, NEW b \in BOOLEAN
    PROVE  /\ [l EXCEPT !.pending = p, !.sale = b] \in Ledgers
           /\ [l EXCEPT !.pending = p, !.available = a] \in Ledgers
BY DEF Ledgers

LEMMA LedgerWithKeys ==
    ASSUME NEW l \in Ledgers, NEW p \in Int, NEW a \in Int,
           NEW keys \in SUBSET {"PENDING", "AVAILABLE", "DEBT"}
    PROVE  [l EXCEPT !.pending = p, !.available = a, !.parentKeys = keys] \in Ledgers
BY DEF Ledgers

LEMMA CoveredType ==
    ASSUME NEW bucket \in Int, NEW amount \in Int
    PROVE  Covered(bucket, amount) \in Int
BY DEF Covered, Least

LEMMA NetType == Net \in Int
BY EarningsAssumption DEF Net

LEMMA SellerDebitType == ASSUME NEW amount \in Nat PROVE SellerDebit(amount) \in Int
<1>1. Subtotal \in Nat \ {0} /\ Commission \in Nat
  BY EarningsAssumption DEF Subtotal
<1>2. Least(amount, Subtotal) \in Nat
  BY <1>1 DEF Least
<1>3. ASSUME NEW products \in Nat PROVE CommissionReversed(products) \in Int
  <2>1. products * Commission \in Nat
    BY <1>1
  <2> QED
    BY <1>1, <2>1 DEF CommissionReversed
<1> QED
  BY <1>2, <1>3 DEF SellerDebit

\* Every ledger operation leads from a ledger to a ledger.
LEMMA LedgerType ==
    ASSUME NEW l \in Ledgers
    PROVE  /\ Credited(l) \in Ledgers
           /\ EarningsReleased(l) \in Ledgers
           /\ \A amount \in Int : Debited(l, amount) \in Ledgers
           /\ DebitedByParent(l) \in Ledgers
<1>1. l.pending \in Int /\ l.available \in Int /\ Net \in Int
  BY NetType DEF Ledgers
<1>2. Credited(l) \in Ledgers
  <2>1. l.pending + Net \in Int
    BY <1>1
  <2> QED
    BY <2>1, LedgerWith DEF Credited
<1>3. EarningsReleased(l) \in Ledgers
  <2>1. Covered(l.pending, l.pending) \in Int
    BY <1>1, CoveredType
  <2>2. /\ l.pending - Covered(l.pending, l.pending) \in Int
        /\ l.available + Covered(l.pending, l.pending) \in Int
    BY <1>1, <2>1
  <2> QED
    BY <2>2, LedgerWith DEF EarningsReleased
<1>4. ASSUME NEW amount \in Int PROVE Debited(l, amount) \in Ledgers
  <2>1. Covered(l.pending, amount) \in Int
    BY <1>1, CoveredType
  <2>2. /\ l.pending - Covered(l.pending, amount) \in Int
        /\ l.available - (amount - Covered(l.pending, amount)) \in Int
    BY <1>1, <2>1
  <2> QED
    BY <2>2, LedgerWith DEF Debited
<1>5. DebitedByParent(l) \in Ledgers
  <2> DEFINE fromPending == Covered(l.pending, Net)
             fromAvailable == Covered(l.available, Net - fromPending)
             debt == Net - fromPending - fromAvailable
             Written(key, amount) == IF key \in l.parentKeys THEN 0 ELSE amount
             keys == l.parentKeys \cup {k \in {"PENDING"} : fromPending > 0}
                         \cup {k \in {"AVAILABLE"} : fromAvailable > 0}
                         \cup {k \in {"DEBT"} : debt > 0}
  <2>1. fromPending \in Int
    BY <1>1, CoveredType
  <2>2. fromAvailable \in Int
    <3>1. Net - fromPending \in Int
      BY <1>1, <2>1
    <3> QED
      BY <1>1, <3>1, CoveredType
  <2>3. debt \in Int
    BY <1>1, <2>1, <2>2
  <2>4. keys \in SUBSET {"PENDING", "AVAILABLE", "DEBT"}
    BY DEF Ledgers
  <2> DEFINE newPending == l.pending - Written("PENDING", fromPending)
             newAvailable == l.available - Written("AVAILABLE", fromAvailable)
                                         - Written("DEBT", debt)
  <2>5. newPending \in Int /\ newAvailable \in Int
    <3> HIDE DEF fromPending, fromAvailable, debt
    <3> QED
      BY <1>1, <2>1, <2>2, <2>3
  <2>6. DebitedByParent(l) =
          [l EXCEPT !.pending = newPending, !.available = newAvailable, !.parentKeys = keys]
    BY DEF DebitedByParent
  <2> HIDE DEF fromPending, fromAvailable, debt, keys, Written, newPending, newAvailable
  <2>7. [l EXCEPT !.pending = newPending, !.available = newAvailable, !.parentKeys = keys]
          \in Ledgers
    BY <2>4, <2>5, LedgerWithKeys
  <2> QED
    BY <2>6, <2>7, Zenon
<1> QED
  BY <1>2, <1>3, <1>4, <1>5

-----------------------------------------------------------------------------
(* What a sale may be owed.                                                 *)

\* The seller is owed no more than the net of an accredited sale, and what is
\* pending is never negative.
SaleBounded(l) ==
    /\ l.pending >= 0
    /\ l.pending + l.available <= IF l.sale THEN Net ELSE 0

LEMMA NetNatural == Net \in Nat
BY EarningsAssumption DEF Net

LEMMA CoveredBounds ==
    ASSUME NEW bucket \in Int, NEW amount \in Nat
    PROVE  /\ Covered(bucket, amount) \in 0 .. amount
           /\ bucket >= 0 => bucket - Covered(bucket, amount) >= 0
           /\ Covered(bucket, bucket) \in Int
           /\ bucket >= 0 => Covered(bucket, bucket) = bucket
BY DEF Covered, Least

\* The store returns no more commission than the products it refunds, so a
\* refund never credits the seller.
LEMMA CommissionReversedBound ==
    ASSUME NEW products \in Nat
    PROVE  CommissionReversed(products) \in 0 .. products
<1>1. Subtotal \in Nat \ {0} /\ Commission \in Nat /\ Commission <= Subtotal
  BY EarningsAssumption DEF Subtotal
<1>2. ASSUME NEW n \in Nat \ {0}, NEW c \in Nat, c <= n
      PROVE  (products * c) \div n \in 0 .. products
  <2>1. products * c \in Nat /\ products * n \in Nat /\ products * c <= products * n
    BY <1>2
  <2>2. (products * n) \div n = products
    BY <1>2
  <2> QED
    BY <1>2, <2>1, <2>2
<1> QED
  BY <1>1, <1>2 DEF CommissionReversed

LEMMA SellerDebitNatural == ASSUME NEW amount \in Nat PROVE SellerDebit(amount) \in Nat
<1>1. Least(amount, Subtotal) \in Nat /\ Least(amount, Subtotal) <= amount
  BY EarningsAssumption DEF Subtotal, Least
<1> QED
  BY <1>1, CommissionReversedBound DEF SellerDebit

\* No ledger operation owes the seller more than the sale allows; only the
\* credit of the sale raises what is owed, and it is written once.
LEMMA SaleBoundedKept ==
    ASSUME NEW l \in Ledgers, SaleBounded(l)
    PROVE  /\ SaleBounded(Credited(l)) /\ Credited(l).sale
           /\ SaleBounded(EarningsReleased(l)) /\ EarningsReleased(l).sale = l.sale
           /\ \A amount \in Nat : /\ SaleBounded(Debited(l, amount))
                                  /\ Debited(l, amount).sale = l.sale
           /\ SaleBounded(DebitedByParent(l)) /\ DebitedByParent(l).sale = l.sale
<1> USE DEF SaleBounded
<1>1. l.pending \in Int /\ l.available \in Int /\ l.sale \in BOOLEAN /\ Net \in Nat
  BY NetNatural DEF Ledgers
<1>2. SaleBounded(Credited(l)) /\ Credited(l).sale
  <2>1. CASE l.sale
    BY <2>1 DEF Credited
  <2>2. CASE ~l.sale
    <3>1. /\ Credited(l).pending = l.pending + Net
          /\ Credited(l).available = l.available
          /\ Credited(l).sale = TRUE
      BY <2>2 DEF Credited, Ledgers
    <3> QED
      BY <1>1, <2>2, <3>1
  <2> QED
    BY <2>1, <2>2
<1>3. SaleBounded(EarningsReleased(l)) /\ EarningsReleased(l).sale = l.sale
  <2>1. /\ EarningsReleased(l).pending = l.pending - Covered(l.pending, l.pending)
        /\ EarningsReleased(l).available = l.available + Covered(l.pending, l.pending)
        /\ EarningsReleased(l).sale = l.sale
    BY DEF EarningsReleased, Ledgers
  <2>2. Covered(l.pending, l.pending) = l.pending
    BY <1>1 DEF Covered, Least
  <2> QED
    BY <1>1, <2>1, <2>2
<1>4. ASSUME NEW amount \in Nat
      PROVE  SaleBounded(Debited(l, amount)) /\ Debited(l, amount).sale = l.sale
  <2>1. /\ Debited(l, amount).pending = l.pending - Covered(l.pending, amount)
        /\ Debited(l, amount).available = l.available - (amount - Covered(l.pending, amount))
        /\ Debited(l, amount).sale = l.sale
    BY DEF Debited, Ledgers
  <2>2. Covered(l.pending, amount) \in 0 .. amount /\ l.pending - Covered(l.pending, amount) >= 0
    BY <1>1, CoveredBounds
  <2> HIDE DEF SaleBounded
  <2>3. SaleBounded(Debited(l, amount))
    <3>1. l.pending + l.available <= IF l.sale THEN Net ELSE 0
      BY DEF SaleBounded
    <3> QED
      BY <1>1, <2>1, <2>2, <3>1 DEF SaleBounded
  <2> QED
    BY <2>1, <2>3
<1>5. SaleBounded(DebitedByParent(l)) /\ DebitedByParent(l).sale = l.sale
  <2> DEFINE fromPending == Covered(l.pending, Net)
             fromAvailable == Covered(l.available, Net - fromPending)
             debt == Net - fromPending - fromAvailable
             Written(key, amount) == IF key \in l.parentKeys THEN 0 ELSE amount
  <2>1. fromPending \in 0 .. Net /\ l.pending - fromPending >= 0
    BY <1>1, CoveredBounds
  <2>2. fromAvailable \in 0 .. (Net - fromPending)
    <3>1. Net - fromPending \in Nat
      BY <1>1, <2>1
    <3> QED
      BY <1>1, <3>1, CoveredBounds
  <2>3. debt \in Nat
    BY <1>1, <2>1, <2>2
  <2>4. /\ DebitedByParent(l).pending = l.pending - Written("PENDING", fromPending)
        /\ DebitedByParent(l).available = l.available - Written("AVAILABLE", fromAvailable)
                                                      - Written("DEBT", debt)
        /\ DebitedByParent(l).sale = l.sale
    BY DEF DebitedByParent, Ledgers
  <2> HIDE DEF fromPending, fromAvailable, debt
  <2> QED
    BY <1>1, <2>1, <2>2, <2>3, <2>4
<1> QED
  BY <1>2, <1>3, <1>4, <1>5

-----------------------------------------------------------------------------
(***************************************************************************)
(* 2. HANDLERS AS STEPS OF THE PROTOCOLS                                   *)
(***************************************************************************)

(* The answers in flight are about orders of the shop.                      *)

AnswersOK == inFlight \subseteq Answers

\* Asking Mercado Pago records an answer about an order of the shop; applying
\* or losing one only removes it; nothing else touches the answers.
LEMMA AnswersNext == AnswersOK /\ [Next]_vars => AnswersOK'
<1> SUFFICES ASSUME AnswersOK, [Next]_vars PROVE AnswersOK'
  OBVIOUS
<1> USE DEF AnswersOK
<1>1. ASSUME NEW o \in Orders, CheckoutStep(o) PROVE AnswersOK'
  BY <1>1 DEF CheckoutStep, PlaceOrder, RequestCheckoutSession, CheckoutSessionAnswered,
              SetProvider, PaymentWindowCloses
<1>2. ASSUME NEW o \in Orders, UnpaidStep(o) PROVE AnswersOK'
  BY <1>2 DEF UnpaidStep, CancelByCustomer, CancelByAdmin, ExpireReservations, paymentVars
<1>3. ASSUME NEW o \in Orders, TransferStep(o) PROVE AnswersOK'
  BY <1>3 DEF TransferStep, SubmitReceipt, ApproveTransfer, RejectTransfer
<1>4. ASSUME NEW o \in Orders, SettlementStep(o) PROVE AnswersOK'
  BY <1>4 DEF SettlementStep, FulfillLatePayment, RecordFullRefund, paymentVars
<1>5. ASSUME UNCHANGED paymentVars PROVE AnswersOK'
  BY <1>5 DEF paymentVars
<1>6. ASSUME MercadoPagoStep PROVE AnswersOK'
  <2>1. ASSUME NEW o \in Orders, ProviderMoves(o) PROVE AnswersOK'
    BY <2>1 DEF ProviderMoves, SetProvider
  <2>2. ASSUME NEW f \in Fetchers, NEW o \in Orders, FetchOrder(f, o) \/ FetchPayment(f, o)
        PROVE  AnswersOK'
    BY <2>2 DEF FetchOrder, FetchPayment, Received, Answers, ProviderStates
  <2>3. ASSUME NEW a \in inFlight, ApplyMercadoProviderState(a) \/ LoseAnswer(a)
        PROVE  AnswersOK'
    BY <2>3 DEF ApplyMercadoProviderState, ApplyReview, ApplyLateApproval, ApplyApproval,
                ApplyFailure, ApplyRefund, ApplyStatusOnly, Applied, LoseAnswer
  <2> QED
    BY <1>6, <2>1, <2>2, <2>3 DEF MercadoPagoStep
<1>7. CASE UNCHANGED vars
  BY <1>7, <1>5 DEF vars
<1> QED
  BY <1>1, <1>2, <1>3, <1>4, <1>5, <1>6, <1>7 DEF Next, InventoryStep

LEMMA AnswersInvariance == Spec => []AnswersOK
<1>1. Init => AnswersOK
  BY DEF Init, AnswersOK
<1> QED
  BY <1>1, AnswersNext, PTL DEF Spec

-----------------------------------------------------------------------------
(* Each handler is a step of the reservation protocol or leaves stock be.   *)

StockStep == StockNext \/ UNCHANGED stockVars

LEMMA CheckoutStepOnStock ==
    ASSUME NEW o \in Orders, CheckoutStep(o) PROVE StockStep
<1>1. ASSUME NEW lines \in SUBSET Products, NEW m, NEW redeems, NEW earned,
             PlaceOrder(o, lines, m, redeems, earned)
      PROVE  StockStep
  BY <1>1 DEF PlaceOrder, StockStep, StockNext
<1>2. CASE RequestCheckoutSession(o) \/ CheckoutSessionAnswered(o) \/ PaymentWindowCloses(o)
  BY <1>2 DEF RequestCheckoutSession, CheckoutSessionAnswered, SetProvider,
              PaymentWindowCloses, StockStep
<1> QED
  BY <1>1, <1>2 DEF CheckoutStep

LEMMA UnpaidStepOnStock ==
    ASSUME NEW o \in Orders, UnpaidStep(o) PROVE StockStep
<1>1. ReleaseReservations(o)
  BY DEF UnpaidStep, CancelByCustomer, CancelByAdmin, ExpireReservations,
         ReleaseReservationsChecked
<1> QED
  BY <1>1 DEF StockStep, StockNext

LEMMA TransferStepOnStock ==
    ASSUME NEW o \in Orders, TransferStep(o) PROVE StockStep
<1>1. PICK r \in Receipts : SubmitReceipt(o, r) \/ ApproveTransfer(o, r) \/ RejectTransfer(o, r)
  BY DEF TransferStep
<1>2. CASE SubmitReceipt(o, r)
  BY <1>2 DEF SubmitReceipt, StockStep
<1>3. CASE ApproveTransfer(o, r)
  BY <1>3 DEF ApproveTransfer, ConsumeReservations, StockStep, StockNext
<1>4. CASE RejectTransfer(o, r)
  BY <1>4 DEF RejectTransfer, ReleaseReservationsChecked, StockStep, StockNext
<1> QED
  BY <1>1, <1>2, <1>3, <1>4

LEMMA SettlementStepOnStock ==
    ASSUME NEW o \in Orders, SettlementStep(o) PROVE StockStep
BY DEF SettlementStep, FulfillLatePayment, RecordFullRefund, StockStep, StockNext

\* What an administrator may do to a seller order; whatever lines a refund puts
\* back, they are of products.
AdminDoes(o, s) ==
    \/ \E next \in ChildStates : TransitionSellerOrder(o, s, "ADMIN", next)
    \/ ContinueAfterIssue(o, s) \/ CompleteAfterIssue(o, s)
    \/ RejectCancellation(o, s) \/ ApproveCancellationWithoutRefund(o, s)
    \/ \E amount \in 1 .. Gross : \E lines \in SUBSET Products :
        \/ RefundSellerOrder(o, s, amount, lines)
        \/ PartialRefundAfterIssue(o, s, amount, lines)
        \/ FullRefundAfterIssue(o, s, amount, lines)
        \/ ApproveCancellationWithRefund(o, s, amount, lines)

LEMMA AdminStepDoes ==
    ASSUME NEW o \in Orders, NEW s \in Sellers, AdminStep(o, s)
    PROVE  AdminDoes(o, s)
<1>1. SaleLines(o, s) \in SUBSET Products /\ OrderedProducts \in SUBSET Products
  BY DEF SaleLines, OrderedProducts, Lines, LinesIn
<1>2. ASSUME NEW restock, NEW lines \in SUBSET Products
      PROVE  PutBack(restock, lines) \in SUBSET Products
  BY DEF PutBack
<1>3. ASSUME NEW amount \in 1 .. Gross, NEW restock \in Restocking,
             NEW named \in (SUBSET OrderedProducts) \ {{}},
             RefundSellerOrder(o, s, amount, PutBack(restock, named))
      PROVE  AdminDoes(o, s)
  <2>1. PutBack(restock, named) \in SUBSET Products
    BY <1>1, <1>2
  <2> QED
    BY <1>3, <2>1 DEF AdminDoes
<1>4. ASSUME NEW amount \in 1 .. Gross, NEW lines \in SUBSET Products,
             \/ PartialRefundAfterIssue(o, s, amount, lines)
             \/ FullRefundAfterIssue(o, s, amount, lines)
             \/ ApproveCancellationWithRefund(o, s, amount, lines)
      PROVE  AdminDoes(o, s)
  BY <1>4 DEF AdminDoes
<1>5. CASE \/ \E next \in ChildStates : TransitionSellerOrder(o, s, "ADMIN", next)
           \/ ContinueAfterIssue(o, s) \/ CompleteAfterIssue(o, s)
           \/ RejectCancellation(o, s) \/ ApproveCancellationWithoutRefund(o, s)
  BY <1>5 DEF AdminDoes
<1> QED
  BY <1>1, <1>2, <1>3, <1>4, <1>5 DEF AdminStep

\* The handlers on a seller order move stock only when a refund restocks.
LEMMA SellerStepOnStock ==
    ASSUME NEW o \in Orders, NEW s \in Sellers, SellerStep(o, s) PROVE StockStep
<1>1. ASSUME NEW actor, NEW next, TransitionSellerOrder(o, s, actor, next) PROVE StockStep
  BY <1>1 DEF TransitionSellerOrder, StockStep
<1>2. CASE CreateBuyerIssue(o, s) \/ RequestSellerCancellation(o, s)
  BY <1>2 DEF CreateBuyerIssue, RequestSellerCancellation, StockStep
<1>3. CASE ContinueAfterIssue(o, s) \/ CompleteAfterIssue(o, s)
  BY <1>3 DEF ContinueAfterIssue, CompleteAfterIssue, StockStep
<1>4. CASE RejectCancellation(o, s) \/ ApproveCancellationWithoutRefund(o, s)
  BY <1>4 DEF RejectCancellation, ApproveCancellationWithoutRefund, StockStep
<1>5. ASSUME NEW amount, NEW lines \in SUBSET Products,
             RecordAffiliateRefund(o, s, amount, lines)
      PROVE  StockStep
  BY <1>5 DEF RecordAffiliateRefund, StockStep, StockNext
<1>6. ASSUME NEW amount, NEW lines \in SUBSET Products,
             \/ RefundSellerOrder(o, s, amount, lines)
             \/ PartialRefundAfterIssue(o, s, amount, lines)
             \/ FullRefundAfterIssue(o, s, amount, lines)
             \/ ApproveCancellationWithRefund(o, s, amount, lines)
      PROVE  StockStep
  BY <1>5, <1>6 DEF RefundSellerOrder, PartialRefundAfterIssue, FullRefundAfterIssue,
                    ApproveCancellationWithRefund
<1> QED
  BY <1>1, <1>2, <1>3, <1>4, <1>6, AdminStepDoes
  DEF SellerStep, BuyerStep, AffiliateStep, AdminDoes, SystemStep

LEMMA MercadoPagoStepOnStock ==
    ASSUME AnswersOK, MercadoPagoStep PROVE StockStep
<1>1. ASSUME NEW o \in Orders, ProviderMoves(o) PROVE StockStep
  BY <1>1 DEF ProviderMoves, SetProvider, StockStep
<1>2. ASSUME NEW f, NEW o, FetchOrder(f, o) \/ FetchPayment(f, o) PROVE StockStep
  BY <1>2 DEF FetchOrder, FetchPayment, Received, StockStep
<1>3. ASSUME NEW a \in inFlight, ApplyMercadoProviderState(a) PROVE StockStep
  <2>1. a.order \in Orders
    BY DEF AnswersOK, Answers
  <2>2. CASE ApplyReview(a) \/ ApplyLateApproval(a)
    BY <2>2 DEF ApplyReview, ApplyLateApproval, MoveToPaymentReview, StockStep
  <2>3. CASE ApplyApproval(a)
    BY <2>1, <2>3 DEF ApplyApproval, StockStep, StockNext
  <2>4. CASE ApplyFailure(a)
    BY <2>1, <2>4 DEF ApplyFailure, StockStep, StockNext
  <2>5. CASE ApplyRefund(a)
    BY <2>1, <2>5 DEF ApplyRefund, StockStep, StockNext
  <2>6. CASE ApplyStatusOnly(a)
    BY <2>6 DEF ApplyStatusOnly, StockStep
  <2> QED
    BY <1>3, <2>2, <2>3, <2>4, <2>5, <2>6 DEF ApplyMercadoProviderState
<1>4. ASSUME NEW a, LoseAnswer(a) PROVE StockStep
  BY <1>4 DEF LoseAnswer, StockStep
<1> QED
  BY <1>1, <1>2, <1>3, <1>4 DEF MercadoPagoStep

\* Every step of the shop is a step of the reservation protocol.
LEMMA NextOnStock ==
    ASSUME AnswersOK, [Next]_vars PROVE [StockNext]_stockVars
<1>1. CASE UNCHANGED vars
  BY <1>1 DEF vars
<1>2. CASE InventoryStep
  BY <1>2 DEF InventoryStep, StockNext
<1>3. CASE MercadoPagoStep
  BY <1>3, MercadoPagoStepOnStock DEF StockStep
<1>4. ASSUME NEW o \in Orders,
             CheckoutStep(o) \/ UnpaidStep(o) \/ TransferStep(o) \/ SettlementStep(o)
      PROVE  [StockNext]_stockVars
  BY <1>4, CheckoutStepOnStock, UnpaidStepOnStock, TransferStepOnStock, SettlementStepOnStock
  DEF StockStep
<1>5. ASSUME NEW o \in Orders, NEW s \in Sellers, SellerStep(o, s)
      PROVE  [StockNext]_stockVars
  BY <1>5, SellerStepOnStock DEF StockStep
<1> QED
  BY <1>1, <1>2, <1>3, <1>4, <1>5 DEF Next

-----------------------------------------------------------------------------
(* Each handler is a step of the points protocol or leaves points be.       *)

LoyaltyStep == LoyaltyNext \/ UNCHANGED loyaltyVars

LEMMA CheckoutStepOnPoints ==
    ASSUME NEW o \in Orders, CheckoutStep(o) PROVE LoyaltyStep
<1>1. ASSUME NEW lines, NEW m, NEW redeems \in BOOLEAN, NEW earned \in BOOLEAN,
             PlaceOrder(o, lines, m, redeems, earned)
      PROVE  LoyaltyStep
  BY <1>1 DEF PlaceOrder, LoyaltyStep, LoyaltyNext
<1>2. CASE RequestCheckoutSession(o) \/ CheckoutSessionAnswered(o) \/ PaymentWindowCloses(o)
  BY <1>2 DEF RequestCheckoutSession, CheckoutSessionAnswered, SetProvider,
              PaymentWindowCloses, LoyaltyStep
<1> QED
  BY <1>1, <1>2 DEF CheckoutStep

LEMMA UnpaidStepOnPoints ==
    ASSUME NEW o \in Orders, UnpaidStep(o) PROVE LoyaltyStep
<1>1. ReleaseOrderLoyaltyReservation(o)
  BY DEF UnpaidStep, CancelByCustomer, CancelByAdmin, ExpireReservations
<1> QED
  BY <1>1 DEF LoyaltyStep, LoyaltyNext

LEMMA TransferStepOnPoints ==
    ASSUME NEW o \in Orders, TransferStep(o) PROVE LoyaltyStep
<1>1. PICK r \in Receipts : SubmitReceipt(o, r) \/ ApproveTransfer(o, r) \/ RejectTransfer(o, r)
  BY DEF TransferStep
<1>2. CASE SubmitReceipt(o, r)
  BY <1>2 DEF SubmitReceipt, LoyaltyStep
<1>3. CASE ApproveTransfer(o, r)
  BY <1>3 DEF ApproveTransfer, LoyaltyStep, LoyaltyNext
<1>4. CASE RejectTransfer(o, r)
  BY <1>4 DEF RejectTransfer, LoyaltyStep, LoyaltyNext
<1> QED
  BY <1>1, <1>2, <1>3, <1>4

LEMMA SettlementStepOnPoints ==
    ASSUME NEW o \in Orders, SettlementStep(o) PROVE LoyaltyStep
BY DEF SettlementStep, FulfillLatePayment, RecordFullRefund, LoyaltyStep, LoyaltyNext

LEMMA MercadoPagoStepOnPoints ==
    ASSUME AnswersOK, MercadoPagoStep PROVE LoyaltyStep
<1>1. ASSUME NEW o \in Orders, ProviderMoves(o) PROVE LoyaltyStep
  BY <1>1 DEF ProviderMoves, SetProvider, LoyaltyStep
<1>2. ASSUME NEW f, NEW o, FetchOrder(f, o) \/ FetchPayment(f, o) PROVE LoyaltyStep
  BY <1>2 DEF FetchOrder, FetchPayment, Received, LoyaltyStep
<1>3. ASSUME NEW a \in inFlight, ApplyMercadoProviderState(a) PROVE LoyaltyStep
  <2>1. a.order \in Orders
    BY DEF AnswersOK, Answers
  <2>2. CASE ApplyReview(a) \/ ApplyLateApproval(a)
    BY <2>2 DEF ApplyReview, ApplyLateApproval, MoveToPaymentReview, LoyaltyStep
  <2>3. CASE ApplyApproval(a)
    BY <2>1, <2>3 DEF ApplyApproval, LoyaltyStep, LoyaltyNext
  <2>4. CASE ApplyFailure(a)
    BY <2>1, <2>4 DEF ApplyFailure, LoyaltyStep, LoyaltyNext
  <2>5. CASE ApplyRefund(a)
    BY <2>1, <2>5 DEF ApplyRefund, LoyaltyStep, LoyaltyNext
  <2>6. CASE ApplyStatusOnly(a)
    BY <2>6 DEF ApplyStatusOnly, LoyaltyStep
  <2> QED
    BY <1>3, <2>2, <2>3, <2>4, <2>5, <2>6 DEF ApplyMercadoProviderState
<1>4. ASSUME NEW a, LoseAnswer(a) PROVE LoyaltyStep
  BY <1>4 DEF LoseAnswer, LoyaltyStep
<1> QED
  BY <1>1, <1>2, <1>3, <1>4 DEF MercadoPagoStep

\* Every step of the shop is a step of the points protocol; the handlers on
\* a seller order never touch points.
LEMMA NextOnPoints ==
    ASSUME AnswersOK, [Next]_vars PROVE [LoyaltyNext]_loyaltyVars
<1>1. CASE UNCHANGED vars
  BY <1>1 DEF vars
<1>2. CASE InventoryStep
  BY <1>2 DEF InventoryStep
<1>3. CASE MercadoPagoStep
  BY <1>3, MercadoPagoStepOnPoints DEF LoyaltyStep
<1>4. ASSUME NEW o \in Orders,
             CheckoutStep(o) \/ UnpaidStep(o) \/ TransferStep(o) \/ SettlementStep(o)
      PROVE  [LoyaltyNext]_loyaltyVars
  BY <1>4, CheckoutStepOnPoints, UnpaidStepOnPoints, TransferStepOnPoints, SettlementStepOnPoints
  DEF LoyaltyStep
<1>5. ASSUME NEW o \in Orders, NEW s \in Sellers, SellerStep(o, s)
      PROVE  [LoyaltyNext]_loyaltyVars
  BY <1>5 DEF SellerStep
<1> QED
  BY <1>1, <1>2, <1>3, <1>4, <1>5 DEF Next

-----------------------------------------------------------------------------
(* What the shop inherits.                                                  *)

\* The handlers, composed and interleaved in any way, keep the reservation
\* protocol: OrderPayments implements StockSpec.
THEOREM ShopImplementsStock == Spec => StockSpec
<1>1. Init => StockInit
  BY DEF Init
<1>2. AnswersOK /\ [Next]_vars => [StockNext]_stockVars
  BY NextOnStock
<1> QED
  BY <1>1, <1>2, AnswersInvariance, PTL DEF Spec, StockSpec

\* No path of any handler lets Inventory.reserved drift from the number of
\* active reservations, for any number of orders, products and customers.
THEOREM ReservedCounterExact == Spec => []ReservedMatchesActive
<1>1. StockInv => ReservedMatchesActive
  BY DEF StockInv
<1> QED
  BY <1>1, ShopImplementsStock, StockInvariance, PTL

\* The shop never promises a unit of its own products twice.
THEOREM StoreNeverOversells == Spec => []StoreStockCovered
<1>1. StockInv => StoreStockCovered
  BY DEF StockInv
<1> QED
  BY <1>1, ShopImplementsStock, StockInvariance, PTL

\* No handler, however late or repeated, takes a sold unit back.
THEOREM SoldStaysSold == Spec => ConsumedIsFinal
BY ShopImplementsStock, ConsumedStaysConsumed, PTL

\* The handlers keep the points protocol: OrderPayments implements
\* LoyaltySpec.
THEOREM ShopImplementsLoyalty == Spec => LoyaltySpec
<1>1. Init => LoyaltyInit
  BY DEF Init
<1>2. AnswersOK /\ [Next]_vars => [LoyaltyNext]_loyaltyVars
  BY NextOnPoints
<1> QED
  BY <1>1, <1>2, AnswersInvariance, PTL DEF Spec, LoyaltySpec

\* No path of any handler lets LoyaltyAccount.reserved drift from the orders
\* whose redemption is still reserved.
THEOREM ReservedPointsExact == Spec => []PointsReservedMatchOrders
<1>1. LoyaltyInv => PointsReservedMatchOrders
  BY DEF LoyaltyInv
<1> QED
  BY <1>1, ShopImplementsLoyalty, LoyaltyInvariance, PTL

\* Whatever Mercado Pago answers, however often and in whatever order, the
\* balance of a customer is what the points ledger says.
THEOREM BalanceExact == Spec => []BalanceMatchesEntries
<1>1. LoyaltyInv => BalanceMatchesEntries
  BY DEF LoyaltyInv
<1> QED
  BY <1>1, ShopImplementsLoyalty, LoyaltyInvariance, PTL
\* A payment that arrives after its redemption was released takes points only
\* when no other open order was promised them.
THEOREM PromisedPointsCovered == Spec => []ReservedPointsCovered
<1> QED
  BY ShopImplementsLoyalty, PointsCovered, PTL

-----------------------------------------------------------------------------
(***************************************************************************)
(* 3. THE TYPES OF SELLER ORDERS                                           *)
(***************************************************************************)

ChildFunctions == [Orders -> [Sellers -> ChildStates \cup {"NONE"}]]
LedgerFunctions == [Orders -> [Sellers -> Ledgers]]
OrderFunctions == [Orders -> OrderStates \cup {"NONE"}]

-----------------------------------------------------------------------------
(* Operators.                                                               *)

\* What is remembered of one seller order is a status, or nothing.
LEMMA ChildSet ==
    ASSUME NEW f \in ChildFunctions, NEW o \in Orders, NEW s \in Sellers,
           NEW v \in ChildStates \cup {"NONE"}
    PROVE  [f EXCEPT ![o][s] = v] \in ChildFunctions
BY DEF ChildFunctions

LEMMA ReconciledType ==
    ASSUME SellerTypeOK, NEW o \in Orders, NEW children
    PROVE  Reconciled(o, children) \in OrderFunctions
<1>1. \A statuses : ReconciledStatus(statuses) \in OrderStates
  BY DEF ReconciledStatus, OrderStates
<1> QED
  BY <1>1 DEF Reconciled, SellerTypeOK, OrderFunctions

-----------------------------------------------------------------------------
(* Operations on all the seller orders of an order.                         *)

LEMMA MovedChildrenType ==
    ASSUME SellerTypeOK, NEW o \in Orders, NEW from, NEW to \in ChildStates
    PROVE  [child EXCEPT ![o] = MovedChildren(o, from, to)] \in ChildFunctions
<1>1. MovedChildren(o, from, to) \in [Sellers -> ChildStates \cup {"NONE"}]
  BY DEF MovedChildren, SellerTypeOK
<1> QED
  BY <1>1 DEF SellerTypeOK, ChildFunctions

\* What the operations leave alone keeps its type.
SideTypes ==
    /\ issue \in ChildFunctions
    /\ cancellation \in ChildFunctions
    /\ refunded \in [Orders -> [Sellers -> Nat]]

LEMMA OpenSellerOrdersType ==
    ASSUME SellerTypeOK, NEW o \in Orders, NEW lines, OpenSellerOrders(o, lines)
    PROVE  child' \in ChildFunctions
<1>1. [s \in Sellers |-> IF s \in SellersOf(lines) THEN "PENDING_PAYMENT" ELSE "NONE"]
        \in [Sellers -> ChildStates \cup {"NONE"}]
  BY DEF ChildStates
<1> QED
  BY <1>1 DEF OpenSellerOrders, SellerTypeOK, ChildFunctions

LEMMA SettleSellerOrdersType ==
    ASSUME SellerTypeOK, NEW o \in Orders, SettleSellerOrders(o)
    PROVE  /\ child' \in ChildFunctions
           /\ ledger' \in LedgerFunctions
           /\ orderStatus' \in OrderFunctions
           /\ SideTypes'
<1>1. child' \in ChildFunctions
  BY MovedChildrenType DEF SettleSellerOrders, ChildStates
<1>2. ledger' \in LedgerFunctions
  <2>1. [s \in Sellers |->
            IF child[o][s] = "PENDING_PAYMENT" /\ s # Store
            THEN Credited(ledger[o][s]) ELSE ledger[o][s]] \in [Sellers -> Ledgers]
    BY LedgerType DEF SellerTypeOK
  <2> QED
    BY <2>1 DEF SettleSellerOrders, SellerTypeOK, LedgerFunctions
<1>3. orderStatus' \in OrderFunctions
  BY ReconciledType DEF SettleSellerOrders
<1>4. SideTypes'
  BY DEF SettleSellerOrders, SideTypes, SellerTypeOK, ChildFunctions
<1> QED
  BY <1>1, <1>2, <1>3, <1>4

LEMMA CloseUnpaidSellerOrdersType ==
    ASSUME SellerTypeOK, NEW o \in Orders, CloseUnpaidSellerOrders(o)
    PROVE  /\ child' \in ChildFunctions
           /\ ledger' \in LedgerFunctions
           /\ SideTypes'
<1>1. child' \in ChildFunctions
  BY MovedChildrenType DEF CloseUnpaidSellerOrders, ChildStates
<1> QED
  BY <1>1 DEF CloseUnpaidSellerOrders, SideTypes, SellerTypeOK, ChildFunctions, LedgerFunctions

LEMMA CloseAndReverseType ==
    ASSUME SellerTypeOK, NEW o \in Orders, CloseAndReverseSellerOrders(o)
    PROVE  /\ child' \in ChildFunctions
           /\ ledger' \in LedgerFunctions
           /\ SideTypes'
<1> DEFINE open == {s \in Children(o) : child[o][s] \notin {"CANCELLED", "REFUNDED"}}
<1>1. child' = [child EXCEPT ![o] =
                  [s \in Sellers |-> IF s \in open THEN "REFUNDED" ELSE child[o][s]]]
  BY DEF CloseAndReverseSellerOrders
<1>2. ledger' = [ledger EXCEPT ![o] =
                   [s \in Sellers |-> IF s \in open \ {Store}
                                      THEN DebitedByParent(ledger[o][s]) ELSE ledger[o][s]]]
  BY DEF CloseAndReverseSellerOrders
<1>3. SideTypes'
  BY DEF CloseAndReverseSellerOrders, SideTypes, SellerTypeOK, ChildFunctions
<1> HIDE DEF open
<1>4. child' \in ChildFunctions
  <2>1. [s \in Sellers |-> IF s \in open THEN "REFUNDED" ELSE child[o][s]]
          \in [Sellers -> ChildStates \cup {"NONE"}]
    BY DEF SellerTypeOK, ChildStates
  <2> QED
    BY <1>1, <2>1 DEF SellerTypeOK, ChildFunctions
<1>5. ledger' \in LedgerFunctions
  <2>1. [s \in Sellers |-> IF s \in open \ {Store}
                           THEN DebitedByParent(ledger[o][s]) ELSE ledger[o][s]]
          \in [Sellers -> Ledgers]
    BY LedgerType DEF SellerTypeOK
  <2> QED
    BY <1>2, <2>1 DEF SellerTypeOK, LedgerFunctions
<1> QED
  BY <1>3, <1>4, <1>5

-----------------------------------------------------------------------------
(* The handlers on one seller order.                                        *)

LEMMA MoveChildType ==
    ASSUME SellerTypeOK, NEW o \in Orders, NEW s \in Sellers, NEW to \in ChildStates,
           MoveChild(o, s, to)
    PROVE  child' \in ChildFunctions /\ orderStatus' \in OrderFunctions
<1>1. child' \in ChildFunctions
  BY DEF MoveChild, SellerTypeOK, ChildFunctions
<1>2. orderStatus' \in OrderFunctions
  BY ReconciledType DEF MoveChild
<1> QED
  BY <1>1, <1>2

LEMMA SetLedgerType ==
    ASSUME SellerTypeOK, NEW o \in Orders, NEW s \in Sellers, NEW l \in Ledgers,
           SetLedger(o, s, l)
    PROVE  ledger' \in LedgerFunctions
BY DEF SetLedger, SellerTypeOK, LedgerFunctions

LEMMA RecordRefundType ==
    ASSUME SellerTypeOK, NEW o \in Orders, NEW s \in Sellers, NEW amount \in Nat,
           NEW lines, RecordAffiliateRefund(o, s, amount, lines)
    PROVE  /\ refunded' \in [Orders -> [Sellers -> Nat]]
           /\ paymentStatus' \in [Orders -> PaymentStates \cup {"NONE"}]
           /\ RefundedLedger(o, s, amount) \in Ledgers
<1>1. refunded[o][s] + amount \in Nat
  BY DEF SellerTypeOK
<1>2. refunded' \in [Orders -> [Sellers -> Nat]]
  BY <1>1 DEF RecordAffiliateRefund, SellerTypeOK
<1>3. paymentStatus' \in [Orders -> PaymentStates \cup {"NONE"}]
  <2>1. PICK status \in {"REFUNDED", "PARTIALLY_REFUNDED"} :
              paymentStatus' = [paymentStatus EXCEPT ![o] = status]
    BY DEF RecordAffiliateRefund
  <2> QED
    BY <2>1 DEF SellerTypeOK, PaymentStates
<1>4. RefundedLedger(o, s, amount) \in Ledgers
  BY LedgerType, SellerDebitType DEF RefundedLedger, SellerTypeOK
<1> QED
  BY <1>2, <1>3, <1>4

\* Every step on a seller order keeps the types.
LEMMA SellerStepType ==
    ASSUME SellerTypeOK, NEW o \in Orders, NEW s \in Sellers, SellerStep(o, s)
    PROVE  SellerTypeOK'
<1> USE DEF ChildFunctions, LedgerFunctions, OrderFunctions
<1>0. /\ ledger[o][s] \in Ledgers
      /\ issue[o][s] # "NONE" => issue[o][s] \in ChildStates
      /\ cancellation[o][s] # "NONE" => cancellation[o][s] \in ChildStates
      /\ child[o][s] # "NONE" => child[o][s] \in ChildStates
      /\ {"COMPLETED", "REFUNDED", "CANCELLED", "DISPUTED", "CANCELLATION_REQUESTED"}
           \subseteq ChildStates
  BY DEF SellerTypeOK, ChildStates
<1>1. ASSUME NEW actor, NEW next \in ChildStates, TransitionSellerOrder(o, s, actor, next)
      PROVE  SellerTypeOK'
  <2>1. child' \in ChildFunctions /\ orderStatus' \in OrderFunctions
    BY <1>1, MoveChildType DEF TransitionSellerOrder
  <2>2. ledger' \in LedgerFunctions
    <3>1. CASE SetLedger(o, s, EarningsReleased(ledger[o][s]))
      BY <1>0, <3>1, LedgerType, SetLedgerType
    <3>2. CASE UNCHANGED ledger
      BY <3>2 DEF SellerTypeOK
    <3> QED
      BY <1>1, <3>1, <3>2 DEF TransitionSellerOrder
  <2> QED
    BY <1>1, <2>1, <2>2 DEF TransitionSellerOrder, SellerTypeOK
<1>2. CASE CreateBuyerIssue(o, s)
  <2>1. child' \in ChildFunctions /\ orderStatus' \in OrderFunctions
    BY <1>0, <1>2, MoveChildType DEF CreateBuyerIssue
  <2>2. issue' \in ChildFunctions
    BY <1>2 DEF CreateBuyerIssue, SellerTypeOK
  <2> QED
    BY <1>2, <2>1, <2>2 DEF CreateBuyerIssue, SellerTypeOK
<1>3. CASE RequestSellerCancellation(o, s)
  <2>1. child' \in ChildFunctions /\ orderStatus' \in OrderFunctions
    BY <1>0, <1>3, MoveChildType DEF RequestSellerCancellation
  <2>2. cancellation' \in ChildFunctions
    BY <1>3 DEF RequestSellerCancellation, SellerTypeOK
  <2> QED
    BY <1>3, <2>1, <2>2 DEF RequestSellerCancellation, SellerTypeOK
<1>4. CASE ContinueAfterIssue(o, s) \/ CompleteAfterIssue(o, s)
  <2>1. child' \in ChildFunctions /\ orderStatus' \in OrderFunctions
    BY <1>0, <1>4, MoveChildType DEF ContinueAfterIssue, CompleteAfterIssue
  <2>2. issue' \in ChildFunctions
    <3>1. issue \in ChildFunctions
      BY DEF SellerTypeOK
    <3>2. issue' = [issue EXCEPT ![o][s] = "NONE"]
      BY <1>4 DEF ContinueAfterIssue, CompleteAfterIssue
    <3> HIDE DEF ChildFunctions
    <3> QED
      BY <3>1, <3>2, ChildSet
  <2>3. ledger' \in LedgerFunctions
    <3>1. EarningsReleased(ledger[o][s]) \in Ledgers
      BY <1>0, LedgerType
    <3> QED
      BY <1>4, <3>1, SetLedgerType DEF ContinueAfterIssue, CompleteAfterIssue, SellerTypeOK
  <2> QED
    BY <1>4, <2>1, <2>2, <2>3 DEF ContinueAfterIssue, CompleteAfterIssue, SellerTypeOK
<1>5. CASE RejectCancellation(o, s) \/ ApproveCancellationWithoutRefund(o, s)
  <2>1. child' \in ChildFunctions /\ orderStatus' \in OrderFunctions
    BY <1>0, <1>5, MoveChildType DEF RejectCancellation, ApproveCancellationWithoutRefund
  <2>2. cancellation' \in ChildFunctions
    <3>1. cancellation \in ChildFunctions
      BY DEF SellerTypeOK
    <3>2. cancellation' = [cancellation EXCEPT ![o][s] = "NONE"]
      BY <1>5 DEF RejectCancellation, ApproveCancellationWithoutRefund
    <3> HIDE DEF ChildFunctions
    <3> QED
      BY <3>1, <3>2, ChildSet
  <2> QED
    BY <1>5, <2>1, <2>2 DEF RejectCancellation, ApproveCancellationWithoutRefund, SellerTypeOK
<1>6. ASSUME NEW amount \in 1 .. Gross, NEW lines,
             \/ RefundSellerOrder(o, s, amount, lines)
             \/ PartialRefundAfterIssue(o, s, amount, lines)
             \/ FullRefundAfterIssue(o, s, amount, lines)
             \/ ApproveCancellationWithRefund(o, s, amount, lines)
      PROVE  SellerTypeOK'
  <2>1. amount \in Nat /\ RecordAffiliateRefund(o, s, amount, lines)
    BY <1>6, EarningsAssumption DEF RefundSellerOrder, PartialRefundAfterIssue,
       FullRefundAfterIssue, ApproveCancellationWithRefund
  <2>2. /\ refunded' \in [Orders -> [Sellers -> Nat]]
        /\ paymentStatus' \in [Orders -> PaymentStates \cup {"NONE"}]
        /\ RefundedLedger(o, s, amount) \in Ledgers
    BY <2>1, RecordRefundType
  <2>3. EarningsReleased(RefundedLedger(o, s, amount)) \in Ledgers
    BY <2>2, LedgerType
  <2>4. ledger' \in LedgerFunctions
    BY <1>6, <2>2, <2>3, SetLedgerType DEF RefundSellerOrder, PartialRefundAfterIssue,
       FullRefundAfterIssue, ApproveCancellationWithRefund
  <2>5. child' \in ChildFunctions /\ orderStatus' \in OrderFunctions
    BY <1>0, <1>6, MoveChildType DEF RefundSellerOrder, PartialRefundAfterIssue,
       FullRefundAfterIssue, ApproveCancellationWithRefund
  <2>6. /\ issue' \in ChildFunctions /\ cancellation' \in ChildFunctions
        /\ fullRefund' = fullRefund
    <3>1. issue \in ChildFunctions /\ cancellation \in ChildFunctions
      BY DEF SellerTypeOK
    <3>2. /\ issue' = issue \/ issue' = [issue EXCEPT ![o][s] = "NONE"]
          /\ \/ cancellation' = cancellation
             \/ cancellation' = [cancellation EXCEPT ![o][s] = "NONE"]
          /\ fullRefund' = fullRefund
      BY <1>6 DEF RefundSellerOrder, PartialRefundAfterIssue, FullRefundAfterIssue,
                  ApproveCancellationWithRefund
    <3> HIDE DEF ChildFunctions
    <3> QED
      BY <3>1, <3>2, ChildSet
  <2> QED
    BY <2>2, <2>4, <2>5, <2>6 DEF SellerTypeOK
<1> QED
  BY <1>0, <1>1, <1>2, <1>3, <1>4, <1>5, <1>6, AdminStepDoes
  DEF SellerStep, BuyerStep, AffiliateStep, AdminDoes, SystemStep

-----------------------------------------------------------------------------
(***************************************************************************)
(* 4. THE TYPES OF ORDERS                                                  *)
(***************************************************************************)

PaymentTypeOK ==
    /\ method \in [Orders -> {"NONE", "BANK_TRANSFER", "MERCADO_PAGO"}]
    /\ due \in [Orders -> BOOLEAN]
    /\ receipt \in [Orders -> [Receipts -> {"NONE", "PENDING", "APPROVED", "REJECTED"}]]
    /\ provider \in [Orders -> ProviderStates \cup {"NONE", "REQUESTED"}]

OrderTypeOK == SellerTypeOK /\ PaymentTypeOK

PaymentFunctions == [Orders -> PaymentStates \cup {"NONE"}]

-----------------------------------------------------------------------------
(* Fields of an order.                                                      *)

LEMMA SetStatusType ==
    ASSUME SellerTypeOK, NEW o \in Orders, NEW status \in OrderStates, SetStatus(o, status)
    PROVE  orderStatus' \in OrderFunctions
BY DEF SetStatus, SellerTypeOK, OrderFunctions

LEMMA SetPaymentType ==
    ASSUME SellerTypeOK, NEW o \in Orders, NEW status \in PaymentStates, SetPayment(o, status)
    PROVE  paymentStatus' \in PaymentFunctions
BY DEF SetPayment, SellerTypeOK, PaymentFunctions

\* The seller part of the types, put together from its variables.
LEMMA SellerTypeParts ==
    ASSUME SellerTypeOK,
           orderStatus' \in OrderFunctions, paymentStatus' \in PaymentFunctions,
           fullRefund' \in [Orders -> BOOLEAN], child' \in ChildFunctions,
           ledger' \in LedgerFunctions, SideTypes'
    PROVE  SellerTypeOK'
BY DEF SellerTypeOK, SideTypes, OrderFunctions, PaymentFunctions, ChildFunctions, LedgerFunctions

LEMMA UnchangedSellerTypes ==
    ASSUME SellerTypeOK
    PROVE  /\ orderStatus \in OrderFunctions /\ paymentStatus \in PaymentFunctions
           /\ fullRefund \in [Orders -> BOOLEAN] /\ child \in ChildFunctions
           /\ ledger \in LedgerFunctions /\ SideTypes
BY DEF SellerTypeOK, SideTypes, OrderFunctions, PaymentFunctions, ChildFunctions, LedgerFunctions

LEMMA StatusNames ==
    /\ {"PENDING_PAYMENT", "PAYMENT_REVIEW", "CANCELLED", "EXPIRED", "REFUND_RECORDED",
        "PAYMENT_REQUIRES_REVIEW"} \subseteq OrderStates
    /\ {"PENDING", "UNDER_REVIEW", "APPROVED", "REJECTED", "REFUNDED"} \subseteq PaymentStates
    /\ ProviderStates \subseteq PaymentStates
BY DEF OrderStates, PaymentStates, ProviderStates

-----------------------------------------------------------------------------
(* One lemma per group of handlers.                                         *)

LEMMA SetProviderType ==
    ASSUME OrderTypeOK, NEW o, NEW state \in ProviderStates \cup {"NONE", "REQUESTED"},
           SetProvider(o, state)
    PROVE  OrderTypeOK'
<1>1. SellerTypeOK'
  BY DEF SetProvider, OrderTypeOK, SellerTypeOK, sellerVars, childVars
<1>2. PaymentTypeOK'
  BY DEF SetProvider, OrderTypeOK, PaymentTypeOK
<1> QED
  BY <1>1, <1>2 DEF OrderTypeOK

LEMMA CheckoutStepType ==
    ASSUME OrderTypeOK, NEW o \in Orders, CheckoutStep(o) PROVE OrderTypeOK'
<1>1. ASSUME NEW lines, NEW m \in Methods, NEW redeems, NEW earned,
             PlaceOrder(o, lines, m, redeems, earned)
      PROVE  OrderTypeOK'
  <2>1. /\ orderStatus' \in OrderFunctions /\ paymentStatus' \in PaymentFunctions
        /\ child' \in ChildFunctions
    BY <1>1, StatusNames, SetStatusType, SetPaymentType, OpenSellerOrdersType
    DEF PlaceOrder, OrderTypeOK
  <2>2. /\ fullRefund' \in [Orders -> BOOLEAN] /\ ledger' \in LedgerFunctions /\ SideTypes'
    BY <1>1 DEF PlaceOrder, OrderTypeOK, SellerTypeOK, SideTypes, ChildFunctions, LedgerFunctions
  <2>3. SellerTypeOK'
    BY <2>1, <2>2, SellerTypeParts DEF OrderTypeOK
  <2>4. method' \in [Orders -> {"NONE", "BANK_TRANSFER", "MERCADO_PAGO"}]
    BY <1>1, OrderPaymentsAssumption DEF PlaceOrder, OrderTypeOK, PaymentTypeOK
  <2> QED
    BY <1>1, <2>3, <2>4 DEF PlaceOrder, OrderTypeOK, PaymentTypeOK
<1>2. CASE RequestCheckoutSession(o) \/ CheckoutSessionAnswered(o)
  <2>1. PICK state \in ProviderStates \cup {"NONE", "REQUESTED"} : SetProvider(o, state)
    BY <1>2 DEF RequestCheckoutSession, CheckoutSessionAnswered, ProviderStates
  <2> QED
    BY <2>1, SetProviderType
<1>3. CASE PaymentWindowCloses(o)
  BY <1>3 DEF PaymentWindowCloses, OrderTypeOK, PaymentTypeOK, SellerTypeOK, sellerVars, childVars
<1> QED
  BY <1>1, <1>2, <1>3 DEF CheckoutStep

\* The three ways an unpaid order ends write the same fields.
LEMMA UnpaidStepType ==
    ASSUME OrderTypeOK, NEW o \in Orders, UnpaidStep(o) PROVE OrderTypeOK'
<1>1. PICK status \in {"CANCELLED", "EXPIRED"} :
        /\ SetStatus(o, status)
        /\ CloseUnpaidSellerOrders(o)
        /\ UNCHANGED <<paymentStatus, fullRefund, paymentVars>>
  BY DEF UnpaidStep, CancelByCustomer, CancelByAdmin, ExpireReservations
<1>2. SellerTypeOK'
  BY <1>1, StatusNames, SetStatusType, CloseUnpaidSellerOrdersType, UnchangedSellerTypes,
     SellerTypeParts
  DEF OrderTypeOK
<1> QED
  BY <1>1, <1>2 DEF OrderTypeOK, PaymentTypeOK, paymentVars

LEMMA DecidedType ==
    ASSUME PaymentTypeOK, NEW o \in Orders, NEW r, NEW decision \in {"APPROVED", "REJECTED"}
    PROVE  Decided(o, r, decision)
             \in [Orders -> [Receipts -> {"NONE", "PENDING", "APPROVED", "REJECTED"}]]
BY DEF Decided, PaymentTypeOK

LEMMA TransferStepType ==
    ASSUME OrderTypeOK, NEW o \in Orders, TransferStep(o) PROVE OrderTypeOK'
<1>1. PICK r \in Receipts : SubmitReceipt(o, r) \/ ApproveTransfer(o, r) \/ RejectTransfer(o, r)
  BY DEF TransferStep
<1>2. CASE SubmitReceipt(o, r)
  <2>1. orderStatus' \in OrderFunctions /\ paymentStatus' \in PaymentFunctions
    BY <1>2, StatusNames, SetStatusType, SetPaymentType DEF SubmitReceipt, OrderTypeOK
  <2>2. /\ fullRefund' \in [Orders -> BOOLEAN] /\ child' \in ChildFunctions
        /\ ledger' \in LedgerFunctions /\ SideTypes'
    BY <1>2 DEF SubmitReceipt, childVars, OrderTypeOK, SellerTypeOK, SideTypes,
                ChildFunctions, LedgerFunctions
  <2>3. SellerTypeOK'
    BY <2>1, <2>2, SellerTypeParts DEF OrderTypeOK
  <2> QED
    BY <1>2, <2>3 DEF SubmitReceipt, OrderTypeOK, PaymentTypeOK
<1>3. CASE ApproveTransfer(o, r)
  <2>1. paymentStatus' \in PaymentFunctions
    BY <1>3, StatusNames, SetPaymentType DEF ApproveTransfer, OrderTypeOK
  <2>2. SellerTypeOK'
    BY <1>3, <2>1, SettleSellerOrdersType, UnchangedSellerTypes, SellerTypeParts
    DEF ApproveTransfer, OrderTypeOK
  <2> QED
    BY <1>3, <2>2, DecidedType DEF ApproveTransfer, OrderTypeOK, PaymentTypeOK
<1>4. CASE RejectTransfer(o, r)
  <2>1. orderStatus' \in OrderFunctions /\ paymentStatus' \in PaymentFunctions
    BY <1>4, StatusNames, SetStatusType, SetPaymentType DEF RejectTransfer, OrderTypeOK
  <2>2. SellerTypeOK'
    BY <1>4, <2>1, CloseUnpaidSellerOrdersType, UnchangedSellerTypes, SellerTypeParts
    DEF RejectTransfer, OrderTypeOK
  <2> QED
    BY <1>4, <2>2, DecidedType DEF RejectTransfer, OrderTypeOK, PaymentTypeOK
<1> QED
  BY <1>1, <1>2, <1>3, <1>4

LEMMA SettlementStepType ==
    ASSUME OrderTypeOK, NEW o \in Orders, SettlementStep(o) PROVE OrderTypeOK'
<1>1. CASE FulfillLatePayment(o)
  <2>1. SellerTypeOK'
    BY <1>1, SettleSellerOrdersType, UnchangedSellerTypes, SellerTypeParts
    DEF FulfillLatePayment, OrderTypeOK
  <2> QED
    BY <1>1, <2>1 DEF FulfillLatePayment, OrderTypeOK, PaymentTypeOK, paymentVars
<1>2. CASE RecordFullRefund(o)
  <2>1. orderStatus' \in OrderFunctions /\ paymentStatus' \in PaymentFunctions
    BY <1>2, StatusNames, SetStatusType, SetPaymentType DEF RecordFullRefund, OrderTypeOK
  <2>2. fullRefund' \in [Orders -> BOOLEAN]
    BY <1>2 DEF RecordFullRefund, OrderTypeOK, SellerTypeOK
  <2>3. SellerTypeOK'
    BY <1>2, <2>1, <2>2, CloseAndReverseType, SellerTypeParts DEF RecordFullRefund, OrderTypeOK
  <2> QED
    BY <1>2, <2>3 DEF RecordFullRefund, OrderTypeOK, PaymentTypeOK, paymentVars
<1> QED
  BY <1>1, <1>2 DEF SettlementStep

\* Applying an answer: the payment takes its state, whatever else happens.
LEMMA ApplyType ==
    ASSUME OrderTypeOK, AnswersOK, NEW a \in inFlight, ApplyMercadoProviderState(a)
    PROVE  OrderTypeOK'
<1>1. a.order \in Orders /\ a.state \in ProviderStates
  BY DEF AnswersOK, Answers
<1>2. Applied(a)
  BY DEF ApplyMercadoProviderState, ApplyReview, ApplyLateApproval, ApplyApproval, ApplyFailure,
         ApplyRefund, ApplyStatusOnly
<1>3. /\ paymentStatus' \in PaymentFunctions /\ fullRefund' \in [Orders -> BOOLEAN]
      /\ PaymentTypeOK'
  <2>1. paymentStatus' \in PaymentFunctions
    BY <1>1, <1>2, StatusNames, SetPaymentType DEF Applied, OrderTypeOK
  <2> QED
    BY <1>2, <2>1 DEF Applied, OrderTypeOK, SellerTypeOK, PaymentTypeOK
<1>4. /\ orderStatus' \in OrderFunctions /\ child' \in ChildFunctions
      /\ ledger' \in LedgerFunctions /\ SideTypes'
  <2>1. CASE ApplyReview(a) \/ ApplyLateApproval(a)
    <3>1. MoveToPaymentReview(a.order)
      BY <2>1 DEF ApplyReview, ApplyLateApproval
    <3>2. orderStatus' \in OrderFunctions
      BY <1>1, <3>1, StatusNames, SetStatusType, UnchangedSellerTypes
      DEF MoveToPaymentReview, OrderTypeOK
    <3> QED
      BY <3>1, <3>2 DEF MoveToPaymentReview, childVars, OrderTypeOK, SellerTypeOK, SideTypes,
                        ChildFunctions, LedgerFunctions
  <2>2. CASE ApplyApproval(a)
    BY <1>1, <2>2, SettleSellerOrdersType DEF ApplyApproval, OrderTypeOK
  <2>3. CASE ApplyFailure(a)
    BY <1>1, <2>3, StatusNames, SetStatusType, CloseUnpaidSellerOrdersType
    DEF ApplyFailure, OrderTypeOK
  <2>4. CASE ApplyRefund(a)
    BY <1>1, <2>4, StatusNames, SetStatusType, CloseAndReverseType DEF ApplyRefund, OrderTypeOK
  <2>5. CASE ApplyStatusOnly(a)
    BY <2>5 DEF ApplyStatusOnly, childVars, OrderTypeOK, SellerTypeOK, SideTypes, OrderFunctions,
                ChildFunctions, LedgerFunctions
  <2> QED
    BY <2>1, <2>2, <2>3, <2>4, <2>5 DEF ApplyMercadoProviderState
<1> QED
  BY <1>3, <1>4, SellerTypeParts DEF OrderTypeOK

LEMMA MercadoPagoStepType ==
    ASSUME OrderTypeOK, AnswersOK, MercadoPagoStep PROVE OrderTypeOK'
<1>1. ASSUME NEW o \in Orders, ProviderMoves(o) PROVE OrderTypeOK'
  <2>1. PICK state \in Outcomes : SetProvider(o, state)
    BY <1>1 DEF ProviderMoves
  <2>2. state \in ProviderStates
    BY OrderPaymentsAssumption DEF ProviderStates
  <2> QED
    BY <2>1, <2>2, SetProviderType
<1>2. ASSUME NEW f, NEW o, NEW a,
             FetchOrder(f, o) \/ FetchPayment(f, o) \/ LoseAnswer(a)
      PROVE  OrderTypeOK'
  BY <1>2 DEF FetchOrder, FetchPayment, Received, LoseAnswer, OrderTypeOK, PaymentTypeOK,
              SellerTypeOK, sellerVars, childVars
<1> QED
  BY <1>1, <1>2, ApplyType DEF MercadoPagoStep

-----------------------------------------------------------------------------

LEMMA OrderTypeInit == Init => OrderTypeOK
<1> SUFFICES ASSUME Init PROVE OrderTypeOK
  OBVIOUS
<1>1. EmptyLedger \in Ledgers
  BY DEF EmptyLedger, Ledgers
<1>2. SellerTypeOK
  BY <1>1 DEF Init, SellerInit, SellerTypeOK
<1>3. PaymentTypeOK
  BY DEF Init, PaymentTypeOK
<1> QED
  BY <1>2, <1>3 DEF OrderTypeOK

LEMMA OrderTypeNext == OrderTypeOK /\ AnswersOK /\ [Next]_vars => OrderTypeOK'
<1> SUFFICES ASSUME OrderTypeOK, AnswersOK, [Next]_vars PROVE OrderTypeOK'
  OBVIOUS
<1>1. CASE UNCHANGED vars
  BY <1>1 DEF vars, sellerVars, childVars, paymentVars, OrderTypeOK, SellerTypeOK, PaymentTypeOK
<1>2. CASE InventoryStep
  BY <1>2 DEF InventoryStep, sellerVars, childVars, paymentVars, OrderTypeOK, SellerTypeOK,
              PaymentTypeOK
<1>3. CASE MercadoPagoStep
  BY <1>3, MercadoPagoStepType
<1>4. ASSUME NEW o \in Orders,
             CheckoutStep(o) \/ UnpaidStep(o) \/ TransferStep(o) \/ SettlementStep(o)
      PROVE  OrderTypeOK'
  BY <1>4, CheckoutStepType, UnpaidStepType, TransferStepType, SettlementStepType
<1>5. ASSUME NEW o \in Orders, NEW s \in Sellers, SellerStep(o, s), UNCHANGED paymentVars
      PROVE  OrderTypeOK'
  <2>1. SellerTypeOK'
    BY <1>5, SellerStepType DEF OrderTypeOK
  <2> QED
    BY <1>5, <2>1 DEF OrderTypeOK, PaymentTypeOK, paymentVars
<1> QED
  BY <1>1, <1>2, <1>3, <1>4, <1>5 DEF Next

\* Every field the handlers write keeps its type: a status is always one the
\* schema has, and a reconciled or restored one never leaves it.
THEOREM TypeCorrect == Spec => []TypeOK
<1>1. OrderTypeOK /\ AnswersOK /\ StockInv /\ LoyaltyInv => TypeOK
  BY DEF OrderTypeOK, PaymentTypeOK, AnswersOK, StockInv, LoyaltyInv, TypeOK
<1>2. Spec => []OrderTypeOK
  BY OrderTypeInit, OrderTypeNext, AnswersInvariance, PTL DEF Spec
<1> QED
  BY <1>1, <1>2, AnswersInvariance, ShopImplementsStock, StockInvariance,
     ShopImplementsLoyalty, LoyaltyInvariance, PTL

-----------------------------------------------------------------------------
(***************************************************************************)
(* 5. THE LIFE OF AN ORDER                                                 *)
(***************************************************************************)

(* The kinds of moves.                                                      *)

Kept(o) ==
    /\ reservation'[o] = reservation[o]
    /\ redemption'[o] = redemption[o] /\ entries'[o] = entries[o]
    /\ orderStatus'[o] = orderStatus[o]
    /\ child'[o] = child[o] /\ issue'[o] = issue[o]
    /\ cancellation'[o] = cancellation[o] /\ ledger'[o] = ledger[o]
    /\ method'[o] = method[o] /\ receipt'[o] = receipt[o]

\* Checkout.
Opened(o) ==
    /\ orderStatus[o] = "NONE" /\ orderStatus'[o] = "PENDING_PAYMENT"
    /\ Lines(o) = {}
    /\ \A p \in Products : reservation'[o][p] \in {"ACTIVE", reservation[o][p]}
    /\ redemption'[o] \in {"NONE", "RESERVED"} /\ entries'[o] = entries[o]
    /\ \A s \in Sellers : child'[o][s] \in {"NONE", "PENDING_PAYMENT"}
    /\ \E s \in Sellers : child'[o][s] # "NONE"
    /\ issue'[o] = issue[o] /\ cancellation'[o] = cancellation[o]
    /\ ledger'[o] = ledger[o] /\ receipt'[o] = receipt[o]

\* Cancellation, expiry, a refused receipt and a failed payment.
ClosedUnpaid(o) ==
    /\ PaymentPending(o) /\ orderStatus'[o] \in {"CANCELLED", "EXPIRED"}
    /\ \A p \in Products : reservation'[o][p] =
           IF reservation[o][p] = "ACTIVE" THEN "RELEASED" ELSE reservation[o][p]
    /\ redemption'[o] = AfterRelease(redemption[o]) /\ entries'[o] = entries[o]
    /\ \A s \in Sellers : child'[o][s] =
           IF child[o][s] = "PENDING_PAYMENT" THEN "CANCELLED" ELSE child[o][s]
    /\ issue'[o] = issue[o] /\ cancellation'[o] = cancellation[o]
    /\ ledger'[o] = ledger[o] /\ method'[o] = method[o]
    /\ \A r \in Receipts : receipt'[o][r] \in {receipt[o][r], "REJECTED"}

\* A receipt is sent.
Submitted(o) ==
    /\ PaymentPending(o) /\ orderStatus'[o] = "PAYMENT_REVIEW"
    /\ method[o] = "BANK_TRANSFER"
    /\ \A r \in Receipts : receipt'[o][r] \in {receipt[o][r], "PENDING"}
    /\ reservation'[o] = reservation[o]
    /\ redemption'[o] = redemption[o] /\ entries'[o] = entries[o]
    /\ child'[o] = child[o] /\ issue'[o] = issue[o]
    /\ cancellation'[o] = cancellation[o] /\ ledger'[o] = ledger[o]
    /\ method'[o] = method[o]

\* The parent order takes a status reconciliation can give it.
ReconciledTo(o) ==
    /\ orderStatus'[o] \in {"PENDING_PAYMENT", "PAID", "IN_FULFILLMENT", "PARTIALLY_COMPLETED",
                            "ACTION_REQUIRED", "COMPLETED", "CANCELLED"}
    /\ orderStatus'[o] = "PENDING_PAYMENT" =>
           \A s \in Sellers : child'[o][s] \in {"NONE", "PENDING_PAYMENT"}

\* A payment is accredited: every line that is not sold yet is, or only the
\* reserved ones.
Accredited(o) ==
    /\ PaymentPending(o) \/ orderStatus[o] = "PAYMENT_REQUIRES_REVIEW"
    /\ Lines(o) # {}
    /\ \/ \A p \in Lines(o) : reservation'[o][p] = "CONSUMED"
       \/ /\ Active(o) # {}
          /\ \A p \in Lines(o) : reservation'[o][p] =
                 IF reservation[o][p] = "ACTIVE" THEN "CONSUMED" ELSE reservation[o][p]
    /\ \A p \in Products \ Lines(o) : reservation'[o][p] = reservation[o][p]
    /\ \A s \in Sellers :
           /\ child'[o][s] = IF child[o][s] = "PENDING_PAYMENT" THEN "PAID" ELSE child[o][s]
           /\ ledger'[o][s] \in {ledger[o][s], Credited(ledger[o][s])}
    /\ \/ ReconciledTo(o)
       \/ orderStatus'[o] = orderStatus[o] /\ \A s \in Sellers : child[o][s] = "NONE"
    /\ issue'[o] = issue[o] /\ cancellation'[o] = cancellation[o]
    /\ method'[o] = method[o]
    /\ \/ receipt'[o] = receipt[o]
       \/ /\ PaymentPending(o) /\ method[o] = "BANK_TRANSFER"
          /\ \E r \in Receipts : \A q \in Receipts : receipt'[o][q] =
                 IF q = r THEN "APPROVED"
                 ELSE IF receipt[o][q] = "PENDING" THEN "REJECTED" ELSE receipt[o][q]

\* Mercado Pago's answer leaves the order to a person, or as it is.
Reviewed(o) ==
    /\ orderStatus'[o] \in {orderStatus[o], "PAYMENT_REQUIRES_REVIEW"}
    /\ orderStatus[o] # "NONE" /\ method[o] = "MERCADO_PAGO"
    /\ reservation'[o] = reservation[o]
    /\ redemption'[o] = redemption[o] /\ entries'[o] = entries[o]
    /\ child'[o] = child[o] /\ issue'[o] = issue[o]
    /\ cancellation'[o] = cancellation[o] /\ ledger'[o] = ledger[o]
    /\ method'[o] = method[o] /\ receipt'[o] = receipt[o]

\* The whole order is refunded.
Refunded(o) ==
    /\ orderStatus[o] # "NONE" /\ orderStatus'[o] = "REFUND_RECORDED"
    /\ \/ reservation'[o] = reservation[o]
       \/ \A p \in Products : reservation'[o][p] =
              IF reservation[o][p] = "ACTIVE" THEN "RELEASED" ELSE reservation[o][p]
    /\ \/ redemption'[o] = AfterReversal(o, redemption[o]) /\ reservation'[o] = reservation[o]
       \/ method[o] = "MERCADO_PAGO"
    /\ entries[o] = {} => entries'[o] = {}
    /\ \A s \in Sellers :
           /\ child'[o][s] = IF child[o][s] \in {"NONE", "CANCELLED", "REFUNDED"}
                             THEN child[o][s] ELSE "REFUNDED"
           /\ ledger'[o][s] \in {ledger[o][s], DebitedByParent(ledger[o][s])}
    /\ issue'[o] = issue[o] /\ cancellation'[o] = cancellation[o]
    /\ method'[o] = method[o] /\ receipt'[o] = receipt[o]

\* The ledgers a step on a seller order may lead to.
SellerLedgers(l) ==
    LET debited == {l} \cup {Debited(l, amount) : amount \in Nat}
    IN  debited \cup {EarningsReleased(d) : d \in debited}

\* Why a closed seller order may open again.
Decision(o, s) ==
    \/ issue[o][s] # "NONE" /\ issue'[o][s] = "NONE"
    \/ cancellation[o][s] # "NONE" /\ cancellation'[o][s] = "NONE"

\* One seller order moves: to a status its own allows, or to the one it had
\* when an issue or a cancellation request was opened.
SellerMoved(o, s, to) ==
    /\ to \in ChildStates
    /\ child'[o] = [child[o] EXCEPT ![s] = to]
    /\ ReconciledTo(o)
    /\ child[o][s] # "NONE" \/ issue[o][s] # "NONE" \/ cancellation[o][s] # "NONE"
    /\ to = "PENDING_PAYMENT" =>
           \/ issue[o][s] = "PENDING_PAYMENT" /\ issue'[o][s] = "NONE"
           \/ cancellation[o][s] = "PENDING_PAYMENT"
    /\ to \in Shippable => {child[o][s], issue[o][s], cancellation[o][s]} \cap Shippable # {}
    /\ \/ issue'[o][s] \in {issue[o][s], "NONE"}
       \/ /\ s # Store /\ child[o][s] # "NONE" /\ to = "DISPUTED"
          /\ issue[o][s] = "NONE" /\ issue'[o][s] = child[o][s]
    /\ \/ cancellation'[o][s] \in {cancellation[o][s], "NONE"}
       \/ child[o][s] # "PENDING_PAYMENT" /\ cancellation'[o][s] = child[o][s]
    /\ \A t \in Sellers \ {s} : /\ issue'[o][t] = issue[o][t]
                                /\ cancellation'[o][t] = cancellation[o][t]
                                /\ ledger'[o][t] = ledger[o][t]
    /\ ledger'[o][s] \in SellerLedgers(ledger[o][s])
    /\ child[o][s] \in {"CANCELLED", "REFUNDED"} => Decision(o, s)
    /\ reservation'[o] = reservation[o]
    /\ redemption'[o] = redemption[o] /\ entries'[o] = entries[o]
    /\ method'[o] = method[o] /\ receipt'[o] = receipt[o]

Move(o) ==
    \/ Kept(o) \/ Opened(o) \/ ClosedUnpaid(o) \/ Submitted(o)
    \/ Accredited(o) \/ Reviewed(o) \/ Refunded(o)
    \/ \E s \in Sellers, to \in ChildStates : SellerMoved(o, s, to)

\* Only the order a step is about moves.
OthersKept(o) == \A q \in Orders \ {o} : Kept(q)

-----------------------------------------------------------------------------
(* Orders are placed once, and Mercado Pago only has to do with its own.    *)

Placement ==
    /\ \A o \in Orders :
        /\ orderStatus[o] = "NONE" => method[o] = "NONE" /\ paymentStatus[o] = "NONE"
        /\ provider[o] # "NONE" \/ orderStatus[o] = "PAYMENT_REQUIRES_REVIEW" =>
               method[o] = "MERCADO_PAGO"
    /\ \A a \in inFlight : method[a.order] = "MERCADO_PAGO"

\* Reconciliation knows seven statuses, and returns an order to payment only
\* when all its seller orders wait for it.
LEMMA ReconciledFacts ==
    ASSUME TypeOK, NEW o \in Orders, NEW children,
           \E s \in Sellers : children[s] # "NONE"
    PROVE  /\ Reconciled(o, children)[o] \in
                  {"PENDING_PAYMENT", "PAID", "IN_FULFILLMENT", "PARTIALLY_COMPLETED",
                   "ACTION_REQUIRED", "COMPLETED", "CANCELLED"}
           /\ Reconciled(o, children)[o] = "PENDING_PAYMENT" =>
                  \A s \in Sellers : children[s] \in {"NONE", "PENDING_PAYMENT"}
<1> DEFINE statuses == {children[s] : s \in Sellers} \ {"NONE"}
<1>1. statuses # {}
  OBVIOUS
<1>2. orderStatus \in [Orders -> OrderStates \cup {"NONE"}]
  BY DEF TypeOK, SellerTypeOK
<1>3. Reconciled(o, children)[o] = ReconciledStatus(statuses)
  BY <1>1, <1>2 DEF Reconciled
<1>4. /\ ReconciledStatus(statuses) \in
             {"PENDING_PAYMENT", "PAID", "IN_FULFILLMENT", "PARTIALLY_COMPLETED",
              "ACTION_REQUIRED", "COMPLETED", "CANCELLED"}
      /\ ReconciledStatus(statuses) = "PENDING_PAYMENT" => statuses \subseteq {"PENDING_PAYMENT"}
  <2> HIDE DEF statuses
  <2> QED
    BY DEF ReconciledStatus
<1> QED
  BY <1>3, <1>4

LEMMA ReconciledOthers ==
    ASSUME TypeOK, NEW o \in Orders, NEW children
    PROVE  \A q \in Orders \ {o} : Reconciled(o, children)[q] = orderStatus[q]
BY DEF Reconciled, TypeOK, SellerTypeOK

LEMMA MoveChildFacts ==
    ASSUME TypeOK, NEW o \in Orders, NEW s \in Sellers, NEW to \in ChildStates,
           MoveChild(o, s, to)
    PROVE  /\ ReconciledTo(o)
           /\ child'[o] = [child[o] EXCEPT ![s] = to]
           /\ \A q \in Orders \ {o} : child'[q] = child[q] /\ orderStatus'[q] = orderStatus[q]
<1>1. child' = [child EXCEPT ![o][s] = to] /\ orderStatus' = Reconciled(o, child'[o])
  BY DEF MoveChild
<1>2. /\ child'[o] = [child[o] EXCEPT ![s] = to]
      /\ \A q \in Orders \ {o} : child'[q] = child[q]
  BY <1>1 DEF TypeOK, SellerTypeOK
<1>3. child'[o][s] = to /\ to # "NONE"
  BY <1>2 DEF TypeOK, SellerTypeOK, ChildStates
<1>4. \E t \in Sellers : child'[o][t] # "NONE"
  BY <1>3
<1>5. ReconciledTo(o)
  BY <1>1, <1>4, ReconciledFacts DEF ReconciledTo
<1> QED
  BY <1>1, <1>2, <1>5, ReconciledOthers

-----------------------------------------------------------------------------
(* What the handlers on one seller order do.                                *)

\* What every handler on a seller order leaves alone.
SellerFrame(o) ==
    /\ reservation' = reservation /\ UNCHANGED loyaltyVars /\ UNCHANGED paymentVars

LEMMA SellerFrameFacts ==
    ASSUME NEW o \in Orders, SellerFrame(o)
    PROVE  \A q \in Orders :
              /\ reservation'[q] = reservation[q]
              /\ redemption'[q] = redemption[q] /\ entries'[q] = entries[q]
              /\ method'[q] = method[q] /\ receipt'[q] = receipt[q]
BY DEF SellerFrame, loyaltyVars, paymentVars

\* From f to g only what is kept of seller order s of order o changes.
WritesOne(f, g, o, s) ==
    /\ \A q \in Orders \ {o} : g[q] = f[q]
    /\ \A t \in Sellers \ {s} : g[o][t] = f[o][t]

LEMMA SellerRowTypes ==
    ASSUME TypeOK
    PROVE  /\ issue \in [Orders -> [Sellers -> ChildStates \cup {"NONE"}]]
           /\ cancellation \in [Orders -> [Sellers -> ChildStates \cup {"NONE"}]]
           /\ ledger \in [Orders -> [Sellers -> Ledgers]]
BY DEF TypeOK, SellerTypeOK

\* A handler writes the rows of one seller order.
LEMMA OneSellerOrder ==
    ASSUME TypeOK, NEW o \in Orders, NEW s \in Sellers, NEW to \in ChildStates,
           SellerFrame(o), MoveChild(o, s, to),
           WritesOne(issue, issue', o, s), WritesOne(cancellation, cancellation', o, s),
           WritesOne(ledger, ledger', o, s)
    PROVE  /\ OthersKept(o)
           /\ \A t \in Sellers \ {s} : /\ issue'[o][t] = issue[o][t]
                                       /\ cancellation'[o][t] = cancellation[o][t]
                                       /\ ledger'[o][t] = ledger[o][t]
           /\ ReconciledTo(o) /\ child'[o] = [child[o] EXCEPT ![s] = to]
BY SellerFrameFacts, MoveChildFacts DEF OthersKept, Kept, WritesOne

LEMMA SellerLedgerForms ==
    ASSUME NEW l
    PROVE  /\ l \in SellerLedgers(l) /\ EarningsReleased(l) \in SellerLedgers(l)
           /\ \A amount \in Nat : /\ Debited(l, amount) \in SellerLedgers(l)
                                  /\ EarningsReleased(Debited(l, amount)) \in SellerLedgers(l)
BY DEF SellerLedgers

LEMMA SellerLedgersBounded ==
    ASSUME NEW l \in Ledgers, SaleBounded(l)
    PROVE  \A m \in SellerLedgers(l) : SaleBounded(m) /\ m.sale = l.sale
<1> DEFINE debited == {l} \cup {Debited(l, amount) : amount \in Nat}
<1>1. ASSUME NEW d \in debited PROVE d \in Ledgers /\ SaleBounded(d) /\ d.sale = l.sale
  <2>1. CASE d = l
    BY <2>1
  <2>2. ASSUME NEW amount \in Nat, d = Debited(l, amount)
        PROVE  d \in Ledgers /\ SaleBounded(d) /\ d.sale = l.sale
    <3>1. amount \in Int
      OBVIOUS
    <3> QED
      BY <2>2, <3>1, LedgerType, SaleBoundedKept
  <2> QED
    BY <2>1, <2>2
<1>2. \A d \in debited : SaleBounded(EarningsReleased(d)) /\ EarningsReleased(d).sale = l.sale
  BY <1>1, SaleBoundedKept
<1> QED
  BY <1>1, <1>2 DEF SellerLedgers

LEMMA RefundedLedgerForms ==
    ASSUME NEW o \in Orders, NEW s \in Sellers, NEW amount \in Nat
    PROVE  /\ RefundedLedger(o, s, amount) \in SellerLedgers(ledger[o][s])
           /\ EarningsReleased(RefundedLedger(o, s, amount)) \in SellerLedgers(ledger[o][s])
<1>1. CASE s = Store
  BY <1>1, SellerLedgerForms DEF RefundedLedger
<1>2. CASE s # Store
  <2>1. RefundedLedger(o, s, amount) = Debited(ledger[o][s], SellerDebit(amount))
    BY <1>2 DEF RefundedLedger
  <2> QED
    BY <2>1, SellerDebitNatural, SellerLedgerForms
<1> QED
  BY <1>1, <1>2

\* No step of the table touches a closed seller order, or leads back to payment.
LEMMA AllowedStepFacts ==
    ASSUME NEW s \in Sellers, NEW actor \in {"AFFILIATE", "ADMIN", "BUYER", "SYSTEM"},
           NEW from, NEW to, <<from, to>> \in AllowedSteps(s, actor)
    PROVE  /\ from \in Shippable \cup {"PENDING_PAYMENT"}
           /\ to # "PENDING_PAYMENT"
           /\ to \in Shippable => from \in Shippable
<1>1. <<from, to>> \in SellerSteps(s) \cup DeliveredSteps \cup {<<"PENDING_PAYMENT", "CANCELLED">>}
  BY DEF AllowedSteps
<1> QED
  BY <1>1 DEF SellerSteps, DeliveredSteps, Shippable, InProgress

LEMMA TransitionMoves ==
    ASSUME TypeOK, NEW o \in Orders, NEW s \in Sellers, NEW to \in ChildStates,
           NEW actor \in {"AFFILIATE", "ADMIN", "BUYER", "SYSTEM"},
           TransitionSellerOrder(o, s, actor, to), UNCHANGED loyaltyVars, UNCHANGED paymentVars
    PROVE  SellerMoved(o, s, to) /\ OthersKept(o)
<1>1. <<child[o][s], to>> \in AllowedSteps(s, actor)
  BY DEF TransitionSellerOrder
<1>2. /\ child[o][s] \in Shippable \cup {"PENDING_PAYMENT"}
      /\ to # "PENDING_PAYMENT"
      /\ to \in Shippable => child[o][s] \in Shippable
  BY <1>1, AllowedStepFacts
<1>3. SellerFrame(o) /\ MoveChild(o, s, to)
  BY DEF TransitionSellerOrder, SellerFrame, stockVars
<1>4. issue' = issue /\ cancellation' = cancellation
  BY DEF TransitionSellerOrder
<1>5. ledger' = ledger \/ ledger' = [ledger EXCEPT ![o][s] = EarningsReleased(ledger[o][s])]
  BY DEF TransitionSellerOrder, SetLedger
<1>6. /\ WritesOne(issue, issue', o, s) /\ WritesOne(cancellation, cancellation', o, s)
      /\ WritesOne(ledger, ledger', o, s)
      /\ ledger'[o][s] \in SellerLedgers(ledger[o][s])
  BY <1>4, <1>5, SellerRowTypes, SellerLedgerForms DEF WritesOne
<1>7. /\ OthersKept(o)
      /\ \A t \in Sellers \ {s} : ledger'[o][t] = ledger[o][t]
      /\ ReconciledTo(o) /\ child'[o] = [child[o] EXCEPT ![s] = to]
  BY <1>3, <1>6, OneSellerOrder
<1>8. /\ child[o][s] \notin {"NONE", "CANCELLED", "REFUNDED"}
      /\ to \in Shippable => {child[o][s], issue[o][s], cancellation[o][s]} \cap Shippable # {}
  BY <1>2 DEF Shippable, InProgress
<1> QED
  BY <1>2, <1>3, <1>4, <1>6, <1>7, <1>8, SellerFrameFacts DEF SellerMoved

\* A buyer's issue and an affiliate's cancellation request.
LEMMA RequestMoves ==
    ASSUME TypeOK, NEW o \in Orders, NEW s \in Sellers,
           CreateBuyerIssue(o, s) \/ RequestSellerCancellation(o, s),
           UNCHANGED loyaltyVars, UNCHANGED paymentVars
    PROVE  (\E to \in ChildStates : SellerMoved(o, s, to)) /\ OthersKept(o)
<1>0. /\ "DISPUTED" \in ChildStates /\ "CANCELLATION_REQUESTED" \in ChildStates
      /\ ({"DISPUTED", "CANCELLATION_REQUESTED"} \cap Shippable) = {}
      /\ child[o][s] \in ChildStates \cup {"NONE"} /\ "NONE" \in ChildStates \cup {"NONE"}
      /\ ledger[o][s] \in SellerLedgers(ledger[o][s])
  BY SellerLedgerForms DEF TypeOK, SellerTypeOK, ChildStates, Shippable, InProgress
<1>1. CASE CreateBuyerIssue(o, s)
  <2>1. SellerFrame(o) /\ MoveChild(o, s, "DISPUTED")
    BY <1>1 DEF CreateBuyerIssue, SellerFrame, stockVars
  <2>2. /\ s # Store /\ issue[o][s] = "NONE" /\ child[o][s] \notin {"NONE", "CANCELLED", "REFUNDED"}
        /\ issue' = [issue EXCEPT ![o][s] = child[o][s]]
        /\ cancellation' = cancellation /\ ledger' = ledger
    BY <1>1 DEF CreateBuyerIssue, Closed
  <2>3. /\ WritesOne(issue, issue', o, s) /\ WritesOne(cancellation, cancellation', o, s)
        /\ WritesOne(ledger, ledger', o, s) /\ issue'[o][s] = child[o][s]
    BY <2>2, SellerRowTypes DEF WritesOne
  <2>4. /\ OthersKept(o)
        /\ \A t \in Sellers \ {s} : /\ issue'[o][t] = issue[o][t] /\ ledger'[o][t] = ledger[o][t]
        /\ ReconciledTo(o) /\ child'[o] = [child[o] EXCEPT ![s] = "DISPUTED"]
    BY <1>0, <2>1, <2>3, OneSellerOrder
  <2> QED
    BY <1>0, <2>1, <2>2, <2>3, <2>4, SellerFrameFacts DEF SellerMoved
<1>2. CASE RequestSellerCancellation(o, s)
  <2>1. SellerFrame(o) /\ MoveChild(o, s, "CANCELLATION_REQUESTED")
    BY <1>2 DEF RequestSellerCancellation, SellerFrame, stockVars
  <2>2. /\ child[o][s] \notin {"NONE", "PENDING_PAYMENT", "CANCELLED", "REFUNDED"}
        /\ cancellation' = [cancellation EXCEPT ![o][s] = child[o][s]]
        /\ issue' = issue /\ ledger' = ledger
    BY <1>2 DEF RequestSellerCancellation, Closed
  <2>3. /\ WritesOne(issue, issue', o, s) /\ WritesOne(cancellation, cancellation', o, s)
        /\ WritesOne(ledger, ledger', o, s) /\ cancellation'[o][s] = child[o][s]
    BY <2>2, SellerRowTypes DEF WritesOne
  <2>4. /\ OthersKept(o)
        /\ \A t \in Sellers \ {s} : /\ cancellation'[o][t] = cancellation[o][t]
                                    /\ ledger'[o][t] = ledger[o][t]
        /\ ReconciledTo(o) /\ child'[o] = [child[o] EXCEPT ![s] = "CANCELLATION_REQUESTED"]
    BY <1>0, <2>1, <2>3, OneSellerOrder
  <2> QED
    BY <1>0, <2>1, <2>2, <2>3, <2>4, SellerFrameFacts DEF SellerMoved
<1> QED
  BY <1>1, <1>2

\* The decision on an issue or on a cancellation request that was left open
\* leads to an end, or back to the status it remembers.
LEMMA DecisionMoves ==
    ASSUME TypeOK, NEW o \in Orders, NEW s \in Sellers, NEW to \in ChildStates,
           SellerFrame(o), MoveChild(o, s, to),
           \/ /\ issue[o][s] # "NONE" /\ issue' = [issue EXCEPT ![o][s] = "NONE"]
              /\ cancellation' = cancellation
              /\ to \in {"COMPLETED", "REFUNDED", issue[o][s]}
           \/ /\ cancellation[o][s] # "NONE"
              /\ cancellation' = [cancellation EXCEPT ![o][s] = "NONE"]
              /\ issue' = issue
              /\ to \in {"CANCELLED", "REFUNDED", cancellation[o][s]},
           NEW l \in SellerLedgers(ledger[o][s]),
           ledger' = ledger \/ ledger' = [ledger EXCEPT ![o][s] = l]
    PROVE  SellerMoved(o, s, to) /\ OthersKept(o)
<1>0. {"COMPLETED", "REFUNDED", "CANCELLED"} \cap (Shippable \cup {"PENDING_PAYMENT"}) = {}
  BY DEF Shippable, InProgress
<1>1. /\ WritesOne(issue, issue', o, s) /\ WritesOne(cancellation, cancellation', o, s)
      /\ WritesOne(ledger, ledger', o, s)
      /\ issue' = [issue EXCEPT ![o][s] = "NONE"] => issue'[o][s] = "NONE"
      /\ cancellation' = [cancellation EXCEPT ![o][s] = "NONE"] => cancellation'[o][s] = "NONE"
      /\ ledger'[o][s] \in SellerLedgers(ledger[o][s])
  BY SellerRowTypes, SellerLedgerForms DEF WritesOne
<1>2. /\ OthersKept(o)
      /\ \A t \in Sellers \ {s} : /\ issue'[o][t] = issue[o][t]
                                  /\ cancellation'[o][t] = cancellation[o][t]
                                  /\ ledger'[o][t] = ledger[o][t]
      /\ ReconciledTo(o) /\ child'[o] = [child[o] EXCEPT ![s] = to]
  BY <1>1, OneSellerOrder
<1>3. /\ Decision(o, s)
      /\ issue[o][s] # "NONE" \/ cancellation[o][s] # "NONE"
      /\ to = "PENDING_PAYMENT" => \/ issue[o][s] = "PENDING_PAYMENT" /\ issue'[o][s] = "NONE"
                                   \/ cancellation[o][s] = "PENDING_PAYMENT"
      /\ to \in Shippable => to \in {issue[o][s], cancellation[o][s]}
      /\ issue'[o][s] \in {issue[o][s], "NONE"}
      /\ cancellation'[o][s] \in {cancellation[o][s], "NONE"}
  BY <1>0, <1>1 DEF Decision
<1>4. to \in Shippable => {child[o][s], issue[o][s], cancellation[o][s]} \cap Shippable # {}
  BY <1>3
<1> QED
  BY <1>1, <1>2, <1>3, <1>4, SellerFrameFacts DEF SellerMoved

LEMMA SellerStepMoves ==
    ASSUME TypeOK, NEW o \in Orders, NEW s \in Sellers, SellerStep(o, s), UNCHANGED paymentVars
    PROVE  (\E to \in ChildStates : SellerMoved(o, s, to)) /\ OthersKept(o)
<1>0. /\ UNCHANGED loyaltyVars
      /\ "COMPLETED" \in ChildStates /\ "REFUNDED" \in ChildStates /\ "CANCELLED" \in ChildStates
      /\ issue[o][s] # "NONE" => issue[o][s] \in ChildStates
      /\ cancellation[o][s] # "NONE" => cancellation[o][s] \in ChildStates
      /\ ledger[o][s] \in SellerLedgers(ledger[o][s])
      /\ EarningsReleased(ledger[o][s]) \in SellerLedgers(ledger[o][s])
  BY SellerLedgerForms DEF SellerStep, ChildStates, TypeOK, SellerTypeOK
<1>1. ASSUME NEW actor \in {"AFFILIATE", "ADMIN", "BUYER", "SYSTEM"}, NEW to \in ChildStates,
             TransitionSellerOrder(o, s, actor, to)
      PROVE  (\E t \in ChildStates : SellerMoved(o, s, t)) /\ OthersKept(o)
  BY <1>0, <1>1, TransitionMoves
<1>2. CASE CreateBuyerIssue(o, s) \/ RequestSellerCancellation(o, s)
  BY <1>0, <1>2, RequestMoves
<1>3. CASE ContinueAfterIssue(o, s)
  <2>1. /\ SellerFrame(o) /\ MoveChild(o, s, issue[o][s]) /\ issue[o][s] # "NONE"
        /\ issue' = [issue EXCEPT ![o][s] = "NONE"]
        /\ cancellation' = cancellation /\ ledger' = ledger
    BY <1>0, <1>3 DEF ContinueAfterIssue, SellerFrame, stockVars
  <2> QED
    BY <1>0, <2>1, DecisionMoves
<1>4. CASE CompleteAfterIssue(o, s)
  <2>1. /\ SellerFrame(o) /\ MoveChild(o, s, "COMPLETED") /\ issue[o][s] # "NONE"
        /\ issue' = [issue EXCEPT ![o][s] = "NONE"] /\ cancellation' = cancellation
        /\ ledger' = [ledger EXCEPT ![o][s] = EarningsReleased(ledger[o][s])]
    BY <1>0, <1>4 DEF CompleteAfterIssue, SellerFrame, stockVars, SetLedger
  <2> QED
    BY <1>0, <2>1, DecisionMoves
<1>5. CASE RejectCancellation(o, s) \/ ApproveCancellationWithoutRefund(o, s)
  <2>1. PICK to \in {"CANCELLED", cancellation[o][s]} :
             /\ SellerFrame(o) /\ MoveChild(o, s, to) /\ cancellation[o][s] # "NONE"
             /\ cancellation' = [cancellation EXCEPT ![o][s] = "NONE"]
             /\ issue' = issue /\ ledger' = ledger
    BY <1>0, <1>5 DEF RejectCancellation, ApproveCancellationWithoutRefund, SellerFrame, stockVars
  <2> QED
    BY <1>0, <2>1, DecisionMoves
<1>6. ASSUME NEW amount \in 1 .. Gross, NEW lines,
             \/ PartialRefundAfterIssue(o, s, amount, lines)
             \/ FullRefundAfterIssue(o, s, amount, lines)
             \/ ApproveCancellationWithRefund(o, s, amount, lines)
      PROVE  (\E to \in ChildStates : SellerMoved(o, s, to)) /\ OthersKept(o)
  <2>1. reservation' = reservation /\ SellerFrame(o)
    BY <1>0, <1>6 DEF PartialRefundAfterIssue, FullRefundAfterIssue,
       ApproveCancellationWithRefund, RecordAffiliateRefund, Restock, SellerFrame, stockVars
  <2>2. PICK l \in SellerLedgers(ledger[o][s]), to \in {"COMPLETED", "REFUNDED"} :
             /\ MoveChild(o, s, to)
             /\ ledger' = [ledger EXCEPT ![o][s] = l]
             /\ \/ /\ issue[o][s] # "NONE" /\ issue' = [issue EXCEPT ![o][s] = "NONE"]
                   /\ cancellation' = cancellation
                \/ /\ cancellation[o][s] # "NONE" /\ issue' = issue /\ to = "REFUNDED"
                   /\ cancellation' = [cancellation EXCEPT ![o][s] = "NONE"]
    <3>1. /\ RefundedLedger(o, s, amount) \in SellerLedgers(ledger[o][s])
          /\ EarningsReleased(RefundedLedger(o, s, amount)) \in SellerLedgers(ledger[o][s])
      BY RefundedLedgerForms, EarningsAssumption
    <3> QED
      BY <1>6, <3>1 DEF PartialRefundAfterIssue, FullRefundAfterIssue,
         ApproveCancellationWithRefund, SetLedger
  <2> QED
    BY <1>0, <2>1, <2>2, DecisionMoves
<1>7. ASSUME NEW amount \in 1 .. Gross, NEW lines, RefundSellerOrder(o, s, amount, lines)
      PROVE  (\E to \in ChildStates : SellerMoved(o, s, to)) /\ OthersKept(o)
  <2>1. SellerFrame(o) /\ MoveChild(o, s, "REFUNDED")
    BY <1>0, <1>7 DEF RefundSellerOrder, RecordAffiliateRefund, Restock, SellerFrame, stockVars
  <2>2. /\ child[o][s] \notin {"NONE", "PENDING_PAYMENT", "CANCELLED", "REFUNDED"}
        /\ issue' = issue /\ cancellation' = cancellation
        /\ ledger' = [ledger EXCEPT ![o][s] = RefundedLedger(o, s, amount)]
    BY <1>7 DEF RefundSellerOrder, SetLedger
  <2>3. /\ WritesOne(issue, issue', o, s) /\ WritesOne(cancellation, cancellation', o, s)
        /\ WritesOne(ledger, ledger', o, s)
        /\ ledger'[o][s] = RefundedLedger(o, s, amount)
    BY <2>2, SellerRowTypes DEF WritesOne
  <2>4. ledger'[o][s] \in SellerLedgers(ledger[o][s])
    BY <2>3, RefundedLedgerForms, EarningsAssumption
  <2>5. /\ OthersKept(o)
        /\ \A t \in Sellers \ {s} : ledger'[o][t] = ledger[o][t]
        /\ ReconciledTo(o) /\ child'[o] = [child[o] EXCEPT ![s] = "REFUNDED"]
    BY <1>0, <2>1, <2>3, OneSellerOrder
  <2>6. "REFUNDED" \notin Shippable
    BY DEF Shippable, InProgress
  <2> QED
    BY <1>0, <2>1, <2>2, <2>4, <2>5, <2>6, SellerFrameFacts DEF SellerMoved
<1>8. CASE BuyerStep(o, s) \/ AffiliateStep(o, s) \/ SystemStep(o, s)
  BY <1>0, <1>1, <1>2, <1>8 DEF BuyerStep, AffiliateStep, SystemStep
<1>9. CASE AdminStep(o, s)
  BY <1>1, <1>3, <1>4, <1>5, <1>6, <1>7, <1>9, AdminStepDoes DEF AdminDoes
<1> QED
  BY <1>8, <1>9 DEF SellerStep

-----------------------------------------------------------------------------
(* What the loops over the rows of one order do.                            *)

LEMMA ReserveFacts ==
    ASSUME TypeOK, NEW o \in Orders, NEW lines, ReserveStock(o, lines)
    PROVE  /\ Lines(o) = {} /\ \E p \in lines : TRUE
           /\ \A p \in Products : reservation'[o][p] \in {"ACTIVE", reservation[o][p]}
           /\ \A q \in Orders \ {o} : reservation'[q] = reservation[q]
BY DEF ReserveStock, Marked, TypeOK, StockTypeOK

LEMMA ReleaseFacts ==
    ASSUME TypeOK, NEW o \in Orders, ReleaseReservations(o)
    PROVE  /\ \A p \in Products : reservation'[o][p] =
                 IF reservation[o][p] = "ACTIVE" THEN "RELEASED" ELSE reservation[o][p]
           /\ \A q \in Orders \ {o} : reservation'[q] = reservation[q]
BY DEF ReleaseReservations, Marked, Active, LinesIn, TypeOK, StockTypeOK

LEMMA TakeFacts ==
    ASSUME TypeOK, NEW o \in Orders, TakeReserved(o)
    PROVE  /\ \A p \in Products : reservation'[o][p] =
                 IF reservation[o][p] = "ACTIVE" THEN "CONSUMED" ELSE reservation[o][p]
           /\ \A q \in Orders \ {o} : reservation'[q] = reservation[q]
BY DEF TakeReserved, Marked, Active, LinesIn, TypeOK, StockTypeOK

LEMMA AcquireFacts ==
    ASSUME TypeOK, NEW o \in Orders, AcquireLateStock(o)
    PROVE  /\ Lines(o) # {}
           /\ \A p \in Lines(o) : reservation'[o][p] = "CONSUMED"
           /\ \A p \in Products \ Lines(o) : reservation'[o][p] = reservation[o][p]
           /\ \A q \in Orders \ {o} : reservation'[q] = reservation[q]
<1>1. reservation' = Marked(o, LinesIn(o, {"ACTIVE", "RELEASED"}), "CONSUMED") /\ Lines(o) # {}
  <2>1. Active(o) \cup LinesIn(o, {"RELEASED"}) = LinesIn(o, {"ACTIVE", "RELEASED"})
    BY DEF Active, LinesIn
  <2> QED
    BY <2>1 DEF AcquireLateStock
<1> QED
  BY <1>1 DEF Marked, Lines, LinesIn, TypeOK, StockTypeOK

\* Which fields of an order its points are kept in.
LEMMA PointsFacts ==
    ASSUME TypeOK, NEW o \in Orders
    PROVE  /\ ReleaseOrderLoyaltyReservation(o) =>
                 /\ redemption'[o] = AfterRelease(redemption[o]) /\ entries' = entries
                 /\ \A q \in Orders \ {o} : redemption'[q] = redemption[q]
           /\ ReverseOrderLoyalty(o) =>
                 /\ redemption'[o] = AfterReversal(o, redemption[o])
                 /\ entries[o] = {} => entries'[o] = {}
                 /\ \A q \in Orders \ {o} : redemption'[q] = redemption[q] /\ entries'[q] = entries[q]
           /\ ReleaseAndReverseLoyalty(o) =>
                 /\ entries[o] = {} => entries'[o] = {}
                 /\ \A q \in Orders \ {o} : redemption'[q] = redemption[q] /\ entries'[q] = entries[q]
           /\ SettleOrderLoyalty(o) =>
                 \A q \in Orders \ {o} : redemption'[q] = redemption[q] /\ entries'[q] = entries[q]
<1> USE DEF TypeOK, LoyaltyTypeOK
<1>1. ASSUME ReleaseOrderLoyaltyReservation(o)
      PROVE  /\ redemption'[o] = AfterRelease(redemption[o]) /\ entries' = entries
             /\ \A q \in Orders \ {o} : redemption'[q] = redemption[q]
  BY <1>1 DEF ReleaseOrderLoyaltyReservation
<1>2. ASSUME entries' = ReversedEntries(o)
      PROVE  /\ entries[o] = {} => entries'[o] = {}
             /\ \A q \in Orders \ {o} : entries'[q] = entries[q]
  BY <1>2 DEF ReversedEntries, EarnReversible, RedeemReversible
<1>3. ASSUME ReverseOrderLoyalty(o)
      PROVE  /\ redemption'[o] = AfterReversal(o, redemption[o])
             /\ \A q \in Orders \ {o} : redemption'[q] = redemption[q]
  BY <1>3 DEF ReverseOrderLoyalty
<1>4. ASSUME ReleaseAndReverseLoyalty(o)
      PROVE  \A q \in Orders \ {o} : redemption'[q] = redemption[q]
  BY <1>4 DEF ReleaseAndReverseLoyalty
<1>5. ASSUME SettleOrderLoyalty(o)
      PROVE  \A q \in Orders \ {o} : redemption'[q] = redemption[q] /\ entries'[q] = entries[q]
  BY <1>5 DEF SettleOrderLoyalty
<1> QED
  BY <1>1, <1>2, <1>3, <1>4, <1>5 DEF ReverseOrderLoyalty, ReleaseAndReverseLoyalty

LEMMA OpenFacts ==
    ASSUME TypeOK, NEW o \in Orders, NEW lines \in SUBSET Products, lines # {},
           OpenSellerOrders(o, lines)
    PROVE  /\ \A s \in Sellers : child'[o][s] \in {"NONE", "PENDING_PAYMENT"}
           /\ \E s \in Sellers : child'[o][s] # "NONE"
           /\ \A q \in Orders \ {o} : child'[q] = child[q]
<1>1. /\ \A s \in Sellers : child'[o][s] =
            IF s \in SellersOf(lines) THEN "PENDING_PAYMENT" ELSE "NONE"
      /\ \A q \in Orders \ {o} : child'[q] = child[q]
  BY DEF OpenSellerOrders, TypeOK, SellerTypeOK
<1>2. PICK p \in lines : TRUE
  OBVIOUS
<1>3. SellerOf[p] \in Sellers /\ SellerOf[p] \in SellersOf(lines)
  BY SellerOfAssumption DEF SellersOf
<1> QED
  BY <1>1, <1>3

LEMMA CloseUnpaidFacts ==
    ASSUME TypeOK, NEW o \in Orders, CloseUnpaidSellerOrders(o)
    PROVE  /\ \A s \in Sellers : child'[o][s] =
                 IF child[o][s] = "PENDING_PAYMENT" THEN "CANCELLED" ELSE child[o][s]
           /\ \A q \in Orders \ {o} : child'[q] = child[q]
           /\ issue' = issue /\ cancellation' = cancellation /\ ledger' = ledger
BY DEF CloseUnpaidSellerOrders, MovedChildren, TypeOK, SellerTypeOK

LEMMA SettleFacts ==
    ASSUME TypeOK, NEW o \in Orders, SettleSellerOrders(o)
    PROVE  /\ \A s \in Sellers :
                 /\ child'[o][s] = IF child[o][s] = "PENDING_PAYMENT" THEN "PAID" ELSE child[o][s]
                 /\ ledger'[o][s] \in {ledger[o][s], Credited(ledger[o][s])}
           /\ \/ ReconciledTo(o)
              \/ orderStatus'[o] = orderStatus[o] /\ \A s \in Sellers : child[o][s] = "NONE"
           /\ \A q \in Orders \ {o} :
                 child'[q] = child[q] /\ ledger'[q] = ledger[q] /\ orderStatus'[q] = orderStatus[q]
           /\ issue' = issue /\ cancellation' = cancellation
<1> DEFINE moved == MovedChildren(o, {"PENDING_PAYMENT"}, "PAID")
<1>1. /\ \A s \in Sellers :
           moved[s] = IF child[o][s] = "PENDING_PAYMENT" THEN "PAID" ELSE child[o][s]
  BY DEF MovedChildren
<1>2. /\ child' = [child EXCEPT ![o] = moved] /\ orderStatus' = Reconciled(o, moved)
      /\ issue' = issue /\ cancellation' = cancellation
  BY DEF SettleSellerOrders
<1>3. /\ \A s \in Sellers : ledger'[o][s] \in {ledger[o][s], Credited(ledger[o][s])}
      /\ \A q \in Orders \ {o} : ledger'[q] = ledger[q]
  <2> DEFINE settled == [s \in Sellers |-> IF child[o][s] = "PENDING_PAYMENT" /\ s # Store
                                           THEN Credited(ledger[o][s]) ELSE ledger[o][s]]
  <2>1. ledger' = [ledger EXCEPT ![o] = settled]
    BY DEF SettleSellerOrders
  <2>2. \A s \in Sellers : settled[s] \in {ledger[o][s], Credited(ledger[o][s])}
    OBVIOUS
  <2> HIDE DEF settled
  <2> QED
    BY <2>1, <2>2, SellerRowTypes
<1> HIDE DEF moved
<1>4. child'[o] = moved /\ \A q \in Orders \ {o} : child'[q] = child[q]
  BY <1>2 DEF TypeOK, SellerTypeOK
<1>5. CASE \A s \in Sellers : child[o][s] = "NONE"
  <2>1. \A s \in Sellers : moved[s] = "NONE"
    BY <1>1, <1>5
  <2>2. Reconciled(o, moved) = orderStatus
    BY <2>1 DEF Reconciled
  <2> QED
    BY <1>1, <1>2, <1>3, <1>4, <1>5, <2>2
<1>6. CASE \E s \in Sellers : child[o][s] # "NONE"
  <2>1. \E s \in Sellers : moved[s] # "NONE"
    BY <1>1, <1>6
  <2>2. ReconciledTo(o)
    BY <1>2, <1>4, <2>1, ReconciledFacts DEF ReconciledTo
  <2> QED
    BY <1>1, <1>2, <1>3, <1>4, <2>2, ReconciledOthers
<1> QED
  BY <1>5, <1>6

LEMMA ReverseFacts ==
    ASSUME TypeOK, NEW o \in Orders, CloseAndReverseSellerOrders(o)
    PROVE  /\ \A s \in Sellers :
                 /\ child'[o][s] = IF child[o][s] \in {"NONE", "CANCELLED", "REFUNDED"}
                                   THEN child[o][s] ELSE "REFUNDED"
                 /\ ledger'[o][s] \in {ledger[o][s], DebitedByParent(ledger[o][s])}
           /\ \A q \in Orders \ {o} : child'[q] = child[q] /\ ledger'[q] = ledger[q]
           /\ issue' = issue /\ cancellation' = cancellation
<1> DEFINE open == {s \in Children(o) : child[o][s] \notin {"CANCELLED", "REFUNDED"}}
           reversed == [s \in Sellers |-> IF s \in open \ {Store}
                                          THEN DebitedByParent(ledger[o][s]) ELSE ledger[o][s]]
           closed == [s \in Sellers |-> IF s \in open THEN "REFUNDED" ELSE child[o][s]]
<1>1. /\ child' = [child EXCEPT ![o] = closed] /\ ledger' = [ledger EXCEPT ![o] = reversed]
      /\ issue' = issue /\ cancellation' = cancellation
  BY DEF CloseAndReverseSellerOrders
<1>2. \A s \in Sellers :
        /\ closed[s] = IF child[o][s] \in {"NONE", "CANCELLED", "REFUNDED"}
                       THEN child[o][s] ELSE "REFUNDED"
        /\ reversed[s] \in {ledger[o][s], DebitedByParent(ledger[o][s])}
  BY DEF Children
<1> HIDE DEF closed, reversed
<1> QED
  BY <1>1, <1>2, SellerRowTypes DEF TypeOK, SellerTypeOK

-----------------------------------------------------------------------------
(* What the handlers on a whole order do.                                   *)

LEMMA StatusFacts ==
    ASSUME TypeOK, NEW o \in Orders, NEW status, SetStatus(o, status)
    PROVE  orderStatus'[o] = status /\ \A q \in Orders \ {o} : orderStatus'[q] = orderStatus[q]
BY DEF SetStatus, TypeOK, SellerTypeOK

LEMMA CheckoutStepMoves ==
    ASSUME TypeOK, Placement, NEW o \in Orders, CheckoutStep(o)
    PROVE  (Opened(o) \/ Kept(o)) /\ OthersKept(o)
<1>1. ASSUME NEW lines \in SUBSET Products, NEW m \in Methods, NEW redeems \in BOOLEAN,
             NEW earned \in BOOLEAN, PlaceOrder(o, lines, m, redeems, earned)
      PROVE  Opened(o) /\ OthersKept(o)
  <2>1. /\ ReserveStock(o, lines) /\ OpenSellerOrders(o, lines)
        /\ SetStatus(o, "PENDING_PAYMENT") /\ orderStatus[o] = "NONE" /\ lines # {}
        /\ issue' = issue /\ cancellation' = cancellation /\ ledger' = ledger /\ receipt' = receipt
    BY <1>1 DEF PlaceOrder, ReserveStock
  <2>2. /\ redemption'[o] \in {"NONE", "RESERVED"} /\ entries' = entries
        /\ \A q \in Orders \ {o} : redemption'[q] = redemption[q]
    BY <1>1 DEF PlaceOrder, ReserveLoyaltyPoints, TypeOK, LoyaltyTypeOK
  <2>3. \A q \in Orders \ {o} : method'[q] = method[q]
    BY <1>1 DEF PlaceOrder, TypeOK
  <2> QED
    BY <2>1, <2>2, <2>3, ReserveFacts, OpenFacts, StatusFacts DEF Opened, OthersKept, Kept
<1>2. CASE \/ RequestCheckoutSession(o) \/ CheckoutSessionAnswered(o) \/ PaymentWindowCloses(o)
  BY <1>2 DEF RequestCheckoutSession, CheckoutSessionAnswered, PaymentWindowCloses, SetProvider,
              stockVars, loyaltyVars, sellerVars, childVars, Kept, OthersKept
<1> QED
  BY <1>1, <1>2 DEF CheckoutStep

\* The fields that closing an unpaid order writes.
LEMMA ClosingMoves ==
    ASSUME TypeOK, NEW o \in Orders, PaymentPending(o),
           NEW status \in {"CANCELLED", "EXPIRED"}, SetStatus(o, status),
           CloseUnpaidSellerOrders(o), ReleaseReservations(o), ReleaseOrderLoyaltyReservation(o),
           UNCHANGED method,
           \A r \in Receipts : receipt'[o][r] \in {receipt[o][r], "REJECTED"},
           \A q \in Orders \ {o} : receipt'[q] = receipt[q]
    PROVE  ClosedUnpaid(o) /\ OthersKept(o)
BY ReleaseFacts, PointsFacts, CloseUnpaidFacts, StatusFacts DEF ClosedUnpaid, OthersKept, Kept

LEMMA UnpaidStepMoves ==
    ASSUME TypeOK, NEW o \in Orders, UnpaidStep(o)
    PROVE  ClosedUnpaid(o) /\ OthersKept(o)
<1>1. PICK status \in {"CANCELLED", "EXPIRED"} :
        /\ PaymentPending(o) /\ SetStatus(o, status) /\ CloseUnpaidSellerOrders(o)
        /\ ReleaseReservations(o) /\ ReleaseOrderLoyaltyReservation(o)
        /\ UNCHANGED <<method, receipt>>
  BY DEF UnpaidStep, CancelByCustomer, CancelByAdmin, ExpireReservations,
         ReleaseReservationsChecked, paymentVars
<1> QED
  BY <1>1, ClosingMoves

LEMMA DecidedFacts ==
    ASSUME TypeOK, NEW o \in Orders, NEW r \in Receipts, NEW decision,
           receipt' = Decided(o, r, decision)
    PROVE  /\ \A q \in Receipts : receipt'[o][q] =
                 IF q = r THEN decision
                 ELSE IF receipt[o][q] = "PENDING" THEN "REJECTED" ELSE receipt[o][q]
           /\ \A q \in Orders \ {o} : receipt'[q] = receipt[q]
BY DEF Decided, TypeOK

LEMMA TransferStepMoves ==
    ASSUME TypeOK, NEW o \in Orders, TransferStep(o)
    PROVE  (Submitted(o) \/ Accredited(o) \/ ClosedUnpaid(o)) /\ OthersKept(o)
<1>1. PICK r \in Receipts : SubmitReceipt(o, r) \/ ApproveTransfer(o, r) \/ RejectTransfer(o, r)
  BY DEF TransferStep
<1>2. CASE SubmitReceipt(o, r)
  <2>1. /\ PaymentPending(o) /\ method[o] = "BANK_TRANSFER" /\ SetStatus(o, "PAYMENT_REVIEW")
        /\ UNCHANGED <<reservation, redemption, entries, childVars, method>>
    BY <1>2 DEF SubmitReceipt, stockVars, loyaltyVars
  <2>2. /\ \A q \in Receipts : receipt'[o][q] \in {receipt[o][q], "PENDING"}
        /\ \A q \in Orders \ {o} : receipt'[q] = receipt[q]
    BY <1>2 DEF SubmitReceipt, TypeOK
  <2> QED
    BY <2>1, <2>2, StatusFacts DEF Submitted, OthersKept, Kept, childVars
<1>3. CASE ApproveTransfer(o, r)
  <2>1. /\ PaymentPending(o) /\ method[o] = "BANK_TRANSFER" /\ TakeReserved(o) /\ Active(o) # {}
        /\ SettleOrderLoyalty(o) /\ SettleSellerOrders(o)
        /\ receipt' = Decided(o, r, "APPROVED") /\ method' = method
    BY <1>3 DEF ApproveTransfer, Reviewable, ConsumeReservations
  <2>2. Lines(o) # {} /\ \A p \in Lines(o) : p \in Products
    BY <2>1 DEF Active, Lines, LinesIn
  <2>3. \A p \in Products \ Lines(o) : reservation[o][p] # "ACTIVE"
    BY DEF Lines, LinesIn
  <2> QED
    BY <2>1, <2>2, <2>3, TakeFacts, SettleFacts, PointsFacts, DecidedFacts
    DEF Accredited, OthersKept, Kept
<1>4. CASE RejectTransfer(o, r)
  <2>1. /\ PaymentPending(o) /\ SetStatus(o, "CANCELLED") /\ CloseUnpaidSellerOrders(o)
        /\ ReleaseReservations(o) /\ ReleaseOrderLoyaltyReservation(o)
        /\ receipt' = Decided(o, r, "REJECTED") /\ method' = method
    BY <1>4 DEF RejectTransfer, Reviewable, ReleaseReservationsChecked
  <2>2. /\ \A q \in Receipts : receipt'[o][q] \in {receipt[o][q], "REJECTED"}
        /\ \A q \in Orders \ {o} : receipt'[q] = receipt[q]
    BY <2>1, DecidedFacts
  <2> QED
    BY <2>1, <2>2, ClosingMoves
<1> QED
  BY <1>1, <1>2, <1>3, <1>4

\* What a late payment and a full refund recorded by hand do.
LEMMA SettlementStepMoves ==
    ASSUME TypeOK, Placement, NEW o \in Orders, SettlementStep(o)
    PROVE  (Accredited(o) \/ Refunded(o)) /\ OthersKept(o)
<1>1. CASE FulfillLatePayment(o)
  <2>1. /\ orderStatus[o] = "PAYMENT_REQUIRES_REVIEW" /\ AcquireLateStock(o)
        /\ SettleOrderLoyalty(o) /\ SettleSellerOrders(o) /\ UNCHANGED <<method, receipt>>
    BY <1>1 DEF FulfillLatePayment, paymentVars
  <2> QED
    BY <2>1, AcquireFacts, SettleFacts, PointsFacts DEF Accredited, OthersKept, Kept
<1>2. CASE RecordFullRefund(o)
  <2>1. /\ paymentStatus[o] \in {"APPROVED", "REQUIRES_REVIEW"}
        /\ SetStatus(o, "REFUND_RECORDED") /\ ReverseOrderLoyalty(o)
        /\ CloseAndReverseSellerOrders(o) /\ UNCHANGED <<reservation, method, receipt>>
    BY <1>2 DEF RecordFullRefund, paymentVars, stockVars
  <2>2. orderStatus[o] # "NONE"
    BY <2>1 DEF Placement
  <2> QED
    BY <2>1, <2>2, ReverseFacts, PointsFacts, StatusFacts DEF Refunded, OthersKept, Kept
<1> QED
  BY <1>1, <1>2 DEF SettlementStep

LEMMA ApplyMoves ==
    ASSUME TypeOK, Placement, NEW a \in inFlight, ApplyMercadoProviderState(a)
    PROVE  /\ Accredited(a.order) \/ ClosedUnpaid(a.order) \/ Refunded(a.order)
                \/ Reviewed(a.order)
           /\ OthersKept(a.order)
<1> DEFINE o == a.order
<1>0. /\ o \in Orders /\ method[o] = "MERCADO_PAGO" /\ orderStatus[o] # "NONE"
  <2>1. o \in Orders
    BY DEF TypeOK, Answers
  <2> QED
    BY <2>1 DEF Placement
<1>1. Applied(a)
  BY DEF ApplyMercadoProviderState, ApplyReview, ApplyLateApproval, ApplyApproval, ApplyFailure,
         ApplyRefund, ApplyStatusOnly
<1>2. method' = method /\ receipt' = receipt
  BY <1>1 DEF Applied
<1>3. CASE ApplyReview(a) \/ ApplyLateApproval(a) \/ ApplyStatusOnly(a)
  <2>1. /\ orderStatus' = orderStatus \/ SetStatus(o, "PAYMENT_REQUIRES_REVIEW")
        /\ UNCHANGED <<reservation, redemption, entries, childVars>>
    BY <1>3 DEF ApplyReview, ApplyLateApproval, ApplyStatusOnly, MoveToPaymentReview, stockVars,
                loyaltyVars
  <2> QED
    BY <1>0, <1>2, <2>1, StatusFacts DEF Reviewed, OthersKept, Kept, childVars
<1>4. CASE ApplyApproval(a)
  <2>1. /\ PaymentPending(o) /\ TakeReserved(o) /\ Active(o) # {} /\ Lines(o) # {}
        /\ SettleSellerOrders(o) /\ SettleOrderLoyalty(o)
    BY <1>4 DEF ApplyApproval, ReservationsValid
  <2>2. /\ \A p \in Lines(o) : p \in Products
        /\ \A p \in Products \ Lines(o) : reservation[o][p] # "ACTIVE"
    BY DEF Lines, LinesIn
  <2> QED
    BY <1>0, <1>2, <2>1, <2>2, TakeFacts, SettleFacts, PointsFacts
    DEF Accredited, OthersKept, Kept
<1>5. CASE ApplyFailure(a)
  <2>1. /\ PaymentPending(o) /\ SetStatus(o, "EXPIRED") /\ CloseUnpaidSellerOrders(o)
        /\ ReleaseReservations(o) /\ ReleaseOrderLoyaltyReservation(o)
    BY <1>5 DEF ApplyFailure
  <2> HIDE DEF o
  <2> QED
    BY <1>0, <1>2, <2>1, ClosingMoves DEF o
<1>6. CASE ApplyRefund(a)
  <2>1. /\ ReleaseReservations(o) /\ SetStatus(o, "REFUND_RECORDED")
        /\ ReleaseAndReverseLoyalty(o) /\ CloseAndReverseSellerOrders(o)
    BY <1>6 DEF ApplyRefund
  <2> QED
    BY <1>0, <1>2, <2>1, ReleaseFacts, PointsFacts, ReverseFacts, StatusFacts
    DEF Refunded, OthersKept, Kept
<1> QED
  BY <1>3, <1>4, <1>5, <1>6 DEF ApplyMercadoProviderState

LEMMA NextMoves ==
    ASSUME TypeOK, Placement, [Next]_vars
    PROVE  \A q \in Orders : Move(q)
<1>1. ASSUME NEW o \in Orders, Move(o), OthersKept(o)
      PROVE  \A q \in Orders : Move(q)
  BY <1>1 DEF OthersKept, Move
<1>2. ASSUME NEW o \in Orders,
             CheckoutStep(o) \/ UnpaidStep(o) \/ TransferStep(o) \/ SettlementStep(o)
      PROVE  \A q \in Orders : Move(q)
  <2>1. Move(o) /\ OthersKept(o)
    BY <1>2, CheckoutStepMoves, UnpaidStepMoves, TransferStepMoves, SettlementStepMoves DEF Move
  <2> QED
    BY <1>1, <2>1
<1>3. ASSUME NEW o \in Orders, NEW s \in Sellers, SellerStep(o, s), UNCHANGED paymentVars
      PROVE  \A q \in Orders : Move(q)
  <2>1. Move(o) /\ OthersKept(o)
    BY <1>3, SellerStepMoves DEF Move
  <2> QED
    BY <1>1, <2>1
<1>4. CASE MercadoPagoStep
  <2>1. ASSUME NEW a \in inFlight, ApplyMercadoProviderState(a) PROVE \A q \in Orders : Move(q)
    <3>1. a.order \in Orders /\ Move(a.order) /\ OthersKept(a.order)
      BY <2>1, ApplyMoves DEF Move, TypeOK, Answers
    <3> QED
      BY <1>1, <3>1
  <2>2. ASSUME NEW o, NEW f, NEW a,
               ProviderMoves(o) \/ FetchOrder(f, o) \/ FetchPayment(f, o) \/ LoseAnswer(a)
        PROVE  \A q \in Orders : Move(q)
    BY <2>2 DEF ProviderMoves, SetProvider, FetchOrder, FetchPayment, Received, LoseAnswer,
                stockVars, loyaltyVars, sellerVars, childVars, Move, Kept
  <2> QED
    BY <1>4, <2>1, <2>2 DEF MercadoPagoStep
<1>5. CASE InventoryStep \/ UNCHANGED vars
  BY <1>5 DEF InventoryStep, AdjustInventory, SetAffiliateStock, vars, stockVars, loyaltyVars,
              sellerVars, childVars, paymentVars, Move, Kept
<1> QED
  BY <1>2, <1>3, <1>4, <1>5 DEF Next

-----------------------------------------------------------------------------
(* Placement is kept.                                                       *)

\* What a move does to whether and how an order was placed.
LEMMA MovePlaces ==
    ASSUME NEW o \in Orders, Move(o)
    PROVE  /\ orderStatus[o] # "NONE" => orderStatus'[o] # "NONE" /\ method'[o] = method[o]
           /\ orderStatus'[o] = "NONE" => Kept(o)
           /\ orderStatus'[o] = "PAYMENT_REQUIRES_REVIEW" =>
                  orderStatus[o] = "PAYMENT_REQUIRES_REVIEW" \/ method[o] = "MERCADO_PAGO"
BY DEF Move, Kept, Opened, ClosedUnpaid, Submitted, Accredited, Reviewed, Refunded, SellerMoved,
       ReconciledTo, PaymentPending

\* The payment of an order that was not placed is not written.
LEMMA PaymentOfPlaced ==
    ASSUME TypeOK, Placement, [Next]_vars
    PROVE  \A q \in Orders : orderStatus'[q] = "NONE" => paymentStatus'[q] = paymentStatus[q]
<1>1. ASSUME NEW o \in Orders, paymentStatus' = paymentStatus \/ orderStatus'[o] # "NONE",
             \A q \in Orders \ {o} : paymentStatus'[q] = paymentStatus[q]
      PROVE  \A q \in Orders : orderStatus'[q] = "NONE" => paymentStatus'[q] = paymentStatus[q]
  BY <1>1
<1>2. ASSUME NEW o \in Orders, NEW status, SetPayment(o, status)
      PROVE  \A q \in Orders \ {o} : paymentStatus'[q] = paymentStatus[q]
  BY <1>2 DEF SetPayment, TypeOK, SellerTypeOK
<1>3. \A q \in Orders : orderStatus[q] # "NONE" => orderStatus'[q] # "NONE"
  BY NextMoves, MovePlaces
<1>4. ASSUME NEW o \in Orders, CheckoutStep(o)
      PROVE  \A q \in Orders : orderStatus'[q] = "NONE" => paymentStatus'[q] = paymentStatus[q]
  <2>1. ASSUME NEW lines, NEW m, NEW redeems, NEW earned, PlaceOrder(o, lines, m, redeems, earned)
        PROVE  orderStatus'[o] # "NONE" /\ \A q \in Orders \ {o} : paymentStatus'[q] = paymentStatus[q]
    BY <1>2, <2>1, StatusFacts DEF PlaceOrder
  <2>2. CASE RequestCheckoutSession(o) \/ CheckoutSessionAnswered(o) \/ PaymentWindowCloses(o)
    BY <2>2 DEF RequestCheckoutSession, CheckoutSessionAnswered, SetProvider,
                PaymentWindowCloses, sellerVars
  <2> QED
    BY <1>1, <1>4, <2>1, <2>2 DEF CheckoutStep
<1>5. ASSUME NEW o \in Orders, UnpaidStep(o) PROVE paymentStatus' = paymentStatus
  BY <1>5 DEF UnpaidStep, CancelByCustomer, CancelByAdmin, ExpireReservations
<1>6. ASSUME NEW o \in Orders, TransferStep(o)
      PROVE  /\ orderStatus[o] # "NONE"
             /\ \A q \in Orders \ {o} : paymentStatus'[q] = paymentStatus[q]
  BY <1>2, <1>6 DEF TransferStep, SubmitReceipt, ApproveTransfer, RejectTransfer, Reviewable,
                    PaymentPending
<1>7. ASSUME NEW o \in Orders, SettlementStep(o)
      PROVE  /\ paymentStatus' = paymentStatus \/ orderStatus[o] # "NONE"
             /\ \A q \in Orders \ {o} : paymentStatus'[q] = paymentStatus[q]
  <2>1. CASE FulfillLatePayment(o)
    BY <2>1 DEF FulfillLatePayment
  <2>2. CASE RecordFullRefund(o)
    BY <1>2, <2>2 DEF RecordFullRefund, Placement
  <2> QED
    BY <1>7, <2>1, <2>2 DEF SettlementStep
<1>8. ASSUME NEW o \in Orders, NEW s \in Sellers, SellerStep(o, s), UNCHANGED paymentVars
      PROVE  /\ orderStatus'[o] # "NONE"
             /\ \A q \in Orders \ {o} : paymentStatus'[q] = paymentStatus[q]
  <2>1. orderStatus'[o] # "NONE"
    BY <1>8, SellerStepMoves DEF SellerMoved, ReconciledTo
  <2>2. \A q \in Orders \ {o} : paymentStatus'[q] = paymentStatus[q]
    <3>1. ASSUME NEW amount, NEW lines, RecordAffiliateRefund(o, s, amount, lines)
          PROVE  \A q \in Orders \ {o} : paymentStatus'[q] = paymentStatus[q]
      BY <3>1 DEF RecordAffiliateRefund, TypeOK, SellerTypeOK
    <3> QED
      BY <1>8, <3>1, AdminStepDoes DEF SellerStep, BuyerStep, AffiliateStep, AdminDoes, SystemStep,
         TransitionSellerOrder, CreateBuyerIssue, RequestSellerCancellation, RefundSellerOrder,
         ContinueAfterIssue, CompleteAfterIssue, PartialRefundAfterIssue, FullRefundAfterIssue,
         RejectCancellation, ApproveCancellationWithRefund, ApproveCancellationWithoutRefund
  <2> QED
    BY <2>1, <2>2
<1>9. CASE MercadoPagoStep
  <2>1. ASSUME NEW a \in inFlight, ApplyMercadoProviderState(a)
        PROVE  /\ a.order \in Orders /\ orderStatus[a.order] # "NONE"
               /\ \A q \in Orders \ {a.order} : paymentStatus'[q] = paymentStatus[q]
    <3>1. a.order \in Orders
      BY DEF TypeOK, Answers
    <3>2. orderStatus[a.order] # "NONE"
      BY <3>1 DEF Placement
    <3>3. SetPayment(a.order, a.state)
      BY <2>1 DEF ApplyMercadoProviderState, ApplyReview, ApplyLateApproval, ApplyApproval,
                  ApplyFailure, ApplyRefund, ApplyStatusOnly, Applied
    <3> QED
      BY <1>2, <3>1, <3>2, <3>3
  <2>2. ASSUME NEW o, NEW f, NEW a,
               ProviderMoves(o) \/ FetchOrder(f, o) \/ FetchPayment(f, o) \/ LoseAnswer(a)
        PROVE  paymentStatus' = paymentStatus
    BY <2>2 DEF ProviderMoves, SetProvider, FetchOrder, FetchPayment, Received, LoseAnswer,
                sellerVars
  <2> QED
    BY <1>1, <1>3, <1>9, <2>1, <2>2 DEF MercadoPagoStep
<1>10. CASE InventoryStep \/ UNCHANGED vars
  BY <1>10 DEF InventoryStep, vars, sellerVars
<1> QED
  BY <1>1, <1>3, <1>4, <1>5, <1>6, <1>7, <1>8, <1>9, <1>10 DEF Next

\* Sessions are asked for, and answers fetched, of Mercado Pago orders only.
LEMMA ProviderOfPlaced ==
    ASSUME TypeOK, Placement, [Next]_vars
    PROVE  /\ \A q \in Orders : provider'[q] # "NONE" => method[q] = "MERCADO_PAGO"
           /\ \A a \in inFlight' : method[a.order] = "MERCADO_PAGO"
<1> DEFINE Goal == /\ \A q \in Orders : provider'[q] # "NONE" => method[q] = "MERCADO_PAGO"
                   /\ \A a \in inFlight' : method[a.order] = "MERCADO_PAGO"
<1>1. ASSUME UNCHANGED provider, inFlight' \subseteq inFlight PROVE Goal
  BY <1>1 DEF Placement
<1>2. ASSUME NEW o \in Orders, NEW state, SetProvider(o, state), method[o] = "MERCADO_PAGO"
      PROVE  Goal
  BY <1>2 DEF SetProvider, Placement, TypeOK
<1>3. ASSUME NEW o \in Orders, CheckoutStep(o) PROVE Goal
  <2>1. CASE RequestCheckoutSession(o) \/ CheckoutSessionAnswered(o)
    BY <1>2, <2>1 DEF RequestCheckoutSession, CheckoutSessionAnswered, Placement
  <2>2. ASSUME NEW lines, NEW m, NEW redeems, NEW earned,
               PlaceOrder(o, lines, m, redeems, earned) \/ PaymentWindowCloses(o)
        PROVE  Goal
    BY <1>1, <2>2 DEF PlaceOrder, PaymentWindowCloses
  <2> QED
    BY <1>3, <2>1, <2>2 DEF CheckoutStep
<1>4. ASSUME NEW o \in Orders, UnpaidStep(o) \/ TransferStep(o) \/ SettlementStep(o) PROVE Goal
  BY <1>1, <1>4 DEF UnpaidStep, CancelByCustomer, CancelByAdmin, ExpireReservations, TransferStep,
     SubmitReceipt, ApproveTransfer, RejectTransfer, SettlementStep, FulfillLatePayment,
     RecordFullRefund, paymentVars
<1>5. CASE UNCHANGED paymentVars
  BY <1>1, <1>5 DEF paymentVars
<1>6. CASE MercadoPagoStep
  <2>1. ASSUME NEW o \in Orders, ProviderMoves(o) PROVE Goal
    <3>1. PICK state \in Outcomes : <<provider[o], state>> \in ProviderSteps /\ SetProvider(o, state)
      BY <2>1 DEF ProviderMoves
    <3>2. provider[o] # "NONE"
      BY <3>1 DEF ProviderSteps
    <3> QED
      BY <1>2, <3>1, <3>2 DEF Placement
  <2>2. ASSUME NEW f \in Fetchers, NEW o \in Orders, FetchOrder(f, o) \/ FetchPayment(f, o)
        PROVE  Goal
    <3>1. PICK state : Received(f, o, state) /\ provider[o] \in ProviderStates
      BY <2>2 DEF FetchOrder, FetchPayment
    <3>2. method[o] = "MERCADO_PAGO"
      BY <3>1 DEF Placement, ProviderStates
    <3>3. /\ provider' = provider
          /\ \A a \in inFlight' : a \in inFlight \/ a.order = o
      BY <3>1 DEF Received
    <3> QED
      BY <3>2, <3>3 DEF Placement
  <2>3. ASSUME NEW a \in inFlight, ApplyMercadoProviderState(a) \/ LoseAnswer(a) PROVE Goal
    BY <1>1, <2>3 DEF ApplyMercadoProviderState, ApplyReview, ApplyLateApproval, ApplyApproval,
       ApplyFailure, ApplyRefund, ApplyStatusOnly, Applied, LoseAnswer
  <2> QED
    BY <1>6, <2>1, <2>2, <2>3 DEF MercadoPagoStep
<1> QED
  BY <1>3, <1>4, <1>5, <1>6 DEF Next, InventoryStep, vars

LEMMA PlacementNext == TypeOK /\ Placement /\ [Next]_vars => Placement'
<1> SUFFICES ASSUME TypeOK, Placement, [Next]_vars PROVE Placement'
  OBVIOUS
<1>1. \A q \in Orders : method[q] = "MERCADO_PAGO" => method'[q] = "MERCADO_PAGO"
  BY NextMoves, MovePlaces DEF Placement
<1>2. ASSUME NEW q \in Orders
      PROVE  /\ orderStatus'[q] = "NONE" => method'[q] = "NONE" /\ paymentStatus'[q] = "NONE"
             /\ provider'[q] # "NONE" \/ orderStatus'[q] = "PAYMENT_REQUIRES_REVIEW" =>
                    method'[q] = "MERCADO_PAGO"
  BY <1>1, NextMoves, MovePlaces, PaymentOfPlaced, ProviderOfPlaced DEF Placement, Kept
<1>3. \A a \in inFlight' : method'[a.order] = "MERCADO_PAGO"
  <2> SUFFICES ASSUME NEW a \in inFlight' PROVE method'[a.order] = "MERCADO_PAGO"
    OBVIOUS
  <2>1. method[a.order] = "MERCADO_PAGO" /\ a.order \in Orders
    <3>1. inFlight' \subseteq Answers
      BY AnswersNext DEF TypeOK, AnswersOK
    <3> QED
      BY <3>1, ProviderOfPlaced DEF Answers
  <2> QED
    BY <1>1, <2>1
<1> QED
  BY <1>2, <1>3 DEF Placement

-----------------------------------------------------------------------------
(* What holds of each order, strong enough to be kept by every move.        *)

\* A seller order waits for the payment, or would wait for it again once the
\* issue opened on it is decided.
CanWait(o) == \E s \in Sellers : "PENDING_PAYMENT" \in {child[o][s], issue[o][s]}

UnplacedEmpty(o) ==
    orderStatus[o] = "NONE" =>
        /\ method[o] = "NONE" /\ entries[o] = {} /\ Lines(o) = {}
        /\ \A r \in Receipts : receipt[o][r] = "NONE"
        /\ \A s \in Sellers : /\ child[o][s] = "NONE" /\ issue[o][s] = "NONE"
                              /\ cancellation[o][s] = "NONE" /\ ~ledger[o][s].sale

\* An order that waits for its payment has seller orders, and all wait; an
\* issue is of an affiliate's seller order, and remembers no more than one
\* that waited.
WaitingTogether(o) ==
    /\ orderStatus[o] # "NONE" => \E s \in Sellers : child[o][s] # "NONE"
    /\ issue[o][Store] = "NONE"
    /\ \A s \in Sellers :
        /\ issue[o][s] # "NONE" => child[o][s] # "NONE"
        /\ child[o][s] = "PENDING_PAYMENT" => issue[o][s] = "NONE"
        /\ cancellation[o][s] # "PENDING_PAYMENT"
        /\ PaymentPending(o) => child[o][s] \in {"NONE", "PENDING_PAYMENT"}

Sold(o) == \A p \in Lines(o) : reservation[o][p] = "CONSUMED"

Accreditable(o) ==
    \/ entries[o] # {}
    \/ \E s \in Sellers :
        \/ ledger[o][s].sale
        \/ {child[o][s], issue[o][s], cancellation[o][s]} \cap Shippable # {}

\* The lines of an order move together, and whatever shows that it was
\* accredited shows that they were sold.
SoldFirst(o) ==
    /\ \A p, q \in Lines(o) : reservation[o][p] = reservation[o][q]
    /\ Accreditable(o) => Sold(o)

\* While a plain order may wait for its payment nothing of it is settled.
WaitingIntact(o) ==
    PlainOrder(o) /\ CanWait(o) =>
        /\ \A p \in Lines(o) : reservation[o][p] = "ACTIVE"
        /\ redemption[o] \in {"NONE", "RESERVED"} /\ entries[o] = {}

ExpiredClean(o) ==
    PlainOrder(o) /\ orderStatus[o] = "EXPIRED" =>
        /\ \A p \in Lines(o) : reservation[o][p] = "RELEASED"
        /\ redemption[o] \in {"NONE", "RELEASED"}
        /\ \A s \in Children(o) : child[o][s] = "CANCELLED"

\* An approved receipt is the last word on a transfer.
ReceiptFinal(o) ==
    \A r \in Receipts : receipt[o][r] = "APPROVED" =>
        /\ method[o] = "BANK_TRANSFER" /\ orderStatus[o] # "NONE" /\ ~CanWait(o)
        /\ \A q \in Receipts \ {r} : receipt[o][q] \notin {"APPROVED", "PENDING"}

Bounded(o) == \A s \in Sellers : SaleBounded(ledger[o][s])

OrderInv(o) ==
    /\ UnplacedEmpty(o)
    /\ WaitingTogether(o)
    /\ SoldFirst(o)
    /\ WaitingIntact(o)
    /\ ExpiredClean(o)
    /\ ReceiptFinal(o)
    /\ Bounded(o)

LifeInv == Placement /\ \A o \in Orders : OrderInv(o)

-----------------------------------------------------------------------------
(* One lemma per part.                                                      *)

LEMMA WaitingFacts ==
    ASSUME NEW o \in Orders, PaymentPending(o), WaitingTogether(o), TypeOK
    PROVE  /\ CanWait(o) /\ orderStatus[o] # "NONE"
           /\ \A s \in Sellers : child[o][s] \in {"NONE", "PENDING_PAYMENT"} /\ issue[o][s] = "NONE"
<1>1. orderStatus[o] # "NONE"
  BY DEF PaymentPending
<1> QED
  BY <1>1 DEF WaitingTogether, CanWait

LEMMA LinesTyped ==
    ASSUME TypeOK, NEW o \in Orders
    PROVE  /\ Lines(o) \subseteq Products
           /\ \A p \in Products : /\ p \in Lines(o) <=> reservation[o][p] # "NONE"
                                  /\ reservation[o][p] \in ReservationStates
BY DEF Lines, LinesIn, TypeOK, StockTypeOK, ReservationStates

LEMMA LinesTypedNext ==
    ASSUME TypeOK', NEW o \in Orders
    PROVE  /\ Lines(o)' \subseteq Products
           /\ \A p \in Products : /\ p \in Lines(o)' <=> reservation'[o][p] # "NONE"
                                  /\ reservation'[o][p] \in ReservationStates
BY DEF Lines, LinesIn, TypeOK, StockTypeOK, ReservationStates

LEMMA UnplacedEmptyKept ==
    ASSUME TypeOK, Placement, NEW o \in Orders, Move(o), OrderInv(o)
    PROVE  UnplacedEmpty(o)'
<1> SUFFICES ASSUME orderStatus'[o] = "NONE"
             PROVE  (/\ method[o] = "NONE" /\ entries[o] = {} /\ Lines(o) = {}
                     /\ \A r \in Receipts : receipt[o][r] = "NONE"
                     /\ \A s \in Sellers : /\ child[o][s] = "NONE" /\ issue[o][s] = "NONE"
                                           /\ cancellation[o][s] = "NONE" /\ ~ledger[o][s].sale)'
  BY DEF UnplacedEmpty
<1>1. Kept(o)
  BY MovePlaces
<1>2. orderStatus[o] = "NONE"
  BY <1>1 DEF Kept
<1> QED
  BY <1>1, <1>2 DEF Kept, OrderInv, UnplacedEmpty, Lines, LinesIn

LEMMA WaitingTogetherKept ==
    ASSUME TypeOK, NEW o \in Orders, Move(o), OrderInv(o)
    PROVE  WaitingTogether(o)'
<1> USE SellersAssumption DEF WaitingTogether, PaymentPending
<1>0. UnplacedEmpty(o) /\ WaitingTogether(o)
  BY DEF OrderInv
<1>1. CASE Kept(o)
  BY <1>0, <1>1 DEF Kept
<1>2. CASE Opened(o)
  BY <1>0, <1>2 DEF Opened, UnplacedEmpty
<1>3. CASE ClosedUnpaid(o) \/ Submitted(o)
  BY <1>0, <1>3 DEF ClosedUnpaid, Submitted
<1>4. CASE Accredited(o)
  BY <1>0, <1>4 DEF Accredited, ReconciledTo
<1>5. CASE Reviewed(o)
  BY <1>0, <1>5 DEF Reviewed
<1>6. CASE Refunded(o)
  BY <1>0, <1>6 DEF Refunded
<1>7. ASSUME NEW s \in Sellers, NEW to \in ChildStates, SellerMoved(o, s, to)
      PROVE  WaitingTogether(o)'
  <2>1. child'[o][s] = to /\ \A t \in Sellers \ {s} : child'[o][t] = child[o][t]
    BY <1>7 DEF SellerMoved, TypeOK, SellerTypeOK
  <2>2. to # "NONE"
    BY DEF ChildStates
  <2>3. /\ issue'[o][Store] = "NONE"
        /\ \A t \in Sellers : /\ issue'[o][t] # "NONE" => child'[o][t] # "NONE"
                              /\ child'[o][t] = "PENDING_PAYMENT" => issue'[o][t] = "NONE"
    BY <1>0, <1>7, <2>1, <2>2 DEF SellerMoved
  <2>4. \A t \in Sellers : cancellation'[o][t] # "PENDING_PAYMENT"
    BY <1>0, <1>7 DEF SellerMoved
  <2>5. ReconciledTo(o)
    BY <1>7 DEF SellerMoved
  <2> QED
    BY <2>1, <2>2, <2>3, <2>4, <2>5 DEF ReconciledTo
<1> QED
  BY <1>1, <1>2, <1>3, <1>4, <1>5, <1>6, <1>7 DEF Move

\* What a move does to the reservations of the lines of an order.
LEMMA LinesMoved ==
    ASSUME TypeOK, TypeOK', NEW o \in Orders, Move(o), UnplacedEmpty(o)
    PROVE  \/ Opened(o)
           \/ /\ Accredited(o) /\ Lines(o)' = Lines(o) /\ Lines(o) # {}
              /\ SoldFirst(o) => \A p \in Lines(o) : reservation'[o][p] = "CONSUMED"
           \/ /\ ~Accredited(o) /\ Lines(o)' = Lines(o)
              /\ \/ reservation'[o] = reservation[o]
                 \/ \A p \in Lines(o) : reservation'[o][p] =
                        IF reservation[o][p] = "ACTIVE" THEN "RELEASED" ELSE reservation[o][p]
<1> USE LinesTyped, LinesTypedNext DEF ReservationStates
<1>1. CASE Accredited(o)
  <2>1. Lines(o)' = Lines(o)
    BY <1>1 DEF Accredited
  <2>2. SoldFirst(o) => \A p \in Lines(o) : reservation'[o][p] = "CONSUMED"
    <3>1. Active(o) # {} => \E p \in Lines(o) : reservation[o][p] = "ACTIVE"
      BY DEF Active, LinesIn
    <3> QED
      BY <1>1, <3>1 DEF Accredited, SoldFirst
  <2> QED
    BY <1>1, <2>1, <2>2 DEF Accredited
<1>2. ASSUME ~Accredited(o), ~Opened(o)
      PROVE  \/ reservation'[o] = reservation[o]
             \/ \A p \in Products : reservation'[o][p] =
                    IF reservation[o][p] = "ACTIVE" THEN "RELEASED" ELSE reservation[o][p]
  BY <1>2 DEF Move, Kept, ClosedUnpaid, Submitted, Reviewed, Refunded, SellerMoved
<1>3. ASSUME ~Accredited(o), ~Opened(o) PROVE Lines(o)' = Lines(o)
  BY <1>2, <1>3
<1> QED
  BY <1>1, <1>2, <1>3

LEMMA AccreditableMoved ==
    ASSUME TypeOK, NEW o \in Orders, Move(o), OrderInv(o), ~Accredited(o)
    PROVE  Accreditable(o)' => Accreditable(o)
<1> USE DEF Accreditable
<1>0. /\ "PENDING_PAYMENT" \notin Shippable /\ "CANCELLED" \notin Shippable
      /\ "REFUNDED" \notin Shippable /\ "NONE" \notin Shippable /\ "DISPUTED" \notin Shippable
  BY DEF Shippable, InProgress
<1>1. CASE Kept(o)
  BY <1>1 DEF Kept
<1>2. CASE Opened(o)
  BY <1>0, <1>2 DEF Opened, OrderInv, UnplacedEmpty
<1>3. CASE ClosedUnpaid(o)
  BY <1>0, <1>3 DEF ClosedUnpaid
<1>4. CASE Submitted(o) \/ Reviewed(o)
  BY <1>4 DEF Submitted, Reviewed
<1>5. CASE Refunded(o)
  <2>1. \A s \in Sellers : ledger'[o][s].sale = ledger[o][s].sale
    BY <1>5, SaleBoundedKept, SellerRowTypes DEF Refunded, OrderInv, Bounded
  <2> QED
    BY <1>0, <1>5, <2>1 DEF Refunded
<1>6. ASSUME NEW s \in Sellers, NEW to \in ChildStates, SellerMoved(o, s, to)
      PROVE  Accreditable(o)' => Accreditable(o)
  <2>1. ledger'[o][s].sale = ledger[o][s].sale
    <3>1. ledger[o][s] \in Ledgers /\ SaleBounded(ledger[o][s])
      BY SellerRowTypes DEF OrderInv, Bounded
    <3>2. ledger'[o][s] \in SellerLedgers(ledger[o][s])
      BY <1>6 DEF SellerMoved
    <3> QED
      BY <3>1, <3>2, SellerLedgersBounded
  <2>2. child'[o][s] = to /\ \A t \in Sellers \ {s} : child'[o][t] = child[o][t]
    BY <1>6 DEF SellerMoved, TypeOK, SellerTypeOK
  <2> QED
    BY <1>0, <1>6, <2>1, <2>2 DEF SellerMoved
<1> QED
  BY <1>1, <1>2, <1>3, <1>4, <1>5, <1>6 DEF Move

LEMMA SoldFirstKept ==
    ASSUME TypeOK, TypeOK', NEW o \in Orders, Move(o), OrderInv(o)
    PROVE  SoldFirst(o)'
<1>0. UnplacedEmpty(o) /\ SoldFirst(o)
  BY DEF OrderInv
<1>1. CASE Opened(o)
  <2>1. \A p \in Lines(o)' : reservation'[o][p] = "ACTIVE"
    BY <1>1, LinesTyped, LinesTypedNext DEF Opened, ReservationStates
  <2>2. ~Accreditable(o)
    BY <1>0, <1>1 DEF Opened, UnplacedEmpty, Accreditable, Shippable, InProgress
  <2>3. ~Accreditable(o)'
    BY <1>1, <2>2, AccreditableMoved DEF Opened, Accredited, PaymentPending
  <2> QED
    BY <2>1, <2>3 DEF SoldFirst
<1>2. CASE Accredited(o)
  <2>1. Lines(o)' = Lines(o) /\ \A p \in Lines(o) : reservation'[o][p] = "CONSUMED"
    BY <1>0, <1>2, LinesMoved DEF Opened, Accredited, PaymentPending
  <2> QED
    BY <2>1 DEF SoldFirst, Sold
<1>3. CASE ~Opened(o) /\ ~Accredited(o)
  <2>1. /\ Lines(o)' = Lines(o)
        /\ \/ reservation'[o] = reservation[o]
           \/ \A p \in Lines(o) : reservation'[o][p] =
                  IF reservation[o][p] = "ACTIVE" THEN "RELEASED" ELSE reservation[o][p]
    BY <1>0, <1>3, LinesMoved
  <2>2. Accreditable(o)' => Accreditable(o)
    BY <1>3, AccreditableMoved
  <2>3. Sold(o) => Sold(o)'
    BY <2>1 DEF Sold
  <2>4. \A p, q \in Lines(o)' : reservation'[o][p] = reservation'[o][q]
    BY <1>0, <2>1 DEF SoldFirst
  <2> QED
    BY <1>0, <2>2, <2>3, <2>4 DEF SoldFirst
<1> QED
  BY <1>1, <1>2, <1>3

LEMMA BoundedKept ==
    ASSUME TypeOK, NEW o \in Orders, Move(o), OrderInv(o)
    PROVE  Bounded(o)'
<1> SUFFICES ASSUME NEW t \in Sellers PROVE SaleBounded(ledger[o][t])'
  BY DEF Bounded
<1>1. ledger[o][t] \in Ledgers /\ SaleBounded(ledger[o][t])
  BY SellerRowTypes DEF OrderInv, Bounded
<1>2. ledger'[o][t] \in SellerLedgers(ledger[o][t])
                          \cup {Credited(ledger[o][t]), DebitedByParent(ledger[o][t])}
  BY SellerLedgerForms
  DEF Move, Kept, Opened, ClosedUnpaid, Submitted, Accredited, Reviewed, Refunded, SellerMoved
<1>3. \A l \in SellerLedgers(ledger[o][t])
               \cup {Credited(ledger[o][t]), DebitedByParent(ledger[o][t])} : SaleBounded(l)
  BY <1>1, SellerLedgersBounded, SaleBoundedKept
<1> QED
  BY <1>2, <1>3 DEF SaleBounded

\* The seller orders of an order are those of its lines, whatever happens.
LEMMA PlainOrderMoved ==
    ASSUME TypeOK, NEW o \in Orders, Move(o), OrderInv(o), ~Opened(o), PlainOrder(o)'
    PROVE  PlainOrder(o)
<1> USE DEF PlainOrder, Children
<1>1. CASE orderStatus[o] # "NONE"
  <2>1. method'[o] = method[o]
    BY <1>1, MovePlaces
  <2>2. \A s \in Sellers : child[o][s] # "NONE" => child'[o][s] # "NONE"
    <3>1. ASSUME NEW s \in Sellers, NEW to \in ChildStates, SellerMoved(o, s, to)
          PROVE  \A t \in Sellers : child[o][t] # "NONE" => child'[o][t] # "NONE"
      BY <3>1 DEF SellerMoved, TypeOK, SellerTypeOK, ChildStates
    <3>2. CASE Kept(o) \/ ClosedUnpaid(o) \/ Submitted(o) \/ Accredited(o) \/ Reviewed(o) \/ Refunded(o)
      BY <3>2 DEF Kept, ClosedUnpaid, Submitted, Accredited, Reviewed, Refunded
    <3> QED
      BY <3>1, <3>2 DEF Move
  <2> QED
    BY <2>1, <2>2
<1>2. CASE orderStatus[o] = "NONE"
  BY <1>2 DEF OrderInv, UnplacedEmpty
<1> QED
  BY <1>1, <1>2

\* Once no seller order of a placed order can wait for its payment, none
\* ever does again.
LEMMA CanWaitMoved ==
    ASSUME TypeOK, NEW o \in Orders, Move(o), OrderInv(o), ~Opened(o), CanWait(o)'
    PROVE  CanWait(o) /\ (Accredited(o) \/ ClosedUnpaid(o) => ~PaymentPending(o))
<1> USE DEF CanWait
<1>1. CASE Accredited(o) \/ ClosedUnpaid(o)
  <2>1. CASE PaymentPending(o)
    <3>1. \A s \in Sellers : child[o][s] \in {"NONE", "PENDING_PAYMENT"} /\ issue[o][s] = "NONE"
      BY <2>1, WaitingFacts DEF OrderInv
    <3> QED
      BY <1>1, <3>1 DEF Accredited, ClosedUnpaid
  <2>2. CASE ~PaymentPending(o)
    BY <1>1, <2>2 DEF Accredited, ClosedUnpaid
  <2> QED
    BY <2>1, <2>2
<1>2. CASE Kept(o) \/ Submitted(o) \/ Reviewed(o) \/ Refunded(o)
  <2>1. CanWait(o)
    BY <1>2 DEF Kept, Submitted, Reviewed, Refunded
  <2> QED
    BY <1>1, <2>1
<1>3. ASSUME NEW s \in Sellers, NEW to \in ChildStates, SellerMoved(o, s, to) PROVE CanWait(o)
  <2>1. child'[o][s] = to /\ \A t \in Sellers \ {s} : child'[o][t] = child[o][t]
    BY <1>3 DEF SellerMoved, TypeOK, SellerTypeOK
  <2>2. cancellation[o][s] # "PENDING_PAYMENT"
    BY DEF OrderInv, WaitingTogether
  <2>3. ASSUME NEW t \in Sellers, child'[o][t] = "PENDING_PAYMENT" PROVE CanWait(o)
    BY <1>3, <2>1, <2>2, <2>3 DEF SellerMoved
  <2>4. ASSUME NEW t \in Sellers, issue'[o][t] = "PENDING_PAYMENT" PROVE CanWait(o)
    BY <1>3, <2>4 DEF SellerMoved
  <2> QED
    BY <2>3, <2>4
<1> QED
  BY <1>1, <1>2, <1>3 DEF Move

LEMMA WaitingIntactKept ==
    ASSUME TypeOK, TypeOK', Placement, NEW o \in Orders, Move(o), OrderInv(o)
    PROVE  WaitingIntact(o)'
<1> SUFFICES ASSUME PlainOrder(o)', CanWait(o)'
             PROVE  /\ \A p \in Lines(o)' : reservation'[o][p] = "ACTIVE"
                    /\ redemption'[o] \in {"NONE", "RESERVED"} /\ entries'[o] = {}
  BY DEF WaitingIntact
<1>1. CASE Opened(o)
  BY <1>1, LinesTyped, LinesTypedNext DEF Opened, ReservationStates, OrderInv, UnplacedEmpty
<1>2. CASE ~Opened(o)
  <2>1. /\ PlainOrder(o) /\ CanWait(o)
        /\ Accredited(o) \/ ClosedUnpaid(o) => ~PaymentPending(o)
    BY <1>2, PlainOrderMoved, CanWaitMoved
  <2>2. /\ \A p \in Lines(o) : reservation[o][p] = "ACTIVE"
        /\ redemption[o] \in {"NONE", "RESERVED"} /\ entries[o] = {}
    BY <2>1 DEF OrderInv, WaitingIntact
  <2>3. CASE Kept(o) \/ Submitted(o) \/ Reviewed(o) \/ \E s \in Sellers, to \in ChildStates : SellerMoved(o, s, to)
    BY <2>2, <2>3 DEF Kept, Submitted, Reviewed, SellerMoved, Lines, LinesIn
  <2>4. ASSUME Children(o) \subseteq {Store}
        PROVE  \A s \in Sellers : issue[o][s] = "NONE"
    BY <2>4 DEF OrderInv, WaitingTogether, Children
  <2>5. CASE Accredited(o)
    <3>1. orderStatus[o] = "PAYMENT_REQUIRES_REVIEW" /\ method[o] = "MERCADO_PAGO"
      BY <2>1, <2>5 DEF Accredited, Placement
    <3>2. \A s \in Sellers : issue[o][s] = "NONE"
      BY <2>1, <2>4, <3>1 DEF PlainOrder
    <3> QED
      BY <2>5, <3>2 DEF Accredited, CanWait
  <2>6. CASE ClosedUnpaid(o)
    BY <2>1, <2>6 DEF ClosedUnpaid
  <2>7. CASE Refunded(o)
    <3>1. CASE method[o] = "MERCADO_PAGO"
      <4>1. \A s \in Sellers : issue[o][s] = "NONE"
        BY <2>1, <2>4, <3>1 DEF PlainOrder
      <4> QED
        BY <2>7, <4>1 DEF Refunded, CanWait
    <3>2. CASE redemption'[o] = AfterReversal(o, redemption[o]) /\ reservation'[o] = reservation[o]
      BY <2>2, <2>7, <3>2 DEF Refunded, AfterReversal, RedeemReversible, Lines, LinesIn
    <3> QED
      BY <2>7, <3>1, <3>2 DEF Refunded
  <2> QED
    BY <1>2, <2>3, <2>5, <2>6, <2>7 DEF Move
<1> QED
  BY <1>1, <1>2

LEMMA ExpiredCleanKept ==
    ASSUME TypeOK, TypeOK', NEW o \in Orders, Move(o), OrderInv(o)
    PROVE  ExpiredClean(o)'
<1> SUFFICES ASSUME PlainOrder(o)', orderStatus'[o] = "EXPIRED"
             PROVE  /\ \A p \in Lines(o)' : reservation'[o][p] = "RELEASED"
                    /\ redemption'[o] \in {"NONE", "RELEASED"}
                    /\ \A s \in Sellers : child'[o][s] \in {"NONE", "CANCELLED"}
  BY DEF ExpiredClean, Children
<1>1. ~Opened(o)
  BY DEF Opened
<1>2. PlainOrder(o)
  BY <1>1, PlainOrderMoved
<1>3. CASE ClosedUnpaid(o)
  <2>1. /\ CanWait(o)
        /\ \A s \in Sellers : child[o][s] \in {"NONE", "PENDING_PAYMENT"}
    BY <1>3, WaitingFacts DEF ClosedUnpaid, OrderInv
  <2>2. /\ \A p \in Lines(o) : reservation[o][p] = "ACTIVE"
        /\ redemption[o] \in {"NONE", "RESERVED"}
    BY <1>2, <2>1 DEF OrderInv, WaitingIntact
  <2>3. Lines(o)' = Lines(o)
    BY <1>1, LinesMoved DEF OrderInv
  <2>4. \A p \in Lines(o) : reservation'[o][p] = "RELEASED"
    BY <1>3, <2>2, LinesTyped DEF ClosedUnpaid
  <2> QED
    BY <1>3, <2>1, <2>2, <2>3, <2>4 DEF ClosedUnpaid, AfterRelease
<1>4. CASE ~ClosedUnpaid(o)
  <2>1. /\ Kept(o) \/ Reviewed(o) \/ Accredited(o)
        /\ orderStatus[o] = "EXPIRED"
        /\ ~Accredited(o)
    BY <1>1, <1>4 DEF Move, Kept, Submitted, Accredited, Reviewed, Refunded, SellerMoved,
       ReconciledTo, PaymentPending
  <2>2. /\ \A p \in Lines(o) : reservation[o][p] = "RELEASED"
        /\ redemption[o] \in {"NONE", "RELEASED"}
        /\ \A s \in Sellers : child[o][s] \in {"NONE", "CANCELLED"}
    BY <1>2, <2>1 DEF OrderInv, ExpiredClean, Children
  <2> QED
    BY <2>1, <2>2 DEF Kept, Reviewed, Lines, LinesIn
<1> QED
  BY <1>3, <1>4

LEMMA ReceiptFinalKept ==
    ASSUME TypeOK, TypeOK', NEW o \in Orders, Move(o), OrderInv(o)
    PROVE  ReceiptFinal(o)'
<1>1. ASSUME NEW r \in Receipts, receipt[o][r] = "APPROVED"
      PROVE  ~PaymentPending(o) /\ ~Opened(o)
  BY <1>1, WaitingFacts DEF OrderInv, ReceiptFinal, Opened
<1>2. CASE \A r \in Receipts : receipt'[o][r] = "APPROVED" => receipt[o][r] = "APPROVED"
  <2> SUFFICES ASSUME NEW r \in Receipts, receipt'[o][r] = "APPROVED"
               PROVE  /\ method'[o] = "BANK_TRANSFER" /\ orderStatus'[o] # "NONE" /\ ~CanWait(o)'
                      /\ \A q \in Receipts \ {r} : receipt'[o][q] \notin {"APPROVED", "PENDING"}
    BY DEF ReceiptFinal
  <2>1. receipt[o][r] = "APPROVED" /\ ~PaymentPending(o) /\ ~Opened(o)
    BY <1>1, <1>2
  <2>2. /\ method[o] = "BANK_TRANSFER" /\ orderStatus[o] # "NONE" /\ ~CanWait(o)
        /\ \A q \in Receipts \ {r} : receipt[o][q] \notin {"APPROVED", "PENDING"}
    BY <2>1 DEF OrderInv, ReceiptFinal
  <2>3. /\ method'[o] = "BANK_TRANSFER" /\ orderStatus'[o] # "NONE" /\ ~CanWait(o)'
    BY <2>1, <2>2, MovePlaces, CanWaitMoved
  <2>4. receipt'[o] = receipt[o]
    BY <2>1 DEF Move, Kept, ClosedUnpaid, Submitted, Accredited, Reviewed, Refunded, SellerMoved
  <2> QED
    BY <2>2, <2>3, <2>4
<1>3. CASE \E r \in Receipts : receipt'[o][r] = "APPROVED" /\ receipt[o][r] # "APPROVED"
  <2>1. Accredited(o) /\ receipt'[o] # receipt[o]
    BY <1>3 DEF Move, Kept, Opened, ClosedUnpaid, Submitted, Accredited, Reviewed, Refunded, SellerMoved
  <2>2. /\ PaymentPending(o) /\ method[o] = "BANK_TRANSFER"
        /\ \E r \in Receipts : \A q \in Receipts : receipt'[o][q] =
               IF q = r THEN "APPROVED"
               ELSE IF receipt[o][q] = "PENDING" THEN "REJECTED" ELSE receipt[o][q]
    BY <2>1 DEF Accredited
  <2>3. \A r \in Receipts : receipt[o][r] # "APPROVED"
    BY <1>1, <2>2
  <2>4. ~CanWait(o)'
    BY <2>1, <2>2, CanWaitMoved DEF Opened, PaymentPending
  <2>5. method'[o] = "BANK_TRANSFER" /\ orderStatus'[o] # "NONE"
    BY <2>2, MovePlaces DEF PaymentPending
  <2> QED
    BY <2>2, <2>3, <2>4, <2>5 DEF ReceiptFinal
<1> QED
  BY <1>2, <1>3


-----------------------------------------------------------------------------
(* The invariant.                                                           *)

LEMMA LifeInvInit == Init => LifeInv
<1> SUFFICES ASSUME Init PROVE LifeInv
  OBVIOUS
<1> USE DEF Init, StockInit, LoyaltyInit, SellerInit
<1>1. Placement
  BY DEF Placement
<1>2. ASSUME NEW o \in Orders PROVE OrderInv(o)
  <2>1. Lines(o) = {}
    BY DEF Lines, LinesIn
  <2>2. /\ orderStatus[o] = "NONE" /\ method[o] = "NONE" /\ entries[o] = {}
        /\ \A r \in Receipts : receipt[o][r] = "NONE"
        /\ \A s \in Sellers : /\ child[o][s] = "NONE" /\ issue[o][s] = "NONE"
                              /\ cancellation[o][s] = "NONE"
    OBVIOUS
  <2>3. \A s \in Sellers : ledger[o][s] = EmptyLedger
    OBVIOUS
  <2>4. ~EmptyLedger.sale /\ SaleBounded(EmptyLedger)
    BY DEF EmptyLedger, SaleBounded
  <2>5. UnplacedEmpty(o) /\ Bounded(o)
    BY <2>1, <2>2, <2>3, <2>4 DEF UnplacedEmpty, Bounded
  <2>6. WaitingTogether(o)
    BY <2>2, SellersAssumption DEF WaitingTogether, PaymentPending
  <2>7. SoldFirst(o)
    BY <2>1 DEF SoldFirst, Sold
  <2>8. WaitingIntact(o) /\ ExpiredClean(o) /\ ReceiptFinal(o)
    BY <2>2 DEF WaitingIntact, CanWait, ExpiredClean, ReceiptFinal
  <2> QED
    BY <2>5, <2>6, <2>7, <2>8 DEF OrderInv
<1> QED
  BY <1>1, <1>2 DEF LifeInv

LEMMA LifeInvNext == TypeOK /\ TypeOK' /\ LifeInv /\ [Next]_vars => LifeInv'
<1> SUFFICES ASSUME TypeOK, TypeOK', LifeInv, [Next]_vars PROVE LifeInv'
  OBVIOUS
<1>1. Placement /\ Placement'
  BY PlacementNext DEF LifeInv
<1>2. ASSUME NEW o \in Orders PROVE OrderInv(o)'
  <2>1. Move(o) /\ OrderInv(o)
    BY <1>1, NextMoves DEF LifeInv
  <2>2. UnplacedEmpty(o)' /\ WaitingTogether(o)' /\ SoldFirst(o)' /\ Bounded(o)'
    BY <1>1, <2>1, UnplacedEmptyKept, WaitingTogetherKept, SoldFirstKept, BoundedKept
  <2>3. WaitingIntact(o)' /\ ExpiredClean(o)' /\ ReceiptFinal(o)'
    BY <1>1, <2>1, WaitingIntactKept, ExpiredCleanKept, ReceiptFinalKept
  <2> QED
    BY <2>2, <2>3 DEF OrderInv
<1> QED
  BY <1>1, <1>2 DEF LifeInv

\* The invariant the theorems below are read from, for any number of orders,
\* products, sellers and fetchers.
THEOREM LifeInvariance == Spec => []LifeInv
<1>1. Init => LifeInv
  BY LifeInvInit
<1>2. TypeOK /\ TypeOK' /\ LifeInv /\ [Next]_vars => LifeInv'
  BY LifeInvNext
<1>3. Spec => []TypeOK
  BY TypeCorrect
<1> QED
  BY <1>1, <1>2, <1>3, PTL DEF Spec

-----------------------------------------------------------------------------
(* What it says.                                                            *)

LEMMA LifeInvSells == LifeInv => AccreditedStockConsumed
<1> SUFFICES ASSUME LifeInv, NEW o \in Orders
             PROVE  /\ "EARN" \in entries[o] \/ "REDEEM" \in entries[o] =>
                         \A p \in Lines(o) : reservation[o][p] = "CONSUMED"
                    /\ \A s \in Sellers :
                         child[o][s] \in Shippable \/ ledger[o][s].sale =>
                           \A p \in Lines(o) : SellerOf[p] = s => reservation[o][p] = "CONSUMED"
  BY DEF AccreditedStockConsumed
<1>1. Accreditable(o) => \A p \in Lines(o) : reservation[o][p] = "CONSUMED"
  BY DEF LifeInv, OrderInv, SoldFirst, Sold
<1>2. "EARN" \in entries[o] \/ "REDEEM" \in entries[o] => Accreditable(o)
  BY DEF Accreditable
<1>3. \A s \in Sellers : child[o][s] \in Shippable \/ ledger[o][s].sale => Accreditable(o)
  BY DEF Accreditable
<1> QED
  BY <1>1, <1>2, <1>3

\* Nothing is shipped, credited to an affiliate or turned into points on
\* units that were not taken out of stock: by transfer, by Mercado Pago or
\* by a late payment, accrediting an order takes all of its lines first.
THEOREM AccreditedAfterSold == Spec => []AccreditedStockConsumed
BY LifeInvariance, LifeInvSells, PTL

LEMMA LifeInvBounds == LifeInv => EarningsWithinSale
BY DEF LifeInv, OrderInv, Bounded, SaleBounded, EarningsWithinSale

\* No path credits or releases an affiliate's sale twice: what the ledger
\* owes never exceeds the net of the sale, nor falls below nothing pending,
\* whatever debits, releases and reversals happen in between.
THEOREM EarningsBounded == Spec => []EarningsWithinSale
BY LifeInvariance, LifeInvBounds, PTL

LEMMA LifeInvDecides == LifeInv => OneReceiptDecides
BY DEF LifeInv, OrderInv, ReceiptFinal, OneReceiptDecides

\* At most one receipt of a transfer is ever approved, and none is left to
\* decide after it: the order never gets back to where it waits.
THEOREM ReceiptDecides == Spec => []OneReceiptDecides
BY LifeInvariance, LifeInvDecides, PTL

LEMMA LifeInvIntact == TypeOK /\ LifeInv => PendingOrdersIntact
<1> SUFFICES ASSUME TypeOK, LifeInv, NEW o \in Orders, PlainOrder(o), PaymentPending(o)
             PROVE  /\ Active(o) = Lines(o)
                    /\ redemption[o] \in {"NONE", "RESERVED"} /\ entries[o] = {}
                    /\ \A s \in Children(o) : child[o][s] = "PENDING_PAYMENT"
  BY DEF PendingOrdersIntact
<1>1. CanWait(o) /\ \A s \in Sellers : child[o][s] \in {"NONE", "PENDING_PAYMENT"}
  BY WaitingFacts DEF LifeInv, OrderInv
<1>2. /\ \A p \in Lines(o) : reservation[o][p] = "ACTIVE"
      /\ redemption[o] \in {"NONE", "RESERVED"} /\ entries[o] = {}
  BY <1>1 DEF LifeInv, OrderInv, WaitingIntact
<1>3. Active(o) = Lines(o)
  BY <1>2 DEF Active, Lines, LinesIn, ReservationStates
<1> QED
  BY <1>1, <1>2, <1>3 DEF Children

\* While a plain order waits for its payment its units and points stay
\* reserved and each of its seller orders waits with it.
THEOREM PendingIntact == Spec => []PendingOrdersIntact
BY LifeInvariance, TypeCorrect, LifeInvIntact, PTL

LEMMA LifeInvExpires == LifeInv => ExpiredHoldsNothing
BY DEF LifeInv, OrderInv, ExpiredClean, ExpiredHoldsNothing

\* A plain order that expired has given everything back, and no late answer
\* takes it away again without a person accepting the payment.
THEOREM ExpiredFree == Spec => []ExpiredHoldsNothing
BY LifeInvariance, LifeInvExpires, PTL

-----------------------------------------------------------------------------
(* What no step may do.                                                     *)

LEMMA ReopeningMove ==
    ASSUME TypeOK, NEW o \in Orders, Move(o), OrderInv(o), NEW s \in Sellers,
           child[o][s] \in {"CANCELLED", "REFUNDED"}, child'[o][s] # child[o][s]
    PROVE  Decision(o, s)
<1>1. ~Opened(o)
  BY DEF Opened, OrderInv, UnplacedEmpty
<1>2. PICK t \in Sellers, to \in ChildStates : SellerMoved(o, t, to)
  BY <1>1 DEF Move, Kept, ClosedUnpaid, Submitted, Accredited, Reviewed, Refunded
<1>3. t = s
  BY <1>2 DEF SellerMoved, TypeOK, SellerTypeOK
<1> QED
  BY <1>2, <1>3 DEF SellerMoved

\* A seller order that was cancelled or refunded moves again only when a
\* person decides an issue or a cancellation request left open on it; no
\* payment, expiry or transition of the affiliate's revives it.
THEOREM ReopeningDecided == Spec => ReopenedOnlyByDecision
<1>1. TypeOK /\ LifeInv /\ [Next]_vars =>
        [\A o \in Orders, s \in Sellers :
            child[o][s] \in {"CANCELLED", "REFUNDED"} /\ child'[o][s] # child[o][s] =>
                \/ issue[o][s] # "NONE" /\ issue'[o][s] = "NONE"
                \/ cancellation[o][s] # "NONE" /\ cancellation'[o][s] = "NONE"]_vars
  BY NextMoves, ReopeningMove DEF LifeInv, Decision
<1> QED
  BY <1>1, LifeInvariance, TypeCorrect, PTL DEF Spec, ReopenedOnlyByDecision

\* The late payments that may take released units.
AcceptedLate(o) == orderStatus[o] = "PAYMENT_REQUIRES_REVIEW" /\ paymentStatus[o] = "APPROVED"

\* How a step writes reservations.
StockMove(o) ==
    \/ \E lines \in SUBSET Products : ReserveStock(o, lines)
    \/ ReleaseReservations(o)
    \/ TakeReserved(o)
    \/ AcquireLateStock(o) /\ AcceptedLate(o)

LEMMA StockMoves ==
    ASSUME TypeOK, [Next]_vars
    PROVE  \/ \A q \in Orders : reservation'[q] = reservation[q]
           \/ \E o \in Orders : StockMove(o)
<1>1. ASSUME NEW o \in Orders,
             CheckoutStep(o) \/ UnpaidStep(o) \/ TransferStep(o) \/ SettlementStep(o)
      PROVE  reservation' = reservation \/ StockMove(o)
  <2>1. CASE CheckoutStep(o)
    BY <2>1 DEF CheckoutStep, PlaceOrder, RequestCheckoutSession, CheckoutSessionAnswered,
                SetProvider, PaymentWindowCloses, stockVars, StockMove
  <2>2. CASE UnpaidStep(o)
    BY <2>2 DEF UnpaidStep, CancelByCustomer, CancelByAdmin, ExpireReservations,
                ReleaseReservationsChecked, StockMove
  <2>3. CASE TransferStep(o)
    BY <2>3 DEF TransferStep, SubmitReceipt, ApproveTransfer, ConsumeReservations, RejectTransfer,
                ReleaseReservationsChecked, stockVars, StockMove
  <2>4. CASE SettlementStep(o)
    BY <2>4 DEF SettlementStep, FulfillLatePayment, RecordFullRefund, stockVars, StockMove,
                AcceptedLate
  <2> QED
    BY <1>1, <2>1, <2>2, <2>3, <2>4
<1>2. ASSUME NEW o \in Orders, NEW s \in Sellers, SellerStep(o, s), UNCHANGED paymentVars
      PROVE  \A q \in Orders : reservation'[q] = reservation[q]
  <2>1. (\E to \in ChildStates : SellerMoved(o, s, to)) /\ OthersKept(o)
    BY <1>2, SellerStepMoves
  <2> QED
    BY <2>1 DEF SellerMoved, OthersKept, Kept
<1>3. CASE MercadoPagoStep
  <2>1. ASSUME NEW a \in inFlight, ApplyMercadoProviderState(a)
        PROVE  a.order \in Orders /\ (reservation' = reservation \/ StockMove(a.order))
    BY <2>1 DEF ApplyMercadoProviderState, ApplyReview, ApplyLateApproval, ApplyApproval,
                ApplyFailure, ApplyRefund, ApplyStatusOnly, MoveToPaymentReview, stockVars,
                StockMove, TypeOK, Answers
  <2>2. ASSUME NEW o, NEW f, NEW a,
               ProviderMoves(o) \/ FetchOrder(f, o) \/ FetchPayment(f, o) \/ LoseAnswer(a)
        PROVE  reservation' = reservation
    BY <2>2 DEF ProviderMoves, SetProvider, FetchOrder, FetchPayment, Received, LoseAnswer,
                stockVars
  <2> QED
    BY <1>3, <2>1, <2>2 DEF MercadoPagoStep
<1>4. CASE InventoryStep \/ UNCHANGED vars
  BY <1>4 DEF InventoryStep, AdjustInventory, SetAffiliateStock, vars, stockVars
<1> QED
  BY <1>1, <1>2, <1>3, <1>4 DEF Next

\* Only an accepted late payment takes released units: the other paths take
\* the reserved ones and leave the released ones alone.
LEMMA ReleasedStay ==
    ASSUME TypeOK, [Next]_vars, NEW o \in Orders, NEW p \in Products,
           reservation[o][p] = "RELEASED", reservation'[o][p] # "RELEASED"
    PROVE  AcceptedLate(o)
<1>1. PICK q \in Orders : StockMove(q)
  BY StockMoves
<1>2. CASE \E lines \in SUBSET Products : ReserveStock(q, lines)
  <2>1. Lines(q) = {} /\ \A u \in Orders \ {q} : reservation'[u] = reservation[u]
    BY <1>2, ReserveFacts
  <2> QED
    BY <2>1, LinesTyped
<1>3. CASE ReleaseReservations(q) \/ TakeReserved(q)
  BY <1>3, ReleaseFacts, TakeFacts
<1>4. CASE AcquireLateStock(q) /\ AcceptedLate(q)
  BY <1>4, AcquireFacts
<1> QED
  BY <1>1, <1>2, <1>3, <1>4 DEF StockMove

\* Units an order gave back are sold to that order again only when a person
\* accepts a payment that arrived late, never by an answer of Mercado Pago's.
THEOREM ReleasedReturnLate == Spec => ReleasedUnitsReturnOnlyLate
<1>1. TypeOK /\ [Next]_vars =>
        [\A o \in Orders, p \in Products :
            reservation[o][p] = "RELEASED" /\ reservation'[o][p] # "RELEASED" =>
                orderStatus[o] = "PAYMENT_REQUIRES_REVIEW" /\ paymentStatus[o] = "APPROVED"]_vars
  BY ReleasedStay DEF AcceptedLate
<1> QED
  BY <1>1, TypeCorrect, PTL DEF Spec, ReleasedUnitsReturnOnlyLate

=============================================================================
