------------------------------ MODULE Loyalty -------------------------------
(***************************************************************************)
(* Loyalty points: what an order redeems is reserved at checkout, debited  *)
(* when the payment is accredited and given back when the order is refund- *)
(* ed; what it earns is credited on payment and taken back on refund.      *)
(*                                                                         *)
(* Points are counted in lots: an order redeems one lot or none, and earns *)
(* one lot or none.  LoyaltyTransaction is unique on (orderId, type), so   *)
(* the transactions of an order are a set of types.                        *)
(***************************************************************************)
EXTENDS Shop

CONSTANT InitialPoints  \* InitialPoints[u]: lots user u starts with
ASSUME PointsAssumption == InitialPoints \in [Users -> Nat]

VARIABLES
    balance,        \* balance[u]: LoyaltyAccount.balance
    pointsReserved, \* pointsReserved[u]: LoyaltyAccount.reserved
    redemption,     \* redemption[o]: Order.loyaltyRedemptionStatus
    earns,          \* earns[o]: Order.pointsEarned > 0
    entries         \* entries[o]: types of the order's loyalty transactions

loyaltyVars == <<balance, pointsReserved, redemption, earns, entries>>

EntryTypes == {"REDEEM", "EARN", "EARN_REVERSAL", "REDEEM_REVERSAL"}

\* "ABSENT": the order has not been placed.  "NONE": it redeems nothing.
RedemptionStates ==
    {"ABSENT", "NONE", "RESERVED", "REDEEMED", "RELEASED", "RESTORED"}

LoyaltyTypeOK ==
    /\ balance \in [Users -> Int]
    /\ pointsReserved \in [Users -> Int]
    /\ redemption \in [Orders -> RedemptionStates]
    /\ earns \in [Orders -> BOOLEAN]
    /\ entries \in [Orders -> SUBSET EntryTypes]

LoyaltyInit ==
    /\ balance = InitialPoints
    /\ pointsReserved = [u \in Users |-> 0]
    /\ redemption = [o \in Orders |-> "ABSENT"]
    /\ earns = [o \in Orders |-> FALSE]
    /\ entries = [o \in Orders |-> {}]

-----------------------------------------------------------------------------

Lots(b) == IF b THEN 1 ELSE 0

\* Points a customer may still redeem; the code clamps it at zero.
Available(u) == balance[u] - pointsReserved[u]

\* Checkout: the quote fixes what is redeemed and earned, then reserves it.
ReserveLoyaltyPoints(o, redeems, earned) ==
    /\ redemption[o] = "ABSENT"
    /\ redeems => Available(Buyer[o]) >= 1
    /\ pointsReserved' = [pointsReserved EXCEPT ![Buyer[o]] = @ + Lots(redeems)]
    /\ redemption' = [redemption EXCEPT ![o] = IF redeems THEN "RESERVED" ELSE "NONE"]
    /\ earns' = [earns EXCEPT ![o] = earned]
    /\ UNCHANGED <<balance, entries>>

\* Which parts of a refund are still to be done: each only once per order.
EarnReversible(o) == earns[o] /\ "EARN" \in entries[o] /\ "EARN_REVERSAL" \notin entries[o]
RedeemReversible(o) == "REDEEM" \in entries[o] /\ "REDEEM_REVERSAL" \notin entries[o]

AfterRelease(status) == IF status = "RESERVED" THEN "RELEASED" ELSE status
AfterReversal(o, status) == IF RedeemReversible(o) THEN "RESTORED" ELSE status

\* LOYALTY_RESERVATION_INVALID is thrown when this fails.
ReleasePossible(o) == redemption[o] = "RESERVED" => pointsReserved[Buyer[o]] >= 1

ReleasedPoints(o) ==
    [pointsReserved EXCEPT ![Buyer[o]] = @ - Lots(redemption[o] = "RESERVED")]

\* Wrong form of ReleaseOrderLoyaltyReservation: the account keeps counting.
ReleaseOrderLoyaltyUncounted(o) ==
    /\ redemption' = [redemption EXCEPT ![o] = AfterRelease(@)]
    /\ UNCHANGED <<balance, pointsReserved, earns, entries>>

ReleaseOrderLoyaltyReservation(o) ==
    /\ ReleasePossible(o)
    /\ pointsReserved' = ReleasedPoints(o)
    /\ redemption' = [redemption EXCEPT ![o] = AfterRelease(@)]
    /\ UNCHANGED <<balance, earns, entries>>

\* The reversal entries a refund writes, and what they do to the balance.
ReversedBalance(o) ==
    [balance EXCEPT ![Buyer[o]] = @ - Lots(EarnReversible(o)) + Lots(RedeemReversible(o))]

\* Wrong form of ReversedEntries: the returned redemption leaves no trace.
ReversedEntriesEarnOnly(o) ==
    [entries EXCEPT ![o] = @ \cup {t \in {"EARN_REVERSAL"} : EarnReversible(o)}]

ReversedEntries(o) ==
    [entries EXCEPT ![o] = @ \cup {t \in {"EARN_REVERSAL"} : EarnReversible(o)}
                             \cup {t \in {"REDEEM_REVERSAL"} : RedeemReversible(o)}]

ReverseOrderLoyalty(o) ==
    /\ balance' = ReversedBalance(o)
    /\ entries' = ReversedEntries(o)
    /\ redemption' = [redemption EXCEPT ![o] = AfterReversal(o, @)]
    /\ UNCHANGED <<pointsReserved, earns>>

\* The refund webhook releases a pending redemption, then reverses a settled
\* one, in one transaction.
ReleaseAndReverseLoyalty(o) ==
    /\ ReleasePossible(o)
    /\ pointsReserved' = ReleasedPoints(o)
    /\ balance' = ReversedBalance(o)
    /\ entries' = ReversedEntries(o)
    /\ redemption' = [redemption EXCEPT ![o] = AfterReversal(o, AfterRelease(@))]
    /\ UNCHANGED earns

\* Accreditation: the redemption is debited, from its reservation or, when
\* that was released, from what is available; then the purchase earns.
SettleOrderLoyalty(o) ==
    LET redeems == redemption[o] \in {"RESERVED", "RELEASED"}
        debits == redeems /\ "REDEEM" \notin entries[o]
        fromReserved == debits /\ redemption[o] = "RESERVED"
        credits == earns[o] /\ "EARN" \notin entries[o]
        u == Buyer[o]
    IN  /\ fromReserved => pointsReserved[u] >= 1
        /\ debits /\ ~fromReserved => Available(u) >= 1
        /\ balance' = [balance EXCEPT ![u] = @ - Lots(debits) + Lots(credits)]
        /\ pointsReserved' = [pointsReserved EXCEPT ![u] = @ - Lots(fromReserved)]
        /\ entries' = [entries EXCEPT ![o] = @ \cup {t \in {"REDEEM"} : debits}
                                               \cup {t \in {"EARN"} : credits}]
        /\ redemption' = [redemption EXCEPT ![o] = IF redeems THEN "REDEEMED" ELSE @]
        /\ UNCHANGED earns

-----------------------------------------------------------------------------
(* The points protocol.                                                     *)

LoyaltyNext ==
    \E o \in Orders :
        \/ \E redeems, earned \in BOOLEAN : ReserveLoyaltyPoints(o, redeems, earned)
        \/ ReleaseOrderLoyaltyReservation(o)
        \/ SettleOrderLoyalty(o)
        \/ ReverseOrderLoyalty(o)
        \/ ReleaseAndReverseLoyalty(o)

LoyaltySpec == LoyaltyInit /\ [][LoyaltyNext]_loyaltyVars

-----------------------------------------------------------------------------
(* What the protocol guarantees.                                            *)

\* The orders of user u that hold points, and those with a given transaction.
Holding(u) == {o \in Orders : Buyer[o] = u /\ redemption[o] = "RESERVED"}
With(u, type) == {o \in Orders : Buyer[o] = u /\ type \in entries[o]}

\* LoyaltyAccount.reserved counts exactly the orders whose redemption is
\* still RESERVED, so the throw that guards the release never aborts a
\* cancellation, an expiry or a refund.
PointsReservedMatchOrders ==
    \A u \in Users : pointsReserved[u] = Cardinality(Holding(u))

\* The running balance is the opening balance plus the ledger: each order is
\* debited, credited and reversed at most once, whatever is retried.
BalanceMatchesEntries ==
    \A u \in Users :
        balance[u] = InitialPoints[u]
                     - Cardinality(With(u, "REDEEM"))
                     + Cardinality(With(u, "REDEEM_REVERSAL"))
                     + Cardinality(With(u, "EARN"))
                     - Cardinality(With(u, "EARN_REVERSAL"))

\* Points promised to open orders are covered by the balance, except for
\* points spent and then taken back because the order that earned them was
\* refunded.
ReservedPointsCovered ==
    \A u \in Users : Available(u) + Cardinality(With(u, "EARN_REVERSAL")) >= 0
=============================================================================
