---------------------------- MODULE SellerOrders ----------------------------
(***************************************************************************)
(* An order is split into one seller order per seller (the store or an     *)
(* affiliate).  Sellers, buyers, the administrator and the auto-completion *)
(* job move the seller orders; every such handler ends by recomputing the  *)
(* parent order's status from its seller orders.  An affiliate's share of  *)
(* a sale is kept in a ledger that moves from PENDING to AVAILABLE when    *)
(* the sale completes and is reversed by refunds.                          *)
(*                                                                         *)
(* Each handler is one database transaction, so one action.  The version   *)
(* an administrator, seller or buyer sends back is part of the request;    *)
(* any request may carry the current one, so versions are left out.        *)
(***************************************************************************)
EXTENDS Stock, Loyalty, Earnings, FiniteSetsExt

CONSTANTS
    Actors,         \* who acts on seller orders in this instance
    Delivery,       \* Delivery[s]: delivery option chosen for seller s
    Discount,       \* value of a lot of points in money
    Restocking      \* answers an administrator may give to "restock?"

ASSUME SellerOrdersAssumption ==
    /\ Actors \subseteq {"AFFILIATE", "ADMIN", "BUYER", "SYSTEM"}
    /\ Delivery \in [Sellers -> {"SHIPMENT", "PICKUP"}]
    /\ Discount \in 0 .. Gross
    /\ Restocking \subseteq BOOLEAN

VARIABLES
    orderStatus,    \* orderStatus[o]: Order.status, "NONE" before checkout
    paymentStatus,  \* paymentStatus[o]: Payment.status
    fullRefund,     \* fullRefund[o]: a full RefundRecord exists
    child,          \* child[o][s]: SellerOrder.status, "NONE" if o has none
    issue,          \* issue[o][s]: previousStatus of the OPEN issue, or "NONE"
    cancellation,   \* cancellation[o][s]: previousStatus of the REQUESTED one
    refunded,       \* refunded[o][s]: sum of the seller order's refunds
    ledger          \* ledger[o][s]: ledger entries of the seller order

childVars == <<child, issue, cancellation, refunded, ledger>>
sellerVars == <<orderStatus, paymentStatus, fullRefund, childVars>>

OrderStates ==
    {"PENDING_PAYMENT", "PAYMENT_REVIEW", "PAID", "IN_FULFILLMENT",
     "PARTIALLY_COMPLETED", "ACTION_REQUIRED", "COMPLETED", "CANCELLED",
     "EXPIRED", "REFUND_RECORDED", "PAYMENT_REQUIRES_REVIEW"}

PaymentStates ==
    {"PENDING", "UNDER_REVIEW", "APPROVED", "PARTIALLY_REFUNDED", "REJECTED",
     "FAILED", "REFUNDED", "DISPUTED", "REQUIRES_REVIEW"}

ChildStates ==
    {"PENDING_PAYMENT", "PAID", "PREPARING", "READY_FOR_PICKUP", "PICKED_UP",
     "SHIPPED", "COMPLETED", "CANCELLATION_REQUESTED", "CANCELLED",
     "DISPUTED", "REFUNDED"}

SellerTypeOK ==
    /\ orderStatus \in [Orders -> OrderStates \cup {"NONE"}]
    /\ paymentStatus \in [Orders -> PaymentStates \cup {"NONE"}]
    /\ fullRefund \in [Orders -> BOOLEAN]
    /\ child \in [Orders -> [Sellers -> ChildStates \cup {"NONE"}]]
    /\ issue \in [Orders -> [Sellers -> ChildStates \cup {"NONE"}]]
    /\ cancellation \in [Orders -> [Sellers -> ChildStates \cup {"NONE"}]]
    /\ refunded \in [Orders -> [Sellers -> Nat]]
    /\ ledger \in [Orders -> [Sellers -> Ledgers]]

SellerInit ==
    /\ orderStatus = [o \in Orders |-> "NONE"]
    /\ paymentStatus = [o \in Orders |-> "NONE"]
    /\ fullRefund = [o \in Orders |-> FALSE]
    /\ child = [o \in Orders |-> [s \in Sellers |-> "NONE"]]
    /\ issue = [o \in Orders |-> [s \in Sellers |-> "NONE"]]
    /\ cancellation = [o \in Orders |-> [s \in Sellers |-> "NONE"]]
    /\ refunded = [o \in Orders |-> [s \in Sellers |-> 0]]
    /\ ledger = [o \in Orders |-> [s \in Sellers |-> EmptyLedger]]

-----------------------------------------------------------------------------
(* Status sets of the code.                                                 *)

Closed == {"COMPLETED", "CANCELLED", "REFUNDED"}
InProgress == {"PREPARING", "READY_FOR_PICKUP", "PICKED_UP", "SHIPPED"}
Contested == {"DISPUTED", "CANCELLATION_REQUESTED"}
Shippable == {"PAID"} \cup InProgress

Children(o) == {s \in Sellers : child[o][s] # "NONE"}

\* Wrong form of ReconciledStatus: a status all seller orders share is used
\* as it is.
ReconciledStatusUnmapped(statuses) ==
    IF Cardinality(statuses) = 1 THEN CHOOSE status \in statuses : TRUE ELSE "PAID"

\* The parent status for the statuses of its seller orders; the first rule
\* that matches decides.
ReconciledStatus(statuses) ==
    IF statuses \cap Contested # {} THEN "ACTION_REQUIRED"
    ELSE IF statuses \subseteq {"COMPLETED"} THEN "COMPLETED"
    ELSE IF statuses \subseteq {"CANCELLED", "REFUNDED"} THEN "CANCELLED"
    ELSE IF "COMPLETED" \in statuses /\ statuses \cap Shippable # {} THEN "PARTIALLY_COMPLETED"
    ELSE IF statuses \cap InProgress # {} THEN "IN_FULFILLMENT"
    ELSE IF statuses \subseteq {"PAID"} THEN "PAID"
    ELSE IF statuses \subseteq {"PENDING_PAYMENT"} THEN "PENDING_PAYMENT"
    ELSE "PAID"

\* orderStatus after reconcileParentOrder sees these seller orders; an order
\* without seller orders keeps its status.
Reconciled(o, children) ==
    LET statuses == {children[s] : s \in Sellers} \ {"NONE"}
    IN  IF statuses = {} THEN orderStatus
        ELSE [orderStatus EXCEPT ![o] = ReconciledStatus(statuses)]

\* The seller orders of o once those in a status have moved to another.
MovedChildren(o, from, to) ==
    [s \in Sellers |-> IF child[o][s] \in from THEN to ELSE child[o][s]]

-----------------------------------------------------------------------------
(* Operations on all the seller orders of an order.                         *)

\* Checkout opens one seller order per seller of its lines.
OpenSellerOrders(o, lines) ==
    child' = [child EXCEPT ![o] =
        [s \in Sellers |-> IF s \in SellersOf(lines) THEN "PENDING_PAYMENT" ELSE "NONE"]]

\* Accreditation: unpaid seller orders become PAID, affiliates are credited
\* and the parent is reconciled.
SettleSellerOrders(o) ==
    /\ child' = [child EXCEPT ![o] = MovedChildren(o, {"PENDING_PAYMENT"}, "PAID")]
    /\ ledger' = [ledger EXCEPT ![o] =
        [s \in Sellers |->
            IF child[o][s] = "PENDING_PAYMENT" /\ s # Store
            THEN Credited(ledger[o][s]) ELSE ledger[o][s]]]
    /\ orderStatus' = Reconciled(o, MovedChildren(o, {"PENDING_PAYMENT"}, "PAID"))
    /\ UNCHANGED <<issue, cancellation, refunded>>

\* Cancellation or expiry before payment; the parent is not reconciled.
CloseUnpaidSellerOrders(o) ==
    /\ child' = [child EXCEPT ![o] = MovedChildren(o, {"PENDING_PAYMENT"}, "CANCELLED")]
    /\ UNCHANGED <<issue, cancellation, refunded, ledger>>

\* A refund of the whole order closes what is still open and takes back each
\* affiliate's net, credited or not; the parent is not reconciled.
CloseAndReverseSellerOrders(o) ==
    LET open == {s \in Children(o) : child[o][s] \notin {"CANCELLED", "REFUNDED"}}
    IN  /\ child' = [child EXCEPT ![o] =
            [s \in Sellers |-> IF s \in open THEN "REFUNDED" ELSE child[o][s]]]
        /\ ledger' = [ledger EXCEPT ![o] =
            [s \in Sellers |-> IF s \in open \ {Store}
                               THEN DebitedByParent(ledger[o][s]) ELSE ledger[o][s]]]
        /\ UNCHANGED <<issue, cancellation, refunded>>

-----------------------------------------------------------------------------
(* Refunds of one seller order.                                             *)

PaymentAmount(o) ==
    Gross * Cardinality(Children(o))
        - (IF redemption[o] \in {"ABSENT", "NONE"} THEN 0 ELSE Discount)

SellerRefunds(o) == MapThenSumSet(LAMBDA s : refunded[o][s], Sellers)

RefundsOf(o) == SellerRefunds(o) + (IF fullRefund[o] THEN PaymentAmount(o) ELSE 0)

\* The lines of a sale, and the products of every order's lines.
SaleLines(o, s) == {p \in Lines(o) : SellerOf[p] = s}
OrderedProducts == UNION {Lines(o) : o \in Orders}
PutBack(restock, lines) == IF restock THEN lines ELSE {}

\* The refund row, the restock and the payment status it leads to.  The
\* ledger is left to the handler, which may release earnings next.
RecordAffiliateRefund(o, s, amount, lines) ==
    /\ refunded[o][s] + amount <= Gross
    /\ refunded' = [refunded EXCEPT ![o][s] = @ + amount]
    /\ paymentStatus' = [paymentStatus EXCEPT ![o] =
        IF RefundsOf(o) + amount >= PaymentAmount(o) THEN "REFUNDED" ELSE "PARTIALLY_REFUNDED"]
    /\ Restock(lines)

RefundedLedger(o, s, amount) ==
    IF s = Store THEN ledger[o][s] ELSE Debited(ledger[o][s], SellerDebit(amount))

\* A handler moves one seller order, then reconciles the parent.
MoveChild(o, s, to) ==
    /\ child' = [child EXCEPT ![o][s] = to]
    /\ orderStatus' = Reconciled(o, child'[o])

SetLedger(o, s, l) == ledger' = [ledger EXCEPT ![o][s] = l]

-----------------------------------------------------------------------------
(* The handlers on one seller order.                                        *)

SellerSteps(s) ==
    {<<"PAID", "PREPARING">>, <<"READY_FOR_PICKUP", "PICKED_UP">>}
        \cup {<<"PREPARING", IF Delivery[s] = "PICKUP" THEN "READY_FOR_PICKUP" ELSE "SHIPPED">>}
DeliveredSteps == {<<"SHIPPED", "COMPLETED">>, <<"PICKED_UP", "COMPLETED">>}

\* The transitions each actor may ask for.
AllowedSteps(s, actor) ==
    CASE actor = "AFFILIATE" -> IF s = Store THEN {} ELSE SellerSteps(s)
      [] actor = "ADMIN" -> SellerSteps(s) \cup DeliveredSteps
                                \cup {<<"PENDING_PAYMENT", "CANCELLED">>}
      [] actor \in {"BUYER", "SYSTEM"} -> DeliveredSteps

\* The auto-completion job (SYSTEM) also skips a seller order with an open
\* issue.  Completing a sale releases the affiliate's earnings.
TransitionSellerOrder(o, s, actor, next) ==
    /\ <<child[o][s], next>> \in AllowedSteps(s, actor)
    /\ actor = "SYSTEM" => issue[o][s] = "NONE"
    /\ MoveChild(o, s, next)
    /\ IF next = "COMPLETED" /\ s # Store
       THEN SetLedger(o, s, EarningsReleased(ledger[o][s]))
       ELSE UNCHANGED ledger
    /\ UNCHANGED <<stockVars, paymentStatus, fullRefund, issue, cancellation, refunded>>

\* Wrong form of RequestSellerCancellation: a closed sale may be cancelled.
RequestCancellationOfClosed(o, s) ==
    /\ s # Store
    /\ cancellation[o][s] = "NONE"
    /\ child[o][s] \notin {"PENDING_PAYMENT", "NONE"}
    /\ cancellation' = [cancellation EXCEPT ![o][s] = child[o][s]]
    /\ MoveChild(o, s, "CANCELLATION_REQUESTED")
    /\ UNCHANGED <<stockVars, paymentStatus, fullRefund, issue, refunded, ledger>>

\* An affiliate asks to cancel a paid sale, a disputed one included.
RequestSellerCancellation(o, s) ==
    /\ s # Store
    /\ cancellation[o][s] = "NONE"
    /\ child[o][s] \notin Closed \cup {"PENDING_PAYMENT", "NONE"}
    /\ cancellation' = [cancellation EXCEPT ![o][s] = child[o][s]]
    /\ MoveChild(o, s, "CANCELLATION_REQUESTED")
    /\ UNCHANGED <<stockVars, paymentStatus, fullRefund, issue, refunded, ledger>>

\* A buyer reports an issue on an open sale, an unpaid one included.
CreateBuyerIssue(o, s) ==
    /\ s # Store
    /\ issue[o][s] = "NONE"
    /\ child[o][s] \notin Closed \cup {"NONE"}
    /\ issue' = [issue EXCEPT ![o][s] = child[o][s]]
    /\ MoveChild(o, s, "DISPUTED")
    /\ UNCHANGED <<stockVars, paymentStatus, fullRefund, cancellation, refunded, ledger>>

\* The administrator refunds an accredited seller order and closes it.  The
\* lines to restock are those of the sale or the ones the request names, which
\* are not compared with the sale; one unit of each here.
RefundSellerOrder(o, s, amount, lines) ==
    /\ child[o][s] \notin {"NONE", "PENDING_PAYMENT", "CANCELLED", "REFUNDED"}
    /\ paymentStatus[o] # "PENDING"
    /\ RecordAffiliateRefund(o, s, amount, lines)
    /\ SetLedger(o, s, RefundedLedger(o, s, amount))
    /\ MoveChild(o, s, "REFUNDED")
    /\ UNCHANGED <<fullRefund, issue, cancellation>>

\* The four decisions on an open issue.  None looks at the seller order's
\* own status: it may have moved on since the issue was opened.
ContinueAfterIssue(o, s) ==
    /\ issue[o][s] # "NONE"
    /\ MoveChild(o, s, issue[o][s])
    /\ issue' = [issue EXCEPT ![o][s] = "NONE"]
    /\ UNCHANGED <<stockVars, paymentStatus, fullRefund, cancellation, refunded, ledger>>

CompleteAfterIssue(o, s) ==
    /\ issue[o][s] # "NONE"
    /\ MoveChild(o, s, "COMPLETED")
    /\ SetLedger(o, s, EarningsReleased(ledger[o][s]))
    /\ issue' = [issue EXCEPT ![o][s] = "NONE"]
    /\ UNCHANGED <<stockVars, paymentStatus, fullRefund, cancellation, refunded>>

PartialRefundAfterIssue(o, s, amount, lines) ==
    /\ issue[o][s] # "NONE"
    /\ RecordAffiliateRefund(o, s, amount, lines)
    /\ MoveChild(o, s, "COMPLETED")
    /\ SetLedger(o, s, EarningsReleased(RefundedLedger(o, s, amount)))
    /\ issue' = [issue EXCEPT ![o][s] = "NONE"]
    /\ UNCHANGED <<fullRefund, cancellation>>

FullRefundAfterIssue(o, s, amount, lines) ==
    /\ issue[o][s] # "NONE"
    /\ RecordAffiliateRefund(o, s, amount, lines)
    /\ MoveChild(o, s, "REFUNDED")
    /\ SetLedger(o, s, RefundedLedger(o, s, amount))
    /\ issue' = [issue EXCEPT ![o][s] = "NONE"]
    /\ UNCHANGED <<fullRefund, cancellation>>

\* The decisions on a cancellation request, which do not look at the seller
\* order's own status either.
RejectCancellation(o, s) ==
    /\ cancellation[o][s] # "NONE"
    /\ MoveChild(o, s, cancellation[o][s])
    /\ cancellation' = [cancellation EXCEPT ![o][s] = "NONE"]
    /\ UNCHANGED <<stockVars, paymentStatus, fullRefund, issue, refunded, ledger>>

ApproveCancellationWithRefund(o, s, amount, lines) ==
    /\ cancellation[o][s] # "NONE"
    /\ RecordAffiliateRefund(o, s, amount, lines)
    /\ MoveChild(o, s, "REFUNDED")
    /\ SetLedger(o, s, RefundedLedger(o, s, amount))
    /\ cancellation' = [cancellation EXCEPT ![o][s] = "NONE"]
    /\ UNCHANGED <<fullRefund, issue>>

\* Without a refund only while the payment holds nothing to give back.
ApproveCancellationWithoutRefund(o, s) ==
    /\ cancellation[o][s] # "NONE"
    /\ paymentStatus[o] \notin {"APPROVED", "PARTIALLY_REFUNDED"}
    /\ MoveChild(o, s, "CANCELLED")
    /\ cancellation' = [cancellation EXCEPT ![o][s] = "NONE"]
    /\ UNCHANGED <<stockVars, paymentStatus, fullRefund, issue, refunded, ledger>>

-----------------------------------------------------------------------------
(* One step on a seller order.                                              *)

BuyerStep(o, s) ==
    \/ TransitionSellerOrder(o, s, "BUYER", "COMPLETED")
    \/ CreateBuyerIssue(o, s)

AffiliateStep(o, s) ==
    \/ \E next \in ChildStates : TransitionSellerOrder(o, s, "AFFILIATE", next)
    \/ RequestSellerCancellation(o, s)

AdminStep(o, s) ==
    \/ \E next \in ChildStates : TransitionSellerOrder(o, s, "ADMIN", next)
    \/ ContinueAfterIssue(o, s)
    \/ CompleteAfterIssue(o, s)
    \/ RejectCancellation(o, s)
    \/ ApproveCancellationWithoutRefund(o, s)
    \/ \E amount \in 1 .. Gross, restock \in Restocking :
        \/ \E named \in (SUBSET OrderedProducts) \ {{}} :
             RefundSellerOrder(o, s, amount, PutBack(restock, named))
        \/ LET lines == PutBack(restock, SaleLines(o, s)) IN
             \/ PartialRefundAfterIssue(o, s, amount, lines)
             \/ FullRefundAfterIssue(o, s, amount, lines)
             \/ ApproveCancellationWithRefund(o, s, amount, lines)

SystemStep(o, s) == TransitionSellerOrder(o, s, "SYSTEM", "COMPLETED")

SellerStep(o, s) ==
    /\ \/ "BUYER" \in Actors /\ BuyerStep(o, s)
       \/ "AFFILIATE" \in Actors /\ AffiliateStep(o, s)
       \/ "ADMIN" \in Actors /\ AdminStep(o, s)
       \/ "SYSTEM" \in Actors /\ SystemStep(o, s)
    /\ UNCHANGED loyaltyVars
=============================================================================
