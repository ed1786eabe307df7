---------------------------- MODULE OrderPayments ----------------------------
(***************************************************************************)
(* The life of an order: checkout, the bank transfer and Mercado Pago      *)
(* payments, cancellation, expiry, late payments and refunds, composed     *)
(* with the stock, the loyalty points and the seller orders each of them   *)
(* touches.                                                                *)
(*                                                                         *)
(* A handler that runs in one database transaction is one action: the      *)
(* WriteCoordinator queues the transactions and SQLite rolls back the ones *)
(* that throw, so a guard stands for each throw.  Mercado Pago is asked    *)
(* outside the queue: fetching an answer and applying it are two actions,  *)
(* and several fetchers (the webhook worker, buyers who refresh the page)  *)
(* may hold answers at once and apply them in any order.                   *)
(***************************************************************************)
EXTENDS SellerOrders

CONSTANTS
    Methods,        \* payment methods offered in this instance
    Receipts,       \* transfer receipts a buyer may upload for an order
    Fetchers,       \* who asks Mercado Pago: the worker and refreshing buyers
    Outcomes        \* what may become of an order at Mercado Pago

ASSUME OrderPaymentsAssumption ==
    /\ Methods \subseteq {"BANK_TRANSFER", "MERCADO_PAGO"}
    /\ Outcomes \subseteq {"APPROVED", "REJECTED", "FAILED", "REFUNDED",
                           "PARTIALLY_REFUNDED", "DISPUTED", "REQUIRES_REVIEW"}

VARIABLES
    method,         \* method[o]: Order.paymentMethod
    due,            \* due[o]: the clock has passed Order.expiresAt
    receipt,        \* receipt[o][r]: TransferReceipt.review, "NONE" if not sent
    provider,       \* provider[o]: the order at Mercado Pago (external)
    inFlight        \* answers fetched from Mercado Pago and not yet applied

paymentVars == <<method, due, receipt, provider, inFlight>>
vars == <<stockVars, loyaltyVars, sellerVars, paymentVars>>

\* What statusForProvider makes of an answer.
ProviderStates ==
    {"PENDING", "APPROVED", "REJECTED", "FAILED", "REFUNDED",
     "PARTIALLY_REFUNDED", "DISPUTED", "REQUIRES_REVIEW"}

Answers == [by : Fetchers, order : Orders, state : ProviderStates]

TypeOK ==
    /\ StockTypeOK
    /\ LoyaltyTypeOK
    /\ SellerTypeOK
    /\ method \in [Orders -> {"NONE", "BANK_TRANSFER", "MERCADO_PAGO"}]
    /\ due \in [Orders -> BOOLEAN]
    /\ receipt \in [Orders -> [Receipts -> {"NONE", "PENDING", "APPROVED", "REJECTED"}]]
    /\ provider \in [Orders -> ProviderStates \cup {"NONE", "REQUESTED"}]
    /\ inFlight \subseteq Answers

Init ==
    /\ StockInit
    /\ LoyaltyInit
    /\ SellerInit
    /\ method = [o \in Orders |-> "NONE"]
    /\ due = [o \in Orders |-> FALSE]
    /\ receipt = [o \in Orders |-> [r \in Receipts |-> "NONE"]]
    /\ provider = [o \in Orders |-> "NONE"]
    /\ inFlight = {}

-----------------------------------------------------------------------------

PaymentPending(o) == orderStatus[o] \in {"PENDING_PAYMENT", "PAYMENT_REVIEW"}
SetStatus(o, status) == orderStatus' = [orderStatus EXCEPT ![o] = status]
SetPayment(o, status) == paymentStatus' = [paymentStatus EXCEPT ![o] = status]

-----------------------------------------------------------------------------
(* Checkout.                                                                *)

\* POST /orders.  Points are redeemed and earned on store products only.
PlaceOrder(o, lines, m, redeems, earned) ==
    /\ orderStatus[o] = "NONE"
    /\ redeems \/ earned => Store \in SellersOf(lines)
    /\ ReserveStock(o, lines)
    /\ ReserveLoyaltyPoints(o, redeems, earned)
    /\ OpenSellerOrders(o, lines)
    /\ SetStatus(o, "PENDING_PAYMENT")
    /\ SetPayment(o, "PENDING")
    /\ method' = [method EXCEPT ![o] = m]
    /\ UNCHANGED <<fullRefund, issue, cancellation, refunded, ledger,
                   due, receipt, provider, inFlight>>

SetProvider(o, state) ==
    /\ provider' = [provider EXCEPT ![o] = state]
    /\ UNCHANGED <<stockVars, loyaltyVars, sellerVars, method, due, receipt, inFlight>>

\* The checkout session is asked for at checkout or when the buyer retries,
\* only while the order can be paid; the order may close during the call.
RequestCheckoutSession(o) ==
    /\ method[o] = "MERCADO_PAGO"
    /\ provider[o] = "NONE"
    /\ PaymentPending(o)
    /\ ~due[o]
    /\ SetProvider(o, "REQUESTED")

\* Mercado Pago answers: nothing is checked again before the session is
\* recorded.  Or the call fails and the buyer may retry.
CheckoutSessionAnswered(o) ==
    /\ provider[o] = "REQUESTED"
    /\ \E state \in {"PENDING", "NONE"} : SetProvider(o, state)

\* The clock passes the order's expiresAt, which is its reservations' too.
PaymentWindowCloses(o) ==
    /\ orderStatus[o] # "NONE"
    /\ ~due[o]
    /\ due' = [due EXCEPT ![o] = TRUE]
    /\ UNCHANGED <<stockVars, loyaltyVars, sellerVars, method, receipt, provider, inFlight>>

-----------------------------------------------------------------------------
(* Orders that end before they are paid.                                    *)

\* The buyer's cancellation.
CancelByCustomer(o) ==
    /\ PaymentPending(o)
    /\ SetStatus(o, "CANCELLED")
    /\ CloseUnpaidSellerOrders(o)
    /\ ReleaseReservations(o)
    /\ ReleaseOrderLoyaltyReservation(o)
    /\ UNCHANGED <<paymentStatus, fullRefund, paymentVars>>

\* The administrator's cancellation.
CancelByAdmin(o) ==
    /\ PaymentPending(o)
    /\ SetStatus(o, "CANCELLED")
    /\ CloseUnpaidSellerOrders(o)
    /\ ReleaseReservationsChecked(o)
    /\ ReleaseOrderLoyaltyReservation(o)
    /\ UNCHANGED <<paymentStatus, fullRefund, paymentVars>>

\* Wrong form of ExpireReservations: the order is not read again inside the
\* transaction, so it may have been paid since it was listed.
ExpireReservationsUnchecked(o) ==
    /\ orderStatus[o] # "NONE"
    /\ due[o]
    /\ SetStatus(o, "EXPIRED")
    /\ CloseUnpaidSellerOrders(o)
    /\ ReleaseReservations(o)
    /\ ReleaseOrderLoyaltyReservation(o)
    /\ UNCHANGED <<paymentStatus, fullRefund, paymentVars>>

\* Wrong form of ExpireReservations: orders under review are not listed.
ExpireReservationsPendingOnly(o) ==
    /\ orderStatus[o] = "PENDING_PAYMENT"
    /\ ExpireReservationsUnchecked(o)

\* The expiry job, for one of the orders it listed; the order is read again
\* inside the transaction.
ExpireReservations(o) ==
    /\ PaymentPending(o)
    /\ due[o]
    /\ SetStatus(o, "EXPIRED")
    /\ CloseUnpaidSellerOrders(o)
    /\ ReleaseReservations(o)
    /\ ReleaseOrderLoyaltyReservation(o)
    /\ UNCHANGED <<paymentStatus, fullRefund, paymentVars>>

-----------------------------------------------------------------------------
(* Bank transfers.                                                          *)

\* Wrong form of SubmitReceipt: the order's status is not read again inside
\* the transaction, so it may have closed during the upload.
SubmitReceiptUnchecked(o, r) ==
    /\ method[o] = "BANK_TRANSFER"
    /\ receipt[o][r] = "NONE"
    /\ receipt' = [receipt EXCEPT ![o][r] = "PENDING"]
    /\ SetPayment(o, "UNDER_REVIEW")
    /\ SetStatus(o, "PAYMENT_REVIEW")
    /\ UNCHANGED <<stockVars, loyaltyVars, fullRefund, childVars,
                   method, due, provider, inFlight>>

\* The buyer uploads a receipt.
SubmitReceipt(o, r) ==
    /\ method[o] = "BANK_TRANSFER"
    /\ PaymentPending(o)
    /\ receipt[o][r] = "NONE"
    /\ receipt' = [receipt EXCEPT ![o][r] = "PENDING"]
    /\ SetPayment(o, "UNDER_REVIEW")
    /\ SetStatus(o, "PAYMENT_REVIEW")
    /\ UNCHANGED <<stockVars, loyaltyVars, fullRefund, childVars,
                   method, due, provider, inFlight>>

\* Wrong form of Decided: the other receipts keep waiting.
DecidedAlone(o, r, decision) == [receipt EXCEPT ![o][r] = decision]

\* A decision on one receipt rejects the others that were waiting.
Decided(o, r, decision) ==
    [receipt EXCEPT ![o] = [q \in Receipts |->
        IF q = r THEN decision
        ELSE IF receipt[o][q] = "PENDING" THEN "REJECTED" ELSE receipt[o][q]]]

Reviewable(o, r) == method[o] = "BANK_TRANSFER" /\ receipt[o][r] = "PENDING" /\ PaymentPending(o)

\* The administrator accepts a receipt.  Nobody looks at expiresAt.
ApproveTransfer(o, r) ==
    /\ Reviewable(o, r)
    /\ ConsumeReservations(o)
    /\ SetPayment(o, "APPROVED")
    /\ receipt' = Decided(o, r, "APPROVED")
    /\ SettleOrderLoyalty(o)
    /\ SettleSellerOrders(o)
    /\ UNCHANGED <<fullRefund, method, due, provider, inFlight>>

\* The administrator refuses a receipt, which cancels the order.
RejectTransfer(o, r) ==
    /\ Reviewable(o, r)
    /\ SetStatus(o, "CANCELLED")
    /\ ReleaseReservationsChecked(o)
    /\ SetPayment(o, "REJECTED")
    /\ receipt' = Decided(o, r, "REJECTED")
    /\ CloseUnpaidSellerOrders(o)
    /\ ReleaseOrderLoyaltyReservation(o)
    /\ UNCHANGED <<fullRefund, method, due, provider, inFlight>>

-----------------------------------------------------------------------------
(* Mercado Pago, which the shop only observes (external).                   *)

ProviderSteps ==
    {<<"PENDING", "APPROVED">>, <<"PENDING", "REJECTED">>, <<"PENDING", "FAILED">>,
     <<"PENDING", "REQUIRES_REVIEW">>, <<"REJECTED", "APPROVED">>,
     <<"REQUIRES_REVIEW", "APPROVED">>, <<"APPROVED", "DISPUTED">>,
     <<"APPROVED", "PARTIALLY_REFUNDED">>, <<"APPROVED", "REFUNDED">>,
     <<"DISPUTED", "APPROVED">>, <<"DISPUTED", "REFUNDED">>,
     <<"PARTIALLY_REFUNDED", "REFUNDED">>}

ProviderMoves(o) ==
    \E state \in Outcomes :
        /\ <<provider[o], state>> \in ProviderSteps
        /\ SetProvider(o, state)

Idle(f) == \A a \in inFlight : a.by # f

Received(f, o, state) ==
    /\ Idle(f)
    /\ inFlight' = inFlight \cup {[by |-> f, order |-> o, state |-> state]}
    /\ UNCHANGED <<stockVars, loyaltyVars, sellerVars, method, due, receipt, provider>>

\* getOrder: the worker for an "order" event, or a buyer's refresh.
FetchOrder(f, o) == provider[o] \in ProviderStates /\ Received(f, o, provider[o])

\* getPayment, for a "payment" event: its currency, pesos, is compared with
\* BASE_CURRENCY, dollars, so the answer always fails validation.
FetchPayment(f, o) ==
    /\ provider[o] \in ProviderStates \ {"PENDING"}
    /\ Received(f, o, "REQUIRES_REVIEW")

\* A restart, or a transaction that throws, loses the answer; the webhook is
\* retried by fetching again.
LoseAnswer(a) ==
    /\ inFlight' = inFlight \ {a}
    /\ UNCHANGED <<stockVars, loyaltyVars, sellerVars, method, due, receipt, provider>>

-----------------------------------------------------------------------------
(* Applying an answer.                                                      *)

\* Every answer overwrites the payment's status, however old it is.
Applied(a) ==
    /\ SetPayment(a.order, a.state)
    /\ inFlight' = inFlight \ {a}
    /\ UNCHANGED <<fullRefund, method, due, receipt, provider>>

NotReviewed == {"PAID", "COMPLETED", "REFUND_RECORDED", "PAYMENT_REQUIRES_REVIEW"}

MoveToPaymentReview(o) ==
    /\ IF orderStatus[o] \in NotReviewed
       THEN UNCHANGED orderStatus ELSE SetStatus(o, "PAYMENT_REQUIRES_REVIEW")
    /\ UNCHANGED <<stockVars, loyaltyVars, childVars>>

TooLate(o) == orderStatus[o] \in {"EXPIRED", "CANCELLED"} \/ due[o]
ReservationsValid(o) == Lines(o) # {} /\ Active(o) = Lines(o)

ApplyReview(a) ==
    /\ a.state \in {"REQUIRES_REVIEW", "DISPUTED", "PARTIALLY_REFUNDED"}
    /\ Applied(a)
    /\ MoveToPaymentReview(a.order)

ApplyLateApproval(a) ==
    /\ a.state = "APPROVED"
    /\ \/ TooLate(a.order)
       \/ PaymentPending(a.order) /\ ~ReservationsValid(a.order)
    /\ Applied(a)
    /\ MoveToPaymentReview(a.order)

\* Wrong form of ApplyApproval: an order that expired is paid all the same.
ApplyApprovalOfExpired(a) ==
    /\ a.state = "APPROVED"
    /\ PaymentPending(a.order) \/ orderStatus[a.order] = "EXPIRED"
    /\ Applied(a)
    /\ AcquireLateStock(a.order)
    /\ SettleSellerOrders(a.order)
    /\ SettleOrderLoyalty(a.order)

ApplyApproval(a) ==
    /\ a.state = "APPROVED"
    /\ ~TooLate(a.order)
    /\ PaymentPending(a.order)
    /\ ReservationsValid(a.order)
    /\ Applied(a)
    /\ TakeReserved(a.order)
    /\ SettleSellerOrders(a.order)
    /\ SettleOrderLoyalty(a.order)

ApplyFailure(a) ==
    /\ a.state = "FAILED"
    /\ PaymentPending(a.order)
    /\ Applied(a)
    /\ SetStatus(a.order, "EXPIRED")
    /\ CloseUnpaidSellerOrders(a.order)
    /\ ReleaseReservations(a.order)
    /\ ReleaseOrderLoyaltyReservation(a.order)

ApplyRefund(a) ==
    /\ a.state = "REFUNDED"
    /\ Applied(a)
    /\ ReleaseReservations(a.order)
    /\ SetStatus(a.order, "REFUND_RECORDED")
    /\ ReleaseAndReverseLoyalty(a.order)
    /\ CloseAndReverseSellerOrders(a.order)

\* The answers that change nothing but the payment's status.
ApplyStatusOnly(a) ==
    /\ \/ a.state \in {"PENDING", "REJECTED"}
       \/ a.state = "FAILED" /\ ~PaymentPending(a.order)
       \/ a.state = "APPROVED" /\ ~TooLate(a.order) /\ ~PaymentPending(a.order)
    /\ Applied(a)
    /\ UNCHANGED <<stockVars, loyaltyVars, orderStatus, childVars>>

ApplyMercadoProviderState(a) ==
    \/ ApplyReview(a)
    \/ ApplyLateApproval(a)
    \/ ApplyApproval(a)
    \/ ApplyFailure(a)
    \/ ApplyRefund(a)
    \/ ApplyStatusOnly(a)

-----------------------------------------------------------------------------
(* The administrator settles what the provider left open.                   *)

\* Wrong form of FulfillLatePayment: units still reserved are sold and stay
\* counted as reserved.
FulfillLatePaymentKeepingCount(o) ==
    /\ orderStatus[o] = "PAYMENT_REQUIRES_REVIEW"
    /\ paymentStatus[o] = "APPROVED"
    /\ \A p \in LinesIn(o, {"ACTIVE", "RELEASED"}) : onHand[p] >= 1
    /\ onHand' = Shift(onHand, LinesIn(o, {"ACTIVE", "RELEASED"}), -1)
    /\ reservation' = Marked(o, Lines(o), "CONSUMED")
    /\ SettleOrderLoyalty(o)
    /\ SettleSellerOrders(o)
    /\ UNCHANGED <<reserved, paymentStatus, fullRefund, paymentVars>>

\* A payment approved after its order closed is accepted if the stock can
\* still be had.
FulfillLatePayment(o) ==
    /\ orderStatus[o] = "PAYMENT_REQUIRES_REVIEW"
    /\ paymentStatus[o] = "APPROVED"
    /\ AcquireLateStock(o)
    /\ SettleOrderLoyalty(o)
    /\ SettleSellerOrders(o)
    /\ UNCHANGED <<paymentStatus, fullRefund, paymentVars>>

\* Wrong form of RecordFullRefund: the redemption is returned on its status,
\* without looking for the entry that returned it before.
RecordFullRefundByStatus(o) ==
    /\ paymentStatus[o] \in {"APPROVED", "REQUIRES_REVIEW"}
    /\ ~fullRefund[o]
    /\ SellerRefunds(o) = 0
    /\ fullRefund' = [fullRefund EXCEPT ![o] = TRUE]
    /\ SetPayment(o, "REFUNDED")
    /\ SetStatus(o, "REFUND_RECORDED")
    /\ balance' = [balance EXCEPT ![Buyer[o]] = @ + Lots(redemption[o] # "NONE")]
    /\ UNCHANGED <<pointsReserved, redemption, earns, entries>>
    /\ CloseAndReverseSellerOrders(o)
    /\ UNCHANGED <<stockVars, paymentVars>>

\* A full refund made outside is recorded; reservations and reserved points
\* are left as they are.
RecordFullRefund(o) ==
    /\ paymentStatus[o] \in {"APPROVED", "REQUIRES_REVIEW"}
    /\ ~fullRefund[o]
    /\ SellerRefunds(o) = 0
    /\ fullRefund' = [fullRefund EXCEPT ![o] = TRUE]
    /\ SetPayment(o, "REFUNDED")
    /\ SetStatus(o, "REFUND_RECORDED")
    /\ ReverseOrderLoyalty(o)
    /\ CloseAndReverseSellerOrders(o)
    /\ UNCHANGED <<stockVars, paymentVars>>

-----------------------------------------------------------------------------

CheckoutStep(o) ==
    \/ \E lines \in SUBSET Products, m \in Methods, redeems, earned \in BOOLEAN :
        PlaceOrder(o, lines, m, redeems, earned)
    \/ RequestCheckoutSession(o)
    \/ CheckoutSessionAnswered(o)
    \/ PaymentWindowCloses(o)

UnpaidStep(o) ==
    \/ CancelByCustomer(o)
    \/ CancelByAdmin(o)
    \/ ExpireReservations(o)

TransferStep(o) ==
    \E r \in Receipts :
        \/ SubmitReceipt(o, r)
        \/ ApproveTransfer(o, r)
        \/ RejectTransfer(o, r)

MercadoPagoStep ==
    \/ \E o \in Orders : ProviderMoves(o)
    \/ \E f \in Fetchers, o \in Orders : FetchOrder(f, o) \/ FetchPayment(f, o)
    \/ \E a \in inFlight : ApplyMercadoProviderState(a) \/ LoseAnswer(a)

SettlementStep(o) == FulfillLatePayment(o) \/ RecordFullRefund(o)

InventoryStep ==
    /\ \E p \in Products :
        \/ \E delta \in Deltas : AdjustInventory(p, delta)
        \/ "AFFILIATE" \in Actors /\ \E units \in 0 .. MaxOnHand : SetAffiliateStock(p, units)
    /\ UNCHANGED <<loyaltyVars, sellerVars, paymentVars>>

Next ==
    \/ \E o \in Orders :
        \/ CheckoutStep(o)
        \/ UnpaidStep(o)
        \/ TransferStep(o)
        \/ SettlementStep(o)
        \/ \E s \in Sellers : SellerStep(o, s) /\ UNCHANGED paymentVars
    \/ MercadoPagoStep
    \/ InventoryStep

Spec == Init /\ [][Next]_vars

\* The jobs of server.ts run on timers for as long as the process lives, and
\* time passes; nobody else has to act.
Fairness ==
    \A o \in Orders :
        /\ WF_vars(PaymentWindowCloses(o))
        /\ WF_vars(ExpireReservations(o))

FairSpec == Spec /\ Fairness

-----------------------------------------------------------------------------
(* What holds of whole orders.                                              *)

\* Whatever is shipped, credited to an affiliate or turned into points was
\* taken out of stock first: no path accredits a payment on units that are
\* only reserved, or that were released to somebody else.
AccreditedStockConsumed ==
    \A o \in Orders :
        /\ "EARN" \in entries[o] \/ "REDEEM" \in entries[o] =>
            \A p \in Lines(o) : reservation[o][p] = "CONSUMED"
        /\ \A s \in Sellers :
            child[o][s] \in Shippable \/ ledger[o][s].sale =>
                \A p \in Lines(o) : SellerOf[p] = s => reservation[o][p] = "CONSUMED"

\* Orders that cannot be accredited after their payment window by way of an
\* issue: transfers, and orders of the store's own cards, which have no
\* issues.  (Of the others, see ExpiredBeforePayment.)
PlainOrder(o) == method[o] = "BANK_TRANSFER" \/ Children(o) \subseteq {Store}

\* An expired order holds nothing: its units and points are free again and
\* none of its seller orders can be operated.
ExpiredHoldsNothing ==
    \A o \in Orders : PlainOrder(o) /\ orderStatus[o] = "EXPIRED" =>
        /\ \A p \in Lines(o) : reservation[o][p] = "RELEASED"
        /\ redemption[o] \in {"NONE", "RELEASED"}
        /\ \A s \in Children(o) : child[o][s] = "CANCELLED"

\* One transfer receipt decides an order: at most one is ever approved, and
\* once it is none is left for a second administrator to approve, nor can
\* the order get back to where another may be sent.
OneReceiptDecides ==
    \A o \in Orders : \A r, q \in Receipts :
        receipt[o][r] = "APPROVED" /\ q # r => receipt[o][q] \notin {"APPROVED", "PENDING"}

\* An order that still waits for its payment can be paid: its units and its
\* points are reserved and every seller order is unpaid.
PendingOrdersIntact ==
    \A o \in Orders : PlainOrder(o) /\ PaymentPending(o) =>
        /\ Active(o) = Lines(o)
        /\ redemption[o] \in {"NONE", "RESERVED"} /\ entries[o] = {}
        /\ \A s \in Children(o) : child[o][s] = "PENDING_PAYMENT"

\* An affiliate is never owed more than the net of the sale, and nothing of
\* a sale that was not accredited: no path credits or releases it twice.
EarningsWithinSale ==
    \A o \in Orders, s \in Sellers :
        /\ ledger[o][s].pending >= 0
        /\ ledger[o][s].pending + ledger[o][s].available <=
            IF ledger[o][s].sale THEN Net ELSE 0

\* A cancelled or refunded seller order is opened again only by a decision
\* on an issue or a cancellation request that was left open when it closed.
ReopenedOnlyByDecision ==
    [][\A o \in Orders, s \in Sellers :
        child[o][s] \in {"CANCELLED", "REFUNDED"} /\ child'[o][s] # child[o][s] =>
            \/ issue[o][s] # "NONE" /\ issue'[o][s] = "NONE"
            \/ cancellation[o][s] # "NONE" /\ cancellation'[o][s] = "NONE"]_vars

\* A unit given back by a cancelled, expired or failed order is sold to that
\* order again only through an accepted late payment.
ReleasedUnitsReturnOnlyLate ==
    [][\A o \in Orders, p \in Products :
        reservation[o][p] = "RELEASED" /\ reservation'[o][p] # "RELEASED" =>
            orderStatus[o] = "PAYMENT_REQUIRES_REVIEW" /\ paymentStatus[o] = "APPROVED"]_vars

\* Every order leaves payment: it is paid, cancelled or handed to a person,
\* or the expiry job closes it.  No inconsistent counter makes the job throw.
OrdersLeavePayment == \A o \in Orders : PaymentPending(o) ~> ~PaymentPending(o)

-----------------------------------------------------------------------------
(* What the repository says and the code does not keep; each has a run that  *)
(* shows a counterexample.                                                  *)

\* 'Sí se puede borrar si las órdenes relacionadas están completadas,
\* canceladas o vencidas': a product with no other orders can be deleted, so
\* those orders hold no reserved unit of it.
ClosedOrdersHoldNoStock ==
    \A o \in Orders :
        orderStatus[o] \in {"COMPLETED", "CANCELLED", "EXPIRED"} => Active(o) = {}

\* 'Accept a canonical late payment after atomically reacquiring stock': an
\* order whose payment is approved and whose units were taken is not one
\* that reads as cancelled.
AcceptedPaymentsNotCancelled ==
    \A o \in Orders :
        /\ paymentStatus[o] = "APPROVED" /\ SellerRefunds(o) = 0
        /\ Lines(o) # {} /\ Lines(o) = LinesIn(o, {"CONSUMED"})
        => orderStatus[o] # "CANCELLED"

\* 'Parent order expired before payment': an order that expires was not
\* paid, so none of its units was sold to it.
ExpiredBeforePayment ==
    \A o \in Orders : orderStatus[o] = "EXPIRED" => LinesIn(o, {"CONSUMED"}) = {}

\* MISSING_SALE_LEDGER of the reconciliation command: a seller order an
\* affiliate carried out, or completed, has its sale in the ledger.
CompletedSalesCredited ==
    \A o \in Orders, s \in Affiliates :
        child[o][s] \in Shippable \cup {"COMPLETED"} => ledger[o][s].sale

\* 'reconciles from Order.get and remains idempotent': an approval applied
\* again to an approved and accredited payment leaves the order alone.
RepeatedApprovalIdempotent ==
    [][\A o \in Orders :
        /\ paymentStatus[o] = "APPROVED" /\ paymentStatus'[o] = "APPROVED"
        /\ Lines(o) # {} /\ Lines(o) = LinesIn(o, {"CONSUMED"})
        /\ inFlight' # inFlight
        => orderStatus'[o] = orderStatus[o]]_vars

\* CLOSED_ORDER_BALANCE of the reconciliation command: a cancelled or
\* refunded seller order leaves nothing pending for its affiliate.
ClosedOrdersOweNothing ==
    \A o \in Orders, s \in Affiliates :
        child[o][s] \in {"CANCELLED", "REFUNDED"} => ledger[o][s].pending = 0
=============================================================================
