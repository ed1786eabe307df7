--------------------------- MODULE MCOrderPayments ---------------------------
(***************************************************************************)
(* Small shops for TLC.  A .cfg picks orders, products, who acts and what  *)
(* is offered; the functions a .cfg cannot write are defined here.         *)
(***************************************************************************)
EXTENDS OrderPayments, ProviderReports, TLC

CONSTANTS customer, store, affiliate, storeCard, affiliateCard

\* One customer places every order.
MCBuyer == [o \in Orders |-> customer]

\* The affiliate's card belongs to the affiliate, every other to the store.
MCSellerOf == [p \in Products |-> IF p = affiliateCard THEN affiliate ELSE store]

\* Unique cards: one unit of each.
MCInitialStock == [p \in Products |-> 1]

MCInitialPoints == [u \in Users |-> 1]

\* The store ships, the affiliate hands over at a pickup point.
MCDelivery == [s \in Sellers |-> IF s = store THEN "SHIPMENT" ELSE "PICKUP"]

\* Reports of an order of Price units: every status, with up to two payments
\* and a refund; then the same with something that does not match.
Price == 2
PaymentReports ==
    [status : {"pending", "approved", "rejected", "in_mediation"},
     detail : {"accredited"}, refunded : {-1, 1}]
OrderReports ==
    [status : {"created", "processing", "processed", "approved", "rejected",
               "failed", "canceled", "expired", "refunded", "charged_back",
               "action_required", "unknown"},
     detail : {"", "waiting"},
     payments : BoundedSeq(PaymentReports, 1) \cup
                {<<first, last>> : first, last \in [status : {"pending", "approved"},
                                                  detail : {""}, refunded : {0, 1}]},
     refunds : {<<>>, <<1>>, <<1, 1>>},
     total : {Price}, currency : {"ARS"}, collector : {TRUE}, reference : {TRUE}]
Mismatches(report) ==
    {[report EXCEPT !.total = amount] : amount \in {-1, 1}} \cup
    {[report EXCEPT !.currency = "USD"], [report EXCEPT !.collector = FALSE],
     [report EXCEPT !.reference = FALSE]}

StatusOfOrder(report) == StatusForProvider(ProviderStateFromOrder(report), Price)

\* Everything Mercado Pago may answer, of an order that is no longer pending.
MCOutcomes ==
    {StatusOfOrder(report) : report \in OrderReports} \ {"PENDING"}

\* The answers of OrderPayments are exactly those the code reads out of the
\* reports, and a report that does not match is always one to review.
ASSUME AnswersAreTheReports ==
    /\ MCOutcomes \cup {"PENDING"} =
           {"PENDING", "APPROVED", "REJECTED", "FAILED", "REFUNDED",
            "PARTIALLY_REFUNDED", "DISPUTED", "REQUIRES_REVIEW"}
    /\ \A report \in OrderReports : \A other \in Mismatches(report) :
           StatusOfOrder(other) = "REQUIRES_REVIEW"

\* An order with a refund is never read as paid; one that ended is not
\* either, whatever its payments say.
ASSUME GivenBackIsNotPaid ==
    \A report \in OrderReports :
        /\ Total(report.refunds) > 0 =>
               StatusOfOrder(report) \in {"PARTIALLY_REFUNDED", "REFUNDED", "DISPUTED"}
        /\ report.status \in {"failed", "canceled", "expired"} =>
               StatusOfOrder(report) # "APPROVED"

\* A payment in pesos is always one to review (FetchPayment).
ASSUME PesoPaymentsAreReviewed ==
    \A report \in [status : {"approved", "rejected", "refunded", "pending",
                           "in_mediation"},
                  amount : {-1, Price}, refunded : {-1, 1, Price},
                  currency : {"ARS"}, collector : {TRUE}, reference : {TRUE}] :
        StatusForProvider(ProviderStateFromPayment(report), Price)
            = "REQUIRES_REVIEW"

\* Adjustments: a unit more or less, one more only, none.
MCDeltas == {-1, 1}
NoDeltas == {}

\* All orders are of one customer, so they are interchangeable.
MCSymmetry == Permutations(Orders)
=============================================================================
