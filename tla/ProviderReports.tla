--------------------------- MODULE ProviderReports ---------------------------
(***************************************************************************)
(* How what Mercado Pago reports of an order or of a payment becomes the   *)
(* payment status the shop acts on (orders.ts, providerStateFromOrder,     *)
(* providerStateFromPayment, statusForProvider).                           *)
(*                                                                         *)
(* A report is a record.  An order's has its status and detail ("" when it *)
(* has none), total, currency, payments (a sequence of records with        *)
(* status, detail and refunded amount) and refunds (a sequence of          *)
(* amounts); a payment's has status, amount, refunded and currency.  Of    *)
(* the collector and of the reference only matters whether they are the    *)
(* expected ones: collector and reference are Booleans.                    *)
(***************************************************************************)
EXTENDS Integers, SequencesExt

\* An amount in minor units; what does not read as one, a negative amount
\* for example, is -1.
Minor(amount) == IF amount >= 0 THEN amount ELSE -1

\* The sum of amounts, those that do not read counting nothing.
Total(amounts) ==
    FoldLeft(LAMBDA sum, amount : IF Minor(amount) > 0 THEN sum + amount ELSE sum,
             0, amounts)

\* What is given back is the payments' account of it or the refunds',
\* whichever is more, and all of a refunded order.
Refunded(report) ==
    LET ofPayments == Total([i \in DOMAIN report.payments |->
                                report.payments[i].refunded])
        ofRefunds == Total(report.refunds)
    IN  IF report.status = "refunded" /\ Minor(report.total) >= 0
        THEN report.total
        ELSE IF ofPayments > ofRefunds THEN ofPayments ELSE ofRefunds

\* The order's own detail, or else that of its last payment.
Detail(report) ==
    IF report.detail # "" \/ report.payments = <<>>
    THEN report.detail
    ELSE Last(report.payments).detail

ProviderStateFromOrder(report) ==
    LET paymentStatuses == {report.payments[i].status : i \in DOMAIN report.payments}
        terminal == report.status \in {"failed", "canceled", "cancelled", "expired"}
    IN  [status |-> report.status,
         amount |-> Minor(report.total),
         currencyMatches |-> report.currency = "ARS",
         collector |-> report.collector,
         reference |-> report.reference,
         rejected |-> "rejected" \in paymentStatuses \cup {report.status},
         terminal |-> terminal,
         approved |-> /\ ~terminal
                      /\ \/ report.status \in {"processed", "approved"}
                         \/ "approved" \in paymentStatuses
                         \/ Detail(report) = "accredited",
         disputed |-> {"charged_back", "in_mediation"}
                          \cap (paymentStatuses \cup {report.status}) # {},
         refunded |-> Refunded(report)]

\* A payment is compared with the shop's base currency, not with pesos.
ProviderStateFromPayment(report) ==
    LET amount == Minor(report.amount)
        refunded == IF report.status = "refunded" /\ amount >= 0
                    THEN amount ELSE Minor(report.refunded)
    IN  [status |-> report.status,
         amount |-> amount,
         currencyMatches |-> report.currency = "USD",
         collector |-> report.collector,
         reference |-> report.reference,
         rejected |-> report.status \in {"rejected", "cc_rejected"},
         terminal |-> FALSE,
         approved |-> report.status = "approved",
         disputed |-> report.status \in {"charged_back", "in_mediation"},
         refunded |-> IF refunded < 0 THEN 0 ELSE refunded]

\* The rules in their order: the first that applies decides.
StatusForProvider(state, expected) ==
    IF \/ state.amount < 0
       \/ state.amount # expected
       \/ ~state.currencyMatches
       \/ ~state.collector
       \/ ~state.reference                              THEN "REQUIRES_REVIEW"
    ELSE IF state.disputed                              THEN "DISPUTED"
    ELSE IF state.refunded >= expected /\ expected > 0  THEN "REFUNDED"
    ELSE IF state.refunded > 0                          THEN "PARTIALLY_REFUNDED"
    ELSE IF state.approved                              THEN "APPROVED"
    ELSE IF state.rejected                              THEN "REJECTED"
    ELSE IF state.terminal                              THEN "FAILED"
    ELSE IF state.status \in {"created", "processing", "action_required",
                              "pending", "in_process", "authorized"}
         THEN "PENDING"
    ELSE "REQUIRES_REVIEW"
=============================================================================
