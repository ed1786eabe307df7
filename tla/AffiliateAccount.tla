-------------------------- MODULE AffiliateAccount --------------------------
(***************************************************************************)
(* The account of one affiliate: what its sales earn, the withdrawals it   *)
(* asks for, the administrator's corrections, and the reconciliation       *)
(* command, a process of its own that lists the sales once and then reads  *)
(* and repairs them one by one while the server goes on.                   *)
(*                                                                         *)
(* A sale here is a seller order seen from its ledger: PAID stands for     *)
(* every status in which it is being fulfilled, CLOSED for CANCELLED and   *)
(* REFUNDED, and openIssue for an open issue or a cancellation request     *)
(* (both remember a status and are decided without looking at the present  *)
(* one).  The order around it, whose payment decides when some of these    *)
(* handlers are refused, is modelled in OrderPayments.                     *)
(***************************************************************************)
EXTENDS Earnings, FiniteSetsExt

CONSTANTS
    Sales,          \* the affiliate's seller orders
    Payouts,        \* withdrawal requests it may make
    Amounts,        \* amounts it may ask for
    Adjustments     \* corrections of which an administrator may enter one

ASSUME AccountAssumption ==
    /\ IsFiniteSet(Sales) /\ IsFiniteSet(Payouts)
    /\ Amounts \subseteq Nat \ {0}
    /\ Adjustments \subseteq Int \ {0}

VARIABLES
    sale,           \* sale[s]: SellerOrder.status
    accredited,     \* accredited[s]: its order's payment was accredited
    openIssue,      \* openIssue[s]: previousStatus of what is open, or "NONE"
    earnings,       \* earnings[s]: the sale's entries
    releasedOnce,   \* releasedOnce[s]: a SALE_RELEASED entry exists
    repaired,       \* repaired[s]: the entry reconcile:sale-pending:s exists
    refunded,       \* refunded[s]: sum of the sale's refunds
    payout,         \* payout[p]: AffiliatePayoutRequest.status
    asked,          \* asked[p]: its amountMinor
    entries,        \* entries[p]: keys of the ledger entries of p
    adjusted,       \* adjusted[b]: the ADJUSTMENT entry of bucket b, 0 if none
    listed,         \* the command: statuses it listed and has not checked yet
    repair          \* the command: the repair it decided on, or NoRepair

saleVars == <<sale, accredited, openIssue, earnings, releasedOnce, refunded>>
payoutVars == <<payout, asked, entries>>
commandVars == <<listed, repair>>
vars == <<saleVars, repaired, payoutVars, adjusted, commandVars>>

SaleStates == {"UNPAID", "PAID", "DISPUTED", "COMPLETED", "CLOSED"}
PayoutStates == {"REQUESTED", "PROCESSING", "PAID", "REJECTED"}
Buckets == {"PENDING", "AVAILABLE", "RESERVED", "PAID"}
NoRepair == [of |-> "NONE", release |-> FALSE]
EntryKeys ==
    {"available", "reserved", "paid-reserved", "paid", "rejected-reserved", "rejected-available"}

AccountTypeOK ==
    /\ sale \in [Sales -> SaleStates]
    /\ accredited \in [Sales -> BOOLEAN]
    /\ openIssue \in [Sales -> {"NONE", "UNPAID", "PAID"}]
    /\ earnings \in [Sales -> Ledgers]
    /\ releasedOnce \in [Sales -> BOOLEAN]
    /\ repaired \in [Sales -> BOOLEAN]
    /\ refunded \in [Sales -> 0 .. Gross]
    /\ payout \in [Payouts -> PayoutStates \cup {"NONE"}]
    /\ asked \in [Payouts -> Amounts \cup {0}]
    /\ entries \in [Payouts -> SUBSET EntryKeys]
    /\ adjusted \in [Buckets -> Adjustments \cup {0}]
    /\ listed \in [Sales -> SaleStates \cup {"NONE"}]
    /\ repair \in [of : Sales \cup {"NONE"}, release : BOOLEAN]

Init ==
    /\ sale = [s \in Sales |-> "UNPAID"]
    /\ accredited = [s \in Sales |-> FALSE]
    /\ openIssue = [s \in Sales |-> "NONE"]
    /\ earnings = [s \in Sales |-> EmptyLedger]
    /\ releasedOnce = [s \in Sales |-> FALSE]
    /\ repaired = [s \in Sales |-> FALSE]
    /\ refunded = [s \in Sales |-> 0]
    /\ payout = [p \in Payouts |-> "NONE"]
    /\ asked = [p \in Payouts |-> 0]
    /\ entries = [p \in Payouts |-> {}]
    /\ adjusted = [b \in Buckets |-> 0]
    /\ listed = [s \in Sales |-> "NONE"]
    /\ repair = NoRepair

-----------------------------------------------------------------------------
(* The four balances: sums over all the entries of a bucket.                *)

Written(p, key) == IF key \in entries[p] THEN asked[p] ELSE 0

\* What a withdrawal's entries add to each bucket.
PayoutEntries(p, bucket) ==
    CASE bucket = "AVAILABLE" -> Written(p, "rejected-available") - Written(p, "available")
      [] bucket = "RESERVED" -> Written(p, "reserved") - Written(p, "paid-reserved")
                                    - Written(p, "rejected-reserved")
      [] bucket = "PAID" -> Written(p, "paid")

Withdrawn(bucket) == SumFunction([p \in Payouts |-> PayoutEntries(p, bucket)])

Pending == SumFunction([s \in Sales |-> earnings[s].pending]) + adjusted["PENDING"]
Available ==
    SumFunction([s \in Sales |-> earnings[s].available])
        + Withdrawn("AVAILABLE") + adjusted["AVAILABLE"]
Reserved == Withdrawn("RESERVED") + adjusted["RESERVED"]
PaidOut == Withdrawn("PAID") + adjusted["PAID"]

-----------------------------------------------------------------------------
(* Sales.                                                                   *)

MoveSale(s, status) == sale' = [sale EXCEPT ![s] = status]
SetEarnings(s, l) == earnings' = [earnings EXCEPT ![s] = l]

\* releaseAffiliateEarnings: nothing is written when nothing is pending.
Release(s, l) ==
    /\ SetEarnings(s, EarningsReleased(l))
    /\ releasedOnce' = [releasedOnce EXCEPT ![s] = @ \/ l.pending > 0]

\* The order's payment is accredited; a sale that is not waiting for it is
\* not credited.
Accredit(s) ==
    /\ ~accredited[s]
    /\ accredited' = [accredited EXCEPT ![s] = TRUE]
    /\ IF sale[s] = "UNPAID"
       THEN MoveSale(s, "PAID") /\ SetEarnings(s, Credited(earnings[s]))
       ELSE UNCHANGED <<sale, earnings>>
    /\ UNCHANGED <<openIssue, releasedOnce, refunded>>

CancelUnpaid(s) ==
    /\ sale[s] = "UNPAID"
    /\ MoveSale(s, "CLOSED")
    /\ UNCHANGED <<accredited, openIssue, earnings, releasedOnce, refunded>>

Complete(s) ==
    /\ sale[s] = "PAID"
    /\ MoveSale(s, "COMPLETED")
    /\ Release(s, earnings[s])
    /\ UNCHANGED <<accredited, openIssue, refunded>>

OpenIssue(s) ==
    /\ openIssue[s] = "NONE"
    /\ sale[s] \in {"UNPAID", "PAID"}
    /\ openIssue' = [openIssue EXCEPT ![s] = sale[s]]
    /\ MoveSale(s, "DISPUTED")
    /\ UNCHANGED <<accredited, earnings, releasedOnce, refunded>>

\* The decisions on what is open.
CloseIssue(s) ==
    /\ openIssue[s] # "NONE"
    /\ openIssue' = [openIssue EXCEPT ![s] = "NONE"]

Continue(s) ==
    /\ CloseIssue(s)
    /\ MoveSale(s, openIssue[s])
    /\ UNCHANGED <<accredited, earnings, releasedOnce, refunded>>

CompleteDisputed(s) ==
    /\ CloseIssue(s)
    /\ MoveSale(s, "COMPLETED")
    /\ Release(s, earnings[s])
    /\ UNCHANGED <<accredited, refunded>>

CloseWithoutRefund(s) ==
    /\ CloseIssue(s)
    /\ MoveSale(s, "CLOSED")
    /\ UNCHANGED <<accredited, earnings, releasedOnce, refunded>>

\* recordAffiliateRefund: the refunds of a sale never exceed its total.
RecordRefund(s, amount) ==
    /\ refunded[s] + amount <= Gross
    /\ refunded' = [refunded EXCEPT ![s] = @ + amount]

\* The seller's share of a refund whose split the administrator gives.
RefundedEarnings(s, amount, products) ==
    Debited(earnings[s], amount - CommissionReversed(products))

\* A partial refund completes the sale: what is left is released.
PartialRefundDisputed(s, amount, products) ==
    /\ CloseIssue(s)
    /\ RecordRefund(s, amount)
    /\ MoveSale(s, "COMPLETED")
    /\ Release(s, RefundedEarnings(s, amount, products))
    /\ UNCHANGED accredited

\* A refund that closes the sale: of a disputed one by its issue or its
\* cancellation request, or of any accredited one by the administrator.
FullRefundDisputed(s, amount, products) ==
    /\ CloseIssue(s)
    /\ RecordRefund(s, amount)
    /\ MoveSale(s, "CLOSED")
    /\ SetEarnings(s, RefundedEarnings(s, amount, products))
    /\ UNCHANGED <<accredited, releasedOnce>>

Refund(s, amount, products) ==
    /\ sale[s] \in {"PAID", "DISPUTED", "COMPLETED"}
    /\ RecordRefund(s, amount)
    /\ MoveSale(s, "CLOSED")
    /\ SetEarnings(s, RefundedEarnings(s, amount, products))
    /\ UNCHANGED <<accredited, openIssue, releasedOnce>>

\* The order is refunded as a whole, by the administrator or by a report of
\* Mercado Pago, which may come after other refunds and more than once: a sale
\* that is closed is left alone, one that was opened again is debited again,
\* but for the entries that exist.
RefundByParent(s) ==
    /\ sale[s] # "CLOSED"
    /\ MoveSale(s, "CLOSED")
    /\ SetEarnings(s, DebitedByParent(earnings[s]))
    /\ UNCHANGED <<accredited, openIssue, releasedOnce, refunded>>

SaleStep(s) ==
    \/ Accredit(s)
    \/ CancelUnpaid(s)
    \/ Complete(s)
    \/ OpenIssue(s)
    \/ Continue(s)
    \/ CompleteDisputed(s)
    \/ CloseWithoutRefund(s)
    \/ RefundByParent(s)
    \/ \E amount \in 1 .. Gross : \E products \in Breakdowns(amount) :
        \/ PartialRefundDisputed(s, amount, products)
        \/ FullRefundDisputed(s, amount, products)
        \/ Refund(s, amount, products)

-----------------------------------------------------------------------------
(* Withdrawals.                                                             *)

Enter(p, keys) == entries' = [entries EXCEPT ![p] = @ \cup keys]

\* Wrong form of RequestPayout: what is already reserved counts again.
RequestPayoutOfReserved(p, amount) ==
    /\ payout[p] = "NONE"
    /\ Available + Reserved >= amount
    /\ payout' = [payout EXCEPT ![p] = "REQUESTED"]
    /\ asked' = [asked EXCEPT ![p] = amount]
    /\ Enter(p, {"available", "reserved"})

\* POST /payouts: the balance is read in the transaction that reserves it.
RequestPayout(p, amount) ==
    /\ payout[p] = "NONE"
    /\ Available >= amount
    /\ payout' = [payout EXCEPT ![p] = "REQUESTED"]
    /\ asked' = [asked EXCEPT ![p] = amount]
    /\ Enter(p, {"available", "reserved"})

ProcessPayout(p) ==
    /\ payout[p] = "REQUESTED"
    /\ payout' = [payout EXCEPT ![p] = "PROCESSING"]
    /\ UNCHANGED <<asked, entries>>

PayPayout(p) ==
    /\ payout[p] = "PROCESSING"
    /\ payout' = [payout EXCEPT ![p] = "PAID"]
    /\ Enter(p, {"paid-reserved", "paid"})
    /\ UNCHANGED asked

RejectPayout(p) ==
    /\ payout[p] = "PROCESSING"
    /\ payout' = [payout EXCEPT ![p] = "REJECTED"]
    /\ Enter(p, {"rejected-reserved", "rejected-available"})
    /\ UNCHANGED asked

PayoutStep(p) ==
    \/ \E amount \in Amounts : RequestPayout(p, amount)
    \/ ProcessPayout(p)
    \/ PayPayout(p)
    \/ RejectPayout(p)

\* POST /ledger-adjustments; one of them in this model.
Adjust(bucket, amount) ==
    /\ \A b \in Buckets : adjusted[b] = 0
    /\ adjusted' = [adjusted EXCEPT ![bucket] = amount]

-----------------------------------------------------------------------------
(* The reconciliation command.                                              *)

ReconcileList ==
    /\ repair = NoRepair
    /\ listed = [s \in Sales |-> "NONE"]
    /\ listed' = sale
    /\ UNCHANGED repair

\* It reads the balance now and compares it with the status it listed.
ReconcileRead(s) ==
    LET missing == earnings[s].pending <= 0
        needsPending == listed[s] = "PAID" /\ missing
        needsRelease == listed[s] = "COMPLETED" /\ missing /\ ~releasedOnce[s]
    IN  /\ repair = NoRepair
        /\ listed[s] # "NONE"
        /\ listed' = [listed EXCEPT ![s] = "NONE"]
        /\ repair' = IF needsPending \/ needsRelease
                     THEN [of |-> s, release |-> needsRelease] ELSE NoRepair

\* The repair's entry is written once per sale.
RepairedEarnings(s) ==
    IF repaired[s] THEN earnings[s] ELSE [earnings[s] EXCEPT !.pending = @ + Net]

ReconcileApply ==
    /\ repair # NoRepair
    /\ repaired' = [repaired EXCEPT ![repair.of] = TRUE]
    /\ IF repair.release
       THEN Release(repair.of, RepairedEarnings(repair.of))
       ELSE /\ SetEarnings(repair.of, RepairedEarnings(repair.of))
            /\ UNCHANGED releasedOnce
    /\ repair' = NoRepair
    /\ UNCHANGED <<listed, sale, accredited, openIssue, refunded>>

\* The command is interrupted, or ends.
ReconcileStops ==
    /\ listed' = [s \in Sales |-> "NONE"]
    /\ repair' = NoRepair

-----------------------------------------------------------------------------

Next ==
    \/ (\E s \in Sales : SaleStep(s))
        /\ UNCHANGED <<repaired, payoutVars, adjusted, commandVars>>
    \/ (\E p \in Payouts : PayoutStep(p))
        /\ UNCHANGED <<saleVars, repaired, adjusted, commandVars>>
    \/ (\E bucket \in Buckets, amount \in Adjustments : Adjust(bucket, amount))
        /\ UNCHANGED <<saleVars, repaired, payoutVars, commandVars>>
    \/ (ReconcileList \/ (\E s \in Sales : ReconcileRead(s)) \/ ReconcileStops)
        /\ UNCHANGED <<saleVars, repaired, payoutVars, adjusted>>
    \/ ReconcileApply /\ UNCHANGED <<payoutVars, adjusted>>

Spec == Init /\ [][Next]_vars

-----------------------------------------------------------------------------
(* Properties.                                                              *)

\* Every withdrawal's entries say what its status says, whatever the two
\* administrators who process it do: reserved while it is open, paid out
\* once, or given back, and never a part of it twice.
PayoutsBalanced ==
    \A p \in Payouts :
        LET moved == <<PayoutEntries(p, "AVAILABLE"), PayoutEntries(p, "RESERVED"),
                       PayoutEntries(p, "PAID")>>
        IN  moved = CASE payout[p] \in {"NONE", "REJECTED"} -> <<0, 0, 0>>
                      [] payout[p] \in {"REQUESTED", "PROCESSING"} -> <<-asked[p], asked[p], 0>>
                      [] payout[p] = "PAID" -> <<-asked[p], 0, asked[p]>>

\* How often the ledger credited a sale's net: at accreditation, and by the
\* reconciliation command.
Credits(s) == (IF earnings[s].sale THEN 1 ELSE 0) + (IF repaired[s] THEN 1 ELSE 0)

\* However a sale's completion, issues, refunds and repairs interleave, it
\* never owes from PENDING and never holds more than it was credited.
EarnedWithinCredits ==
    \A s \in Sales :
        /\ earnings[s].pending >= 0
        /\ earnings[s].pending + earnings[s].available <= Net * Credits(s)

\* What was paid or is promised to the affiliate was credited to it first,
\* by its sales or by an administrator.
PaidWithinCredits ==
    Withdrawn("RESERVED") + Withdrawn("PAID")
        <= SumFunction([s \in Sales |-> Net * Credits(s)])
            + (IF adjusted["AVAILABLE"] > 0 THEN adjusted["AVAILABLE"] ELSE 0)

\* An affiliate owes the store only after a refund or a negative correction:
\* withdrawals asked for at once never take more than there is.
DebtNeedsRefund ==
    (/\ \A s \in Sales : refunded[s] = 0 /\ earnings[s].parentKeys = {}
     /\ adjusted["AVAILABLE"] >= 0)
        => Available >= 0

\* The affiliate's account implements the abstract account: the ledger of
\* sales, withdrawals and corrections moves its four balances as Wallet says.
Account == INSTANCE Wallet WITH
    pending <- Pending, available <- Available, reserved <- Reserved, paid <- PaidOut
ImplementsWallet == Account!WalletSpec

\* The command reports and repairs a "MISSING_SALE_LEDGER": it credits a sale
\* only when accreditation did not.
RepairsMissingSalesOnly ==
    [][\A s \in Sales : ~repaired[s] /\ repaired'[s] => ~earnings[s].sale]_vars
=============================================================================
