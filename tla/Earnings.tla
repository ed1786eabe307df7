------------------------------ MODULE Earnings ------------------------------
(***************************************************************************)
(* What an affiliate earns on one seller order.  The sale's ledger entries *)
(* are kept in sums: PENDING until the sale completes, AVAILABLE after it, *)
(* and refunds reverse them in that order.  An entry has a dedupe key and  *)
(* is written once; the keys that a second attempt can meet are kept.      *)
(***************************************************************************)
EXTENDS Integers

CONSTANTS
    Gross,          \* subtotal + shipping of a seller order
    Shipping,       \* the shipping in it
    Commission      \* the store's commission on an affiliate's seller order

ASSUME EarningsAssumption ==
    /\ Gross \in Nat \ {0}
    /\ Shipping \in 0 .. Gross - 1
    /\ Commission \in 0 .. Gross - Shipping

\* Sale entries of a seller order: the two balances, whether SALE_PENDING
\* was written, and the buckets the parent-refund reversal already used
\* (its dedupe keys).
Ledgers ==
    [pending : Int, available : Int, sale : BOOLEAN,
     parentKeys : SUBSET {"PENDING", "AVAILABLE", "DEBT"}]

EmptyLedger == [pending |-> 0, available |-> 0, sale |-> FALSE, parentKeys |-> {}]

Net == Gross - Commission
Least(a, b) == IF a < b THEN a ELSE b

\* What a bucket can cover of an amount.
Covered(bucket, amount) == IF bucket > 0 THEN Least(bucket, amount) ELSE 0

\* SALE_PENDING, once per seller order.
Credited(l) == IF l.sale THEN l ELSE [l EXCEPT !.pending = @ + Net, !.sale = TRUE]

\* Wrong form of EarningsReleased: the PENDING side is not debited.
EarningsReleasedTwice(l) == [l EXCEPT !.available = @ + Covered(l.pending, l.pending)]

\* Completion moves a positive PENDING balance to AVAILABLE.
EarningsReleased(l) ==
    [l EXCEPT !.pending = @ - Covered(l.pending, l.pending),
              !.available = @ + Covered(l.pending, l.pending)]

\* A refund takes its debit from PENDING, then from AVAILABLE; the rest is
\* debt, an AVAILABLE entry too.
Debited(l, amount) ==
    [l EXCEPT !.pending = @ - Covered(l.pending, amount),
              !.available = @ - (amount - Covered(l.pending, amount))]

\* Wrong form of DebitedByParent: what was released is taken from PENDING.
DebitedByParentPendingOnly(l) == [l EXCEPT !.pending = @ - Net]

\* The same for a refund of the parent, whose entries are written at most
\* once per bucket: an entry whose key exists is skipped, though its amount
\* still counts as covered.
DebitedByParent(l) ==
    LET fromPending == Covered(l.pending, Net)
        fromAvailable == Covered(l.available, Net - fromPending)
        debt == Net - fromPending - fromAvailable
        Written(key, amount) == IF key \in l.parentKeys THEN 0 ELSE amount
    IN  [l EXCEPT
            !.pending = @ - Written("PENDING", fromPending),
            !.available = @ - Written("AVAILABLE", fromAvailable) - Written("DEBT", debt),
            !.parentKeys = @ \cup {k \in {"PENDING"} : fromPending > 0}
                             \cup {k \in {"AVAILABLE"} : fromAvailable > 0}
                             \cup {k \in {"DEBT"} : debt > 0}]

-----------------------------------------------------------------------------
(* Refunds.                                                                 *)

Subtotal == Gross - Shipping

\* How a refund may be split: the part of it that pays for products.
Breakdowns(amount) ==
    {products \in 0 .. Least(amount, Subtotal) : amount - products <= Shipping}

\* The commission the store returns with a refund, rounded down.
CommissionReversed(products) == (products * Commission) \div Subtotal

\* What the seller gives back of a refund whose split is left to the code.
SellerDebit(amount) == amount - CommissionReversed(Least(amount, Subtotal))
=============================================================================
