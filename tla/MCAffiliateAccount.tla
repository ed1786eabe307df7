-------------------------- MODULE MCAffiliateAccount --------------------------
(* A small account: one or two sales of three units, two withdrawals.        *)
EXTENDS AffiliateAccount, TLC

CONSTANTS s1, p1, p2

\* A correction in the affiliate's favour and one against it.
MCAdjustments == {-1, 1}
NoAdjustments == {}

\* Withdrawals differ only in what is done to them.
MCPayoutSymmetry == Permutations(Payouts)
=============================================================================
