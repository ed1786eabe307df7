------------------------------- MODULE Quotes -------------------------------
(***************************************************************************)
(* The arithmetic of a checkout: the points a buyer may redeem and earns,  *)
(* the affiliate's commission and net, and the conversion to pesos.        *)
(* Amounts are integers of minor units, and every division rounds down     *)
(* unless the code adds what makes it round otherwise.                     *)
(***************************************************************************)
EXTENDS Integers

CONSTANT Scale   \* the units of a rate that are one peso (10^6 in the code)

ASSUME QuotesAssumption == Scale \in Nat \ {0}

Lesser(m, n) == IF m < n THEN m ELSE n

\* Part of a seller's subtotal kept by the store, rounded up.
CommissionOn(subtotal, bps) == (subtotal * bps + 9999) \div 10000

SellerNet(subtotal, shipping, bps) ==
    subtotal + shipping - CommissionOn(subtotal, bps)

\* A loyalty program is [enabled, pointValue, spendPerPoint, pointsPerStep,
\* minimum, percent].
RedeemableByMoney(program, subtotal) ==
    Lesser((subtotal * program.percent) \div 100, subtotal) \div program.pointValue

MaximumRedeemable(program, available, subtotal) ==
    IF program.enabled
      THEN Lesser(available, RedeemableByMoney(program, subtotal))
      ELSE 0

RedemptionAccepted(program, available, subtotal, points) ==
    /\ points > 0 => program.enabled /\ points >= program.minimum
    /\ points <= MaximumRedeemable(program, available, subtotal)

Discount(program, points) == points * program.pointValue

PointsToEarn(program, subtotal, points) ==
    IF program.enabled
      THEN ((subtotal - Discount(program, points)) \div program.spendPerPoint)
             * program.pointsPerStep
      ELSE 0

\* Half a unit is added before the division: to the nearest, halves up.
UsdMinorToArsMinor(usd, rate) == (usd * rate + Scale \div 2) \div Scale
=============================================================================
