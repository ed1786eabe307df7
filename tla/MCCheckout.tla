----------------------------- MODULE MCCheckout -----------------------------
(***************************************************************************)
(* Checkout on the small shop of MCBackOffice, with two carts that between *)
(* them use both payment methods and both kinds of delivery.               *)
(***************************************************************************)
EXTENDS MCBackOffice, Checkout

By(z) == [type |-> "SHIPMENT", zone |-> z, rate |-> r1, province |-> p1]
At(k) == [type |-> "PICKUP", point |-> k]

mcCarts ==
    {[units |-> ("STORE" :> 2 @@ "AFFILIATE" :> 1), points |-> 2,
      method |-> "MERCADO_PAGO",
      delivery |-> ("STORE" :> At(k1) @@ "AFFILIATE" :> By(za))],
     [units |-> ("STORE" :> 1 @@ "AFFILIATE" :> 3), points |-> 2,
      method |-> "BANK_TRANSFER",
      delivery |-> ("STORE" :> By(z1) @@ "AFFILIATE" :> By(za))]}
=============================================================================
