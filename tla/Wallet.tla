------------------------------- MODULE Wallet -------------------------------
(***************************************************************************)
(* What an affiliate's account promises, told by its four balances alone:  *)
(* sales move what is pending and available, a withdrawal takes only what  *)
(* is available and puts it aside, and what is put aside is paid out or    *)
(* given back.  AffiliateAccount is checked to implement it.               *)
(***************************************************************************)
EXTENDS Integers

VARIABLES
    pending,        \* earned on sales that are not completed
    available,      \* may be withdrawn; negative when the affiliate owes
    reserved,       \* asked for and not yet paid
    paid            \* paid out

balances == <<pending, available, reserved, paid>>

WalletInit == pending = 0 /\ available = 0 /\ reserved = 0 /\ paid = 0

\* Sales and their refunds, and the repairs of both.
SaleMoves == UNCHANGED <<reserved, paid>>

Withdraws ==
    /\ reserved' > reserved
    /\ available >= reserved' - reserved
    /\ available' = available - (reserved' - reserved)
    /\ UNCHANGED <<pending, paid>>

PaysOut ==
    /\ paid' > paid
    /\ reserved' = reserved - (paid' - paid)
    /\ UNCHANGED <<pending, available>>

GivesBack ==
    /\ available' > available
    /\ reserved' = reserved - (available' - available)
    /\ UNCHANGED <<pending, paid>>

\* An administrator corrects one balance by hand.
Corrects ==
    \/ UNCHANGED <<available, reserved, paid>>
    \/ UNCHANGED <<pending, reserved, paid>>
    \/ UNCHANGED <<pending, available, paid>>
    \/ UNCHANGED <<pending, available, reserved>>

WalletNext == SaleMoves \/ Withdraws \/ PaysOut \/ GivesBack \/ Corrects

WalletSpec == WalletInit /\ [][WalletNext]_balances
=============================================================================
