----------------------------- MODULE MCListings -----------------------------
(***************************************************************************)
(* Listings on a small instance.  The images are interchangeable.          *)
(***************************************************************************)
EXTENDS Listings, TLC

ImageSymmetry == Permutations(Images)
=============================================================================
