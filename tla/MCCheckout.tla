----------------------------- MODULE MCCheckout -----------------------------
(***************************************************************************)
(* Instances of Checkout for TLC.                                          *)
(***************************************************************************)
EXTENDS Checkout, TLC

Symmetric == Permutations(Worker) \cup Permutations(Intent)
=============================================================================
