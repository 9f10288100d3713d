---------------------------- MODULE MCPaymentIndex ----------------------------
(***************************************************************************)
(* The payment index with interchangeable threads and keys.                *)
(***************************************************************************)
EXTENDS PaymentIndex, TLC

Symmetry == Permutations(Threads) \cup Permutations(Keys)
=============================================================================
