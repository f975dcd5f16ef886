----------------------------- MODULE MCOdometer -----------------------------
(* Odometer on small instances: two transactions, two records, two moments. *)
EXTENDS Odometer, TLC

Permuted == Permutations(Tx) \cup Permutations(Source)
=============================================================================
