------------------------------ MODULE MCLedger ------------------------------
(* Ledger on a small instance: an expense, a fill and a service. *)
EXTENDS Ledger, TLC
=============================================================================
