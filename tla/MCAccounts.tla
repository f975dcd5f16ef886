----------------------------- MODULE MCAccounts -----------------------------
(* Accounts on small instances; what has no identity of its own is symmetric. *)
EXTENDS Accounts, TLC

Alike == Permutations(Req) \cup Permutations(Address) \cup Permutations(Token)
         \cup Permutations(Subject) \cup Permutations(State) \cup Permutations(Browser)
=============================================================================
