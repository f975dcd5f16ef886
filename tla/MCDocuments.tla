---------------------------- MODULE MCDocuments -----------------------------
(* Documents on small instances; requests are alike, and so are documents. *)
EXTENDS Documents, TLC

Alike == Permutations(Proc) \cup Permutations(Doc)
=============================================================================
