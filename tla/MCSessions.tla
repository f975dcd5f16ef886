----------------------------- MODULE MCSessions -----------------------------
(* Sessions on small instances; requests are alike, and so are tokens. *)
EXTENDS Sessions, TLC

Alike == Permutations(Req) \cup Permutations(Token)
=============================================================================
