---------------------------- MODULE MCSubmission ----------------------------
(* Submission on small instances; attempts are alike. *)
EXTENDS Submission, TLC

Alike == Permutations(Attempt) \cup Permutations(Entry)
=============================================================================
