-------------------------------- MODULE Desk --------------------------------
(***************************************************************************)
(* What one person has before them: a form, a list, a page.  The modules   *)
(* that model the parts of the product one person and one request reach    *)
(* share this variable; each keeps a record of a kind of its own in it.    *)
(***************************************************************************)
EXTENDS Integers

VARIABLE desk

On(kind) == desk.kind = kind

\* Math.round(a / b), of natural numbers.
Rounded(a, b) == (a + (b \div 2)) \div b

Within(x, y) == IF x < y THEN x ELSE y
=============================================================================
