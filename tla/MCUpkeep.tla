------------------------------ MODULE MCUpkeep ------------------------------
(* Upkeep on small instances. *)
EXTENDS Upkeep, TLC

On(y, m, d) == [y |-> y, m |-> m, d |-> d]

\* A last day of January, and the days a month and two months later.
MCDate == {On(2027, 1, 31), On(2027, 2, 28), On(2027, 3, 28)}

MCTerms  == {[km |-> 10, months |-> 1], [km |-> 10, months |-> Unset]}
MCNotify == [km |-> 2, days |-> 3]
MCBases  == {Unset, 0}
MCDues   == {[km |-> Unset, date |-> On(2027, 1, 31), repeat |-> 1],
             [km |-> 20, date |-> Unset, repeat |-> Unset]}

Alike == Permutations(Req) \cup Permutations(Service)
=============================================================================
