------------------------------ MODULE Timeline ------------------------------
(***************************************************************************)
(* The mileage timeline of one vehicle, as the odometer domain computes    *)
(* with it: which neighbours a reading is compared with, when a reading    *)
(* contradicts them, and what the headline mileage is.                     *)
(*                                                                         *)
(* A reading is a record [at, km, seq, src]: recordedAt, odometerKm, the   *)
(* position of createdAt in the order of insertion, and the record that    *)
(* produced it (source and sourceId together).  A timeline is a set of     *)
(* readings.                                                               *)
(***************************************************************************)
EXTENDS Integers

\* The order of every query on the timeline: recordedAt, then createdAt.
Before(p, q) == \/ p.at < q.at
                \/ p.at = q.at /\ p.seq < q.seq

\* The newest reading at or before `at`, as a set of at most one reading.
PreviousReading(R, at) ==
  {p \in R : p.at <= at /\ \A q \in R : q.at <= at => ~Before(p, q)}

\* The oldest reading strictly after `at`, as a set of at most one reading.
NextReading(R, at) ==
  {n \in R : n.at > at /\ \A q \in R : q.at > at => ~Before(q, n)}

\* A reading of km taken at `at` contradicts its neighbours.  Equal values do
\* not: a parked car reports the same mileage twice.
TimelineConflict(R, at, km) ==
  \/ \E p \in PreviousReading(R, at) : km < p.km
  \/ \E n \in NextReading(R, at) : km > n.km

\* Mutant: the last reading written sets the headline.
LastWriteWins(current, km) == km

\* A backdated reading must not drag the headline figure down.
NextCurrentOdometer(current, km) == IF km > current THEN km ELSE current

\* The highest reading, or zero for an emptied timeline.
HighestOdometer(R) ==
  IF R = {} THEN 0
  ELSE CHOOSE km \in {r.km : r \in R} : \A r \in R : r.km <= km

\* What deleteBySource leaves.
DeleteBySource(R, src) == {r \in R : r.src # src}

\* An odometer only counts up.
Monotone(R) == \A p, q \in R : Before(p, q) => p.km <= q.km
=============================================================================
