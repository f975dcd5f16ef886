-------------------------------- MODULE Due --------------------------------
(***************************************************************************)
(* The due engine, maintenance/domain/due.ts, and the alerts drawn from it. *)
(* A calendar date is a record [y, m, d], in the owner's time zone.  A half *)
(* of a due point that is not there is Unset.                               *)
(***************************************************************************)
EXTENDS Integers, FiniteSets

CONSTANT Unset

\* In the order of URGENCY: the most urgent has the lowest number.
Urgency == [OVERDUE |-> 0, DUE |-> 1, DUE_SOON |-> 2, UNKNOWN |-> 3, UPCOMING |-> 4]

AtMost(S)  == CHOOSE x \in S : \A y \in S : y <= x
AtLeast(S) == CHOOSE x \in S : \A y \in S : x <= y

-----------------------------------------------------------------------------
(* Calendar dates. *)

Leap(y) == y % 4 = 0 /\ (y % 100 # 0 \/ y % 400 = 0)

MonthDays(y, m) ==
  IF m = 2 THEN (IF Leap(y) THEN 29 ELSE 28)
  ELSE IF m \in {4, 6, 9, 11} THEN 30 ELSE 31

DaysBefore == <<0, 31, 59, 90, 120, 151, 181, 212, 243, 273, 304, 334>>

\* Days since the first of January of year 0, by the rules of Date.UTC.
DayNumber(date) ==
  LET y == date.y - 1 IN
  365 * date.y + (y \div 4) - (y \div 100) + (y \div 400)
    + DaysBefore[date.m] + (IF date.m > 2 /\ Leap(date.y) THEN 1 ELSE 0) + date.d - 1

DaysBetween(from, to) == DayNumber(to) - DayNumber(from)

\* Clamped to the end of a shorter month.
AddMonths(date, months) ==
  LET index == date.y * 12 + date.m - 1 + months
      y == index \div 12
      m == (index % 12) + 1
  IN [y |-> y, m |-> m, d |-> AtLeast({date.d, MonthDays(y, m)})]

-----------------------------------------------------------------------------
(* How close. *)

Classify(remaining, window) ==
  IF remaining > window THEN "UPCOMING"
  ELSE IF remaining > 0 THEN "DUE_SOON"
  ELSE IF -remaining < AtMost({window, 1}) THEN "DUE"
  ELSE "OVERDUE"

MostUrgent(S) ==
  IF S = {} THEN "UNKNOWN" ELSE CHOOSE s \in S : \A t \in S : Urgency[s] <= Urgency[t]

\* The due point, in its two halves; a half may be missing.
DueAt(point, notify, km, today) ==
  [km     |-> point.km,
   date   |-> point.date,
   status |-> MostUrgent(
     (IF point.km = Unset THEN {} ELSE {Classify(point.km - km, notify.km)}) \cup
     (IF point.date = Unset THEN {} ELSE {Classify(DaysBetween(today, point.date), notify.days)}))]

\* The last service in each half, over the baseline and the linked records.
\* A service is [km, date]; either may be Unset.
LastKm(services) ==
  LET known == {s.km : s \in services} \ {Unset} IN IF known = {} THEN Unset ELSE AtMost(known)

LastDate(services) ==
  LET known == {s.date : s \in services} \ {Unset} IN
  IF known = {} THEN Unset
  ELSE CHOOSE d \in known : \A e \in known : DayNumber(e) <= DayNumber(d)

\* An interval from the last service fixes a due point; from there on a
\* schedule is a reminder.
DuePoint(terms, services) ==
  LET km == LastKm(services)
      date == LastDate(services)
  IN [km   |-> IF terms.km = Unset \/ km = Unset THEN Unset ELSE km + terms.km,
      date |-> IF terms.months = Unset \/ date = Unset THEN Unset
               ELSE AddMonths(date, terms.months)]

DueState(terms, notify, services, km, today) ==
  DueAt(DuePoint(terms, services), notify, km, today)

\* A schedule is never worth a word while it is fine or untracked.
Alerting(status) == status \in {"DUE_SOON", "DUE", "OVERDUE"}

\* What an alert says of its subject: the status, and the due point it is for.
Says(subject, due) == [of |-> subject, status |-> due.status, km |-> due.km, date |-> due.date]

\* Mutant: a key without the due point.
StatusKey(says) == <<says.of, says.status>>

\* One notification per status per due point.
DedupeKey(says) == <<says.of, says.status, says.km, says.date>>
=============================================================================
