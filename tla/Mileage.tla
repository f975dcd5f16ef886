------------------------------ MODULE Mileage -------------------------------
(***************************************************************************)
(* The mileage box of the expense, fill-up and service forms: the end of a *)
(* number, the trip counter, a suggestion or a photo become a full         *)
(* reading, spelled out and weighed against the readings around it before  *)
(* the odometer weighs it again.  A moment is a day.                       *)
(***************************************************************************)
EXTENDS Desk, Timeline, FiniteSets

CONSTANTS
  Days, Km,        \* moments, and mileages a reading may have
  TypedRuns,           \* what a person types: [len, value], a run of digits
  Nudges,          \* what the buttons add or take away
  Photos,          \* the numbers a photo may show, a set of sets
  TooFast,         \* km a day above which a gap looks like a typo
  LeastSpan,       \* days below which no pace is told
  PhotoReach,      \* how far past the previous reading a photo is believed
  MaxReadings,     \* bound: readings on the timeline
  Boxed,           \* bound: numbers in the box
  Absent

\* 10 to the power of n.  The box takes seven digits.
Power == <<10, 100, 1000, 10000, 100000, 1000000, 10000000>>

InSeven == 0..(Power[7] - 1)
Runs == {t \in [len : 1..7, value : InSeven] : t.value < Power[t.len]}
Readings == [at : Nat, km : Km, seq : Nat, src : Nat, fuel : BOOLEAN]

ASSUME MileageAssumption ==
  /\ Km \cup Boxed \subseteq InSeven /\ Days \subseteq Nat /\ TypedRuns \subseteq Runs
  /\ Absent \notin Nat \cup Runs \cup Readings

MileageInit ==
  desk = [kind |-> "mileage", readings |-> {}, box |-> Absent, says |-> "nothing"]

TheOne(S) == IF S = {} THEN Absent ELSE CHOOSE r \in S : TRUE

Others(src) == {r \in desk.readings : r.src # src}

\* kmPerDay, in tenths: null with too few readings or too little between them.
KmPerDay(R) ==
  LET first == CHOOSE p \in R : \A q \in R : ~Before(q, p)
      last == CHOOSE p \in R : \A q \in R : ~Before(p, q)
  IN IF Cardinality(R) < 2 THEN Absent
     ELSE IF last.at - first.at < LeastSpan \/ last.km <= first.km THEN Absent
     ELSE Rounded(10 * (last.km - first.km), last.at - first.at)

\* OdometerService.context: the readings either side, the pace, the last fill.
Context(at, src) ==
  [at |-> at, previous |-> TheOne(PreviousReading(Others(src), at)),
   next |-> TheOne(NextReading(Others(src), at)),
   pace |-> KmPerDay({r \in Others(src) : r.at <= at}),
   fill |-> TheOne(PreviousReading({r \in Others(src) : r.fuel}, at))]

\* How many digits a number has.
Digits(km) == CHOOSE n \in 1..7 : km < Power[n] /\ (n = 1 \/ km >= Power[n - 1])

\* Fewer digits than the previous reading are its end.
CompleteReading(typed, previous) ==
  IF previous = Absent \/ typed.len >= Digits(previous.km) THEN [km |-> typed.value, completed |-> FALSE]
  ELSE LET base == Power[typed.len]
           km == (previous.km - (previous.km % base)) + typed.value
       IN [km |-> IF km < previous.km THEN km + base ELSE km, completed |-> TRUE]

\* The previous reading plus the usual pace, to the nearest ten.
EstimateReading(context) ==
  IF context.previous = Absent \/ context.pace = Absent THEN Absent
  ELSE LET days == context.at - context.previous.at
           km == Rounded(10 * context.previous.km + context.pace * days, 100) * 10
       IN IF days < 1 \/ km <= context.previous.km THEN Absent ELSE km

\* Mutant: only the reading before is looked at.
AssessBackwards(km, context) ==
  IF context.previous # Absent /\ km < context.previous.km THEN "error" ELSE "ok"

\* Errors are what the server would refuse anyway.
AssessReading(km, context) ==
  IF context.previous # Absent /\ km < context.previous.km THEN "error"
  ELSE IF context.next # Absent /\ km > context.next.km THEN "error"
  ELSE IF context.previous # Absent
          /\ km - context.previous.km > TooFast * (IF context.at = context.previous.at THEN 1
                                                   ELSE context.at - context.previous.at)
  THEN "warn" ELSE "ok"

Away(a, b) == IF a < b THEN b - a ELSE a - b

\* Numbers of a photo that fit, the three closest to what is expected.
PhotoCandidates(numbers, context) ==
  LET floor == IF context.previous = Absent THEN 0 ELSE context.previous.km
      fits(km) == /\ floor <= km
                  /\ context.next # Absent => km <= context.next.km
                  /\ context.next = Absent /\ context.previous # Absent => km <= floor + PhotoReach
      estimate == EstimateReading(context)
      target == IF estimate = Absent THEN floor ELSE estimate
      found == {km \in numbers : fits(km)}
      closer(km) == {other \in found : Away(other, target) < Away(km, target)}
  IN {km \in found : Cardinality(closer(km)) < 3}

-----------------------------------------------------------------------------
(* The box.  raw is what stands in it, and date the day of the record; the *)
(* record being edited is named by its reading's src, a new one by Absent.   *)

Morning(day) == 2 * day

\* A past day has no known time and takes midday; today means now.
MomentFor(day) == 2 * day + 1

DayOf(at) == at \div 2

InFull(km) == [len |-> Digits(km), value |-> km]

Box == desk.box

BoxOpened(day, src, raw) ==
  [day |-> day, src |-> src, raw |-> raw, trip |-> FALSE, context |-> Absent]

OpenBox(day) ==
  /\ Box = Absent
  /\ Cardinality(desk.readings) < MaxReadings
  /\ desk' = [desk EXCEPT !.box = BoxOpened(day, Absent, Absent), !.says = "nothing"]

EditReading(r) ==
  /\ Box = Absent
  /\ desk' = [desk EXCEPT !.box = BoxOpened(DayOf(r.at), r.src, InFull(r.km)), !.says = "nothing"]

ContextArrives ==
  /\ Box # Absent /\ Box.context = Absent
  /\ desk' = [desk EXCEPT !.box.context = Context(MomentFor(Box.day), Box.src)]

\* Another day is another query: nothing is known until its answer is there.
PickDay(day) ==
  /\ Box # Absent /\ Box.day # day
  /\ desk' = [desk EXCEPT !.box.day = day, !.box.context = Absent]

Told == Box.context # Absent

LastFill == IF Told THEN Box.context.fill ELSE Absent

\* What the text means as a full reading.
Resolved ==
  IF Box.raw = Absent THEN Absent
  ELSE IF Box.trip /\ LastFill # Absent THEN [km |-> LastFill.km + Box.raw.value, completed |-> TRUE]
  ELSE CompleteReading(Box.raw, IF Told THEN Box.context.previous ELSE Absent)

\* Within the bound on numbers in the box.
Shows(raw, trip) ==
  /\ raw # Absent => raw.value \in Boxed
  /\ desk' = [desk EXCEPT !.box.raw = raw, !.box.trip = trip]

TypeDigits(typed) == Box # Absent /\ Shows(typed, Box.trip)

\* setFull, with what a person tapped.
TakeEstimate ==
  /\ Box # Absent /\ Told /\ Resolved = Absent /\ ~Box.trip
  /\ EstimateReading(Box.context) # Absent
  /\ Shows(InFull(EstimateReading(Box.context)), FALSE)

TakeFromPhoto(numbers) ==
  /\ Box # Absent /\ Told
  /\ \E km \in PhotoCandidates(numbers, Box.context) : Shows(InFull(km), FALSE)

Nudge(km) ==
  /\ Box # Absent /\ Resolved # Absent /\ ~Box.trip
  /\ Shows(InFull(IF Resolved.km + km < 0 THEN 0 ELSE Resolved.km + km), FALSE)

ReadTrip ==
  /\ Box # Absent /\ LastFill # Absent /\ ~Box.trip
  /\ Shows(IF Resolved = Absent THEN Absent
           ELSE InFull(IF Resolved.km < LastFill.km THEN 0 ELSE Resolved.km - LastFill.km), TRUE)

ReadOdometer ==
  /\ Box # Absent /\ Box.trip
  /\ Shows(IF Resolved = Absent THEN Box.raw ELSE InFull(Resolved.km), FALSE)

\* The record keeps its own time while its day is left alone.
SavedAt ==
  LET mine == {r \in desk.readings : r.src = Box.src /\ DayOf(r.at) = Box.day} IN
  IF mine = {} THEN MomentFor(Box.day) ELSE (CHOOSE r \in mine : TRUE).at

Reading(at, km, fuel) ==
  LET n == Cardinality(desk.readings) + 1 IN [at |-> at, km |-> km, seq |-> n, src |-> n, fuel |-> fuel]

Moved(src, at, km) ==
  {IF r.src = src THEN [r EXCEPT !.at = at, !.km = km] ELSE r : r \in desk.readings}

\* The form sends the reading, and the odometer weighs it.
SaveReading(fuel) ==
  /\ Box # Absent /\ Resolved # Absent
  /\ Resolved.km \in Km
  /\ LET refused == TimelineConflict(Others(Box.src), SavedAt, Resolved.km)
         weighed == Told /\ Box.context.at = SavedAt /\ Box.context = Context(SavedAt, Box.src)
         judged == IF Told THEN AssessReading(Resolved.km, Box.context) ELSE "ok"
     IN desk' = [desk EXCEPT
          !.box = IF refused THEN Box ELSE Absent,
          !.readings = IF refused THEN desk.readings
                       ELSE IF Box.src = Absent
                       THEN desk.readings \cup {Reading(SavedAt, Resolved.km, fuel)}
                       ELSE Moved(Box.src, SavedAt, Resolved.km),
          !.says = IF weighed /\ refused # (judged = "error") THEN "unforeseen" ELSE "nothing"]

\* A reading of another record or from another device.
OtherReading(at, km, fuel) ==
  /\ Cardinality(desk.readings) < MaxReadings
  /\ ~TimelineConflict(desk.readings, at, km)
  /\ desk' = [desk EXCEPT !.readings = @ \cup {Reading(at, km, fuel)}]

MileageNext ==
  \/ \E day \in Days : OpenBox(day) \/ PickDay(day)
  \/ \E r \in desk.readings : EditReading(r)
  \/ ContextArrives
  \/ \E typed \in TypedRuns \cup {Absent} : TypeDigits(typed)
  \/ TakeEstimate
  \/ \E numbers \in Photos : TakeFromPhoto(numbers)
  \/ \E km \in Nudges : Nudge(km)
  \/ ReadTrip
  \/ ReadOdometer
  \/ \E fuel \in BOOLEAN : SaveReading(fuel)
  \/ \E day \in Days, km \in Km, fuel \in BOOLEAN :
       OtherReading(Morning(day), km, fuel) \/ OtherReading(MomentFor(day), km, fuel)

MileageSpec == MileageInit /\ [][MileageNext]_desk

-----------------------------------------------------------------------------
\* The first reading at or above the previous one that ends in what was typed.
EndsIn(km, typed) == km % Power[typed.len] = typed.value

CompletedIsNext ==
  (Resolved # Absent /\ ~Box.trip) => (Resolved.completed =>
     LET p == Box.context.previous.km IN
     /\ Resolved.km >= p /\ EndsIn(Resolved.km, Box.raw)
     /\ \A km \in p..Resolved.km : EndsIn(km, Box.raw) => km = Resolved.km)

\* What the box says of a reading is what the odometer makes of it: one shown
\* as an error is refused and one that is not is kept, as long as the moment
\* asked about is the moment sent and nothing was recorded since.  A number
\* completed from its end is the very next reading with that end.
\* (mileage-entry.ts:84, "Errors are what the server would refuse anyway")
MileageAgrees ==
  On("mileage") =>
    /\ desk.says # "unforeseen"
    /\ Box # Absent => CompletedIsNext
=============================================================================
