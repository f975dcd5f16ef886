------------------------------ MODULE FuelLog -------------------------------
(***************************************************************************)
(* What a vehicle's fills say together: the stretches over which           *)
(* consumption can be stated, and what the fill-up form knows before       *)
(* anyone types.  A fill is [id, at, km, full, missed, pour], and a pour   *)
(* what came out of the pump: [cl, cost, station, near, metres].           *)
(***************************************************************************)
EXTENDS Desk, Sequences, FiniteSets, FiniteSetsExt, Functions

CONSTANTS
  FillIds, FillDays, Mileages, Pours,
  NoStation,
  WholeAmount,          \* what a whole amount is a multiple of
  RecentLimit,    \* recentStations' limit
  UsualLimit      \* usualAmounts' limit

ASSUME FuelLogAssumption ==
  /\ FillIds \subseteq Int /\ FillDays \subseteq Nat /\ Mileages \subseteq Nat
  /\ \A pour \in Pours : pour.cl \in Nat /\ pour.cost \in Nat /\ pour.metres \in Nat
  /\ WholeAmount \in Nat \ {0} /\ RecentLimit \in Nat \ {0} /\ UsualLimit \in Nat

FuelLogInit == desk = [kind |-> "log", fills |-> {}]

-----------------------------------------------------------------------------
(* consumption.ts. *)

FirstThen(p, q) == \/ p.km < q.km
                   \/ p.km = q.km /\ p.at < q.at
                   \/ p.km = q.km /\ p.at = q.at /\ p.id < q.id

\* What a comparison that leaves no ties sorts a set into.
Sorted(S, before(_, _)) ==
  CHOOSE s \in [1..Cardinality(S) -> S] : \A i, j \in 1..Cardinality(S) : i < j => before(s[i], s[j])

\* Mutant: by the time somebody typed.
ChronologicalByTime(fills) ==
  Sorted(fills, LAMBDA p, q : p.at < q.at \/ (p.at = q.at /\ p.id < q.id))

Chronological(fills) == Sorted(fills, FirstThen)

Closed == [windows |-> {}, open |-> FALSE, from |-> 0, cl |-> 0, cost |-> 0, n |-> 0]

\* The gap is before a missed fill: whatever was open is unknowable.
Miss(run) == [run EXCEPT !.open = FALSE]

Pour(run, fill) ==
  [run EXCEPT !.cl = @ + fill.pour.cl, !.cost = @ + fill.pour.cost, !.n = @ + 1]

Measure(run, fill, s) ==
  LET km == fill.km - s[run.from].km IN
  IF fill.full /\ km > 0
  THEN [run EXCEPT !.windows = @ \cup {[start |-> s[run.from].id, end |-> fill.id, endedAt |-> fill.at,
                                        km |-> km, cl |-> run.cl, cost |-> run.cost, n |-> run.n]}]
  ELSE run

\* A full tank is a fresh starting line, whatever came before it.
Anchor(run, i, fill) ==
  IF fill.full THEN [run EXCEPT !.open = TRUE, !.from = i, !.cl = 0, !.cost = 0, !.n = 0] ELSE run

\* What the i-th fill makes of the walk so far.
Walk(run, i, s) ==
  LET poured == IF s[i].missed THEN Miss(run)
                ELSE IF run.open THEN Measure(Pour(run, s[i]), s[i], s) ELSE run
  IN Anchor(poured, i, s[i])

\* A set: in which order a list of them is returned is not told apart.
Windows(fills) ==
  LET s == Chronological(fills)
      run[i \in 0..Len(s)] == IF i = 0 THEN Closed ELSE Walk(run[i - 1], i, s)
  IN run[Len(s)].windows

WindowsEndingBetween(windows, from, to) == {w \in windows : from <= w.endedAt /\ w.endedAt <= to}

Summary(windows) ==
  [cl |-> SumFunction([w \in windows |-> w.cl]), km |-> SumFunction([w \in windows |-> w.km]),
   cost |-> SumFunction([w \in windows |-> w.cost]), n |-> Cardinality(windows)]

\* The average is stated only over a distance: litres and kilometres summed
\* first, so that each kilometre has one vote.
HasAverage(summary) == summary.km > 0

-----------------------------------------------------------------------------
(* suggestions.ts. *)

\* The history comes from the database in the order of FirstThen (of two fills at
\* one mileage and moment it leaves open which is first), and a sort leaves what
\* it finds equal in the order it came.
NewestFirst(fills) ==
  Sorted(fills, LAMBDA p, q : p.at > q.at \/ (p.at = q.at /\ FirstThen(p, q)))

SeenBefore(S, T) == \E p \in S : \A q \in T : FirstThen(p, q)

Add(name, names) ==
  IF name = NoStation \/ Len(names) = RecentLimit \/ name \in Range(names)
  THEN names ELSE Append(names, name)

\* Distinct names, most recently used first.
RecentStations(fills) ==
  LET s == NewestFirst(fills)
      names[i \in 0..Len(s)] == IF i = 0 THEN <<>> ELSE Add(s[i].pour.station, names[i - 1])
  IN names[Len(s)]

\* A station within reach once per name, at its closest fill, nearest first.
NearAt(fills, name) == {f \in fills : f.pour.station = name /\ f.pour.near}

NearbyStations(fills) ==
  LET names == {name \in {f.pour.station : f \in fills} \ {NoStation} : NearAt(fills, name) # {}}
      entry(name) == [name |-> name, metres |-> Min({f.pour.metres : f \in NearAt(fills, name)})]
  IN Sorted({entry(name) : name \in names},
            LAMBDA p, q : \/ p.metres < q.metres
                          \/ p.metres = q.metres /\ SeenBefore(NearAt(fills, p.name), NearAt(fills, q.name)))

PaidFills(fills, cost) == {f \in fills : f.pour.cost = cost}

TimesPaid(fills, cost) == Cardinality(PaidFills(fills, cost))

LastPaid(fills, cost) == Max({f.at : f \in PaidFills(fills, cost)})

Habits(fills) ==
  {cost \in {f.pour.cost : f \in fills} : cost % WholeAmount = 0 /\ TimesPaid(fills, cost) >= 2}

PaidMore(fills, a, b) ==
  \/ TimesPaid(fills, a) > TimesPaid(fills, b)
  \/ TimesPaid(fills, a) = TimesPaid(fills, b) /\ LastPaid(fills, a) > LastPaid(fills, b)
  \/ /\ TimesPaid(fills, a) = TimesPaid(fills, b) /\ LastPaid(fills, a) = LastPaid(fills, b)
     /\ SeenBefore(PaidFills(fills, a), PaidFills(fills, b))

\* Whole amounts paid at least twice, the most frequent first, then the latest.
UsualAmounts(fills) ==
  LET ranked == Sorted(Habits(fills), LAMBDA a, b : PaidMore(fills, a, b))
  IN SubSeq(ranked, 1, Within(UsualLimit, Len(ranked)))

-----------------------------------------------------------------------------
(* The log, as far as the odometer lets it be written: mileage never runs  *)
(* backwards against time.                                                 *)

FitsTimeline(fill, fills) ==
  \A g \in fills : /\ g.at < fill.at => g.km <= fill.km
                   /\ fill.at < g.at => fill.km <= g.km

Kept(id) == {f \in desk.fills : f.id # id}

\* A new fill, or another in place of one.
PutFill(fill) ==
  /\ FitsTimeline(fill, Kept(fill.id))
  /\ desk' = [desk EXCEPT !.fills = Kept(fill.id) \cup {fill}]

RemoveFill(fill) == desk' = [desk EXCEPT !.fills = @ \ {fill}]

FuelLogNext ==
  \/ \E id \in FillIds, at \in FillDays, km \in Mileages, full, missed \in BOOLEAN, pour \in Pours :
       PutFill([id |-> id, at |-> at, km |-> km, full |-> full, missed |-> missed, pour |-> pour])
  \/ \E fill \in desk.fills : RemoveFill(fill)

FuelLogSpec == FuelLogInit /\ [][FuelLogNext]_desk

-----------------------------------------------------------------------------
\* Two full tanks with neither a full tank nor a gap between them measure what
\* was poured after the first, up to and with the second.
Measures(a, b, fills) ==
  LET between == {f \in fills : FirstThen(a, f) /\ f # b /\ FirstThen(f, b)} IN
  /\ a.full /\ b.full /\ a.km < b.km
  /\ ~b.missed /\ \A f \in between : ~f.full /\ ~f.missed

Poured(a, b, fills) == {f \in fills : FirstThen(a, f) /\ (f = b \/ FirstThen(f, b))}

Bought(fills) == SumFunction([f \in fills |-> f.pour.cl])
Spent(fills)  == SumFunction([f \in fills |-> f.pour.cost])

WindowsAgree(fills) ==
  Windows(fills) =
    {[start |-> p[1].id, end |-> p[2].id, endedAt |-> p[2].at, km |-> p[2].km - p[1].km,
      cl |-> Bought(Poured(p[1], p[2], fills)), cost |-> Spent(Poured(p[1], p[2], fills)),
      n |-> Cardinality(Poured(p[1], p[2], fills))]
       : p \in {q \in fills \X fills : Measures(q[1], q[2], fills)}}

\* What a period says is the sum of what its parts say, and never more than was
\* driven and bought.
SummaryAddsUp(fills) ==
  LET all == Windows(fills)
      whole == Summary(all)
  IN /\ \A d \in FillDays : whole.km = Summary(WindowsEndingBetween(all, 0, d)).km
                                   + Summary({w \in all : w.endedAt > d}).km
     /\ HasAverage(whole) => /\ whole.cl <= Bought(fills)
                             /\ whole.cost <= Spent(fills)
                             /\ whole.km <= Max({f.km : f \in fills}) - Min({f.km : f \in fills})
     /\ ~HasAverage(whole) => all = {}

LastUse(fills, name) == Max({f.at : f \in {g \in fills : g.pour.station = name}})

\* The names last used, by their last use.
RecentAgree(fills) ==
  LET used == {f.pour.station : f \in fills} \ {NoStation}
      recent == RecentStations(fills)
  IN /\ IsInjective(recent) /\ Range(recent) \subseteq used
     /\ \A i, j \in DOMAIN recent : i < j => LastUse(fills, recent[i]) >= LastUse(fills, recent[j])
     /\ \A name \in used \ Range(recent) :
          Len(recent) = RecentLimit /\ \A i \in DOMAIN recent : LastUse(fills, recent[i]) >= LastUse(fills, name)

\* The habits that count most.
UsualAgree(fills) ==
  LET usual == UsualAmounts(fills)
  IN /\ IsInjective(usual) /\ Range(usual) \subseteq Habits(fills)
     /\ \A i, j \in DOMAIN usual : i < j => TimesPaid(fills, usual[i]) >= TimesPaid(fills, usual[j])
     /\ \A cost \in Habits(fills) \ Range(usual) :
          Len(usual) = UsualLimit /\ \A i \in DOMAIN usual : TimesPaid(fills, usual[i]) >= TimesPaid(fills, cost)

\* Every name within reach once, as far as its closest fill, in that order.
NearbyAgree(fills) ==
  LET nearby == NearbyStations(fills)
      near == {f \in fills : f.pour.station # NoStation /\ f.pour.near}
  IN /\ \A i, j \in DOMAIN nearby :
          i < j => nearby[i].name # nearby[j].name /\ nearby[i].metres <= nearby[j].metres
     /\ \A n \in Range(nearby) : \E f \in near : f.pour.station = n.name /\ f.pour.metres = n.metres
     /\ \A f \in near : \E n \in Range(nearby) : n.name = f.pour.station /\ n.metres <= f.pour.metres

\* However fills are logged, late, corrected and removed: consumption is stated
\* for exactly the stretches between two full tanks with no gap between them,
\* over every litre poured in and no other; a period's figures add up; and the
\* form suggests what was really used.  (consumption.ts:61 to 72, "abandoned
\* rather than reported low"; suggestions.ts)
LogAgrees ==
  On("log") => WindowsAgree(desk.fills) /\ SummaryAddsUp(desk.fills)
              /\ RecentAgree(desk.fills) /\ UsualAgree(desk.fills) /\ NearbyAgree(desk.fills)
=============================================================================
