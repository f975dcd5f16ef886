---------------------------- MODULE LedgerProofs ----------------------------
(***************************************************************************)
(* For any number of transactions and records: the three services keep one *)
(* reading per record and one expense per paid record, and whatever they   *)
(* do to the timeline is what Odometer allows.                             *)
(*                                                                         *)
(* For any number of fills, and whatever they say: what FuelLog makes of   *)
(* the fills agrees with them.  That is proved by counting up (CountUp):   *)
(* what the sum over a finite set is, in whatever order it is taken; the   *)
(* one sequence that an order without ties sorts a set into; what the walk *)
(* over the log keeps, fill by fill (RunOk).  Each part of LogAgrees has a *)
(* lemma of its own, and LogInv is all that they need of a state.          *)
(***************************************************************************)
EXTENDS Ledger, FuelLog, FiniteSetTheorems, SequenceTheorems, TLAPS

Rows   == AnyFigures \cup {NoRow}
Job    == [kind : Kind, rec : Record \cup {NoSource}, old : Rows, new : Rows]
Pcs    == {"idle", "waiting", "locked", "ready"}
Writes == {"create", "update", "remove"}

Types ==
  /\ vehicle \in {"absent", "present"}
  /\ lock \in Tx \cup {NoTx}
  /\ pc \in [Tx -> Pcs]
  /\ job \in [Tx -> Job]
  /\ headline = [t \in Tx |-> headline[t]]
  /\ record \in [Record -> Rows]
  /\ \A r \in Record : record[r] \in Figures(r) \cup {NoRow}
  /\ ledger = [r \in Derived |-> ledger[r]]

\* A job is about one record, whose row it writes from the figures it read.
Shape(j) ==
  /\ j.kind \in Writes => j.rec \in Record
  /\ j.kind = "create" => j.old = NoRow /\ j.new \in Figures(j.rec)
  /\ j.kind = "update" => j.old \in Figures(j.rec) /\ j.new \in Figures(j.rec)
  /\ j.kind = "remove" => j.old \in Figures(j.rec) /\ j.new = NoRow
  /\ j.kind \in {"none", "delete vehicle"} => j = [NoJob EXCEPT !.kind = j.kind]

WantsLock(j) == MovesReading(j) \/ j.kind = "delete vehicle"

\* Where a transaction is, and what it holds there.
Sound(t) ==
  /\ Shape(job[t])
  /\ pc[t] = "idle" <=> job[t].kind = "none"
  /\ pc[t] \in {"waiting", "locked"} => WantsLock(job[t])
  /\ pc[t] = "locked" => MovesReading(job[t])
  /\ pc[t] = "locked" \/ (pc[t] = "ready" /\ WantsLock(job[t])) => lock = t
  /\ ~(pc[t] = "ready" /\ MovesReading(job[t])) => headline[t] = 0
  /\ lock = t => vehicle = "present" /\ pc[t] \in {"locked", "ready"} /\ WantsLock(job[t])

\* The row a job read is the row still there, and no other job writes it.
Read(t) == job[t].kind \in Writes => record[job[t].rec] = job[t].old
Apart ==
  \A t, u \in Tx : t # u /\ job[t].kind \in Writes /\ job[u].kind \in Writes
                     => job[t].rec # job[u].rec

IInv ==
  /\ Types
  /\ \A t \in Tx : Sound(t) /\ Read(t)
  /\ Apart
  /\ LedgerMirrorsRecords
  /\ OneReadingPerRecord

-----------------------------------------------------------------------------
\* The figures of a row.
LEMMA FiguresAre ==
  ASSUME NEW r \in Record, NEW fig \in Figures(r)
  PROVE  /\ fig \in Rows /\ fig # NoRow /\ KmOf(fig) = fig.km
         /\ fig.at \in Time /\ fig.km \in Km \cup {NoKm}
<1>1. fig \in AnyFigures
  BY DEF AnyFigures
<1>2. fig # NoRow
  BY <1>1, LedgerAssumption
<1>3. fig.at \in Time
  BY DEF Figures
<1>4. fig.km \in Km \cup {NoKm}
  BY DEF Figures
<1> QED BY <1>1, <1>2, <1>3, <1>4 DEF Rows, KmOf

LEMMA NothingIsJob ==
  /\ NoJob \in Job /\ NoJob.kind = "none" /\ NoJob.rec = NoSource
  /\ NoJob.old = NoRow /\ NoJob.new = NoRow
  /\ ~MovesReading(NoJob) /\ ~WantsLock(NoJob) /\ Shape(NoJob)
<1>1. /\ NoJob \in Job /\ NoJob.kind = "none" /\ NoJob.rec = NoSource
      /\ NoJob.old = NoRow /\ NoJob.new = NoRow
  BY DEF NoJob, Job, Rows, Kind
<1>2. [NoJob EXCEPT !.kind = NoJob.kind] = NoJob
  BY DEF NoJob
<1> QED BY <1>1, <1>2 DEF MovesReading, WantsLock, Shape, Writes

\* The deletion of the vehicle.
LEMMA DeletionIsJob ==
  LET j == [NoJob EXCEPT !.kind = "delete vehicle"]
  IN  /\ j \in Job /\ j.kind = "delete vehicle" /\ WantsLock(j) /\ ~MovesReading(j) /\ Shape(j)
<1> DEFINE j == [NoJob EXCEPT !.kind = "delete vehicle"]
<1>1. j \in Job /\ j.kind = "delete vehicle"
  BY DEF NoJob, Job, Rows, Kind
<1>2. ~MovesReading(j) /\ WantsLock(j) /\ Shape(j)
  BY <1>1 DEF MovesReading, WantsLock, Shape, Writes
<1> QED BY <1>1, <1>2

\* A job that moves a reading withdraws one, puts one, or does both.
LEMMA MovingIs ==
  ASSUME NEW j \in Job, Shape(j)
  PROVE  /\ MovesReading(j) <=> Withdraws(j) \/ Puts(j)
         /\ MovesReading(j) => j.kind \in Writes /\ j.rec \in Record
         /\ Puts(j) => j.new.at \in Time /\ j.new.km \in Km /\ j.new # NoRow
         /\ ~(MovesReading(j) /\ j.kind = "delete vehicle")
<1>1. MovesReading(j) => j.kind \in Writes /\ j.rec \in Record
  BY DEF MovesReading, Writes, Shape
<1>2. MovesReading(j) <=> Withdraws(j) \/ Puts(j)
  BY DEF MovesReading, ReadingMoves, Withdraws, Puts
<1>3. ASSUME Puts(j) PROVE j.new.at \in Time /\ j.new.km \in Km /\ j.new # NoRow
  <2>1. MovesReading(j) /\ KmOf(j.new) # NoKm
    BY <1>3 DEF Puts
  <2>2. j.new # NoRow
    BY <2>1 DEF KmOf
  <2>3. j.new \in Figures(j.rec)
    BY <1>1, <2>1, <2>2 DEF Shape, Writes
  <2> QED BY <1>1, <2>1, <2>2, <2>3, FiguresAre
<1>4. ~(MovesReading(j) /\ j.kind = "delete vehicle")
  BY DEF MovesReading
<1> QED BY <1>1, <1>2, <1>3, <1>4

-----------------------------------------------------------------------------
\* A transaction that ends holds nothing; the others hold what they held.
LEMMA EndIs ==
  ASSUME Types, NEW t \in Tx, Sound(t), End(t)
  PROVE  /\ pc' \in [Tx -> Pcs] /\ pc'[t] = "idle" /\ \A u \in Tx : u # t => pc'[u] = pc[u]
         /\ job' \in [Tx -> Job] /\ job'[t] = NoJob /\ \A u \in Tx : u # t => job'[u] = job[u]
         /\ headline' = [u \in Tx |-> headline'[u]] /\ headline'[t] = 0
         /\ \A u \in Tx : u # t => headline'[u] = headline[u]
         /\ lock' \in Tx \cup {NoTx} /\ lock' # t /\ lock' \in {lock, NoTx}
         /\ \A u \in Tx : u # t => (lock' = u <=> lock = u)
BY NothingIsJob, LedgerAssumption DEF Types, End, Pcs

\* A request that ends with nothing written.
LEMMA EndKeeps ==
  ASSUME IInv, NEW t \in Tx, End(t), UNCHANGED <<vehicle, rows>>
  PROVE  IInv'
<1>1. /\ Types /\ Sound(t) /\ UNCHANGED <<vehicle, readings, record, ledger>>
  BY DEF IInv, rows
<1>2. /\ pc' \in [Tx -> Pcs] /\ pc'[t] = "idle" /\ \A u \in Tx : u # t => pc'[u] = pc[u]
      /\ job' \in [Tx -> Job] /\ job'[t] = NoJob /\ \A u \in Tx : u # t => job'[u] = job[u]
      /\ headline' = [u \in Tx |-> headline'[u]] /\ headline'[t] = 0
      /\ \A u \in Tx : u # t => headline'[u] = headline[u]
      /\ lock' \in Tx \cup {NoTx} /\ lock' # t /\ lock' \in {lock, NoTx}
      /\ \A u \in Tx : u # t => (lock' = u <=> lock = u)
  BY <1>1, EndIs
<1>3. Types'
  BY <1>1, <1>2 DEF Types
<1>4. ASSUME NEW u \in Tx PROVE Sound(u)' /\ Read(u)'
  <2>1. CASE u = t
    BY <1>2, <2>1, NothingIsJob DEF Sound, Read, Writes
  <2>2. CASE u # t
    BY <1>1, <1>2, <2>2 DEF IInv, Sound, Read
  <2> QED BY <2>1, <2>2
<1>5. Apart'
  BY <1>2, NothingIsJob DEF IInv, Apart, Writes
<1>6. LedgerMirrorsRecords' /\ OneReadingPerRecord'
  BY <1>1 DEF IInv, LedgerMirrorsRecords, OneReadingPerRecord
<1> QED BY <1>3, <1>4, <1>5, <1>6 DEF IInv

\* A request that begins, about a record nobody else writes.
LEMMA BeginKeeps ==
  ASSUME IInv, NEW t \in Tx, NEW j \in Job, Begin(t, j), Shape(j), j.kind # "none",
         j.kind \in Writes => record[j.rec] = j.old,
         \A u \in Tx : j.kind \in Writes /\ job[u].kind \in Writes /\ u # t => job[u].rec # j.rec
  PROVE  IInv'
<1>1. /\ Types /\ Sound(t) /\ pc[t] = "idle" /\ job[t].kind = "none" /\ headline[t] = 0 /\ lock # t
      /\ UNCHANGED <<vehicle, readings, record, ledger, lock, headline>>
  BY DEF IInv, rows, Begin, Sound
<1>2. /\ pc' \in [Tx -> Pcs] /\ \A u \in Tx : u # t => pc'[u] = pc[u]
      /\ pc'[t] = IF WantsLock(j) THEN "waiting" ELSE "ready"
      /\ job' \in [Tx -> Job] /\ job'[t] = j /\ \A u \in Tx : u # t => job'[u] = job[u]
  BY <1>1 DEF Types, Begin, WantsLock, Pcs
<1>3. Types'
  BY <1>1, <1>2 DEF Types
<1>4. ASSUME NEW u \in Tx PROVE Sound(u)' /\ Read(u)'
  <2>1. CASE u = t
    <3>1. ~MovesReading(j) \/ WantsLock(j)
      BY DEF WantsLock
    <3> QED BY <1>1, <1>2, <2>1, <3>1 DEF Sound, Read
  <2>2. CASE u # t
    BY <1>1, <1>2, <2>2 DEF IInv, Sound, Read
  <2> QED BY <2>1, <2>2
<1>5. Apart'
  BY <1>2 DEF IInv, Apart
<1>6. LedgerMirrorsRecords' /\ OneReadingPerRecord'
  BY <1>1 DEF IInv, LedgerMirrorsRecords, OneReadingPerRecord
<1> QED BY <1>3, <1>4, <1>5, <1>6 DEF IInv

LEMMA CreateKeeps ==
  ASSUME IInv, NEW t \in Tx, NEW r \in Record, NEW fig \in Figures(r), Create(t, r, fig)
  PROVE  IInv'
<1> DEFINE j == [kind |-> "create", rec |-> r, old |-> NoRow, new |-> fig]
<1>1. fig \in Rows /\ NoRow \in Rows
  BY FiguresAre DEF Rows
<1>2. j \in Job /\ j.kind = "create" /\ j.rec = r /\ j.old = NoRow /\ j.new = fig
  BY <1>1 DEF Job, Kind
<1>3. Begin(t, j) /\ record[r] = NoRow /\ \A u \in Tx : job[u].rec # r
  BY DEF Create
<1> HIDE DEF j
<1>4. Shape(j)
  BY <1>2 DEF Shape
<1> QED BY <1>2, <1>3, <1>4, BeginKeeps

\* A record that is there and whose row is free is written by nobody.
LEMMA FreeRowIsOwn ==
  ASSUME IInv, NEW r \in Record, record[r] # NoRow, RowFree(r), NEW u \in Tx, job[u].kind \in Writes
  PROVE  job[u].rec # r
<1>1. CASE job[u].kind = "create"
  BY <1>1 DEF IInv, Sound, Shape, Read
<1>2. CASE job[u].kind # "create"
  BY <1>2 DEF IInv, Sound, RowFree, HoldsRow, Writes
<1> QED BY <1>1, <1>2

LEMMA UpdateKeeps ==
  ASSUME IInv, NEW t \in Tx, NEW r \in Record, NEW fig \in Figures(r), Update(t, r, fig)
  PROVE  IInv'
<1> DEFINE j == [kind |-> "update", rec |-> r, old |-> record[r], new |-> fig]
<1>1. /\ fig \in Rows /\ record[r] \in Rows /\ record[r] # NoRow /\ record[r] \in Figures(r)
      /\ Begin(t, j) /\ RowFree(r)
  BY FiguresAre DEF IInv, Types, Update
<1>2. j \in Job /\ j.kind = "update" /\ j.rec = r /\ j.old = record[r] /\ j.new = fig
  BY <1>1 DEF Job, Kind
<1> HIDE DEF j
<1>3. Shape(j)
  BY <1>1, <1>2 DEF Shape
<1>4. \A u \in Tx : job[u].kind \in Writes => job[u].rec # r
  BY <1>1, FreeRowIsOwn
<1> QED BY <1>1, <1>2, <1>3, <1>4, BeginKeeps

LEMMA RemoveKeeps ==
  ASSUME IInv, NEW t \in Tx, NEW r \in Record, Remove(t, r)
  PROVE  IInv'
<1> DEFINE j == [kind |-> "remove", rec |-> r, old |-> record[r], new |-> NoRow]
<1>1. /\ NoRow \in Rows /\ record[r] \in Rows /\ record[r] # NoRow /\ record[r] \in Figures(r)
      /\ Begin(t, j) /\ RowFree(r)
  BY DEF IInv, Types, Remove, Rows
<1>2. j \in Job /\ j.kind = "remove" /\ j.rec = r /\ j.old = record[r] /\ j.new = NoRow
  BY <1>1 DEF Job, Kind
<1> HIDE DEF j
<1>3. Shape(j)
  BY <1>1, <1>2 DEF Shape
<1>4. \A u \in Tx : job[u].kind \in Writes => job[u].rec # r
  BY <1>1, FreeRowIsOwn
<1> QED BY <1>1, <1>2, <1>3, <1>4, BeginKeeps

LEMMA DeleteVehicleKeeps ==
  ASSUME IInv, NEW t \in Tx, DeleteVehicle(t)
  PROVE  IInv'
<1> DEFINE j == [NoJob EXCEPT !.kind = "delete vehicle"]
<1>1. j \in Job /\ j.kind = "delete vehicle" /\ Shape(j) /\ Begin(t, j)
  BY DeletionIsJob DEF DeleteVehicle
<1> HIDE DEF j
<1> QED BY <1>1, BeginKeeps DEF Writes

-----------------------------------------------------------------------------
LEMMA CreateVehicleKeeps ==
  ASSUME IInv, CreateVehicle
  PROVE  IInv'
<1>1. UNCHANGED <<readings, record, ledger, lock, pc, job, headline>> /\ vehicle' = "present"
  BY DEF CreateVehicle, rows
<1> QED BY <1>1 DEF IInv, Types, Sound, Read, Apart, LedgerMirrorsRecords, OneReadingPerRecord

LEMMA LockKeeps ==
  ASSUME IInv, NEW t \in Tx, LockVehicle(t)
  PROVE  IInv'
<1>1. /\ Types /\ Sound(t) /\ pc[t] = "waiting" /\ lock = NoTx /\ lock' = t /\ vehicle = "present"
      /\ NoTx \notin Tx
      /\ UNCHANGED <<vehicle, readings, record, ledger, job, headline>>
  BY LedgerAssumption DEF IInv, LockVehicle, rows
<1>2. /\ pc' \in [Tx -> Pcs] /\ \A u \in Tx : u # t => pc'[u] = pc[u]
      /\ pc'[t] = IF job[t].kind = "delete vehicle" THEN "ready" ELSE "locked"
  BY <1>1 DEF Types, LockVehicle, Pcs
<1>3. Types'
  BY <1>1, <1>2 DEF Types
<1>4. ASSUME NEW u \in Tx PROVE Sound(u)' /\ Read(u)'
  <2>1. CASE u = t
    <3>1. job[t] \in Job /\ WantsLock(job[t]) /\ Shape(job[t])
      BY <1>1 DEF Types, Sound
    <3>2. job[t].kind = "delete vehicle" => ~MovesReading(job[t])
      BY <3>1, MovingIs
    <3> QED BY <1>1, <1>2, <2>1, <3>1, <3>2 DEF IInv, Sound, Read, WantsLock
  <2>2. CASE u # t
    BY <1>1, <1>2, <2>2 DEF IInv, Sound, Read
  <2> QED BY <2>1, <2>2
<1>5. Apart' /\ LedgerMirrorsRecords' /\ OneReadingPerRecord'
  BY <1>1 DEF IInv, Apart, LedgerMirrorsRecords, OneReadingPerRecord
<1> QED BY <1>3, <1>4, <1>5 DEF IInv

LEMMA MoveKeeps ==
  ASSUME IInv, NEW t \in Tx, MoveReading(t)
  PROVE  IInv'
<1>1. /\ Types /\ Sound(t) /\ pc[t] = "locked"
      /\ UNCHANGED <<vehicle, readings, record, ledger, job, lock>>
  BY DEF IInv, MoveReading, rows
<1>2. /\ pc' \in [Tx -> Pcs] /\ pc'[t] = "ready" /\ \A u \in Tx : u # t => pc'[u] = pc[u]
      /\ headline' = [u \in Tx |-> headline'[u]]
      /\ \A u \in Tx : u # t => headline'[u] = headline[u]
  BY <1>1 DEF Types, MoveReading, Pcs
<1>3. Types'
  BY <1>1, <1>2 DEF Types
<1>4. ASSUME NEW u \in Tx PROVE Sound(u)' /\ Read(u)'
  <2>1. CASE u = t
    BY <1>1, <1>2, <2>1 DEF IInv, Sound, Read
  <2>2. CASE u # t
    BY <1>1, <1>2, <2>2 DEF IInv, Sound, Read
  <2> QED BY <2>1, <2>2
<1>5. Apart' /\ LedgerMirrorsRecords' /\ OneReadingPerRecord'
  BY <1>1 DEF IInv, Apart, LedgerMirrorsRecords, OneReadingPerRecord
<1> QED BY <1>3, <1>4, <1>5 DEF IInv

\* A commit leaves its record's reading where the record says, and the others' alone.
LEMMA CommitMovesReading ==
  ASSUME IInv, NEW t \in Tx, Commit(t), NEW r \in Record, job[t].rec = r, job[t].kind \in Writes,
         record[r] = job[t].old, record'[r] = job[t].new,
         \A q \in Record : q # r => record'[q] = record[q]
  PROVE  OneReadingPerRecord'
<1> DEFINE Own(R, q) == {x \in R : x.src = q}
           j == job[t]
<1>0. /\ j \in Job /\ Shape(j)
      /\ \A q \in Record :
           IF KmOf(record[q]) = NoKm THEN Own(readings, q) = {}
           ELSE \E x \in Own(readings, q) :
                  Own(readings, q) = {x} /\ x.at = record[q].at /\ x.km = record[q].km
  BY DEF IInv, Types, Sound, OneReadingPerRecord
<1>1. SUFFICES ASSUME NEW q \in Record
               PROVE  IF KmOf(record'[q]) = NoKm THEN Own(readings', q) = {}
                      ELSE \E x \in Own(readings', q) :
                        Own(readings', q) = {x} /\ x.at = record'[q].at /\ x.km = record'[q].km
  BY DEF OneReadingPerRecord, KmOf
<1>2. CASE ~MovesReading(j)
  <2>1. readings' = readings
    BY <1>2 DEF Commit
  <2>2. CASE q # r
    BY <1>0, <2>1, <2>2 DEF KmOf
  <2>3. CASE q = r
    <3>1. KmOf(j.old) = KmOf(j.new) /\ (KmOf(j.new) = NoKm \/ j.old.at = j.new.at)
      BY <1>2 DEF MovesReading, ReadingMoves, Writes
    <3>2. KmOf(j.new) = NoKm \/ j.old.km = j.new.km
      BY <3>1 DEF KmOf
    <3> QED BY <1>0, <2>1, <2>3, <3>1, <3>2
  <2> QED BY <2>2, <2>3
<1>3. CASE MovesReading(j)
  <2> DEFINE new == OwnReading(t)
  <2>1. readings' = Remaining(t) \cup (IF Puts(j) THEN {new} ELSE {})
    BY <1>3 DEF Commit, NewReadings
  <2>2. new.src = r /\ new.at = j.new.at /\ new.km = j.new.km
    BY DEF OwnReading
  <2>3. Remaining(t) = IF Withdraws(j) THEN {x \in readings : x.src # r} ELSE readings
    BY DEF Remaining, DeleteBySource
  <2> HIDE DEF new
  <2>4. CASE q # r
    <3>1. Own(readings', q) = Own(readings, q)
      BY <2>1, <2>2, <2>3, <2>4
    <3> QED BY <1>0, <2>4, <3>1 DEF KmOf
  <2>5. CASE q = r
    <3>1. Own(Remaining(t), r) = {}
      <4>1. CASE Withdraws(j)
        BY <2>3, <4>1
      <4>2. CASE ~Withdraws(j)
        BY <1>0, <1>3, <2>3, <4>2 DEF Withdraws
      <4> QED BY <4>1, <4>2
    <3>2. CASE Puts(j)
      <4>1. KmOf(j.new) # NoKm /\ Own(readings', r) = {new}
        BY <2>1, <2>2, <3>1, <3>2 DEF Puts
      <4> QED BY <2>2, <2>5, <4>1
    <3>3. CASE ~Puts(j)
      <4>1. KmOf(j.new) = NoKm /\ Own(readings', r) = {}
        BY <1>3, <2>1, <3>1, <3>3 DEF Puts
      <4> QED BY <2>5, <4>1
    <3> QED BY <3>2, <3>3
  <2> QED BY <2>4, <2>5
<1> QED BY <1>2, <1>3

LEMMA CommitKeeps ==
  ASSUME IInv, NEW t \in Tx, Commit(t)
  PROVE  IInv'
<1> DEFINE r == job[t].rec
           new == job[t].new
<1>1. /\ Types /\ Sound(t) /\ Read(t) /\ pc[t] = "ready" /\ job[t].kind # "delete vehicle"
      /\ End(t) /\ UNCHANGED vehicle /\ Shape(job[t]) /\ job[t] \in Job
  BY DEF IInv, Types, Sound, Commit
<1>2. /\ job[t].kind \in Writes /\ r \in Record /\ record[r] = job[t].old
      /\ new \in Figures(r) \cup {NoRow} /\ new \in Rows
  <2>1. job[t].kind \in Writes
    BY <1>1 DEF Sound, Job, Kind, Writes
  <2> QED BY <1>1, <2>1 DEF Read, Shape, Writes, Job
<1>3. /\ pc' \in [Tx -> Pcs] /\ pc'[t] = "idle" /\ \A u \in Tx : u # t => pc'[u] = pc[u]
      /\ job' \in [Tx -> Job] /\ job'[t] = NoJob /\ \A u \in Tx : u # t => job'[u] = job[u]
      /\ headline' = [u \in Tx |-> headline'[u]] /\ headline'[t] = 0
      /\ \A u \in Tx : u # t => headline'[u] = headline[u]
      /\ lock' \in Tx \cup {NoTx} /\ lock' # t /\ lock' \in {lock, NoTx}
      /\ \A u \in Tx : u # t => (lock' = u <=> lock = u)
  BY <1>1, EndIs
<1>4. /\ record' \in [Record -> Rows] /\ record'[r] = new
      /\ \A q \in Record : q # r => record'[q] = record[q]
  BY <1>1, <1>2 DEF Types, Commit
<1>5. /\ ledger' = [q \in Derived |-> ledger'[q]]
      /\ \A q \in Derived : ledger'[q] = IF q = r THEN (IF Paid(new) THEN new ELSE NoRow)
                                         ELSE ledger[q]
  BY <1>1, <1>2 DEF Types, Commit, Settled
<1>6. OneReadingPerRecord'
  BY <1>2, <1>4, CommitMovesReading
<1> HIDE DEF r, new
<1>7. Types'
  BY <1>1, <1>2, <1>3, <1>4, <1>5 DEF Types
<1>8. ASSUME NEW u \in Tx PROVE Sound(u)' /\ Read(u)'
  <2>1. CASE u = t
    BY <1>3, <2>1, NothingIsJob DEF Sound, Read, Writes
  <2>2. CASE u # t
    <3>1. Sound(u)'
      <4>1. /\ Sound(u) /\ pc'[u] = pc[u] /\ job'[u] = job[u] /\ headline'[u] = headline[u]
            /\ lock' = u <=> lock = u
        BY <1>3, <2>2 DEF IInv
      <4>2. vehicle' = vehicle
        BY <1>1
      <4> QED BY <4>1, <4>2 DEF Sound
    <3>2. job[u].kind \in Writes => job[u].rec # r /\ job[u].rec \in Record
      BY <1>2, <2>2 DEF IInv, Apart, Sound, Shape, r
    <3>3. job'[u] = job[u] /\ Read(u)
      BY <1>3, <2>2 DEF IInv
    <3>4. Read(u)'
      BY <1>4, <3>2, <3>3 DEF Read
    <3> QED BY <3>1, <3>4
  <2> QED BY <2>1, <2>2
<1>9. Apart'
  BY <1>3, NothingIsJob DEF IInv, Apart, Writes
<1>10. LedgerMirrorsRecords'
  <2>1. ASSUME NEW q \in Derived PROVE ledger'[q] = IF Paid(record'[q]) THEN record'[q] ELSE NoRow
    <3>1. q \in Record
      BY DEF Derived, Record
    <3> QED BY <1>4, <1>5, <3>1 DEF IInv, LedgerMirrorsRecords, Paid
  <2> QED BY <2>1 DEF LedgerMirrorsRecords, Paid
<1> QED BY <1>6, <1>7, <1>8, <1>9, <1>10 DEF IInv

\* The cascade finds only records that are still to be created.
LEMMA DeletionKeeps ==
  ASSUME IInv, NEW t \in Tx, CommitDeletion(t)
  PROVE  IInv'
<1>1. /\ Types /\ Sound(t) /\ pc[t] = "ready" /\ job[t].kind = "delete vehicle" /\ lock = t
      /\ End(t) /\ vehicle' = "absent" /\ readings' = {} /\ \A r \in Record : RowFree(r)
      /\ record' = [r \in Record |-> NoRow] /\ ledger' = [r \in Derived |-> NoRow]
  BY DEF IInv, CommitDeletion, Sound, WantsLock
<1>2. /\ pc' \in [Tx -> Pcs] /\ pc'[t] = "idle" /\ \A u \in Tx : u # t => pc'[u] = pc[u]
      /\ job' \in [Tx -> Job] /\ job'[t] = NoJob /\ \A u \in Tx : u # t => job'[u] = job[u]
      /\ headline' = [u \in Tx |-> headline'[u]] /\ headline'[t] = 0
      /\ \A u \in Tx : u # t => headline'[u] = headline[u]
      /\ lock' \in Tx \cup {NoTx} /\ lock' # t /\ lock' \in {lock, NoTx}
      /\ \A u \in Tx : u # t => (lock' = u <=> lock = u)
  BY <1>1, EndIs
<1>3. Types'
  BY <1>1, <1>2 DEF Types, Rows
<1>4. ASSUME NEW u \in Tx PROVE Sound(u)' /\ Read(u)'
  <2>1. CASE u = t
    BY <1>2, <2>1, NothingIsJob DEF Sound, Read, Writes
  <2>2. CASE u # t
    <3>1. Sound(u)'
      BY <1>1, <1>2, <2>2 DEF IInv, Sound
    <3>2. job[u].kind \in Writes => job[u].rec \in Record /\ job[u].old = NoRow
      <4> SUFFICES ASSUME job[u].kind \in Writes PROVE job[u].rec \in Record /\ job[u].old = NoRow
        OBVIOUS
      <4>1. Shape(job[u]) /\ pc[u] # "idle" /\ job[u].rec \in Record
        BY DEF IInv, Sound, Shape, Writes
      <4>2. job[u].kind \notin {"update", "remove"}
        BY <1>1, <4>1 DEF RowFree, HoldsRow
      <4> QED BY <4>1, <4>2 DEF Shape, Writes
    <3> QED BY <1>1, <1>2, <2>2, <3>1, <3>2 DEF Read
  <2> QED BY <2>1, <2>2
<1>5. Apart'
  BY <1>2, NothingIsJob DEF IInv, Apart, Writes
<1>6. LedgerMirrorsRecords'
  <2>1. Derived \subseteq Record
    BY DEF Derived, Record
  <2> QED BY <1>1, <2>1 DEF LedgerMirrorsRecords, Paid
<1>7. OneReadingPerRecord'
  BY <1>1 DEF OneReadingPerRecord, KmOf
<1> QED BY <1>3, <1>4, <1>5, <1>6, <1>7 DEF IInv

-----------------------------------------------------------------------------
LEMMA Initial == Init => IInv
<1> SUFFICES ASSUME Init PROVE IInv
  OBVIOUS
<1>1. Types
  BY NothingIsJob DEF Init, Types, Rows, Pcs
<1>2. \A t \in Tx : Sound(t) /\ Read(t)
  BY NothingIsJob, LedgerAssumption DEF Init, Sound, Read, Writes
<1>3. Apart
  BY NothingIsJob DEF Init, Apart, Writes
<1>4. LedgerMirrorsRecords /\ OneReadingPerRecord
  BY DEF Init, LedgerMirrorsRecords, OneReadingPerRecord, Paid, KmOf, Derived, Record
<1> QED BY <1>1, <1>2, <1>3, <1>4 DEF IInv

LEMMA Inductive == IInv /\ [Next]_vars => IInv'
<1> SUFFICES ASSUME IInv, [Next]_vars PROVE IInv'
  OBVIOUS
<1>1. CASE CreateVehicle
  BY <1>1, CreateVehicleKeeps
<1>2. ASSUME NEW t \in Tx, NEW r \in Record, NEW fig \in Figures(r),
             Create(t, r, fig) \/ Update(t, r, fig)
      PROVE  IInv'
  BY <1>2, CreateKeeps, UpdateKeeps
<1>3. ASSUME NEW t \in Tx, NEW r \in Record, Remove(t, r) PROVE IInv'
  BY <1>3, RemoveKeeps
<1>4. ASSUME NEW t \in Tx, DeleteVehicle(t) PROVE IInv'
  BY <1>4, DeleteVehicleKeeps
<1>5. ASSUME NEW t \in Tx,
             VehicleGone(t) \/ Reject(t) \/ RefuseFree(t) \/ AbortDeadlock(t) \/ Crash(t)
      PROVE  IInv'
  BY <1>5, EndKeeps DEF VehicleGone, Reject, RefuseFree, AbortDeadlock, Crash
<1>6. ASSUME NEW t \in Tx, LockVehicle(t) \/ MoveReading(t) \/ Commit(t) \/ CommitDeletion(t)
      PROVE  IInv'
  BY <1>6, LockKeeps, MoveKeeps, CommitKeeps, DeletionKeeps
<1>7. CASE UNCHANGED vars
  BY <1>7 DEF vars, rows, IInv, Types, Sound, Read, Apart, LedgerMirrorsRecords, OneReadingPerRecord
<1> QED BY <1>1, <1>2, <1>3, <1>4, <1>5, <1>6, <1>7 DEF Next, Step

LEMMA Invariant == Spec => []IInv
BY Initial, Inductive, PTL DEF Spec

\* A fill or a service and its expense never disagree.
THEOREM LedgerAgrees == Spec => []LedgerMirrorsRecords
BY Invariant, PTL DEF IInv

\* However edits, removals and the deletion of the vehicle meet, a record has
\* the one reading it says.
THEOREM RecordsHaveTheirReading == Spec => []OneReadingPerRecord
BY Invariant, PTL DEF IInv

-----------------------------------------------------------------------------
(* The refinement: what each step is to the timeline. *)

Plans == [t \in Tx |-> PlanOf(job[t])]

LEMMA PlanIs ==
  ASSUME NEW j \in Job, Shape(j)
  PROVE  /\ PlanOf(j).withdraw = NoSource <=> ~Withdraws(j)
         /\ PlanOf(j).put = NoEntry <=> ~Puts(j)
         /\ Withdraws(j) => PlanOf(j).withdraw = j.rec
         /\ Puts(j) => /\ PlanOf(j).put.at = j.new.at /\ PlanOf(j).put.km = j.new.km
                       /\ PlanOf(j).put.src = j.rec
         /\ MovesReading(j) => PlanOf(j) \in Mileage!Plan
         /\ ~MovesReading(j) => PlanOf(j) = Mileage!IdlePlan
<1> DEFINE e == [at |-> j.new.at, km |-> j.new.km, src |-> j.rec]
           E == [at : Time, km : Km, src : Record \cup {NoSource}]
<1>1. /\ PlanOf(j).withdraw = IF Withdraws(j) THEN j.rec ELSE NoSource
      /\ PlanOf(j).put = IF Puts(j) THEN e ELSE NoEntry
      /\ PlanOf(j) = [withdraw |-> PlanOf(j).withdraw, put |-> PlanOf(j).put]
  BY DEF PlanOf
<1>2. /\ MovesReading(j) <=> Withdraws(j) \/ Puts(j)
      /\ MovesReading(j) => j.rec \in Record
      /\ Puts(j) => j.new.at \in Time /\ j.new.km \in Km
  BY MovingIs
<1>3. Puts(j) => e \in E /\ e # NoEntry /\ e.src = j.rec
  BY <1>2, LedgerAssumption
<1>4. NoSource \notin Record
  BY LedgerAssumption
<1>5. /\ PlanOf(j).withdraw = NoSource <=> ~Withdraws(j)
      /\ PlanOf(j).put = NoEntry <=> ~Puts(j)
  BY <1>1, <1>2, <1>3, <1>4
<1>6. Mileage!Entry = E
  BY DEF Mileage!Entry, Mileage!Km, Km
<1>7. ASSUME MovesReading(j) PROVE PlanOf(j) \in Mileage!Plan
  <2>1. CASE Withdraws(j) /\ Puts(j)
    BY <1>1, <1>2, <1>3, <1>6, <1>7, <2>1 DEF Mileage!Plan, Mileage!Moves
  <2>2. CASE Withdraws(j) /\ ~Puts(j)
    BY <1>1, <1>2, <1>7, <2>2 DEF Mileage!Plan, Mileage!Withdrawals
  <2>3. CASE ~Withdraws(j) /\ Puts(j)
    BY <1>1, <1>2, <1>3, <1>6, <1>7, <2>3 DEF Mileage!Plan, Mileage!Recordings
  <2> QED BY <1>2, <1>7, <2>1, <2>2, <2>3
<1>8. ~MovesReading(j) => PlanOf(j) = Mileage!IdlePlan
  BY <1>1, <1>2 DEF Mileage!IdlePlan
<1> QED BY <1>1, <1>5, <1>7, <1>8

\* The timeline a job leaves is the one its plan leaves.
LEMMA SameFigures ==
  ASSUME Types, NEW t \in Tx, Shape(job[t])
  PROVE  /\ Mileage!Remaining(t) = Remaining(t)
         /\ Mileage!NewHeadline(t) = NewHeadline(t)
         /\ Mileage!Conflicts(t) <=> Conflicts(t)
<1>1. job[t] \in Job
  BY DEF Types
<1>2. /\ PlanOf(job[t]).withdraw = NoSource <=> ~Withdraws(job[t])
      /\ PlanOf(job[t]).put = NoEntry <=> ~Puts(job[t])
      /\ Withdraws(job[t]) => PlanOf(job[t]).withdraw = job[t].rec
      /\ Puts(job[t]) => /\ PlanOf(job[t]).put.at = job[t].new.at
                         /\ PlanOf(job[t]).put.km = job[t].new.km
                         /\ PlanOf(job[t]).put.src = job[t].rec
  BY <1>1, PlanIs
<1>3. Mileage!Remaining(t) = Remaining(t)
  BY <1>2 DEF Mileage!Remaining, Remaining, Mileage!DeleteBySource, DeleteBySource
<1>4. Mileage!Rederived(t) = Rederived(t)
  BY <1>3 DEF Mileage!Rederived, Rederived, Mileage!HighestOdometer, HighestOdometer
<1>5. Mileage!NewHeadline(t) = NewHeadline(t)
  BY <1>2, <1>4 DEF Mileage!NewHeadline, NewHeadline, Mileage!NextCurrentOdometer, NextCurrentOdometer
<1>6. Mileage!Conflicts(t) <=> Conflicts(t)
  BY <1>2, <1>3 DEF Mileage!Conflicts, Conflicts, Mileage!TimelineConflict, TimelineConflict,
     Mileage!PreviousReading, PreviousReading, Mileage!NextReading, NextReading, Mileage!Before, Before
<1> QED BY <1>3, <1>5, <1>6

LEMMA SameCount == \A S : Mileage!Cardinality(S) = Cardinality(S)
BY DEF Mileage!Cardinality, Cardinality

LEMMA InitMaps == Init => Mileage!Init
<1> SUFFICES ASSUME Init PROVE Mileage!Init
  OBVIOUS
<1>1. WriterPc = [t \in Tx |-> "idle"] /\ WriterLock = NoTx
  BY NothingIsJob DEF Init, WriterPc, WriterLock
<1>2. Plans = [t \in Tx |-> Mileage!IdlePlan]
  BY NothingIsJob, PlanIs DEF Init, Plans
<1> QED BY <1>1, <1>2 DEF Init, Mileage!Init, Plans, Mileage!NoSeed

\* The end of a transaction that moves a reading is one to the timeline too; that of
\* any other goes unseen.
LEMMA EndMaps ==
  ASSUME IInv, NEW t \in Tx, End(t)
  PROVE  /\ MovesReading(job[t]) =>
              /\ WriterPc' = [WriterPc EXCEPT ![t] = "idle"]
              /\ Plans' = [Plans EXCEPT ![t] = Mileage!IdlePlan]
              /\ WriterLock' = IF WriterLock = t THEN NoTx ELSE WriterLock
         /\ ~MovesReading(job[t]) =>
              UNCHANGED <<WriterPc, Plans, headline, WriterLock>>
<1>1. Types /\ Sound(t) /\ NoTx \notin Tx
  BY LedgerAssumption DEF IInv
<1>2. /\ pc' \in [Tx -> Pcs] /\ pc'[t] = "idle" /\ \A u \in Tx : u # t => pc'[u] = pc[u]
      /\ job' \in [Tx -> Job] /\ job'[t] = NoJob /\ \A u \in Tx : u # t => job'[u] = job[u]
      /\ headline' = [u \in Tx |-> headline'[u]] /\ headline'[t] = 0
      /\ \A u \in Tx : u # t => headline'[u] = headline[u]
      /\ lock' \in Tx \cup {NoTx} /\ lock' # t /\ lock' \in {lock, NoTx}
      /\ \A u \in Tx : u # t => (lock' = u <=> lock = u)
  BY <1>1, EndIs
<1>3. ~MovesReading(NoJob) /\ PlanOf(NoJob) = Mileage!IdlePlan
  BY NothingIsJob, PlanIs
<1>4. WriterPc' = [WriterPc EXCEPT ![t] = "idle"]
  BY <1>2, <1>3 DEF WriterPc
<1>5. Plans' = [Plans EXCEPT ![t] = Mileage!IdlePlan]
  <2>1. \A u \in Tx : PlanOf(job[u])' = IF u = t THEN Mileage!IdlePlan ELSE PlanOf(job[u])
    BY <1>2, <1>3
  <2> QED BY <2>1 DEF Plans
<1>6. lock = t => WantsLock(job[t])
  BY <1>1 DEF Sound
<1>7. MovesReading(job[t]) => job[t].kind # "delete vehicle"
  BY DEF MovesReading
<1>8. /\ MovesReading(job[t]) => WriterLock' = IF WriterLock = t THEN NoTx ELSE WriterLock
      /\ ~MovesReading(job[t]) => WriterLock' = WriterLock
  <2>1. CASE lock = t
    <3>1. lock' = NoTx
      BY <1>2, <2>1
    <3>2. WriterLock' = NoTx
      BY <3>1 DEF WriterLock
    <3> QED BY <1>1, <1>6, <1>7, <2>1, <3>2 DEF WriterLock, WantsLock
  <2>2. CASE lock # t
    <3>1. WriterLock' = WriterLock /\ WriterLock # t
      <4>1. CASE lock = NoTx
        BY <1>1, <1>2, <4>1 DEF WriterLock
      <4>2. CASE lock \in Tx
        <5>1. lock' = lock /\ job'[lock] = job[lock]
          BY <1>2, <2>2, <4>2
        <5> QED BY <1>1, <2>2, <5>1 DEF WriterLock
      <4> QED BY <1>1, <4>1, <4>2 DEF Types
    <3> QED BY <3>1
  <2> QED BY <2>1, <2>2
<1>9. ASSUME ~MovesReading(job[t]) PROVE UNCHANGED <<WriterPc, Plans, headline>>
  <2>1. WriterPc' = WriterPc
    BY <1>4, <1>9 DEF WriterPc
  <2>2. Plans' = Plans
    <3>1. job[t] \in Job /\ Shape(job[t])
      BY <1>1 DEF Types, Sound
    <3> QED BY <1>5, <1>9, <3>1, PlanIs DEF Plans
  <2>3. headline' = headline
    BY <1>1, <1>2, <1>9 DEF Sound, Types
  <2> QED BY <2>1, <2>2, <2>3
<1> QED BY <1>4, <1>5, <1>8, <1>9

\* A request given up is a crash to the timeline, if it would have moved a reading.
LEMMA GivingUpMaps ==
  ASSUME IInv, NEW t \in Tx, pc[t] # "idle", End(t), UNCHANGED <<vehicle, rows>>
  PROVE  [Mileage!Next]_(Mileage!vars)
<1>1. Types /\ UNCHANGED <<vehicle, readings, currentOdometerKm, inserted>>
  BY DEF IInv, rows
<1>2. CASE MovesReading(job[t])
  <2>1. WriterPc[t] # "idle"
    BY <1>2 DEF WriterPc
  <2>2. Mileage!End(t)
    BY <1>2, EndMaps DEF Mileage!End, Plans, End
  <2>3. Mileage!Crash(t)
    BY <1>1, <2>1, <2>2 DEF Mileage!Crash
  <2> QED BY <2>3 DEF Mileage!Next
<1>3. CASE ~MovesReading(job[t])
  BY <1>1, <1>3, EndMaps DEF Mileage!vars, Plans
<1> QED BY <1>2, <1>3

\* A request that would move a reading begins there; any other goes unseen.
LEMMA BeginMaps ==
  ASSUME IInv, inserted \in Nat, NEW t \in Tx, NEW j \in Job, Shape(j), Begin(t, j)
  PROVE  [Mileage!Next]_(Mileage!vars)
<1>1. /\ Types /\ Sound(t) /\ pc[t] = "idle" /\ job[t] = NoJob /\ lock # t /\ vehicle = "present"
      /\ UNCHANGED <<vehicle, readings, currentOdometerKm, inserted, lock, headline>>
  BY DEF IInv, rows, Begin, Sound, Shape, NoJob
<1>2. /\ pc' \in [Tx -> Pcs] /\ \A u \in Tx : u # t => pc'[u] = pc[u]
      /\ pc'[t] = IF WantsLock(j) THEN "waiting" ELSE "ready"
      /\ job' \in [Tx -> Job] /\ job'[t] = j /\ \A u \in Tx : u # t => job'[u] = job[u]
  BY <1>1 DEF Types, Begin, WantsLock, Pcs
<1>3. WriterLock' = WriterLock
  <2>1. CASE lock = NoTx
    BY <1>1, <2>1 DEF WriterLock
  <2>2. CASE lock \in Tx
    <3>1. job'[lock] = job[lock]
      BY <1>1, <1>2, <2>2
    <3> QED BY <1>1, <3>1 DEF WriterLock
  <2> QED BY <1>1, <2>1, <2>2 DEF Types
<1>4. WriterPc[t] = "idle" /\ Plans[t] = Mileage!IdlePlan
  BY <1>1, NothingIsJob, PlanIs DEF WriterPc, Plans
<1>5. Plans' = [Plans EXCEPT ![t] = PlanOf(j)]
  <2>1. \A u \in Tx : PlanOf(job[u])' = IF u = t THEN PlanOf(j) ELSE PlanOf(job[u])
    BY <1>2
  <2> QED BY <2>1 DEF Plans
<1>6. WriterPc' = [WriterPc EXCEPT ![t] = IF MovesReading(j) THEN "waiting" ELSE "idle"]
  BY <1>2 DEF WriterPc, WantsLock
<1>7. CASE MovesReading(j)
  <2>1. PlanOf(j) \in Mileage!Plan /\ (PlanOf(j).put # NoEntry <=> Puts(j))
    BY <1>7, PlanIs
  <2>2. Puts(j) => Mileage!RoomForOne
    <3>1. \A u \in Tx : PlanOf(job[u]).put # NoEntry <=> Puts(job[u])
      BY PlanIs DEF IInv, Types, Sound
    <3>2. {u \in Tx : Plans[u].put # NoEntry} = {u \in Tx : Puts(job[u])}
      BY <3>1 DEF Plans
    <3>3. ~Mileage!SeedPending
      BY DEF Mileage!SeedPending
    <3>4. Puts(j) => inserted + Cardinality({u \in Tx : Puts(job[u])}) < MaxReadings
      BY DEF Begin, RoomFor
    <3>5. Cardinality({u \in Tx : Puts(job[u])}) \in Nat
      <4>1. IsFiniteSet({u \in Tx : Puts(job[u])})
        BY LedgerAssumption, FS_Subset
      <4> QED BY <4>1, FS_CardinalityType
    <3>6. Mileage!RoomForOne <=>
            inserted + Mileage!Cardinality({u \in Tx : Plans[u].put # NoEntry}) + 0 < MaxReadings
      BY <3>3 DEF Mileage!RoomForOne, Plans
    <3> DEFINE n == Cardinality({u \in Tx : Puts(job[u])})
    <3>7. Mileage!Cardinality({u \in Tx : Plans[u].put # NoEntry}) = n
      BY <3>2, SameCount
    <3>8. n \in Nat /\ MaxReadings \in Nat /\ (Mileage!RoomForOne <=> inserted + n + 0 < MaxReadings)
      BY <3>5, <3>6, <3>7, LedgerAssumption
    <3> HIDE DEF n
    <3>9. inserted + n < MaxReadings => inserted + n + 0 < MaxReadings
      BY <3>8
    <3> QED BY <3>4, <3>8, <3>9 DEF n
  <2>3. Mileage!BeginWrite(t, PlanOf(j))
    BY <1>1, <1>3, <1>4, <1>5, <1>6, <1>7, <2>1, <2>2 DEF Mileage!BeginWrite, Plans
  <2> QED BY <2>1, <2>3 DEF Mileage!Next
<1>8. CASE ~MovesReading(j)
  <2>1. WriterPc' = WriterPc
    BY <1>4, <1>6, <1>8 DEF WriterPc
  <2>2. Plans' = Plans
    BY <1>4, <1>5, <1>8, PlanIs DEF Plans
  <2> QED BY <1>1, <1>3, <2>1, <2>2 DEF Mileage!vars, Plans
<1> QED BY <1>7, <1>8

LEMMA RequestMaps ==
  ASSUME IInv, inserted \in Nat, NEW t \in Tx, NEW r \in Record,
         Remove(t, r) \/ \E fig \in Figures(r) : Create(t, r, fig) \/ Update(t, r, fig)
  PROVE  [Mileage!Next]_(Mileage!vars)
<1>1. CASE Remove(t, r)
  <2> DEFINE j == [kind |-> "remove", rec |-> r, old |-> record[r], new |-> NoRow]
  <2>1. /\ record[r] \in Rows /\ NoRow \in Rows /\ record[r] \in Figures(r) /\ Begin(t, j)
    BY <1>1 DEF IInv, Types, Remove, Rows
  <2>2. j \in Job /\ Shape(j)
    BY <2>1 DEF Job, Kind, Shape
  <2> QED BY <2>1, <2>2, BeginMaps
<1>2. ASSUME NEW fig \in Figures(r), Create(t, r, fig) PROVE [Mileage!Next]_(Mileage!vars)
  <2> DEFINE j == [kind |-> "create", rec |-> r, old |-> NoRow, new |-> fig]
  <2>1. fig \in Rows /\ NoRow \in Rows /\ Begin(t, j)
    BY <1>2, FiguresAre DEF Create, Rows
  <2>2. j \in Job /\ Shape(j)
    BY <2>1 DEF Job, Kind, Shape
  <2> QED BY <2>1, <2>2, BeginMaps
<1>3. ASSUME NEW fig \in Figures(r), Update(t, r, fig) PROVE [Mileage!Next]_(Mileage!vars)
  <2> DEFINE j == [kind |-> "update", rec |-> r, old |-> record[r], new |-> fig]
  <2>1. fig \in Rows /\ record[r] \in Rows /\ record[r] \in Figures(r) /\ Begin(t, j)
    BY <1>3, FiguresAre DEF IInv, Types, Update
  <2>2. j \in Job /\ Shape(j)
    BY <2>1 DEF Job, Kind, Shape
  <2> QED BY <2>1, <2>2, BeginMaps
<1> QED BY <1>1, <1>2, <1>3

LEMMA CreateVehicleMaps == ASSUME IInv, CreateVehicle PROVE Mileage!Next
<1>1. /\ vehicle = "absent" /\ vehicle' = "present" /\ \A t \in Tx : WriterPc[t] = "idle"
      /\ UNCHANGED <<readings, currentOdometerKm, inserted, lock, pc, job, headline>>
  BY DEF CreateVehicle, rows, WriterPc
<1>2. UNCHANGED <<WriterPc, WriterLock, Plans>>
  BY <1>1 DEF WriterPc, WriterLock, Plans
<1>3. Mileage!CreateVehicle
  BY <1>1, <1>2 DEF Mileage!CreateVehicle, Mileage!SeedPending, Plans
<1> QED BY <1>3 DEF Mileage!Next

LEMMA LockMaps ==
  ASSUME IInv, NEW t \in Tx, LockVehicle(t)
  PROVE  [Mileage!Next]_(Mileage!vars)
<1>1. /\ Types /\ Sound(t) /\ pc[t] = "waiting" /\ lock = NoTx /\ lock' = t /\ vehicle = "present"
      /\ NoTx \notin Tx /\ WantsLock(job[t])
      /\ UNCHANGED <<vehicle, readings, currentOdometerKm, inserted, job, headline>>
  BY LedgerAssumption DEF IInv, LockVehicle, rows, Sound
<1>2. /\ \A u \in Tx : u # t => pc'[u] = pc[u]
      /\ pc'[t] = IF job[t].kind = "delete vehicle" THEN "ready" ELSE "locked"
  BY <1>1 DEF Types, LockVehicle
<1>3. Plans' = Plans
  BY <1>1 DEF Plans
<1>4. CASE MovesReading(job[t])
  <2>1. job[t].kind # "delete vehicle"
    BY <1>4 DEF MovesReading
  <2>2. WriterLock = NoTx /\ WriterLock' = t /\ WriterPc[t] = "waiting"
    BY <1>1, <1>4, <2>1 DEF WriterLock, WriterPc
  <2>3. WriterPc' = [WriterPc EXCEPT ![t] = "locked"]
    <3>1. \A u \in Tx : MovesReading(job[u])' <=> MovesReading(job[u])
      BY <1>1
    <3> QED BY <1>1, <1>2, <1>4, <2>1, <3>1 DEF WriterPc
  <2>4. Mileage!LockVehicle(t)
    BY <1>1, <1>3, <2>2, <2>3 DEF Mileage!LockVehicle, Plans
  <2> QED BY <2>4 DEF Mileage!Next, Mileage!Step
<1>5. CASE ~MovesReading(job[t])
  <2>1. job[t].kind = "delete vehicle"
    BY <1>1, <1>5 DEF WantsLock
  <2>2. WriterLock = NoTx /\ WriterLock' = NoTx
    BY <1>1, <2>1 DEF WriterLock
  <2>3. WriterPc' = WriterPc
    <3>1. \A u \in Tx : MovesReading(job[u])' <=> MovesReading(job[u])
      BY <1>1
    <3> QED BY <1>1, <1>2, <1>5, <3>1 DEF WriterPc
  <2> QED BY <1>1, <1>3, <2>2, <2>3 DEF Mileage!vars, Plans
<1> QED BY <1>4, <1>5

LEMMA MoveMaps ==
  ASSUME IInv, NEW t \in Tx, MoveReading(t)
  PROVE  Mileage!Next
<1>1. /\ Types /\ Sound(t) /\ pc[t] = "locked" /\ MovesReading(job[t]) /\ ~Conflicts(t)
      /\ headline' = [headline EXCEPT ![t] = NewHeadline(t)]
      /\ pc' = [pc EXCEPT ![t] = "ready"]
      /\ UNCHANGED <<vehicle, readings, currentOdometerKm, inserted, job, lock>>
  BY DEF IInv, MoveReading, rows, Sound
<1>2. UNCHANGED <<WriterLock, Plans>>
  BY <1>1 DEF WriterLock, Plans
<1>3. WriterPc[t] = "locked" /\ WriterPc' = [WriterPc EXCEPT ![t] = "prepared"]
  <2>1. \A u \in Tx : MovesReading(job[u])' <=> MovesReading(job[u])
    BY <1>1
  <2> QED BY <1>1, <2>1 DEF WriterPc, Types
<1>4. Mileage!NewHeadline(t) = NewHeadline(t) /\ ~Mileage!Conflicts(t)
  BY <1>1, SameFigures DEF Sound
<1>5. Mileage!Prepare(t)
  BY <1>1, <1>2, <1>3, <1>4 DEF Mileage!Prepare, Plans
<1> QED BY <1>5 DEF Mileage!Next, Mileage!Step

LEMMA CommitMaps ==
  ASSUME IInv, inserted \in Nat, NEW t \in Tx, Commit(t)
  PROVE  [Mileage!Next]_(Mileage!vars)
<1>1. /\ Types /\ Sound(t) /\ Shape(job[t]) /\ job[t] \in Job /\ pc[t] = "ready"
      /\ End(t) /\ vehicle' = vehicle
  BY DEF IInv, Types, Sound, Commit
<1>2. CASE MovesReading(job[t])
  <2>1. /\ readings' = Remaining(t) \cup (IF Puts(job[t]) THEN {OwnReading(t)} ELSE {})
        /\ inserted' = inserted + (IF Puts(job[t]) THEN 1 ELSE 0)
        /\ currentOdometerKm' = headline[t]
    BY <1>2 DEF Commit, NewReadings
  <2>2. WriterPc[t] = "prepared"
    BY <1>1, <1>2 DEF WriterPc
  <2>3. Mileage!End(t)
    BY <1>1, <1>2, EndMaps DEF Mileage!End, Plans, End
  <2>4. Mileage!Remaining(t) = Remaining(t)
    BY <1>1, SameFigures
  <2>5. /\ Plans[t].put = NoEntry <=> ~Puts(job[t])
        /\ Puts(job[t]) =>
             [at |-> Plans[t].put.at, km |-> Plans[t].put.km, seq |-> inserted,
              src |-> Plans[t].put.src] = OwnReading(t)
    BY <1>1, PlanIs DEF Plans, OwnReading
  <2>6. CASE Puts(job[t])
    <3>1. readings' = Mileage!Remaining(t) \cup
            {[at |-> Plans[t].put.at, km |-> Plans[t].put.km, seq |-> inserted,
              src |-> Plans[t].put.src]} /\ inserted' = inserted + 1
      BY <2>1, <2>4, <2>5, <2>6
    <3>2. Mileage!Commit(t)
      BY <1>1, <2>1, <2>2, <2>3, <2>5, <2>6, <3>1 DEF Mileage!Commit, Plans
    <3> QED BY <3>2 DEF Mileage!Next, Mileage!Step
  <2>7. CASE ~Puts(job[t])
    <3>1. readings' = Mileage!Remaining(t) /\ inserted' = inserted + 0
      BY <2>1, <2>4, <2>7
    <3>2. inserted' = inserted
      BY <3>1, inserted \in Nat
    <3>3. Mileage!Commit(t)
      BY <1>1, <2>1, <2>2, <2>3, <2>5, <2>7, <3>1, <3>2 DEF Mileage!Commit, Plans
    <3> QED BY <3>3 DEF Mileage!Next, Mileage!Step
  <2> QED BY <2>6, <2>7
<1>3. CASE ~MovesReading(job[t])
  <2>1. UNCHANGED <<readings, inserted, currentOdometerKm>>
    BY <1>3 DEF Commit
  <2> QED BY <1>1, <1>3, <2>1, EndMaps DEF Mileage!vars, Plans
<1> QED BY <1>2, <1>3

LEMMA DeletionMaps ==
  ASSUME IInv, NEW t \in Tx, CommitDeletion(t)
  PROVE  Mileage!Next
<1>1. /\ Sound(t) /\ pc[t] = "ready" /\ job[t].kind = "delete vehicle" /\ lock = t
      /\ End(t) /\ vehicle = "present" /\ vehicle' = "absent" /\ readings' = {}
      /\ currentOdometerKm' = 0 /\ inserted' = inserted /\ NoTx \notin Tx
  BY LedgerAssumption DEF IInv, CommitDeletion, Sound, WantsLock
<1>2. ~MovesReading(job[t]) /\ WriterLock = NoTx
  BY <1>1 DEF MovesReading, WriterLock
<1>3. UNCHANGED <<WriterPc, Plans, headline, WriterLock>>
  BY <1>1, <1>2, EndMaps
<1>4. Mileage!DeleteVehicle
  BY <1>1, <1>2, <1>3 DEF Mileage!DeleteVehicle, Plans
<1> QED BY <1>4 DEF Mileage!Next

LEMMA GiveUpMaps ==
  ASSUME IInv, NEW t \in Tx,
         VehicleGone(t) \/ Reject(t) \/ RefuseFree(t) \/ AbortDeadlock(t) \/ Crash(t)
  PROVE  [Mileage!Next]_(Mileage!vars)
<1>1. End(t) /\ UNCHANGED <<vehicle, rows>>
  BY DEF VehicleGone, Reject, RefuseFree, AbortDeadlock, Crash
<1>2. pc[t] # "idle"
  <2>1. ASSUME NEW u \in Tx, Deadlocked(t, u) \/ Deadlocked(u, t) PROVE pc[t] # "idle"
    BY <2>1 DEF Deadlocked, HoldsRow, IInv, Sound
  <2> QED BY <2>1 DEF VehicleGone, Reject, RefuseFree, AbortDeadlock, Crash
<1> QED BY <1>1, <1>2, GivingUpMaps

LEMMA NextMaps == IInv /\ inserted \in Nat /\ [Next]_vars => [Mileage!Next]_(Mileage!vars)
<1> SUFFICES ASSUME IInv, inserted \in Nat, [Next]_vars PROVE [Mileage!Next]_(Mileage!vars)
  OBVIOUS
<1>1. CASE CreateVehicle
  BY <1>1, CreateVehicleMaps
<1>2. ASSUME NEW t \in Tx, NEW r \in Record,
             Remove(t, r) \/ \E fig \in Figures(r) : Create(t, r, fig) \/ Update(t, r, fig)
      PROVE  [Mileage!Next]_(Mileage!vars)
  BY <1>2, RequestMaps
<1>3. ASSUME NEW t \in Tx, DeleteVehicle(t) PROVE [Mileage!Next]_(Mileage!vars)
  BY <1>3, BeginMaps, DeletionIsJob DEF DeleteVehicle
<1>4. ASSUME NEW t \in Tx,
             VehicleGone(t) \/ Reject(t) \/ RefuseFree(t) \/ AbortDeadlock(t) \/ Crash(t)
      PROVE  [Mileage!Next]_(Mileage!vars)
  BY <1>4, GiveUpMaps
<1>5. ASSUME NEW t \in Tx, LockVehicle(t) \/ MoveReading(t) \/ Commit(t) \/ CommitDeletion(t)
      PROVE  [Mileage!Next]_(Mileage!vars)
  BY <1>5, LockMaps, MoveMaps, CommitMaps, DeletionMaps
<1>6. CASE UNCHANGED vars
  BY <1>6 DEF vars, rows, Mileage!vars, WriterPc, WriterLock
<1> QED BY <1>1, <1>2, <1>3, <1>4, <1>5, <1>6 DEF Next, Step

LEMMA CountKept == inserted \in Nat /\ [Next]_vars => (inserted \in Nat)'
<1> SUFFICES ASSUME inserted \in Nat, [Next]_vars, inserted' # inserted PROVE inserted' \in Nat
  OBVIOUS
<1>0. \A t, j : Begin(t, j) => inserted' = inserted
  BY DEF Begin, rows
<1>1. \A t \in Tx : Step(t) => inserted' = inserted \/ Commit(t)
  BY DEF Step, rows, LockVehicle, VehicleGone, MoveReading, Reject, RefuseFree, CommitDeletion,
     AbortDeadlock
<1>2. \A t \in Tx : DeleteVehicle(t) \/ Crash(t) => inserted' = inserted
  BY <1>0 DEF DeleteVehicle, Crash, rows
<1>3. ASSUME NEW t \in Tx, NEW r \in Record PROVE
        /\ Remove(t, r) => inserted' = inserted
        /\ \A fig \in Figures(r) : Create(t, r, fig) \/ Update(t, r, fig) => inserted' = inserted
  <2>1. Remove(t, r) => inserted' = inserted
    BY <1>0 DEF Remove
  <2>2. ASSUME NEW fig \in Figures(r) PROVE Create(t, r, fig) => inserted' = inserted
    BY <1>0 DEF Create
  <2>3. ASSUME NEW fig \in Figures(r) PROVE Update(t, r, fig) => inserted' = inserted
    BY <1>0 DEF Update
  <2> QED BY <2>1, <2>2, <2>3
<1>4. CreateVehicle \/ UNCHANGED vars => inserted' = inserted
  BY DEF CreateVehicle, vars, rows
<1>5. PICK t \in Tx : Commit(t)
  BY <1>1, <1>2, <1>3, <1>4 DEF Next
<1>6. inserted' \in {inserted + 1, inserted + 0}
  BY <1>5 DEF Commit
<1> QED BY <1>6

LEMMA Counted == Spec => [](inserted \in Nat)
<1>1. Init => inserted \in Nat
  BY DEF Init
<1> QED BY <1>1, CountKept, PTL DEF Spec

\* Every behaviour of the three services is one of OdometerService, seen from the
\* timeline: no edit, removal or deletion goes past its checks.
THEOREM LedgerImplementsOdometer == Spec => ImplementsOdometer
BY InitMaps, NextMaps, Invariant, Counted, PTL DEF Spec, ImplementsOdometer, Mileage!Spec

-----------------------------------------------------------------------------
(* What Odometer promises therefore holds of the ledger's timeline. *)

Timelines == INSTANCE OdometerProofs WITH
  Source    <- Record,
  lock      <- WriterLock,
  pc        <- WriterPc,
  plan      <- [t \in Tx |-> PlanOf(job[t])],
  seed      <- [at |-> 0, km |-> 0],
  seedState <- "none"

(* The two instances are one: Mileage is Odometer, Timelines what is proved of it. *)
LEMMA OneOdometer ==
  /\ Mileage!Init => Timelines!Init
  /\ [Mileage!Next]_(Mileage!vars) => [Timelines!Next]_(Timelines!vars)
<1>1. Mileage!Init => Timelines!Init
  BY DEF Mileage!Init, Timelines!Init, Mileage!IdlePlan, Timelines!IdlePlan, Mileage!NoSeed,
         Timelines!NoSeed
<1>2. Mileage!Plan = Timelines!Plan
  BY DEF Mileage!Plan, Timelines!Plan, Mileage!Recordings, Timelines!Recordings, Mileage!Withdrawals,
     Timelines!Withdrawals, Mileage!Moves, Timelines!Moves, Mileage!Entry, Timelines!Entry,
     Mileage!Km, Timelines!Km
<1>3. Mileage!RoomForOne <=> Timelines!RoomForOne
  <2>1. \A S : Mileage!Cardinality(S) = Timelines!Cardinality(S)
    BY DEF Mileage!Cardinality, Timelines!Cardinality
  <2> QED BY <2>1 DEF Mileage!RoomForOne, Timelines!RoomForOne, Mileage!SeedPending,
             Timelines!SeedPending
<1>4. ASSUME NEW t \in Tx
      PROVE  /\ Mileage!Remaining(t) = Timelines!Remaining(t)
             /\ Mileage!NewHeadline(t) = Timelines!NewHeadline(t)
             /\ Mileage!Conflicts(t) <=> Timelines!Conflicts(t)
             /\ Mileage!End(t) <=> Timelines!End(t)
  <2>1. Mileage!Remaining(t) = Timelines!Remaining(t)
    BY DEF Mileage!Remaining, Timelines!Remaining, Mileage!DeleteBySource, Timelines!DeleteBySource
  <2>2. Mileage!NewHeadline(t) = Timelines!NewHeadline(t)
    BY <2>1 DEF Mileage!NewHeadline, Timelines!NewHeadline, Mileage!Rederived, Timelines!Rederived,
       Mileage!NextCurrentOdometer, Timelines!NextCurrentOdometer, Mileage!HighestOdometer,
       Timelines!HighestOdometer
  <2>3. Mileage!Conflicts(t) <=> Timelines!Conflicts(t)
    BY <2>1 DEF Mileage!Conflicts, Timelines!Conflicts, Mileage!TimelineConflict,
       Timelines!TimelineConflict, Mileage!PreviousReading, Timelines!PreviousReading,
       Mileage!NextReading, Timelines!NextReading, Mileage!Before, Timelines!Before
  <2>4. Mileage!End(t) <=> Timelines!End(t)
    BY DEF Mileage!End, Timelines!End, Mileage!IdlePlan, Timelines!IdlePlan
  <2> QED BY <2>1, <2>2, <2>3, <2>4
<1>5. ASSUME NEW t \in Tx
      PROVE  /\ Mileage!Step(t) => Timelines!Step(t)
             /\ Mileage!Crash(t) => Timelines!Crash(t)
             /\ \A p \in Mileage!Plan : Mileage!BeginWrite(t, p) => Timelines!BeginWrite(t, p)
  <2>1. Mileage!LockVehicle(t) => Timelines!LockVehicle(t)
    BY DEF Mileage!LockVehicle, Timelines!LockVehicle
  <2>2. Mileage!VehicleGone(t) => Timelines!VehicleGone(t)
    BY <1>4 DEF Mileage!VehicleGone, Timelines!VehicleGone
  <2>3. Mileage!Prepare(t) => Timelines!Prepare(t)
    BY <1>4 DEF Mileage!Prepare, Timelines!Prepare
  <2>4. Mileage!Reject(t) => Timelines!Reject(t)
    BY <1>4 DEF Mileage!Reject, Timelines!Reject
  <2>5. Mileage!Commit(t) => Timelines!Commit(t)
    BY <1>4 DEF Mileage!Commit, Timelines!Commit
  <2>6. Mileage!Crash(t) => Timelines!Crash(t)
    BY <1>4 DEF Mileage!Crash, Timelines!Crash
  <2>7. \A p \in Mileage!Plan : Mileage!BeginWrite(t, p) => Timelines!BeginWrite(t, p)
    BY <1>3 DEF Mileage!BeginWrite, Timelines!BeginWrite
  <2> QED BY <2>1, <2>2, <2>3, <2>4, <2>5, <2>6, <2>7 DEF Mileage!Step, Timelines!Step
<1>6. /\ Mileage!CreateVehicle => Timelines!CreateVehicle
      /\ Mileage!DeleteVehicle => Timelines!DeleteVehicle
      /\ ~Mileage!Seed /\ ~Mileage!LoseSeed
      /\ \A at \in Time, km \in Mileage!Km : ~Mileage!CreateVehicleWithMileage(at, km)
  BY DEF Mileage!CreateVehicle, Timelines!CreateVehicle, Mileage!DeleteVehicle,
     Timelines!DeleteVehicle, Mileage!Seed, Mileage!LoseSeed, Mileage!CreateVehicleWithMileage,
     Mileage!SeedPending, Timelines!SeedPending
<1>7. UNCHANGED Mileage!vars => UNCHANGED Timelines!vars
  BY DEF Mileage!vars, Timelines!vars
<1> QED BY <1>1, <1>2, <1>5, <1>6, <1>7 DEF Mileage!Next, Timelines!Next

LEMMA OdometerHolds ==
  /\ Timelines!OdometerAssumption
  /\ Spec => Timelines!Spec
<1>1. Timelines!OdometerAssumption
  BY LedgerAssumption DEF Timelines!OdometerAssumption, Timelines!Entry, Timelines!Km, Km
<1>2. Spec => Timelines!Spec
  BY InitMaps, NextMaps, Invariant, Counted, OneOdometer, PTL DEF Spec, Timelines!Spec
<1> QED BY <1>1, <1>2

\* No fill, service or expense, however edited, makes the timeline contradict itself:
\* in the order every query uses, mileage only counts up.
THEOREM LedgerKeepsTimeline == Spec => []Monotone(readings)
<1>1. Timelines!Spec => []Timelines!TimelineMonotone
  BY OdometerHolds, Timelines!TimelineNeverContradicts
<1>2. Timelines!TimelineMonotone => Monotone(readings)
  BY DEF Timelines!TimelineMonotone, Timelines!Monotone, Monotone, Timelines!Before, Before
<1> QED BY <1>1, <1>2, OdometerHolds, PTL

\* The vehicle's mileage is its highest reading at every moment.
THEOREM LedgerKeepsHeadline == Spec => [](currentOdometerKm = HighestOdometer(readings))
<1>1. Timelines!Spec => []Timelines!HeadlineIsHighest
  BY OdometerHolds, Timelines!HeadlineAgrees
<1>2. Timelines!HeadlineIsHighest => currentOdometerKm = HighestOdometer(readings)
  BY DEF Timelines!HeadlineIsHighest, Timelines!HighestOdometer, HighestOdometer
<1> QED BY <1>1, <1>2, OdometerHolds, PTL
-----------------------------------------------------------------------------
(* What the fills add up to. *)

\* A non-empty set of naturals has a least element.
LEMMA LeastNatural ==
  ASSUME NEW S \in SUBSET Nat, S # {}
  PROVE  \E m \in S : \A n \in S : m <= n
<1>1. PICK m \in S : \A n \in S : <<n, m>> \notin OpToRel(<, Nat)
  BY NatLessThanWellFounded, WFMin
<1>2. \A n \in S : ~(n < m)
  BY <1>1 DEF OpToRel
<1>3. \A n \in S : m <= n
  BY ONLY <1>2, S \in SUBSET Nat, m \in S
<1> QED BY <1>3

-----------------------------------------------------------------------------
(* Counting up, and what a sum over a finite set is. *)

\* A set that holds zero and the successor of each of its numbers holds all.
LEMMA CountUp ==
  ASSUME NEW S, 0 \in S, \A n \in Nat : n \in S => n + 1 \in S
  PROVE  \A n \in Nat : n \in S
<1>1. SUFFICES ASSUME Nat \ S # {}
               PROVE  FALSE
  OBVIOUS
<1>2. PICK m \in Nat \ S : \A n \in Nat \ S : m <= n
  <2>1. Nat \ S \in SUBSET Nat
    OBVIOUS
  <2> QED BY <1>1, <2>1, LeastNatural
<1>3. m - 1 \in Nat /\ (m - 1) + 1 = m
  BY <1>2
<1> QED BY <1>2, <1>3

\* The element the fold takes out of a set.
Pick(s) == CHOOSE x \in s : TRUE

\* What the community modules' fold solves to sum fun over the subsets of S.
Sums(iter, fun, S) ==
  iter = [s \in SUBSET S |-> IF s = {} THEN 0 ELSE fun[Pick(s)] + iter[s \ {Pick(s)}]]

LEMMA PickIn == \A s : s # {} => Pick(s) \in s
BY DEF Pick

LEMMA FewerLeft ==
  ASSUME NEW S, IsFiniteSet(S), NEW s \in SUBSET S, NEW x \in s
  PROVE  /\ IsFiniteSet(s) /\ Cardinality(s) \in Nat /\ Cardinality(s) > 0
         /\ s \ {x} \in SUBSET S /\ Cardinality(s \ {x}) = Cardinality(s) - 1
<1>1. IsFiniteSet(s) /\ Cardinality(s) \in Nat
  BY FS_Subset, FS_CardinalityType
<1>2. IsFiniteSet(s \ {x}) /\ Cardinality(s \ {x}) = Cardinality(s) - 1
  BY <1>1, FS_RemoveElement
<1>3. Cardinality(s \ {x}) \in Nat
  BY <1>2, FS_CardinalityType
<1> QED BY <1>1, <1>2, <1>3

LEMMA SumExists ==
  ASSUME NEW fun, NEW S, IsFiniteSet(S)
  PROVE  \E iter : Sums(iter, fun, S)
<1> DEFINE Upto(h, n) == \A s \in SUBSET S : Cardinality(s) <= n =>
                            h[s] = IF s = {} THEN 0 ELSE fun[Pick(s)] + h[s \ {Pick(s)}]
           N == {n \in Nat : \E h : Upto(h, n)}
<1>0. \A s \in SUBSET S : Cardinality(s) \in Nat /\ (Cardinality(s) = 0 <=> s = {})
  BY FS_Subset, FS_CardinalityType, FS_EmptySet
<1>1. 0 \in N
  <2> DEFINE h == [s \in SUBSET S |-> 0]
  <2>1. \A s \in SUBSET S : Cardinality(s) <= 0 => s = {}
    BY <1>0
  <2>2. Upto(h, 0)
    BY <2>1
  <2> HIDE DEF Upto
  <2> QED BY <2>2
<1>2. ASSUME NEW n \in Nat, n \in N
      PROVE  n + 1 \in N
  <2>1. PICK h : Upto(h, n)
    BY <1>2
  <2> DEFINE g == [s \in SUBSET S |-> IF s = {} THEN 0 ELSE fun[Pick(s)] + h[s \ {Pick(s)}]]
  <2>2. \A s \in SUBSET S : Cardinality(s) <= n => g[s] = h[s]
    BY <2>1
  <2>3. ASSUME NEW s \in SUBSET S, Cardinality(s) <= n + 1, s # {}
        PROVE  g[s \ {Pick(s)}] = h[s \ {Pick(s)}]
    <3>1. Pick(s) \in s
      BY <2>3, PickIn
    <3>2. s \ {Pick(s)} \in SUBSET S /\ Cardinality(s \ {Pick(s)}) = Cardinality(s) - 1 /\ Cardinality(s) \in Nat
      BY <3>1, FewerLeft
    <3>3. Cardinality(s \ {Pick(s)}) <= n
      BY <3>2, <2>3
    <3> QED BY <3>2, <3>3, <2>2
  <2>4. Upto(g, n + 1)
    BY <2>3
  <2> HIDE DEF Upto, g
  <2>5. n + 1 \in Nat
    BY <1>2
  <2> QED BY <2>4, <2>5
<1> HIDE DEF N
<1>3. Cardinality(S) \in N
  BY <1>1, <1>2, CountUp, FS_CardinalityType
<1>4. PICK h : Upto(h, Cardinality(S))
  BY <1>3 DEF N
<1> DEFINE i == [s \in SUBSET S |-> h[s]]
<1>5. \A s \in SUBSET S : Cardinality(s) <= Cardinality(S)
  BY FS_Subset
<1>6. \A s \in SUBSET S : i[s] = IF s = {} THEN 0 ELSE fun[Pick(s)] + i[s \ {Pick(s)}]
  BY <1>4, <1>5
<1>7. Sums(i, fun, S)
  BY <1>6 DEF Sums
<1> QED BY <1>7

LEMMA SumsAgree ==
  ASSUME NEW fun, NEW gun, NEW S, IsFiniteSet(S), NEW T \in SUBSET S, \A x \in T : fun[x] = gun[x],
         NEW i, Sums(i, fun, S), NEW j, Sums(j, gun, T)
  PROVE  i[T] = j[T]
<1> DEFINE N == {n \in Nat : \A s \in SUBSET T : Cardinality(s) = n => i[s] = j[s]}
<1>0. \A s \in SUBSET T : s \in SUBSET S /\ Cardinality(s) \in Nat /\ (Cardinality(s) = 0 <=> s = {})
  <2>1. IsFiniteSet(T)
    BY FS_Subset
  <2> QED BY <2>1, FS_Subset, FS_CardinalityType, FS_EmptySet
<1>1. i[{}] = 0 /\ j[{}] = 0
  BY DEF Sums
<1>2. \A s \in SUBSET T : s # {} => /\ i[s] = fun[Pick(s)] + i[s \ {Pick(s)}]
                                    /\ j[s] = gun[Pick(s)] + j[s \ {Pick(s)}]
  BY <1>0 DEF Sums
<1>3. 0 \in N
  BY <1>0, <1>1
<1>4. ASSUME NEW n \in Nat, n \in N
      PROVE  n + 1 \in N
  <2>1. ASSUME NEW s \in SUBSET T, Cardinality(s) = n + 1
        PROVE  i[s] = j[s]
    <3>1. s # {} /\ Pick(s) \in s
      BY <1>0, <2>1, PickIn
    <3>2. Cardinality(s \ {Pick(s)}) = n /\ s \ {Pick(s)} \in SUBSET T
      BY <3>1, <2>1, <1>0, FewerLeft
    <3>3. i[s \ {Pick(s)}] = j[s \ {Pick(s)}]
      BY <3>2, <1>4
    <3> QED BY <1>2, <3>1, <3>3
  <2> QED BY <2>1
<1> HIDE DEF N
<1>5. Cardinality(T) \in N
  BY <1>0, <1>3, <1>4, CountUp
<1> QED BY <1>5 DEF N

LEMMA SumIsFold ==
  ASSUME NEW fun, NEW S, IsFiniteSet(S)
  PROVE  \E i : Sums(i, fun, S) /\ SumFunctionOnSet(fun, S) = i[S]
<1> DEFINE i == CHOOSE i : Sums(i, fun, S)
<1>1. Sums(i, fun, S)
  BY SumExists
<1>2. SumFunctionOnSet(fun, S) = i[S]
  BY DEF SumFunctionOnSet, FoldFunctionOnSet, MapThenFoldSet, Sums, Pick
<1> QED BY <1>1, <1>2

\* Only the values over the set matter.
LEMMA SumSame ==
  ASSUME NEW S, IsFiniteSet(S), NEW fun, NEW gun, \A x \in S : fun[x] = gun[x]
  PROVE  SumFunctionOnSet(fun, S) = SumFunctionOnSet(gun, S)
<1>1. PICK i : Sums(i, fun, S) /\ SumFunctionOnSet(fun, S) = i[S]
  BY SumIsFold
<1>2. PICK j : Sums(j, gun, S) /\ SumFunctionOnSet(gun, S) = j[S]
  BY SumIsFold
<1> QED BY <1>1, <1>2, SumsAgree

LEMMA SumPicks ==
  ASSUME NEW fun, NEW S, IsFiniteSet(S), S # {}
  PROVE  SumFunctionOnSet(fun, S) = fun[Pick(S)] + SumFunctionOnSet(fun, S \ {Pick(S)})
<1>1. PICK i : Sums(i, fun, S) /\ SumFunctionOnSet(fun, S) = i[S]
  BY SumIsFold
<1> DEFINE T == S \ {Pick(S)}
<1>2. IsFiniteSet(T) /\ T \in SUBSET S
  BY FS_Subset
<1>3. PICK j : Sums(j, fun, T) /\ SumFunctionOnSet(fun, T) = j[T]
  BY <1>2, SumIsFold
<1>4. i[T] = j[T]
  BY <1>1, <1>2, <1>3, SumsAgree
<1>5. i[S] = fun[Pick(S)] + i[T]
  BY <1>1 DEF Sums
<1> QED BY <1>1, <1>3, <1>4, <1>5

LEMMA SumOfNone == ASSUME NEW fun PROVE SumFunctionOnSet(fun, {}) = 0
<1>1. IsFiniteSet({})
  BY FS_EmptySet
<1>2. PICK i : Sums(i, fun, {}) /\ SumFunctionOnSet(fun, {}) = i[{}]
  BY <1>1, SumIsFold
<1> QED BY <1>2 DEF Sums

LEMMA SumIsInt ==
  ASSUME NEW S, IsFiniteSet(S), NEW fun, \A x \in S : fun[x] \in Int
  PROVE  \A s \in SUBSET S : SumFunctionOnSet(fun, s) \in Int
<1> DEFINE Sum(s) == SumFunctionOnSet(fun, s)
           N == {n \in Nat : \A s \in SUBSET S : Cardinality(s) = n => Sum(s) \in Int}
<1>0. \A s \in SUBSET S : IsFiniteSet(s) /\ Cardinality(s) \in Nat /\ (Cardinality(s) = 0 <=> s = {})
  BY FS_Subset, FS_CardinalityType, FS_EmptySet
<1>1. Sum({}) = 0
  BY SumOfNone
<1>2. \A s \in SUBSET S : s # {} => Sum(s) = fun[Pick(s)] + Sum(s \ {Pick(s)})
  BY <1>0, SumPicks
<1> HIDE DEF Sum
<1>3. 0 \in N
  BY <1>0, <1>1
<1>4. ASSUME NEW n \in Nat, n \in N
      PROVE  n + 1 \in N
  <2>1. ASSUME NEW s \in SUBSET S, Cardinality(s) = n + 1
        PROVE  Sum(s) \in Int
    <3>1. s # {} /\ Pick(s) \in s
      BY <1>0, <2>1, PickIn
    <3>2. Cardinality(s \ {Pick(s)}) = n /\ s \ {Pick(s)} \in SUBSET S
      BY <3>1, <2>1, FewerLeft
    <3>3. Sum(s \ {Pick(s)}) \in Int /\ fun[Pick(s)] \in Int
      BY <3>1, <3>2, <1>4
    <3> QED BY <3>1, <3>3, <1>2
  <2> QED BY <2>1
<1> HIDE DEF N
<1>5. ASSUME NEW s \in SUBSET S
      PROVE  Sum(s) \in Int
  <2>1. Cardinality(s) \in N
    BY <1>0, <1>3, <1>4, CountUp
  <2> QED BY <2>1 DEF N
<1> QED BY <1>5 DEF Sum

\* Whichever element is taken out of a sum first.
LEMMA SumTakes ==
  ASSUME NEW S, IsFiniteSet(S), NEW fun, \A x \in S : fun[x] \in Int
  PROVE  \A x \in S : SumFunctionOnSet(fun, S) = fun[x] + SumFunctionOnSet(fun, S \ {x})
<1> DEFINE Sum(s) == SumFunctionOnSet(fun, s)
           N == {n \in Nat : \A s \in SUBSET S : Cardinality(s) = n =>
                    \A x \in s : Sum(s) = fun[x] + Sum(s \ {x})}
<1>0. \A s \in SUBSET S : IsFiniteSet(s) /\ Cardinality(s) \in Nat /\ (Cardinality(s) = 0 <=> s = {})
  BY FS_Subset, FS_CardinalityType, FS_EmptySet
<1>1. \A s \in SUBSET S : Sum(s) \in Int
  BY SumIsInt
<1>2. \A s \in SUBSET S : s # {} => Sum(s) = fun[Pick(s)] + Sum(s \ {Pick(s)})
  BY <1>0, SumPicks
<1> HIDE DEF Sum
<1>3. 0 \in N
  BY <1>0
<1>4. ASSUME NEW n \in Nat, n \in N
      PROVE  n + 1 \in N
  <2>1. ASSUME NEW s \in SUBSET S, Cardinality(s) = n + 1, NEW x \in s
        PROVE  Sum(s) = fun[x] + Sum(s \ {x})
    <3>1. PICK c \in s : c = Pick(s)
      <4>1. Pick(s) \in s
        BY PickIn
      <4> QED BY <4>1
    <3>2. \A y \in s : Cardinality(s \ {y}) = n /\ s \ {y} \in SUBSET S
      BY <2>1, FewerLeft
    <3>3. \A y \in s : \A z \in s \ {y} : Sum(s \ {y}) = fun[z] + Sum((s \ {y}) \ {z})
      BY <3>2, <1>4
    <3>4. Sum(s) = fun[c] + Sum(s \ {c})
      BY <3>1, <1>2
    <3>5. CASE x = c
      BY <3>4, <3>5
    <3>6. CASE x # c
      <4> DEFINE r == (s \ {x}) \ {c}
      <4>1. r = (s \ {c}) \ {x} /\ r \in SUBSET S
        OBVIOUS
      <4>2. Sum(s \ {x}) = fun[c] + Sum(r) /\ Sum(s \ {c}) = fun[x] + Sum(r)
        BY <3>1, <3>3, <3>6, <4>1
      <4> HIDE DEF r
      <4>3. fun[c] \in Int /\ fun[x] \in Int /\ Sum(r) \in Int
        BY <3>1, <1>1, <4>1
      <4> QED BY <3>4, <4>2, <4>3
    <3> QED BY <3>5, <3>6
  <2> QED BY <2>1
<1> HIDE DEF N
<1>5. Cardinality(S) \in N
  BY <1>0, <1>3, <1>4, CountUp
<1> QED BY <1>5 DEF N, Sum

\* Two parts that share nothing add up.
LEMMA SumOfParts ==
  ASSUME NEW A, NEW B, IsFiniteSet(A), IsFiniteSet(B), A \cap B = {},
         NEW fun, \A x \in A \cup B : fun[x] \in Int
  PROVE  SumFunctionOnSet(fun, A \cup B) = SumFunctionOnSet(fun, A) + SumFunctionOnSet(fun, B)
<1> DEFINE Sum(s) == SumFunctionOnSet(fun, s)
           N == {n \in Nat : \A s \in SUBSET A : Cardinality(s) = n => Sum(s \cup B) = Sum(s) + Sum(B)}
<1>0. \A s \in SUBSET A : IsFiniteSet(s) /\ Cardinality(s) \in Nat /\ (Cardinality(s) = 0 <=> s = {})
  BY FS_Subset, FS_CardinalityType, FS_EmptySet
<1>1. \A s \in SUBSET (A \cup B) : Sum(s) \in Int /\ IsFiniteSet(s)
  BY SumIsInt, FS_Subset, FS_Union
<1>2. \A s \in SUBSET (A \cup B) : \A x \in s : Sum(s) = fun[x] + Sum(s \ {x})
  BY <1>1, SumTakes
<1>3. Sum({}) = 0
  BY SumOfNone
<1> HIDE DEF Sum
<1>4. 0 \in N
  <2>1. Sum({} \cup B) = 0 + Sum(B)
    BY <1>1
  <2> QED BY <1>0, <1>3, <2>1
<1>5. ASSUME NEW n \in Nat, n \in N
      PROVE  n + 1 \in N
  <2>1. ASSUME NEW s \in SUBSET A, Cardinality(s) = n + 1
        PROVE  Sum(s \cup B) = Sum(s) + Sum(B)
    <3>1. PICK x \in s : TRUE
      BY <1>0, <2>1
    <3> DEFINE r == s \ {x}
    <3>2. Cardinality(r) = n /\ r \in SUBSET A
      <4>1. IsFiniteSet(s) /\ x \in s
        BY <1>0, <3>1
      <4>2. Cardinality(s \ {x}) = Cardinality(s) - 1
        BY <4>1, FS_RemoveElement
      <4> QED BY <4>2, <2>1
    <3>3. Sum(r \cup B) = Sum(r) + Sum(B)
      BY <3>2, <1>5
    <3>4. (s \cup B) \ {x} = r \cup B /\ x \in s \cup B /\ s \cup B \in SUBSET (A \cup B) /\ s \in SUBSET (A \cup B)
      OBVIOUS
    <3>5. Sum(s \cup B) = fun[x] + Sum(r \cup B) /\ Sum(s) = fun[x] + Sum(r)
      BY <1>2, <3>4
    <3>6. fun[x] \in Int /\ Sum(r) \in Int /\ Sum(B) \in Int
      BY <1>1, <3>2
    <3> HIDE DEF r
    <3> QED BY <3>3, <3>5, <3>6
  <2> QED BY <2>1
<1> HIDE DEF N
<1>6. Cardinality(A) \in N
  BY <1>0, <1>4, <1>5, CountUp
<1> QED BY <1>6 DEF N, Sum

\* A sum of naturals is one, and no less than a part of it.
LEMMA SumOfNaturals ==
  ASSUME NEW S, IsFiniteSet(S), NEW fun, \A x \in S : fun[x] \in Nat, NEW T \in SUBSET S
  PROVE  /\ SumFunctionOnSet(fun, T) \in Nat
         /\ SumFunctionOnSet(fun, T) <= SumFunctionOnSet(fun, S)
<1> DEFINE Sum(s) == SumFunctionOnSet(fun, s)
           N == {n \in Nat : \A s \in SUBSET S : Cardinality(s) = n => Sum(s) \in Nat}
<1>0. \A s \in SUBSET S : IsFiniteSet(s) /\ Cardinality(s) \in Nat /\ (Cardinality(s) = 0 <=> s = {})
  BY FS_Subset, FS_CardinalityType, FS_EmptySet
<1>1. Sum({}) = 0
  BY SumOfNone
<1>2. \A s \in SUBSET S : s # {} => Sum(s) = fun[Pick(s)] + Sum(s \ {Pick(s)})
  BY <1>0, SumPicks
<1>3. Sum((S \ T) \cup T) = Sum(S \ T) + Sum(T)
  <2>1. IsFiniteSet(S \ T) /\ IsFiniteSet(T) /\ (S \ T) \cap T = {} /\ \A x \in (S \ T) \cup T : fun[x] \in Int
    BY <1>0
  <2> QED BY <2>1, SumOfParts
<1> HIDE DEF Sum
<1>4. 0 \in N
  BY <1>0, <1>1
<1>5. ASSUME NEW n \in Nat, n \in N
      PROVE  n + 1 \in N
  <2>1. ASSUME NEW s \in SUBSET S, Cardinality(s) = n + 1
        PROVE  Sum(s) \in Nat
    <3>1. s # {} /\ Pick(s) \in s
      BY <1>0, <2>1, PickIn
    <3>2. Cardinality(s \ {Pick(s)}) = n /\ s \ {Pick(s)} \in SUBSET S
      BY <3>1, <2>1, FewerLeft
    <3>3. Sum(s \ {Pick(s)}) \in Nat /\ fun[Pick(s)] \in Nat
      BY <3>1, <3>2, <1>5
    <3> QED BY <3>1, <3>3, <1>2
  <2> QED BY <2>1
<1> HIDE DEF N
<1>6. ASSUME NEW s \in SUBSET S
      PROVE  Sum(s) \in Nat
  <2>1. Cardinality(s) \in N
    BY <1>0, <1>4, <1>5, CountUp
  <2> QED BY <2>1 DEF N
<1>7. (S \ T) \cup T = S /\ Sum(S \ T) \in Nat /\ Sum(T) \in Nat
  BY <1>6
<1>8. Sum(T) <= Sum(S)
  <2>1. Sum(S) = Sum(S \ T) + Sum(T)
    BY <1>3, <1>7
  <2> QED BY <2>1, <1>7
<1> QED BY <1>7, <1>8 DEF Sum

-----------------------------------------------------------------------------
(* A finite set has one sorted sequence for every order without ties. *)

\* R puts the elements of S in a row.
Orders(R, S) ==
  /\ \A x, y \in S : <<x, y>> \in R => <<y, x>> \notin R
  /\ \A x, y \in S : x = y \/ <<x, y>> \in R \/ <<y, x>> \in R
  /\ \A x, y, z \in S : <<x, y>> \in R /\ <<y, z>> \in R => <<x, z>> \in R

\* The first n of s are in that order.
Follows(s, R, n) == \A i, j \in 1..n : i < j => <<s[i], s[j]>> \in R

LEMMA SortExists ==
  ASSUME NEW S, IsFiniteSet(S), NEW R, Orders(R, S)
  PROVE  \E s \in [1..Cardinality(S) -> S] : Follows(s, R, Cardinality(S))
<1> DEFINE Below(x) == {y \in S : <<y, x>> \in R}
           n == Cardinality(S)
           rank == [x \in S |-> Cardinality(Below(x)) + 1]
<1>0. n \in Nat
  BY FS_CardinalityType
<1>1. \A x \in S : IsFiniteSet(Below(x)) /\ Cardinality(Below(x)) \in Nat
  BY FS_Subset, FS_CardinalityType
<1>2. \A x \in S : Cardinality(Below(x)) < n
  <2>1. ASSUME NEW x \in S
        PROVE  Cardinality(Below(x)) < n
    <3>1. x \notin Below(x) /\ Below(x) \in SUBSET S
      BY DEF Orders
    <3>2. Cardinality(Below(x)) <= n /\ (n = Cardinality(Below(x)) => S = Below(x))
      BY <3>1, FS_Subset
    <3> HIDE DEF Below
    <3> QED BY <3>1, <3>2, <1>0, <1>1
  <2> QED BY <2>1
<1>3. \A x, y \in S : <<x, y>> \in R => rank[x] < rank[y]
  <2>1. ASSUME NEW x \in S, NEW y \in S, <<x, y>> \in R
        PROVE  rank[x] < rank[y]
    <3>1. Below(x) \in SUBSET Below(y)
      <4>1. ASSUME NEW z \in S, <<z, x>> \in R
            PROVE  <<z, y>> \in R
        BY <2>1, <4>1 DEF Orders
      <4> QED BY <4>1
    <3>2. x \in Below(y) /\ x \notin Below(x)
      BY <2>1 DEF Orders
    <3> HIDE DEF Below
    <3>3. IsFiniteSet(Below(y)) /\ Cardinality(Below(y)) \in Nat /\ Cardinality(Below(x)) \in Nat
      BY <1>1
    <3>4. /\ Cardinality(Below(x)) <= Cardinality(Below(y))
          /\ Cardinality(Below(y)) = Cardinality(Below(x)) => Below(y) = Below(x)
      BY <3>1, <3>3, FS_Subset
    <3>5. Cardinality(Below(x)) < Cardinality(Below(y))
      BY <3>2, <3>3, <3>4
    <3> QED BY <3>3, <3>5
  <2> QED BY <2>1
<1> HIDE DEF Below
<1>4. rank \in [S -> 1..n]
  BY <1>0, <1>1, <1>2
<1> HIDE DEF rank
<1>5. \A x, y \in S : rank[x] = rank[y] => x = y
  <2>1. \A x \in S : rank[x] \in Int
    BY <1>4, <1>0
  <2>2. \A x, y \in S : x # y => <<x, y>> \in R \/ <<y, x>> \in R
    BY DEF Orders
  <2>3. ASSUME NEW x \in S, NEW y \in S, x # y
        PROVE  rank[x] # rank[y]
    <3>1. rank[x] \in Int /\ rank[y] \in Int
      BY <2>1
    <3>2. rank[x] < rank[y] \/ rank[y] < rank[x]
      BY <2>2, <2>3, <1>3
    <3> QED BY <3>1, <3>2
  <2> QED BY <2>3
<1>6. IsFiniteSet(1..n) /\ Cardinality(1..n) = n
  BY <1>0, FS_Interval
<1>7. rank \in Injection(S, 1..n)
  BY <1>4, <1>5 DEF Injection, IsInjective
<1>8. rank \in Surjection(S, 1..n)
  BY <1>6, <1>7, FS_Injection
<1>9. \A i \in 1..n : \E x \in S : rank[x] = i
  BY <1>8 DEF Surjection
<1> DEFINE s == [i \in 1..n |-> CHOOSE x \in S : rank[x] = i]
<1>10. \A i \in 1..n : s[i] \in S /\ rank[s[i]] = i
  BY <1>9
<1>11. s \in [1..n -> S]
  BY <1>10
<1> HIDE DEF s
<1>12. ASSUME NEW i \in 1..n, NEW j \in 1..n, i < j
       PROVE  <<s[i], s[j]>> \in R
  <2>1. rank[s[i]] < rank[s[j]] /\ s[i] \in S /\ s[j] \in S /\ rank[s[i]] \in Int /\ rank[s[j]] \in Int
    BY <1>10, <1>12, <1>0
  <2>2. ~(<<s[j], s[i]>> \in R)
    BY <2>1, <1>3
  <2>3. s[i] # s[j]
    BY <2>1
  <2> QED BY <2>1, <2>2, <2>3 DEF Orders
<1>13. Follows(s, R, n)
  BY <1>12 DEF Follows
<1> QED BY <1>11, <1>13

LEMMA SortedIsAll ==
  ASSUME NEW S, IsFiniteSet(S), NEW R, Orders(R, S),
         NEW s \in [1..Cardinality(S) -> S], Follows(s, R, Cardinality(S))
  PROVE  /\ Cardinality(S) \in Nat
         /\ \A i, j \in 1..Cardinality(S) : s[i] = s[j] => i = j
         /\ \A x \in S : \E i \in 1..Cardinality(S) : s[i] = x
         /\ \A i, j \in 1..Cardinality(S) : <<s[i], s[j]>> \in R => i < j
<1> DEFINE n == Cardinality(S)
<1>0. n \in Nat
  BY FS_CardinalityType
<1>1. \A i \in 1..n : s[i] \in S
  OBVIOUS
<1>2. \A i, j \in 1..n : <<s[i], s[j]>> \in R => i < j
  <2>1. \A i, j \in 1..n : i < j \/ j < i \/ i = j
    BY <1>0
  <2> QED BY <2>1, <1>1 DEF Orders, Follows
<1>3. \A i, j \in 1..n : s[i] = s[j] => i = j
  <2>1. \A i, j \in 1..n : i < j \/ j < i \/ i = j
    BY <1>0
  <2> QED BY <2>1, <1>1 DEF Orders, Follows
<1>4. IsFiniteSet(1..n) /\ Cardinality(1..n) = n
  BY <1>0, FS_Interval
<1>5. s \in Injection(1..n, S)
  BY <1>3 DEF Injection, IsInjective
<1>6. s \in Surjection(1..n, S)
  BY <1>4, <1>5, FS_Injection
<1>7. \A x \in S : \E i \in 1..n : s[i] = x
  BY <1>6 DEF Surjection
<1> QED BY <1>0, <1>2, <1>3, <1>7

-----------------------------------------------------------------------------
(* The log in the order it happened. *)

AnyFill == [id : FillIds, at : FillDays, km : Mileages, full : BOOLEAN, missed : BOOLEAN, pour : Pours]

\* A log is finite, and an id is one fill's.
IsLog(fills) ==
  /\ fills \in SUBSET AnyFill /\ IsFiniteSet(fills)
  /\ \A f, g \in fills : f.id = g.id => f = g

LEMMA FillFigures ==
  ASSUME NEW fills, IsLog(fills), NEW f \in fills
  PROVE  /\ f.id \in Int /\ f.at \in Nat /\ f.km \in Nat
         /\ f.pour.cl \in Nat /\ f.pour.cost \in Nat /\ f.pour.metres \in Nat
         /\ f.at \in FillDays
BY FuelLogAssumption DEF IsLog, AnyFill

FirstThenOf(fills) == {pq \in fills \X fills : FirstThen(pq[1], pq[2])}

LEMMA LogOrders ==
  ASSUME NEW fills, IsLog(fills)
  PROVE  Orders(FirstThenOf(fills), fills)
<1>1. \A f \in fills : f.id \in Int /\ f.at \in Int /\ f.km \in Int
  BY FillFigures
<1>2. \A f, g \in fills : <<f, g>> \in FirstThenOf(fills) <=> FirstThen(f, g)
  BY DEF FirstThenOf
<1>3. \A f, g \in fills : FirstThen(f, g) => ~FirstThen(g, f)
  BY <1>1 DEF FirstThen
<1>4. \A f, g \in fills : f = g \/ FirstThen(f, g) \/ FirstThen(g, f)
  BY <1>1 DEF FirstThen, IsLog
<1>5. \A f, g, h \in fills : FirstThen(f, g) /\ FirstThen(g, h) => FirstThen(f, h)
  BY <1>1 DEF FirstThen
<1> QED BY <1>2, <1>3, <1>4, <1>5 DEF Orders

\* s is what the set sorts into.
IsList(s, S) ==
  /\ Cardinality(S) \in Nat /\ s \in [1..Cardinality(S) -> S] /\ Len(s) = Cardinality(S)
  /\ \A i, j \in 1..Cardinality(S) : s[i] = s[j] => i = j
  /\ \A x \in S : \E i \in 1..Cardinality(S) : s[i] = x

LEMMA ListIs ==
  ASSUME NEW S, IsFiniteSet(S), NEW R, Orders(R, S),
         NEW s \in [1..Cardinality(S) -> S], Follows(s, R, Cardinality(S))
  PROVE  IsList(s, S)
<1>1. Cardinality(S) \in Nat
  BY FS_CardinalityType
<1>2. Len(s) = Cardinality(S)
  BY <1>1
<1> QED BY <1>1, <1>2, SortedIsAll DEF IsList

LEMMA ChronologicalIs ==
  ASSUME NEW fills, IsLog(fills)
  PROVE  /\ IsList(Chronological(fills), fills)
         /\ \A i, j \in 1..Cardinality(fills) :
              FirstThen(Chronological(fills)[i], Chronological(fills)[j]) <=> i < j
<1> DEFINE R == FirstThenOf(fills)
           n == Cardinality(fills)
           s == Chronological(fills)
<1>0. IsFiniteSet(fills) /\ Orders(R, fills)
  BY LogOrders DEF IsLog
<1>1. \A f, g \in fills : <<f, g>> \in R <=> FirstThen(f, g)
  BY DEF FirstThenOf
<1>2. PICK t \in [1..n -> fills] : Follows(t, R, n)
  BY <1>0, SortExists
<1>3. \A i, j \in 1..n : i < j => FirstThen(t[i], t[j])
  BY <1>1, <1>2 DEF Follows
<1> HIDE DEF R
<1>4. s \in [1..n -> fills] /\ \A i, j \in 1..n : i < j => FirstThen(s[i], s[j])
  BY <1>3 DEF Chronological, Sorted
<1> HIDE DEF s
<1>5. Follows(s, R, n)
  BY <1>1, <1>4 DEF Follows
<1>6. IsList(s, fills)
  BY <1>0, <1>4, <1>5, ListIs
<1>7. \A i, j \in 1..n : <<s[i], s[j]>> \in R => i < j
  BY <1>0, <1>4, <1>5, SortedIsAll
<1>8. \A i, j \in 1..n : FirstThen(s[i], s[j]) <=> i < j
  BY <1>1, <1>4, <1>7
<1> QED BY <1>6, <1>8 DEF s

-----------------------------------------------------------------------------
(* One step of the walk over the log. *)

AnyWindow == [start : Int, end : Int, endedAt : Nat, km : Int, cl : Nat, cost : Nat, n : Nat]
AnyRun    == [windows : SUBSET AnyWindow, open : BOOLEAN, from : Nat, cl : Nat, cost : Nat, n : Nat]

LEMMA MissIs ==
  ASSUME NEW r \in AnyRun
  PROVE  /\ Miss(r) \in AnyRun /\ ~Miss(r).open /\ Miss(r).windows = r.windows
BY DEF AnyRun, Miss

LEMMA PourIs ==
  ASSUME NEW r \in AnyRun, NEW f, f.pour.cl \in Nat, f.pour.cost \in Nat
  PROVE  /\ Pour(r, f) \in AnyRun
         /\ Pour(r, f).windows = r.windows /\ (Pour(r, f).open <=> r.open) /\ Pour(r, f).from = r.from
         /\ Pour(r, f).cl = r.cl + f.pour.cl /\ Pour(r, f).cost = r.cost + f.pour.cost
         /\ Pour(r, f).n = r.n + 1
<1>1. r.cl \in Nat /\ r.cost \in Nat /\ r.n \in Nat
  BY DEF AnyRun
<1>2. r.cl + f.pour.cl \in Nat /\ r.cost + f.pour.cost \in Nat /\ r.n + 1 \in Nat
  BY <1>1
<1> QED BY <1>2 DEF AnyRun, Pour

Measured(r, f, s) ==
  [start |-> s[r.from].id, end |-> f.id, endedAt |-> f.at,
   km |-> f.km - s[r.from].km, cl |-> r.cl, cost |-> r.cost, n |-> r.n]

LEMMA MeasureIs ==
  ASSUME NEW r \in AnyRun, NEW f, NEW s,
         f.id \in Int, f.at \in Nat, f.km \in Nat, s[r.from].id \in Int, s[r.from].km \in Nat
  PROVE  /\ Measure(r, f, s) \in AnyRun
         /\ (Measure(r, f, s).open <=> r.open) /\ Measure(r, f, s).from = r.from
         /\ Measure(r, f, s).cl = r.cl /\ Measure(r, f, s).cost = r.cost /\ Measure(r, f, s).n = r.n
         /\ f.full /\ f.km > s[r.from].km => Measure(r, f, s).windows = r.windows \cup {Measured(r, f, s)}
         /\ ~(f.full /\ f.km > s[r.from].km) => Measure(r, f, s).windows = r.windows
<1>1. Measured(r, f, s) \in AnyWindow
  BY DEF AnyRun, AnyWindow, Measured
<1>2. f.km - s[r.from].km > 0 <=> f.km > s[r.from].km
  OBVIOUS
<1>3. CASE f.full /\ f.km > s[r.from].km
  <2>1. Measure(r, f, s) = [r EXCEPT !.windows = @ \cup {Measured(r, f, s)}]
    BY <1>2, <1>3 DEF Measure, Measured
  <2> QED BY <2>1, <1>1, <1>3 DEF AnyRun
<1>4. CASE ~(f.full /\ f.km > s[r.from].km)
  <2>1. Measure(r, f, s) = r
    BY <1>2, <1>4 DEF Measure
  <2> QED BY <2>1, <1>4
<1> QED BY <1>3, <1>4

\* a is what Anchor makes of the run r at fill f, the i-th.
AnchorSays(a, r, i, f) ==
  /\ a \in AnyRun /\ a.windows = r.windows
  /\ f.full => (a.open <=> TRUE) /\ a.from = i /\ a.cl = 0 /\ a.cost = 0 /\ a.n = 0
  /\ ~f.full => a = r

LEMMA AnchorIs ==
  ASSUME NEW r \in AnyRun, NEW i \in Nat, NEW f
  PROVE  AnchorSays(Anchor(r, i, f), r, i, f)
<1>1. CASE f.full
  <2>1. PICK a : a = Anchor(r, i, f)
    OBVIOUS
  <2>2. a = [windows |-> r.windows, open |-> TRUE, from |-> i, cl |-> 0, cost |-> 0, n |-> 0]
    BY <1>1, <2>1 DEF Anchor, AnyRun
  <2>3. a.open <=> TRUE
    BY <2>2
  <2>4. a.windows = r.windows /\ a.from = i /\ a.cl = 0 /\ a.cost = 0 /\ a.n = 0
    BY <2>2
  <2>5. a \in AnyRun
    BY <2>2 DEF AnyRun
  <2> QED BY <1>1, <2>1, <2>3, <2>4, <2>5 DEF AnchorSays
<1>2. CASE ~f.full
  BY <1>2 DEF Anchor, AnchorSays
<1> QED BY <1>1, <1>2

\* Where the walk is open after fill i, and with what.
LEMMA WalkIs ==
  ASSUME NEW r \in AnyRun, NEW i \in Nat, NEW s,
         s[i].id \in Int, s[i].at \in Nat, s[i].km \in Nat, s[i].pour.cl \in Nat, s[i].pour.cost \in Nat,
         r.open => s[r.from].id \in Int /\ s[r.from].km \in Nat
  PROVE  LET w == Walk(r, i, s)
             on == r.open /\ ~s[i].missed
         IN /\ w \in AnyRun
            /\ s[i].full => w.open /\ w.from = i /\ w.cl = 0 /\ w.cost = 0 /\ w.n = 0
            /\ ~s[i].full => (w.open <=> on)
            /\ ~s[i].full /\ on => /\ w.from = r.from /\ w.cl = r.cl + s[i].pour.cl
                                   /\ w.cost = r.cost + s[i].pour.cost /\ w.n = r.n + 1
            /\ on /\ s[i].full /\ s[i].km > s[r.from].km =>
                 w.windows = r.windows \cup {Measured(Pour(r, s[i]), s[i], s)}
            /\ ~(on /\ s[i].full /\ s[i].km > s[r.from].km) => w.windows = r.windows
<1> DEFINE w == Walk(r, i, s)
           f == s[i]
           p == Pour(r, f)
           m == Measure(p, f, s)
<1>1. CASE f.missed
  <2> DEFINE q == Miss(r)
  <2>1. w = Anchor(q, i, f)
    BY <1>1 DEF Walk
  <2>2. q \in AnyRun /\ ~q.open /\ q.windows = r.windows
    BY MissIs
  <2> HIDE DEF q, w
  <2>3. AnchorSays(w, q, i, f)
    BY <2>1, <2>2, AnchorIs
  <2> QED BY <1>1, <2>2, <2>3 DEF w, AnchorSays
<1>2. CASE ~f.missed /\ ~r.open
  <2>1. w = Anchor(r, i, f)
    BY <1>2 DEF Walk
  <2> HIDE DEF w
  <2>2. AnchorSays(w, r, i, f)
    BY <2>1, AnchorIs
  <2> QED BY <1>2, <2>2 DEF w, AnchorSays
<1>3. CASE ~f.missed /\ r.open
  <2>1. w = Anchor(m, i, f)
    BY <1>3 DEF Walk
  <2>2. /\ p \in AnyRun
        /\ p.windows = r.windows /\ (p.open <=> r.open) /\ p.from = r.from
        /\ p.cl = r.cl + f.pour.cl /\ p.cost = r.cost + f.pour.cost /\ p.n = r.n + 1
    BY PourIs
  <2> HIDE DEF w, p
  <2>3. /\ m \in AnyRun
        /\ (m.open <=> p.open) /\ m.from = p.from
        /\ m.cl = p.cl /\ m.cost = p.cost /\ m.n = p.n
        /\ f.full /\ f.km > s[p.from].km => m.windows = p.windows \cup {Measured(p, f, s)}
        /\ ~(f.full /\ f.km > s[p.from].km) => m.windows = p.windows
    <3>1. s[p.from].id \in Int /\ s[p.from].km \in Nat
      BY <1>3, <2>2
    <3> QED BY <2>2, <3>1, MeasureIs
  <2> HIDE DEF m
  <2>4. AnchorSays(w, m, i, f)
    BY <2>1, <2>3, AnchorIs
  <2> QED BY <1>3, <2>2, <2>3, <2>4 DEF w, p, AnchorSays
<1> QED BY <1>1, <1>2, <1>3

-----------------------------------------------------------------------------
(* What was poured over a stretch of the log. *)

LEMMA PouredIs ==
  ASSUME NEW S, IsFiniteSet(S), \A f \in S : f.pour.cl \in Nat /\ f.pour.cost \in Nat
  PROVE  /\ Bought(S) \in Nat /\ Spent(S) \in Nat
         /\ \A T \in SUBSET S : Bought(T) \in Nat /\ Spent(T) \in Nat /\ Bought(T) <= Bought(S) /\ Spent(T) <= Spent(S)
         /\ \A x \in S : /\ Bought(S) = x.pour.cl + Bought(S \ {x})
                         /\ Spent(S) = x.pour.cost + Spent(S \ {x})
<1> DEFINE cl == [f \in S |-> f.pour.cl]
           cost == [f \in S |-> f.pour.cost]
<1>1. ASSUME NEW T \in SUBSET S
      PROVE  Bought(T) = SumFunctionOnSet(cl, T) /\ Spent(T) = SumFunctionOnSet(cost, T)
  <2>1. IsFiniteSet(T)
    BY FS_Subset
  <2>2. Bought(T) = SumFunctionOnSet([f \in T |-> f.pour.cl], T)
    BY DEF Bought, SumFunction, SumFunctionOnSet, FoldFunctionOnSet
  <2>3. Spent(T) = SumFunctionOnSet([f \in T |-> f.pour.cost], T)
    BY DEF Spent, SumFunction, SumFunctionOnSet, FoldFunctionOnSet
  <2>4. \A x \in T : [f \in T |-> f.pour.cl][x] = cl[x] /\ [f \in T |-> f.pour.cost][x] = cost[x]
    OBVIOUS
  <2>5. SumFunctionOnSet([f \in T |-> f.pour.cl], T) = SumFunctionOnSet(cl, T)
    BY <2>1, <2>4, SumSame
  <2>6. SumFunctionOnSet([f \in T |-> f.pour.cost], T) = SumFunctionOnSet(cost, T)
    BY <2>1, <2>4, SumSame
  <2> QED BY <2>2, <2>3, <2>5, <2>6
<1>2. \A x \in S : /\ cl[x] \in Nat /\ cl[x] \in Int /\ cl[x] = x.pour.cl
                   /\ cost[x] \in Nat /\ cost[x] \in Int /\ cost[x] = x.pour.cost
  OBVIOUS
<1> HIDE DEF cl, cost
<1>3. ASSUME NEW T \in SUBSET S
      PROVE  Bought(T) \in Nat /\ Spent(T) \in Nat /\ Bought(T) <= Bought(S) /\ Spent(T) <= Spent(S)
  BY <1>1, <1>2, SumOfNaturals
<1>4. ASSUME NEW x \in S
      PROVE  /\ Bought(S) = x.pour.cl + Bought(S \ {x})
             /\ Spent(S) = x.pour.cost + Spent(S \ {x})
  <2>1. SumFunctionOnSet(cl, S) = cl[x] + SumFunctionOnSet(cl, S \ {x})
    BY <1>2, SumTakes
  <2>2. SumFunctionOnSet(cost, S) = cost[x] + SumFunctionOnSet(cost, S \ {x})
    BY <1>2, SumTakes
  <2> QED BY <1>1, <1>2, <2>1, <2>2
<1> QED BY <1>3, <1>4

\* What was filled in after the j-th, up to the k-th.
Stretch(s, j, k) == {s[l] : l \in (j + 1)..k}

LEMMA StretchGrows ==
  ASSUME NEW fills, IsLog(fills), NEW s, IsList(s, fills),
         NEW j \in 0..Cardinality(fills), NEW k \in 0..Cardinality(fills), j <= k
  PROVE  /\ IsFiniteSet(Stretch(s, j, k)) /\ Stretch(s, j, k) \in SUBSET fills
         /\ Bought(Stretch(s, j, k)) \in Nat /\ Spent(Stretch(s, j, k)) \in Nat
         /\ Cardinality(Stretch(s, j, k)) \in Nat
         /\ j = k => /\ Bought(Stretch(s, j, k)) = 0 /\ Spent(Stretch(s, j, k)) = 0
                     /\ Cardinality(Stretch(s, j, k)) = 0
         /\ k < Cardinality(fills) =>
              /\ Bought(Stretch(s, j, k + 1)) = Bought(Stretch(s, j, k)) + s[k + 1].pour.cl
              /\ Spent(Stretch(s, j, k + 1)) = Spent(Stretch(s, j, k)) + s[k + 1].pour.cost
              /\ Cardinality(Stretch(s, j, k + 1)) = Cardinality(Stretch(s, j, k)) + 1
<1> DEFINE n == Cardinality(fills)
           S == Stretch(s, j, k)
<1>0. n \in Nat /\ j \in Nat /\ k \in Nat /\ j <= n /\ k <= n
  BY DEF IsList
<1>1. S \in SUBSET fills
  <2>1. \A l \in (j + 1)..k : l \in 1..n
    BY <1>0
  <2> QED BY <2>1 DEF Stretch, IsList
<1>2. \A T \in SUBSET fills : IsFiniteSet(T) /\ \A f \in T : f.pour.cl \in Nat /\ f.pour.cost \in Nat
  BY FS_Subset, FillFigures DEF IsLog
<1>3. \A T \in SUBSET fills : Bought(T) \in Nat /\ Spent(T) \in Nat /\ Cardinality(T) \in Nat
  BY <1>2, PouredIs, FS_CardinalityType
<1>4. ASSUME j = k
      PROVE  Bought(S) = 0 /\ Spent(S) = 0 /\ Cardinality(S) = 0
  <2>1. S = {}
    <3>1. (j + 1)..k = {}
      BY <1>0, <1>4
    <3> QED BY <3>1 DEF Stretch
  <2>2. [f \in {} |-> f.pour.cl] = [f \in {} |-> f.pour.cost]
    OBVIOUS
  <2>3. Bought({}) = 0 /\ Spent({}) = 0
    <3>1. Bought({}) = SumFunctionOnSet([f \in {} |-> f.pour.cl], {})
      BY DEF Bought, SumFunction, SumFunctionOnSet, FoldFunctionOnSet
    <3>2. Spent({}) = SumFunctionOnSet([f \in {} |-> f.pour.cost], {})
      BY DEF Spent, SumFunction, SumFunctionOnSet, FoldFunctionOnSet
    <3> QED BY <3>1, <3>2, SumOfNone
  <2> QED BY <2>1, <2>3, FS_EmptySet
<1>5. ASSUME k < n
      PROVE  /\ Bought(Stretch(s, j, k + 1)) = Bought(S) + s[k + 1].pour.cl
             /\ Spent(Stretch(s, j, k + 1)) = Spent(S) + s[k + 1].pour.cost
             /\ Cardinality(Stretch(s, j, k + 1)) = Cardinality(S) + 1
  <2> DEFINE x == s[k + 1]
             T == S \cup {x}
  <2>1. k + 1 \in 1..n /\ (j + 1)..(k + 1) = ((j + 1)..k) \cup {k + 1}
    BY <1>0, <1>5
  <2>2. Stretch(s, j, k + 1) = T
    BY <2>1 DEF Stretch
  <2>3. x \in fills
    BY <2>1 DEF IsList
  <2>4. x \notin S
    <3>1. ASSUME NEW l \in (j + 1)..k
          PROVE  s[l] # x
      <4>1. l \in 1..n /\ l # k + 1
        BY <1>0
      <4> QED BY <2>1, <4>1 DEF IsList
    <3> QED BY <3>1 DEF Stretch
  <2> HIDE DEF S, x
  <2>5. T \ {x} = S /\ T \in SUBSET fills /\ x \in T
    BY <1>1, <2>3, <2>4
  <2>6. Bought(T) = x.pour.cl + Bought(S) /\ Spent(T) = x.pour.cost + Spent(S)
    BY <1>2, <2>5, PouredIs
  <2>7. Cardinality(T) = Cardinality(S) + 1
    BY <1>1, <1>2, <2>4, FS_AddElement
  <2>8. x.pour.cl \in Nat /\ x.pour.cost \in Nat /\ Bought(S) \in Nat /\ Spent(S) \in Nat
    BY <1>1, <1>3, <2>3, FillFigures
  <2> HIDE DEF T
  <2> QED BY <2>2, <2>6, <2>7, <2>8 DEF x
<1> QED BY <1>1, <1>2, <1>3, <1>4, <1>5

-----------------------------------------------------------------------------
(* The walk states a window for exactly the stretches that can be measured. *)

\* From a full tank on, neither a full tank nor a gap.
\* A full tank at the j-th, and neither a full tank nor a gap after it up to the k-th.
Spans(s, j, k) == s[j].full /\ \A l \in (j + 1)..k : ~s[l].full /\ ~s[l].missed

\* The k-th fill closes the stretch that the j-th opens.
Closes(s, j, k) == s[j].km < s[k].km /\ s[k].full /\ ~s[k].missed /\ Spans(s, j, k - 1)

\* What is measured over it.
Window(s, j, k) ==
  [start |-> s[j].id, end |-> s[k].id, endedAt |-> s[k].at, km |-> s[k].km - s[j].km,
   cl |-> Bought(Stretch(s, j, k)), cost |-> Spent(Stretch(s, j, k)), n |-> Cardinality(Stretch(s, j, k))]

\* The windows that fill k closes.
ClosedAt(s, k) == {Window(s, j, k) : j \in {i \in 1..(k - 1) : Closes(s, i, k)}}

\* The windows of the first i fills.
ClosedBy(s, i) == UNION {ClosedAt(s, k) : k \in 1..i}

\* What the walk holds after the i-th fill: the windows so far, and the one
\* stretch that is open, if there is one, with all that was poured over it.
RunOk(r, i, s) ==
  /\ r \in AnyRun
  /\ r.open => /\ r.from \in 1..i /\ Spans(s, r.from, i)
               /\ r.cl = Bought(Stretch(s, r.from, i)) /\ r.cost = Spent(Stretch(s, r.from, i))
               /\ r.n = Cardinality(Stretch(s, r.from, i))
  /\ ~r.open => \A j \in 1..i : ~Spans(s, j, i)
  /\ r.windows = ClosedBy(s, i)

LEMMA OneSpan ==
  ASSUME NEW s, NEW i \in Nat, NEW j \in 1..i, NEW k \in 1..i, Spans(s, j, i), Spans(s, k, i)
  PROVE  j = k
<1>1. j < k => k \in (j + 1)..i
  OBVIOUS
<1>2. k < j => j \in (k + 1)..i
  OBVIOUS
<1>3. ~(j < k) /\ ~(k < j)
  BY <1>1, <1>2 DEF Spans
<1> QED BY <1>3

LEMMA WalkKeeps ==
  ASSUME NEW fills, IsLog(fills), NEW s, IsList(s, fills),
         NEW i \in 1..Cardinality(fills), NEW r, RunOk(r, i - 1, s)
  PROVE  RunOk(Walk(r, i, s), i, s)
<1> DEFINE n == Cardinality(fills)
           w == Walk(r, i, s)
           on == r.open /\ ~s[i].missed
<1>0. n \in Nat /\ i \in Nat /\ i - 1 \in Nat /\ i <= n /\ i - 1 < n /\ (i - 1) + 1 = i
  BY DEF IsList
<1>1. \A k \in 1..n : /\ s[k] \in fills /\ s[k].id \in Int /\ s[k].at \in Nat /\ s[k].km \in Nat
                      /\ s[k].pour.cl \in Nat /\ s[k].pour.cost \in Nat
  <2>1. \A k \in 1..n : s[k] \in fills
    BY DEF IsList
  <2> QED BY <2>1, FillFigures
<1>2. r \in AnyRun /\ (r.open => r.from \in 1..(i - 1))
  BY DEF RunOk
<1>3. r.open => r.from \in 1..n
  BY <1>0, <1>2
<1>4. /\ w \in AnyRun
      /\ s[i].full => w.open /\ w.from = i /\ w.cl = 0 /\ w.cost = 0 /\ w.n = 0
      /\ ~s[i].full => (w.open <=> on)
      /\ ~s[i].full /\ on => /\ w.from = r.from /\ w.cl = r.cl + s[i].pour.cl
                             /\ w.cost = r.cost + s[i].pour.cost /\ w.n = r.n + 1
      /\ on /\ s[i].full /\ s[i].km > s[r.from].km =>
           w.windows = r.windows \cup {Measured(Pour(r, s[i]), s[i], s)}
      /\ ~(on /\ s[i].full /\ s[i].km > s[r.from].km) => w.windows = r.windows
  <2>1. s[i].id \in Int /\ s[i].at \in Nat /\ s[i].km \in Nat /\ s[i].pour.cl \in Nat /\ s[i].pour.cost \in Nat
    BY <1>1
  <2>2. r.open => s[r.from].id \in Int /\ s[r.from].km \in Nat
    BY <1>1, <1>3
  <2> QED BY <1>0, <1>2, <2>1, <2>2, WalkIs
<1> HIDE DEF w
<1>5. ASSUME r.open
      PROVE  LET S == Stretch(s, r.from, i) IN
             /\ Bought(S) = r.cl + s[i].pour.cl /\ Spent(S) = r.cost + s[i].pour.cost
             /\ Cardinality(S) = r.n + 1
  <2>1. r.from \in 0..n /\ i - 1 \in 0..n /\ r.from <= i - 1
    BY <1>0, <1>2, <1>5
  <2>2. /\ Bought(Stretch(s, r.from, (i - 1) + 1)) = Bought(Stretch(s, r.from, i - 1)) + s[(i - 1) + 1].pour.cl
        /\ Spent(Stretch(s, r.from, (i - 1) + 1)) = Spent(Stretch(s, r.from, i - 1)) + s[(i - 1) + 1].pour.cost
        /\ Cardinality(Stretch(s, r.from, (i - 1) + 1)) = Cardinality(Stretch(s, r.from, i - 1)) + 1
    BY <1>0, <2>1, StretchGrows
  <2>3. r.cl = Bought(Stretch(s, r.from, i - 1)) /\ r.cost = Spent(Stretch(s, r.from, i - 1))
        /\ r.n = Cardinality(Stretch(s, r.from, i - 1))
    BY <1>5 DEF RunOk
  <2> QED BY <1>0, <2>2, <2>3
<1>6. \A j \in 1..(i - 1) : Spans(s, j, i) <=> Spans(s, j, i - 1) /\ ~s[i].full /\ ~s[i].missed
  <2>1. \A j \in 1..(i - 1) : (j + 1)..i = ((j + 1)..(i - 1)) \cup {i}
    BY <1>0
  <2> QED BY <2>1 DEF Spans
<1>7. s[i].full <=> Spans(s, i, i)
  <2>1. (i + 1)..i = {}
    BY <1>0
  <2> QED BY <2>1 DEF Spans
<1>8. w.open => /\ w.from \in 1..i /\ Spans(s, w.from, i)
                /\ w.cl = Bought(Stretch(s, w.from, i)) /\ w.cost = Spent(Stretch(s, w.from, i))
                /\ w.n = Cardinality(Stretch(s, w.from, i))
  <2>1. CASE s[i].full
    <3>1. i \in 0..n /\ i <= i
      BY <1>0
    <3>2. Bought(Stretch(s, i, i)) = 0 /\ Spent(Stretch(s, i, i)) = 0 /\ Cardinality(Stretch(s, i, i)) = 0
      BY <3>1, StretchGrows
    <3>3. i \in 1..i
      BY <1>0
    <3> QED BY <2>1, <1>4, <1>7, <3>2, <3>3
  <2>2. CASE ~s[i].full /\ on
    <3>1. r.from \in 1..(i - 1) /\ Spans(s, r.from, i - 1) /\ ~s[i].missed
      BY <2>2 DEF RunOk
    <3>2. Spans(s, r.from, i) /\ r.from \in 1..i
      BY <2>2, <1>6, <3>1, <1>0
    <3> QED BY <2>2, <1>4, <1>5, <3>2
  <2> QED BY <2>1, <2>2, <1>4
<1>9. ~w.open => \A j \in 1..i : ~Spans(s, j, i)
  <2>1. ASSUME ~w.open, NEW j \in 1..i, Spans(s, j, i)
        PROVE  FALSE
    <3>1. ~s[i].full /\ ~on
      BY <2>1, <1>4
    <3>2. j # i
      BY <2>1, <3>1, <1>7
    <3>3. j \in 1..(i - 1)
      BY <3>2, <1>0
    <3>4. Spans(s, j, i - 1) /\ ~s[i].missed
      BY <2>1, <3>3, <1>6
    <3>5. ~r.open
      BY <3>1, <3>4
    <3> QED BY <3>3, <3>4, <3>5 DEF RunOk
  <2> QED BY <2>1
<1>10. w.windows = r.windows \cup ClosedAt(s, i)
  <2>1. CASE on /\ s[i].full /\ s[i].km > s[r.from].km
    <3>1. r.from \in 1..(i - 1) /\ Spans(s, r.from, i - 1)
      BY <2>1 DEF RunOk
    <3>2. {j \in 1..(i - 1) : Closes(s, j, i)} = {r.from}
      <4>1. Closes(s, r.from, i)
        BY <2>1, <3>1 DEF Closes
      <4>2. ASSUME NEW j \in 1..(i - 1), Closes(s, j, i)
            PROVE  j = r.from
        BY <3>1, <4>2, <1>0, OneSpan DEF Closes
      <4> QED BY <3>1, <4>1, <4>2
    <3>3. ClosedAt(s, i) = {Window(s, r.from, i)}
      BY <3>2 DEF ClosedAt
    <3>4. Measured(Pour(r, s[i]), s[i], s) = Window(s, r.from, i)
      <4>1. s[i].pour.cl \in Nat /\ s[i].pour.cost \in Nat
        BY <1>1
      <4>2. /\ Pour(r, s[i]).from = r.from
            /\ Pour(r, s[i]).cl = r.cl + s[i].pour.cl /\ Pour(r, s[i]).cost = r.cost + s[i].pour.cost
            /\ Pour(r, s[i]).n = r.n + 1
        BY <1>2, <4>1, PourIs
      <4> QED BY <2>1, <1>5, <4>2 DEF Measured, Window
    <3> QED BY <2>1, <1>4, <3>3, <3>4
  <2>2. CASE ~(on /\ s[i].full /\ s[i].km > s[r.from].km)
    <3>1. ASSUME NEW j \in 1..(i - 1), Closes(s, j, i)
          PROVE  FALSE
      <4>1. s[i].full /\ ~s[i].missed /\ Spans(s, j, i - 1) /\ s[j].km < s[i].km
        BY <3>1 DEF Closes
      <4>2. r.open
        BY <4>1 DEF RunOk
      <4>3. r.from \in 1..(i - 1) /\ Spans(s, r.from, i - 1)
        BY <4>2 DEF RunOk
      <4>4. j = r.from
        BY <4>1, <4>3, <1>0, OneSpan
      <4> QED BY <2>2, <4>1, <4>2, <4>4
    <3>2. ClosedAt(s, i) = {}
      BY <3>1 DEF ClosedAt
    <3> QED BY <2>2, <1>4, <3>2
  <2> QED BY <2>1, <2>2
<1>11. w.windows = ClosedBy(s, i)
  <2>1. 1..i = (1..(i - 1)) \cup {i}
    BY <1>0
  <2>2. r.windows = ClosedBy(s, i - 1)
    BY DEF RunOk
  <2> QED BY <1>10, <2>1, <2>2 DEF ClosedBy
<1> QED BY <1>4, <1>8, <1>9, <1>11 DEF RunOk, w

LEMMA WalkExists ==
  ASSUME NEW s, NEW n \in Nat
  PROVE  \E run : run = [i \in 0..n |-> IF i = 0 THEN Closed ELSE Walk(run[i - 1], i, s)]
<1> DEFINE Upto(h, k) == \A i \in 0..n : i <= k => h[i] = IF i = 0 THEN Closed ELSE Walk(h[i - 1], i, s)
           N == {k \in Nat : \E h : Upto(h, k)}
<1>1. 0 \in N
  <2> DEFINE h == [i \in 0..n |-> Closed]
  <2>1. Upto(h, 0)
    OBVIOUS
  <2> HIDE DEF Upto
  <2> QED BY <2>1
<1>2. ASSUME NEW k \in Nat, k \in N
      PROVE  k + 1 \in N
  <2>1. PICK h : Upto(h, k)
    BY <1>2
  <2> DEFINE g == [i \in 0..n |-> IF i = 0 THEN Closed ELSE Walk(h[i - 1], i, s)]
  <2>2. \A i \in 0..n : i <= k => g[i] = h[i]
    BY <2>1
  <2>3. ASSUME NEW i \in 0..n, i <= k + 1, i # 0
        PROVE  g[i - 1] = h[i - 1]
    <3>1. i - 1 \in 0..n /\ i - 1 <= k
      BY <2>3
    <3> QED BY <3>1, <2>2
  <2>4. Upto(g, k + 1)
    BY <2>3
  <2> HIDE DEF Upto, g
  <2>5. k + 1 \in Nat
    OBVIOUS
  <2> QED BY <2>4, <2>5
<1> HIDE DEF N
<1>3. n \in N
  BY <1>1, <1>2, CountUp
<1>4. PICK h : Upto(h, n)
  BY <1>3 DEF N
<1> DEFINE run == [i \in 0..n |-> h[i]]
<1>5. run = [i \in 0..n |-> IF i = 0 THEN Closed ELSE Walk(run[i - 1], i, s)]
  <2>1. ASSUME NEW i \in 0..n
        PROVE  run[i] = IF i = 0 THEN Closed ELSE Walk(run[i - 1], i, s)
    <3>1. i # 0 => i - 1 \in 0..n
      OBVIOUS
    <3> QED BY <3>1, <1>4
  <2> QED BY <2>1
<1> QED BY <1>5

\* What the engine states is what closed by the last fill.
LEMMA WindowsAre ==
  ASSUME NEW fills, IsLog(fills)
  PROVE  Windows(fills) = ClosedBy(Chronological(fills), Cardinality(fills))
<1> DEFINE n == Cardinality(fills)
<1>0. PICK s : s = Chronological(fills)
  OBVIOUS
<1>1. IsList(s, fills) /\ n \in Nat /\ Len(s) = n
  BY <1>0, ChronologicalIs DEF IsList
<1> DEFINE Solves(run) == run = [i \in 0..n |-> IF i = 0 THEN Closed ELSE Walk(run[i - 1], i, s)]
           run == CHOOSE run : Solves(run)
<1>2. Solves(run)
  BY <1>1, WalkExists
<1>3. Windows(fills) = run[n].windows
  BY <1>0, <1>1 DEF Windows
<1>4. run[0] = Closed /\ \A i \in 1..n : run[i] = Walk(run[i - 1], i, s)
  <2>1. 0 \in 0..n /\ \A i \in 1..n : i \in 0..n /\ i # 0
    BY <1>1
  <2> QED BY <1>2, <2>1
<1> HIDE DEF run
<1> DEFINE N == {i \in Nat : i <= n => RunOk(run[i], i, s)}
<1>5. 0 \in N
  <2>1. Closed \in AnyRun
    BY DEF Closed, AnyRun
  <2>2. ClosedBy(s, 0) = {}
    BY DEF ClosedBy
  <2> QED BY <1>4, <2>1, <2>2 DEF RunOk, Closed
<1>6. ASSUME NEW k \in Nat, k \in N
      PROVE  k + 1 \in N
  <2>1. ASSUME k + 1 <= n
        PROVE  RunOk(run[k + 1], k + 1, s)
    <3>1. k + 1 \in 1..n /\ (k + 1) - 1 = k /\ k <= n
      BY <2>1, <1>1
    <3>2. RunOk(run[(k + 1) - 1], (k + 1) - 1, s)
      BY <1>6, <3>1
    <3> QED BY <1>1, <1>4, <3>1, <3>2, WalkKeeps
  <2> QED BY <2>1
<1> HIDE DEF N
<1>7. n \in N
  BY <1>1, <1>5, <1>6, CountUp
<1>8. RunOk(run[n], n, s)
  BY <1>1, <1>7 DEF N
<1> QED BY <1>0, <1>3, <1>8 DEF RunOk

\* Walking the log, fill after fill, comes to what the definition says of any
\* two full tanks.
LEMMA WindowsDoAgree ==
  ASSUME NEW fills, IsLog(fills)
  PROVE  WindowsAgree(fills)
<1> DEFINE n == Cardinality(fills)
           pairs == {q \in fills \X fills : Measures(q[1], q[2], fills)}
           stated(p) == [start |-> p[1].id, end |-> p[2].id, endedAt |-> p[2].at, km |-> p[2].km - p[1].km,
                         cl |-> Bought(Poured(p[1], p[2], fills)), cost |-> Spent(Poured(p[1], p[2], fills)),
                         n |-> Cardinality(Poured(p[1], p[2], fills))]
<1>0. PICK s : s = Chronological(fills)
  OBVIOUS
<1>1. IsList(s, fills) /\ n \in Nat /\ \A i, j \in 1..n : FirstThen(s[i], s[j]) <=> i < j
  BY <1>0, ChronologicalIs DEF IsList
<1>2. \A i \in 1..n : s[i] \in fills /\ s[i].km \in Nat
  <2>1. \A i \in 1..n : s[i] \in fills
    BY <1>1 DEF IsList
  <2> QED BY <2>1, FillFigures
<1>3. \A f \in fills : \E i \in 1..n : s[i] = f
  BY <1>1 DEF IsList
<1>4. \A i, j \in 1..n : s[i] = s[j] <=> i = j
  BY <1>1 DEF IsList
<1>5. ASSUME NEW j \in 1..n, NEW k \in 1..n
      PROVE  /\ Measures(s[j], s[k], fills) <=> j < k /\ Closes(s, j, k)
             /\ j < k => Poured(s[j], s[k], fills) = Stretch(s, j, k)
  <2>1. \A f \in fills : FirstThen(s[j], f) /\ f # s[k] /\ FirstThen(f, s[k])
                           <=> \E l \in (j + 1)..(k - 1) : f = s[l]
    <3>1. \A l \in (j + 1)..(k - 1) : l \in 1..n /\ j < l /\ l < k /\ l # k
      BY <1>1
    <3>2. ASSUME NEW l \in 1..n
          PROVE  FirstThen(s[j], s[l]) /\ s[l] # s[k] /\ FirstThen(s[l], s[k]) <=> l \in (j + 1)..(k - 1)
      <4>1. (FirstThen(s[j], s[l]) <=> j < l) /\ (FirstThen(s[l], s[k]) <=> l < k) /\ (s[l] = s[k] <=> l = k)
        BY <1>1, <1>4
      <4>2. l \in (j + 1)..(k - 1) <=> j < l /\ l < k /\ l # k
        BY <1>1
      <4> QED BY <4>1, <4>2
    <3>3. ASSUME NEW f \in fills, FirstThen(s[j], f), f # s[k], FirstThen(f, s[k])
          PROVE  \E l \in (j + 1)..(k - 1) : f = s[l]
      <4>1. PICK l \in 1..n : s[l] = f
        BY <1>3
      <4> QED BY <3>2, <3>3, <4>1
    <3>4. ASSUME NEW l \in (j + 1)..(k - 1)
          PROVE  FirstThen(s[j], s[l]) /\ s[l] # s[k] /\ FirstThen(s[l], s[k])
      BY <3>1, <3>2
    <3> QED BY <3>3, <3>4
  <2>2. \A l \in (j + 1)..(k - 1) : s[l] \in fills
    <3>1. \A l \in (j + 1)..(k - 1) : l \in 1..n
      BY <1>1
    <3> QED BY <3>1, <1>2
  <2>3. s[j].km < s[k].km => j < k
    <3>1. s[j].km < s[k].km => FirstThen(s[j], s[k])
      BY DEF FirstThen
    <3> QED BY <3>1, <1>1
  <2>4. Measures(s[j], s[k], fills) <=> j < k /\ Closes(s, j, k)
    <3>1. Measures(s[j], s[k], fills) <=>
            /\ s[j].full /\ s[k].full /\ s[j].km < s[k].km /\ ~s[k].missed
            /\ \A l \in (j + 1)..(k - 1) : ~s[l].full /\ ~s[l].missed
      BY <2>1, <2>2 DEF Measures
    <3> QED BY <3>1, <2>3 DEF Closes, Spans
  <2>5. ASSUME j < k
        PROVE  Poured(s[j], s[k], fills) = Stretch(s, j, k)
    <3>1. ASSUME NEW l \in 1..n
          PROVE  FirstThen(s[j], s[l]) /\ (s[l] = s[k] \/ FirstThen(s[l], s[k])) <=> l \in (j + 1)..k
      <4>1. (FirstThen(s[j], s[l]) <=> j < l) /\ (FirstThen(s[l], s[k]) <=> l < k) /\ (s[l] = s[k] <=> l = k)
        BY <1>1, <1>4
      <4>2. l \in (j + 1)..k <=> j < l /\ (l < k \/ l = k)
        BY <1>1
      <4> QED BY <4>1, <4>2
    <3>2. ASSUME NEW f \in Poured(s[j], s[k], fills)
          PROVE  f \in Stretch(s, j, k)
      <4>1. f \in fills /\ FirstThen(s[j], f) /\ (f = s[k] \/ FirstThen(f, s[k]))
        BY DEF Poured
      <4>2. PICK l \in 1..n : s[l] = f
        BY <4>1, <1>3
      <4>3. l \in (j + 1)..k
        BY <3>1, <4>1, <4>2
      <4> QED BY <4>2, <4>3 DEF Stretch
    <3>3. ASSUME NEW l \in (j + 1)..k
          PROVE  s[l] \in Poured(s[j], s[k], fills)
      <4>1. l \in 1..n
        BY <1>1
      <4> QED BY <4>1, <3>1, <1>2 DEF Poured
    <3> QED BY <3>2, <3>3 DEF Stretch
  <2> QED BY <2>4, <2>5
<1>6. ASSUME NEW j \in 1..n, NEW k \in 1..n, j < k
      PROVE  stated(<<s[j], s[k]>>) = Window(s, j, k)
  <2>1. Poured(s[j], s[k], fills) = Stretch(s, j, k)
    BY <1>5, <1>6
  <2> QED BY <2>1 DEF Window
<1> HIDE DEF stated
<1>7. ASSUME NEW w \in ClosedBy(s, n)
      PROVE  w \in {stated(p) : p \in pairs}
  <2>1. PICK k \in 1..n : w \in ClosedAt(s, k)
    BY DEF ClosedBy
  <2>2. PICK j \in 1..(k - 1) : Closes(s, j, k) /\ w = Window(s, j, k)
    BY <2>1 DEF ClosedAt
  <2>3. j \in 1..n /\ j < k
    BY <1>1
  <2>4. <<s[j], s[k]>> \in pairs
    BY <1>2, <1>5, <2>2, <2>3
  <2> QED BY <1>6, <2>2, <2>3, <2>4
<1>8. ASSUME NEW p \in pairs
      PROVE  stated(p) \in ClosedBy(s, n)
  <2>1. PICK j \in 1..n, k \in 1..n : p = <<s[j], s[k]>>
    <3>1. p[1] \in fills /\ p[2] \in fills /\ p = <<p[1], p[2]>>
      OBVIOUS
    <3> QED BY <3>1, <1>3
  <2>2. j < k /\ Closes(s, j, k)
    BY <2>1, <1>5
  <2>3. j \in 1..(k - 1)
    BY <2>2, <1>1
  <2>4. Window(s, j, k) \in ClosedAt(s, k)
    BY <2>2, <2>3 DEF ClosedAt
  <2> QED BY <1>6, <2>1, <2>2, <2>4 DEF ClosedBy
<1>9. Windows(fills) = {stated(p) : p \in pairs}
  BY <1>0, <1>7, <1>8, WindowsAre
<1> QED BY <1>9 DEF WindowsAgree, stated

-----------------------------------------------------------------------------
(* A period's figures. *)

LEMMA SummaryOfNone == Summary({}).cl = 0 /\ Summary({}).km = 0 /\ Summary({}).cost = 0
<1>1. Summary({}).cl = SumFunctionOnSet([w \in {} |-> w.cl], {})
  BY DEF Summary, SumFunction, SumFunctionOnSet, FoldFunctionOnSet
<1>2. Summary({}).km = SumFunctionOnSet([w \in {} |-> w.km], {})
  BY DEF Summary, SumFunction, SumFunctionOnSet, FoldFunctionOnSet
<1>3. Summary({}).cost = SumFunctionOnSet([w \in {} |-> w.cost], {})
  BY DEF Summary, SumFunction, SumFunctionOnSet, FoldFunctionOnSet
<1> QED BY <1>1, <1>2, <1>3, SumOfNone

LEMMA SummaryIs ==
  ASSUME NEW S \in SUBSET AnyWindow, IsFiniteSet(S), \A w \in S : w.km \in Nat
  PROVE  /\ \A T \in SUBSET S :
              /\ Summary(T).cl \in Nat /\ Summary(T).km \in Nat /\ Summary(T).cost \in Nat
              /\ Summary(S).km = Summary(T).km + Summary(S \ T).km
         /\ \A w \in S : /\ Summary(S).cl = w.cl + Summary(S \ {w}).cl
                         /\ Summary(S).km = w.km + Summary(S \ {w}).km
                         /\ Summary(S).cost = w.cost + Summary(S \ {w}).cost
<1> DEFINE cl == [w \in S |-> w.cl]
           km == [w \in S |-> w.km]
           cost == [w \in S |-> w.cost]
<1>1. ASSUME NEW T \in SUBSET S
      PROVE  /\ Summary(T).cl = SumFunctionOnSet(cl, T)
             /\ Summary(T).km = SumFunctionOnSet(km, T)
             /\ Summary(T).cost = SumFunctionOnSet(cost, T)
  <2>1. IsFiniteSet(T)
    BY FS_Subset
  <2>2. Summary(T).cl = SumFunctionOnSet([w \in T |-> w.cl], T)
    BY DEF Summary, SumFunction, SumFunctionOnSet, FoldFunctionOnSet
  <2>3. Summary(T).km = SumFunctionOnSet([w \in T |-> w.km], T)
    BY DEF Summary, SumFunction, SumFunctionOnSet, FoldFunctionOnSet
  <2>4. Summary(T).cost = SumFunctionOnSet([w \in T |-> w.cost], T)
    BY DEF Summary, SumFunction, SumFunctionOnSet, FoldFunctionOnSet
  <2>5. \A x \in T : /\ [w \in T |-> w.cl][x] = cl[x] /\ [w \in T |-> w.km][x] = km[x]
                     /\ [w \in T |-> w.cost][x] = cost[x]
    OBVIOUS
  <2>6. SumFunctionOnSet([w \in T |-> w.cl], T) = SumFunctionOnSet(cl, T)
    BY <2>1, <2>5, SumSame
  <2>7. SumFunctionOnSet([w \in T |-> w.km], T) = SumFunctionOnSet(km, T)
    BY <2>1, <2>5, SumSame
  <2>8. SumFunctionOnSet([w \in T |-> w.cost], T) = SumFunctionOnSet(cost, T)
    BY <2>1, <2>5, SumSame
  <2> QED BY <2>2, <2>3, <2>4, <2>6, <2>7, <2>8
<1>2. \A w \in S : /\ cl[w] \in Nat /\ cl[w] \in Int /\ cl[w] = w.cl
                   /\ km[w] \in Nat /\ km[w] \in Int /\ km[w] = w.km
                   /\ cost[w] \in Nat /\ cost[w] \in Int /\ cost[w] = w.cost
  BY DEF AnyWindow
<1> HIDE DEF cl, km, cost
<1>3. ASSUME NEW T \in SUBSET S
      PROVE  /\ Summary(T).cl \in Nat /\ Summary(T).km \in Nat /\ Summary(T).cost \in Nat
             /\ Summary(S).km = Summary(T).km + Summary(S \ T).km
  <2>1. Summary(T).cl \in Nat /\ Summary(T).km \in Nat /\ Summary(T).cost \in Nat
    BY <1>1, <1>2, SumOfNaturals
  <2>2. IsFiniteSet(T) /\ IsFiniteSet(S \ T) /\ T \cap (S \ T) = {} /\ T \cup (S \ T) = S
    BY FS_Subset
  <2>3. SumFunctionOnSet(km, T \cup (S \ T)) = SumFunctionOnSet(km, T) + SumFunctionOnSet(km, S \ T)
    BY <1>2, <2>2, SumOfParts
  <2> QED BY <1>1, <2>1, <2>2, <2>3
<1>4. ASSUME NEW w \in S
      PROVE  /\ Summary(S).cl = w.cl + Summary(S \ {w}).cl
             /\ Summary(S).km = w.km + Summary(S \ {w}).km
             /\ Summary(S).cost = w.cost + Summary(S \ {w}).cost
  <2>1. SumFunctionOnSet(cl, S) = cl[w] + SumFunctionOnSet(cl, S \ {w})
    BY <1>2, SumTakes
  <2>2. SumFunctionOnSet(km, S) = km[w] + SumFunctionOnSet(km, S \ {w})
    BY <1>2, SumTakes
  <2>3. SumFunctionOnSet(cost, S) = cost[w] + SumFunctionOnSet(cost, S \ {w})
    BY <1>2, SumTakes
  <2> QED BY <1>1, <1>2, <2>1, <2>2, <2>3
<1> QED BY <1>3, <1>4

\* One more window adds no more than its own figures.
LEMMA SummaryAdds ==
  ASSUME NEW S \in SUBSET AnyWindow, IsFiniteSet(S), \A w \in S : w.km \in Nat,
         NEW x \in AnyWindow, x.km \in Nat
  PROVE  /\ Summary(S \cup {x}).cl <= Summary(S).cl + x.cl
         /\ Summary(S \cup {x}).km <= Summary(S).km + x.km
         /\ Summary(S \cup {x}).cost <= Summary(S).cost + x.cost
<1> DEFINE T == S \cup {x}
<1>1. T \in SUBSET AnyWindow /\ IsFiniteSet(T) /\ (\A w \in T : w.km \in Nat) /\ x \in T /\ S \in SUBSET T
  BY FS_AddElement
<1>2. x.cl \in Nat /\ x.cost \in Nat /\ x.km \in Nat
  BY DEF AnyWindow
<1>3. \A R \in SUBSET T : Summary(R).cl \in Nat /\ Summary(R).km \in Nat /\ Summary(R).cost \in Nat
  BY <1>1, SummaryIs
<1>4. CASE x \in S
  <2>1. T = S
    BY <1>4
  <2> HIDE DEF T
  <2> QED BY <1>1, <1>2, <1>3, <2>1 DEF T
<1>5. CASE x \notin S
  <2>1. T \ {x} = S
    BY <1>5
  <2>2. /\ Summary(T).cl = x.cl + Summary(T \ {x}).cl
        /\ Summary(T).km = x.km + Summary(T \ {x}).km
        /\ Summary(T).cost = x.cost + Summary(T \ {x}).cost
    BY <1>1, SummaryIs
  <2>3. Summary(S).cl \in Nat /\ Summary(S).km \in Nat /\ Summary(S).cost \in Nat
    BY <1>1, <1>3
  <2>4. /\ Summary(T).cl = x.cl + Summary(S).cl
        /\ Summary(T).km = x.km + Summary(S).km
        /\ Summary(T).cost = x.cost + Summary(S).cost
    BY <2>1, <2>2
  <2> HIDE DEF T
  <2>5. Summary(T).cl <= Summary(S).cl + x.cl
    BY <1>2, <2>3, <2>4
  <2>6. Summary(T).km <= Summary(S).km + x.km
    BY <1>2, <2>3, <2>4
  <2>7. Summary(T).cost <= Summary(S).cost + x.cost
    BY <1>2, <2>3, <2>4
  <2> QED BY <2>5, <2>6, <2>7 DEF T
<1> QED BY <1>4, <1>5

\* What fill i adds: nothing, or one window over what no earlier one covers.
LEMMA ClosedOnce ==
  ASSUME NEW s, NEW i \in Nat, i > 0
  PROVE  \/ ClosedBy(s, i) = ClosedBy(s, i - 1)
         \/ \E j \in 1..(i - 1) : Closes(s, j, i) /\ ClosedBy(s, i) = ClosedBy(s, j) \cup {Window(s, j, i)}
<1>1. ClosedBy(s, i) = ClosedBy(s, i - 1) \cup ClosedAt(s, i)
  <2>1. 1..i = (1..(i - 1)) \cup {i}
    OBVIOUS
  <2> QED BY <2>1 DEF ClosedBy
<1>2. CASE \A j \in 1..(i - 1) : ~Closes(s, j, i)
  <2>1. ClosedAt(s, i) = {}
    BY <1>2 DEF ClosedAt
  <2> QED BY <1>1, <2>1
<1>3. ASSUME NEW j \in 1..(i - 1), Closes(s, j, i)
      PROVE  ClosedBy(s, i) = ClosedBy(s, j) \cup {Window(s, j, i)}
  <2>1. i - 1 \in Nat /\ Spans(s, j, i - 1)
    BY <1>3 DEF Closes
  <2>2. \A k \in 1..(i - 1) : Closes(s, k, i) => k = j
    BY <2>1, OneSpan DEF Closes
  <2>3. ClosedAt(s, i) = {Window(s, j, i)}
    BY <1>3, <2>2 DEF ClosedAt
  <2>4. \A k \in (j + 1)..(i - 1) : ClosedAt(s, k) = {}
    BY <2>1 DEF Spans, ClosedAt, Closes
  <2>5. 1..(i - 1) = (1..j) \cup ((j + 1)..(i - 1))
    OBVIOUS
  <2>6. ClosedBy(s, i - 1) = ClosedBy(s, j)
    BY <2>4, <2>5 DEF ClosedBy
  <2> QED BY <1>1, <2>3, <2>6
<1> QED BY <1>2, <1>3

\* The windows closed by fill j leave room for what was poured after it.
Fits(s, j, i) ==
  /\ ClosedBy(s, j) \in SUBSET AnyWindow /\ IsFiniteSet(ClosedBy(s, j))
  /\ \A w \in ClosedBy(s, j) : w.km \in Nat /\ w.km > 0
  /\ Summary(ClosedBy(s, j)).cl + Bought(Stretch(s, j, i)) <= Bought(Stretch(s, 0, i))
  /\ Summary(ClosedBy(s, j)).cost + Spent(Stretch(s, j, i)) <= Spent(Stretch(s, 0, i))
  /\ j > 0 => Summary(ClosedBy(s, j)).km <= s[j].km - s[1].km

LEMMA WindowIs ==
  ASSUME NEW fills, IsLog(fills), NEW s, IsList(s, fills),
         NEW k \in 1..Cardinality(fills), NEW j \in 1..(k - 1), Closes(s, j, k)
  PROVE  Window(s, j, k) \in AnyWindow /\ Window(s, j, k).km \in Nat /\ Window(s, j, k).km > 0
<1>0. Cardinality(fills) \in Nat
  BY DEF IsList
<1>1. j \in 1..Cardinality(fills) /\ j \in 0..Cardinality(fills) /\ k \in 0..Cardinality(fills) /\ j <= k
  BY <1>0
<1>2. s[j] \in fills /\ s[k] \in fills
  BY <1>1 DEF IsList
<1>3. s[j].id \in Int /\ s[k].id \in Int /\ s[k].at \in Nat /\ s[j].km \in Nat /\ s[k].km \in Nat
  BY <1>2, FillFigures
<1>4. /\ Bought(Stretch(s, j, k)) \in Nat /\ Spent(Stretch(s, j, k)) \in Nat
      /\ Cardinality(Stretch(s, j, k)) \in Nat
  BY <1>1, StretchGrows
<1>5. s[k].km - s[j].km \in Nat /\ s[k].km - s[j].km > 0
  BY <1>3 DEF Closes
<1> QED BY <1>3, <1>4, <1>5 DEF Window, AnyWindow

LEMMA FitsOn ==
  ASSUME NEW fills, IsLog(fills), NEW s, IsList(s, fills),
         \A p, q \in 1..Cardinality(fills) : p < q => s[p].km <= s[q].km,
         NEW i \in Nat, i < Cardinality(fills), \A j \in 0..i : Fits(s, j, i)
  PROVE  \A j \in 0..(i + 1) : Fits(s, j, i + 1)
<1> DEFINE n == Cardinality(fills)
           x == s[i + 1]
           C(j) == ClosedBy(s, j)
           B(j, k) == Bought(Stretch(s, j, k))
           P(j, k) == Spent(Stretch(s, j, k))
<1>0. n \in Nat /\ i + 1 \in 1..n /\ i \in 0..n /\ i + 1 \in 0..n
  BY DEF IsList
<1>1. x \in fills
  BY <1>0 DEF IsList
<1>2. x.pour.cl \in Nat /\ x.pour.cost \in Nat
  BY <1>1, FillFigures
<1>3. \A j \in 0..i : /\ B(j, i) \in Nat /\ P(j, i) \in Nat
                      /\ B(j, i + 1) = B(j, i) + x.pour.cl
                      /\ P(j, i + 1) = P(j, i) + x.pour.cost
  <2>1. \A j \in 0..i : j \in 0..n /\ j <= i
    BY <1>0
  <2> QED BY <1>0, <2>1, StretchGrows
<1>4. B(i + 1, i + 1) = 0 /\ P(i + 1, i + 1) = 0
  BY <1>0, StretchGrows
<1>5. \A p \in 1..n : s[p].km \in Nat
  <2>1. \A p \in 1..n : s[p] \in fills
    BY DEF IsList
  <2> QED BY <2>1, FillFigures
<1> HIDE DEF x, B, P
<1>6. \A j \in 0..i : /\ C(j) \in SUBSET AnyWindow /\ IsFiniteSet(C(j))
                      /\ \A w \in C(j) : w.km \in Nat /\ w.km > 0
  BY DEF Fits
<1>7. \A j \in 0..i : /\ Summary(C(j)).cl + B(j, i) <= B(0, i)
                      /\ Summary(C(j)).cost + P(j, i) <= P(0, i)
                      /\ j > 0 => Summary(C(j)).km <= s[j].km - s[1].km
  BY DEF Fits, B, P
<1>8. \A j \in 0..i : Summary(C(j)).cl \in Nat /\ Summary(C(j)).cost \in Nat /\ Summary(C(j)).km \in Nat
  BY <1>6, SummaryIs
<1> HIDE DEF C
<1>9. 0 \in 0..i /\ i \in 0..i
  OBVIOUS
<1>10. ASSUME NEW j \in 0..i
       PROVE  Fits(s, j, i + 1)
  <2>1. Summary(C(j)).cl + B(j, i + 1) <= B(0, i + 1)
    BY <1>2, <1>3, <1>7, <1>8, <1>9
  <2>2. Summary(C(j)).cost + P(j, i + 1) <= P(0, i + 1)
    BY <1>2, <1>3, <1>7, <1>8, <1>9
  <2> QED BY <1>6, <1>7, <2>1, <2>2 DEF Fits, C, B, P
<1> DEFINE Bounded(c) ==
             /\ c \in SUBSET AnyWindow /\ IsFiniteSet(c)
             /\ \A w \in c : w.km \in Nat /\ w.km > 0
             /\ Summary(c).cl <= B(0, i + 1)
             /\ Summary(c).cost <= P(0, i + 1)
             /\ Summary(c).km <= x.km - s[1].km
<1>11. Bounded(C(i + 1))
  <2>1. CASE C(i + 1) = C(i)
    <3>1. Summary(C(i)).cl <= B(0, i + 1) /\ Summary(C(i)).cost <= P(0, i + 1)
      BY <1>2, <1>3, <1>7, <1>8, <1>9
    <3>2. Summary(C(i)).km <= x.km - s[1].km
      <4>1. CASE i = 0
        <5>1. C(i) = {}
          BY <4>1 DEF C, ClosedBy
        <5>2. x.km - s[1].km = 0
          BY <4>1, <1>0, <1>5 DEF x
        <5> QED BY <5>1, <5>2, SummaryOfNone
      <4>2. CASE i > 0
        <5>1. i \in 1..n /\ 1 \in 1..n /\ i < i + 1
          BY <4>2, <1>0
        <5>2. s[i].km <= x.km
          BY <5>1, <1>0 DEF x
        <5>3. s[i].km \in Nat /\ x.km \in Nat /\ s[1].km \in Nat
          BY <5>1, <1>0, <1>5 DEF x
        <5>4. Summary(C(i)).km <= s[i].km - s[1].km /\ Summary(C(i)).km \in Nat
          BY <4>2, <1>7, <1>8, <1>9
        <5> QED BY <5>2, <5>3, <5>4
      <4> QED BY <4>1, <4>2
    <3> QED BY <2>1, <3>1, <3>2, <1>6, <1>9
  <2>2. ASSUME NEW j \in 1..i, Closes(s, j, i + 1), C(i + 1) = C(j) \cup {Window(s, j, i + 1)}
        PROVE  Bounded(C(i + 1))
    <3> DEFINE w == Window(s, j, i + 1)
    <3>1. j \in 0..i /\ j > 0 /\ (i + 1) - 1 = i /\ j \in 1..n /\ 1 \in 1..n
      BY <1>0
    <3>2. w \in AnyWindow /\ w.km \in Nat /\ w.km > 0
      BY <1>0, <2>2, <3>1, WindowIs
    <3>3. w.cl = B(j, i + 1) /\ w.cost = P(j, i + 1) /\ w.km = x.km - s[j].km
      BY DEF Window, B, P, x
    <3> HIDE DEF w
    <3>4. C(i + 1) = C(j) \cup {w}
      BY <2>2 DEF w
    <3>5. /\ C(j) \in SUBSET AnyWindow /\ IsFiniteSet(C(j)) /\ \A v \in C(j) : v.km \in Nat /\ v.km > 0
      BY <1>6, <3>1
    <3>6. /\ Summary(C(i + 1)).cl <= Summary(C(j)).cl + w.cl
          /\ Summary(C(i + 1)).km <= Summary(C(j)).km + w.km
          /\ Summary(C(i + 1)).cost <= Summary(C(j)).cost + w.cost
      BY <3>2, <3>4, <3>5, SummaryAdds
    <3>7. /\ C(i + 1) \in SUBSET AnyWindow /\ IsFiniteSet(C(i + 1))
          /\ \A v \in C(i + 1) : v.km \in Nat /\ v.km > 0
      BY <3>2, <3>4, <3>5, FS_AddElement
    <3>8. Summary(C(i + 1)).cl \in Nat /\ Summary(C(i + 1)).km \in Nat /\ Summary(C(i + 1)).cost \in Nat
      BY <3>7, SummaryIs
    <3>9. /\ Summary(C(j)).cl + B(j, i) <= B(0, i) /\ Summary(C(j)).cost + P(j, i) <= P(0, i)
          /\ Summary(C(j)).km <= s[j].km - s[1].km
          /\ Summary(C(j)).cl \in Nat /\ Summary(C(j)).cost \in Nat /\ Summary(C(j)).km \in Nat
      BY <1>7, <1>8, <3>1
    <3>10. /\ B(j, i) \in Nat /\ P(j, i) \in Nat /\ B(0, i) \in Nat /\ P(0, i) \in Nat
           /\ B(j, i + 1) = B(j, i) + x.pour.cl /\ P(j, i + 1) = P(j, i) + x.pour.cost
           /\ B(0, i + 1) = B(0, i) + x.pour.cl /\ P(0, i + 1) = P(0, i) + x.pour.cost
      BY <1>3, <1>9, <3>1
    <3>11. s[j].km \in Nat /\ s[1].km \in Nat /\ x.km \in Nat
      BY <1>0, <1>5, <3>1 DEF x
    <3>12. Summary(C(i + 1)).cl <= B(0, i + 1)
      BY <1>2, <3>3, <3>6, <3>8, <3>9, <3>10
    <3>13. Summary(C(i + 1)).cost <= P(0, i + 1)
      BY <1>2, <3>3, <3>6, <3>8, <3>9, <3>10
    <3>14. Summary(C(i + 1)).km <= x.km - s[1].km
      BY <3>3, <3>6, <3>8, <3>9, <3>11
    <3> QED BY <3>7, <3>12, <3>13, <3>14
  <2>3. \/ C(i + 1) = C(i)
        \/ \E j \in 1..i : Closes(s, j, i + 1) /\ C(i + 1) = C(j) \cup {Window(s, j, i + 1)}
    <3>1. i + 1 \in Nat /\ i + 1 > 0 /\ (i + 1) - 1 = i
      OBVIOUS
    <3> QED BY <3>1, ClosedOnce DEF C
  <2> QED BY <2>1, <2>2, <2>3
<1>12. Fits(s, i + 1, i + 1)
  <2>1. Summary(C(i + 1)).cl \in Nat /\ Summary(C(i + 1)).cost \in Nat
    BY <1>11, SummaryIs
  <2>2. Summary(C(i + 1)).cl + B(i + 1, i + 1) <= B(0, i + 1) /\ Summary(C(i + 1)).cost + P(i + 1, i + 1) <= P(0, i + 1)
    BY <1>4, <1>11, <2>1
  <2> QED BY <1>11, <2>2 DEF Fits, C, B, P, x
<1>13. \A j \in 0..(i + 1) : j \in 0..i \/ j = i + 1
  OBVIOUS
<1> QED BY <1>10, <1>12, <1>13

LEMMA AllFits ==
  ASSUME NEW fills, IsLog(fills), NEW s, IsList(s, fills),
         \A p, q \in 1..Cardinality(fills) : p < q => s[p].km <= s[q].km
  PROVE  Fits(s, Cardinality(fills), Cardinality(fills))
<1> DEFINE n == Cardinality(fills)
           N == {i \in Nat : i <= n => \A j \in 0..i : Fits(s, j, i)}
<1>0. n \in Nat
  BY DEF IsList
<1>1. 0 \in N
  <2>1. ClosedBy(s, 0) = {}
    BY DEF ClosedBy
  <2>2. Bought(Stretch(s, 0, 0)) = 0 /\ Spent(Stretch(s, 0, 0)) = 0
    <3>1. 0 \in 0..n /\ 0 <= 0
      BY <1>0
    <3> QED BY <3>1, StretchGrows
  <2>3. Fits(s, 0, 0)
    BY <2>1, <2>2, SummaryOfNone, FS_EmptySet DEF Fits
  <2> QED BY <2>3
<1>2. ASSUME NEW i \in Nat, i \in N
      PROVE  i + 1 \in N
  <2>1. ASSUME i + 1 <= n
        PROVE  \A j \in 0..(i + 1) : Fits(s, j, i + 1)
    <3>1. i < n /\ i <= n
      BY <2>1, <1>0
    <3> QED BY <1>2, <3>1, FitsOn
  <2> QED BY <2>1
<1> HIDE DEF N
<1>3. n \in N
  BY <1>0, <1>1, <1>2, CountUp
<1> QED BY <1>0, <1>3 DEF N

LEMMA SummaryDoesAddUp ==
  ASSUME NEW fills, IsLog(fills)
  PROVE  SummaryAddsUp(fills)
<1> DEFINE n == Cardinality(fills)
<1>0. PICK s : s = Chronological(fills)
  OBVIOUS
<1>1. IsList(s, fills) /\ n \in Nat /\ \A i, j \in 1..n : FirstThen(s[i], s[j]) <=> i < j
  BY <1>0, ChronologicalIs DEF IsList
<1>2. \A i \in 1..n : s[i] \in fills /\ s[i].km \in Nat
  <2>1. \A i \in 1..n : s[i] \in fills
    BY <1>1 DEF IsList
  <2> QED BY <2>1, FillFigures
<1>3. \A p, q \in 1..n : p < q => s[p].km <= s[q].km
  <2>1. ASSUME NEW p \in 1..n, NEW q \in 1..n, p < q
        PROVE  s[p].km <= s[q].km
    <3>1. FirstThen(s[p], s[q]) /\ s[p].km \in Nat /\ s[q].km \in Nat
      BY <1>1, <1>2, <2>1
    <3> QED BY <3>1 DEF FirstThen
  <2> QED BY <2>1
<1>4. PICK all : all = ClosedBy(s, n)
  OBVIOUS
<1>5. Windows(fills) = all
  BY <1>0, <1>4, WindowsAre
<1>6. Stretch(s, 0, n) = fills
  <2>1. (0 + 1)..n = 1..n
    BY <1>1
  <2> QED BY <1>1, <2>1 DEF Stretch, IsList
<1>7. Fits(s, n, n)
  BY <1>1, <1>3, AllFits
<1>8. /\ all \in SUBSET AnyWindow /\ IsFiniteSet(all)
      /\ \A w \in all : w.km \in Nat /\ w.km > 0
  BY <1>4, <1>7 DEF Fits
<1>9. n > 0 => Summary(all).km <= s[n].km - s[1].km
  BY <1>4, <1>7 DEF Fits
<1>10. /\ \A T \in SUBSET all :
            /\ Summary(T).cl \in Nat /\ Summary(T).km \in Nat /\ Summary(T).cost \in Nat
            /\ Summary(all).km = Summary(T).km + Summary(all \ T).km
       /\ \A w \in all : Summary(all).km = w.km + Summary(all \ {w}).km
  BY <1>8, SummaryIs
<1>11. Summary(all).cl <= Bought(fills) /\ Summary(all).cost <= Spent(fills)
  <2>1. n \in 0..n /\ n <= n
    BY <1>1
  <2>2. Bought(Stretch(s, n, n)) = 0 /\ Spent(Stretch(s, n, n)) = 0
    BY <1>1, <2>1, StretchGrows
  <2>3. Summary(all).cl \in Nat /\ Summary(all).cost \in Nat
    BY <1>10
  <2>4. Summary(all).cl + 0 <= Bought(fills) /\ Summary(all).cost + 0 <= Spent(fills)
    BY <1>4, <1>6, <1>7, <2>2 DEF Fits
  <2> QED BY <2>3, <2>4
<1>12. ASSUME NEW d \in FillDays
       PROVE  Summary(all).km = Summary(WindowsEndingBetween(all, 0, d)).km
                                  + Summary({w \in all : w.endedAt > d}).km
  <2>1. \A w \in all : w.endedAt \in Nat /\ d \in Nat
    BY <1>8, FuelLogAssumption DEF AnyWindow
  <2>2. all \ WindowsEndingBetween(all, 0, d) = {w \in all : w.endedAt > d}
    BY <2>1 DEF WindowsEndingBetween
  <2>3. WindowsEndingBetween(all, 0, d) \in SUBSET all
    BY DEF WindowsEndingBetween
  <2> QED BY <1>10, <2>2, <2>3
<1>13. ASSUME Summary(all).km > 0
       PROVE  Summary(all).km <= Max({f.km : f \in fills}) - Min({f.km : f \in fills})
  <2>1. n > 0
    <3>1. CASE n = 0
      <4>1. all = {}
        BY <1>4, <3>1 DEF ClosedBy
      <4> QED BY <1>13, <4>1, SummaryOfNone
    <3> QED BY <3>1, <1>1
  <2>2. 1 \in 1..n /\ n \in 1..n
    BY <2>1, <1>1
  <2>3. \A f \in fills : f.km \in Nat /\ f.km <= s[n].km /\ s[1].km <= f.km
    <3>1. ASSUME NEW f \in fills
          PROVE  f.km \in Nat /\ f.km <= s[n].km /\ s[1].km <= f.km
      <4>1. PICK i \in 1..n : s[i] = f
        BY <1>1 DEF IsList
      <4>2. i < n \/ i = n
        BY <1>1
      <4>3. 1 < i \/ i = 1
        BY <1>1
      <4> QED BY <1>2, <1>3, <2>2, <4>1, <4>2, <4>3
    <3> QED BY <3>1
  <2> DEFINE kms == {f.km : f \in fills}
  <2>4. s[n].km \in kms /\ s[1].km \in kms
    BY <1>2, <2>2
  <2>5. \A k \in kms : k \in Nat /\ k <= s[n].km /\ s[1].km <= k
    BY <2>3
  <2> HIDE DEF kms
  <2>6. Max(kms) = s[n].km
    BY <2>4, <2>5 DEF Max
  <2>7. Min(kms) = s[1].km
    BY <2>4, <2>5 DEF Min
  <2> QED BY <1>9, <2>1, <2>6, <2>7 DEF kms
<1>14. ASSUME ~(Summary(all).km > 0)
       PROVE  all = {}
  <2>1. ASSUME NEW w \in all
        PROVE  FALSE
    <3>1. w.km \in Nat /\ w.km > 0 /\ Summary(all \ {w}).km \in Nat /\ Summary(all).km = w.km + Summary(all \ {w}).km
      BY <1>8, <1>10
    <3> QED BY <1>14, <3>1
  <2> QED BY <2>1
<1> QED BY <1>5, <1>11, <1>12, <1>13, <1>14 DEF SummaryAddsUp, HasAverage

-----------------------------------------------------------------------------
(* The stations last used. *)

LEMMA GreatestNatural ==
  ASSUME NEW S \in SUBSET Nat, S # {}, NEW b \in Nat, \A x \in S : x <= b
  PROVE  Max(S) \in S /\ \A x \in S : x <= Max(S)
<1> DEFINE gaps == {b - x : x \in S}
<1>1. gaps \in SUBSET Nat /\ gaps # {}
  <2>1. ASSUME NEW x \in S
        PROVE  b - x \in Nat
    <3>1. x \in Nat /\ x <= b
      OBVIOUS
    <3> QED BY <3>1
  <2>2. PICK x : x \in S
    OBVIOUS
  <2>3. b - x \in gaps
    BY <2>2
  <2> QED BY <2>1, <2>3
<1>2. PICK g \in gaps : \A h \in gaps : g <= h
  <2> HIDE DEF gaps
  <2> QED BY <1>1, LeastNatural
<1>3. PICK m \in S : g = b - m
  OBVIOUS
<1>4. \A x \in S : b - m <= b - x
  BY <1>2, <1>3
<1>5. \A x \in S : m >= x
  BY <1>4
<1>6. Max(S) \in S /\ \A x \in S : Max(S) >= x
  BY <1>5 DEF Max
<1> QED BY <1>6

LEMMA NewestFirstIs ==
  ASSUME NEW fills, IsLog(fills)
  PROVE  /\ IsList(NewestFirst(fills), fills)
         /\ \A i, j \in 1..Cardinality(fills) : i <= j => NewestFirst(fills)[j].at <= NewestFirst(fills)[i].at
<1> DEFINE newer(p, q) == p.at > q.at \/ (p.at = q.at /\ FirstThen(p, q))
           R == {pq \in fills \X fills : newer(pq[1], pq[2])}
           n == Cardinality(fills)
           s == NewestFirst(fills)
<1>0. \A f \in fills : f.at \in Int
  BY FillFigures
<1>1. \A f, g \in fills : <<f, g>> \in R <=> newer(f, g)
  OBVIOUS
<1>2. Orders(R, fills)
  <2>1. \A f, g \in fills : <<f, g>> \in FirstThenOf(fills) <=> FirstThen(f, g)
    BY DEF FirstThenOf
  <2>2. /\ \A f, g \in fills : FirstThen(f, g) => ~FirstThen(g, f)
        /\ \A f, g \in fills : f = g \/ FirstThen(f, g) \/ FirstThen(g, f)
        /\ \A f, g, h \in fills : FirstThen(f, g) /\ FirstThen(g, h) => FirstThen(f, h)
    BY <2>1, LogOrders DEF Orders
  <2>3. \A f, g \in fills : newer(f, g) => ~newer(g, f)
    BY <1>0, <2>2
  <2>4. \A f, g \in fills : f = g \/ newer(f, g) \/ newer(g, f)
    BY <1>0, <2>2
  <2>5. \A f, g, h \in fills : newer(f, g) /\ newer(g, h) => newer(f, h)
    BY <1>0, <2>2
  <2> HIDE DEF R, newer
  <2> QED BY <1>1, <2>3, <2>4, <2>5 DEF Orders
<1>3. IsFiniteSet(fills)
  BY DEF IsLog
<1> HIDE DEF R
<1>4. PICK t \in [1..n -> fills] : Follows(t, R, n)
  BY <1>2, <1>3, SortExists
<1>5. \A i, j \in 1..n : i < j => newer(t[i], t[j])
  BY <1>1, <1>4 DEF Follows
<1>6. s \in [1..n -> fills] /\ \A i, j \in 1..n : i < j => newer(s[i], s[j])
  BY <1>5 DEF NewestFirst, Sorted
<1> HIDE DEF s
<1>7. Follows(s, R, n)
  BY <1>1, <1>6 DEF Follows
<1>8. IsList(s, fills)
  BY <1>2, <1>3, <1>6, <1>7, ListIs
<1>9. ASSUME NEW i \in 1..n, NEW j \in 1..n, i <= j
      PROVE  s[j].at <= s[i].at
  <2>1. s[i].at \in Int /\ s[j].at \in Int
    BY <1>0, <1>6
  <2>2. i < j \/ i = j
    BY <1>9, <1>3, FS_CardinalityType
  <2>3. i < j => newer(s[i], s[j])
    BY <1>6
  <2> QED BY <2>1, <2>2, <2>3
<1> QED BY <1>8, <1>9 DEF s

LEMMA LatestIs ==
  ASSUME NEW fills, IsLog(fills)
  PROVE  \E b \in Nat : \A g \in fills : g.at <= b
<1> DEFINE s == NewestFirst(fills)
           n == Cardinality(fills)
<1>1. IsList(s, fills) /\ n \in Nat /\ \A i, j \in 1..n : i <= j => s[j].at <= s[i].at
  BY NewestFirstIs DEF IsList
<1> HIDE DEF s
<1>2. CASE n = 0
  <2>1. fills = {}
    BY <1>1, <1>2 DEF IsList
  <2> QED BY <2>1
<1>3. CASE n > 0
  <2>1. 1 \in 1..n /\ \A i \in 1..n : 1 <= i
    BY <1>1, <1>3
  <2>2. s[1] \in fills
    BY <1>1, <2>1 DEF IsList
  <2>3. s[1].at \in Nat
    BY <2>2, FillFigures
  <2>4. \A g \in fills : g.at <= s[1].at
    <3>1. ASSUME NEW g \in fills
          PROVE  g.at <= s[1].at
      <4>1. PICK i \in 1..n : s[i] = g
        BY <1>1 DEF IsList
      <4> QED BY <1>1, <2>1, <4>1
    <3> QED BY <3>1
  <2> QED BY <2>3, <2>4
<1> QED BY <1>1, <1>2, <1>3

LEMMA LastUseIs ==
  ASSUME NEW fills, IsLog(fills), NEW f \in fills
  PROVE  LET last == LastUse(fills, f.pour.station) IN
         /\ last \in Nat /\ f.at <= last
         /\ \E g \in fills : g.pour.station = f.pour.station /\ g.at = last
<1> DEFINE S == {h.at : h \in {g \in fills : g.pour.station = f.pour.station}}
<1>1. PICK b \in Nat : \A g \in fills : g.at <= b
  BY LatestIs
<1>2. S \in SUBSET Nat /\ f.at \in S /\ \A x \in S : x <= b
  BY <1>1, FillFigures
<1>3. Max(S) \in S /\ \A x \in S : x <= Max(S)
  <2> HIDE DEF S
  <2>1. S # {}
    BY <1>2
  <2> QED BY <1>2, <2>1, GreatestNatural
<1>4. LastUse(fills, f.pour.station) = Max(S)
  BY DEF LastUse
<1>5. \E g \in fills : g.pour.station = f.pour.station /\ g.at = Max(S)
  BY <1>3
<1> HIDE DEF S
<1> QED BY <1>2, <1>3, <1>4, <1>5

LEMMA AddsExist ==
  ASSUME NEW s, NEW n \in Nat
  PROVE  \E names : names = [i \in 0..n |-> IF i = 0 THEN <<>> ELSE Add(s[i].pour.station, names[i - 1])]
<1> DEFINE Upto(h, k) == \A i \in 0..n : i <= k => h[i] = IF i = 0 THEN <<>> ELSE Add(s[i].pour.station, h[i - 1])
           N == {k \in Nat : \E h : Upto(h, k)}
<1>1. 0 \in N
  <2> DEFINE h == [i \in 0..n |-> <<>>]
  <2>1. Upto(h, 0)
    OBVIOUS
  <2> HIDE DEF Upto
  <2> QED BY <2>1
<1>2. ASSUME NEW k \in Nat, k \in N
      PROVE  k + 1 \in N
  <2>1. PICK h : Upto(h, k)
    BY <1>2
  <2> DEFINE g == [i \in 0..n |-> IF i = 0 THEN <<>> ELSE Add(s[i].pour.station, h[i - 1])]
  <2>2. \A i \in 0..n : i <= k => g[i] = h[i]
    BY <2>1
  <2>3. ASSUME NEW i \in 0..n, i <= k + 1, i # 0
        PROVE  g[i - 1] = h[i - 1]
    <3>1. i - 1 \in 0..n /\ i - 1 <= k
      BY <2>3
    <3> QED BY <3>1, <2>2
  <2>4. Upto(g, k + 1)
    BY <2>3
  <2> HIDE DEF Upto, g
  <2>5. k + 1 \in Nat
    OBVIOUS
  <2> QED BY <2>4, <2>5
<1> HIDE DEF N
<1>3. n \in N
  BY <1>1, <1>2, CountUp
<1>4. PICK h : Upto(h, n)
  BY <1>3 DEF N
<1> DEFINE names == [i \in 0..n |-> h[i]]
<1>5. names = [i \in 0..n |-> IF i = 0 THEN <<>> ELSE Add(s[i].pour.station, names[i - 1])]
  <2>1. ASSUME NEW i \in 0..n
        PROVE  names[i] = IF i = 0 THEN <<>> ELSE Add(s[i].pour.station, names[i - 1])
    <3>1. i # 0 => i - 1 \in 0..n
      OBVIOUS
    <3> QED BY <3>1, <1>4
  <2> QED BY <2>1
<1> QED BY <1>5

Used(fills) == {f.pour.station : f \in fills} \ {NoStation}

\* What is suggested after the i newest fills.
NamesOk(names, i, fills, s) ==
  /\ names \in Seq(Used(fills)) /\ Len(names) <= RecentLimit
  /\ \A a, b \in 1..Len(names) : names[a] = names[b] => a = b
  /\ \A a \in 1..Len(names) : \E p \in 1..i : s[p].pour.station = names[a]
  /\ Len(names) < RecentLimit =>
       \A p \in 1..i : s[p].pour.station = NoStation \/ s[p].pour.station \in Range(names)
  /\ \A a, b \in 1..Len(names) : a < b => LastUse(fills, names[b]) <= LastUse(fills, names[a])
  /\ Len(names) = RecentLimit =>
       \A name \in Used(fills) :
         name \in Range(names) \/ \A a \in 1..Len(names) : LastUse(fills, name) <= LastUse(fills, names[a])

LEMMA AddKeeps ==
  ASSUME NEW fills, IsLog(fills), NEW s, IsList(s, fills),
         \A p, q \in 1..Cardinality(fills) : p <= q => s[q].at <= s[p].at,
         NEW i \in Nat, i < Cardinality(fills), NEW names, NamesOk(names, i, fills, s)
  PROVE  NamesOk(Add(s[i + 1].pour.station, names), i + 1, fills, s)
<1> DEFINE n == Cardinality(fills)
           x == s[i + 1].pour.station
           U == Used(fills)
           last(name) == LastUse(fills, name)
<1>0. n \in Nat /\ i + 1 \in 1..n /\ (\A p \in 1..i : p \in 1..n /\ p <= i + 1) /\ 1..(i + 1) = (1..i) \cup {i + 1}
  BY DEF IsList
<1>1. \A p \in 1..n : s[p] \in fills /\ s[p].at \in Nat
  <2>1. \A p \in 1..n : s[p] \in fills
    BY DEF IsList
  <2> QED BY <2>1, FillFigures
<1>2. names \in Seq(U) /\ Len(names) \in Nat /\ (\A a \in 1..Len(names) : names[a] \in U) /\ RecentLimit \in Nat
  BY FuelLogAssumption DEF NamesOk
<1>3. \A name \in U : last(name) \in Nat /\ \E g \in fills : g.pour.station = name /\ g.at = last(name)
  BY LastUseIs DEF Used
<1>4. \A a \in 1..Len(names) : s[i + 1].at <= last(names[a])
  <2>1. ASSUME NEW a \in 1..Len(names)
        PROVE  s[i + 1].at <= last(names[a])
    <3>1. PICK p \in 1..i : s[p].pour.station = names[a]
      BY DEF NamesOk
    <3>2. p \in 1..n /\ p <= i + 1
      BY <1>0
    <3>3. s[i + 1].at <= s[p].at
      BY <1>0, <3>2
    <3>4. s[p].at <= last(names[a])
      BY <1>1, <3>1, <3>2, LastUseIs
    <3>5. s[i + 1].at \in Nat /\ s[p].at \in Nat /\ last(names[a]) \in Nat
      BY <1>0, <1>1, <1>2, <1>3, <3>2
    <3> QED BY <3>3, <3>4, <3>5
  <2> QED BY <2>1
<1>5. ASSUME NEW name \in U, \A p \in 1..i : s[p].pour.station # name
      PROVE  last(name) <= s[i + 1].at
  <2>1. PICK g \in fills : g.pour.station = name /\ g.at = last(name)
    BY <1>3
  <2>2. PICK q \in 1..n : s[q] = g
    BY DEF IsList
  <2>3. q \notin 1..i
    BY <1>5, <2>1, <2>2
  <2>4. i + 1 <= q
    BY <1>0, <2>3
  <2> QED BY <1>0, <2>1, <2>2, <2>4
<1> HIDE DEF last, U
<1>6. CASE x = NoStation \/ Len(names) = RecentLimit \/ x \in Range(names)
  <2>1. Add(x, names) = names
    BY <1>6 DEF Add
  <2>2. \A a \in 1..Len(names) : \E p \in 1..(i + 1) : s[p].pour.station = names[a]
    BY <1>0 DEF NamesOk
  <2>3. Len(names) < RecentLimit =>
          \A p \in 1..(i + 1) : s[p].pour.station = NoStation \/ s[p].pour.station \in Range(names)
    <3>1. ASSUME Len(names) < RecentLimit
          PROVE  /\ \A p \in 1..i : s[p].pour.station = NoStation \/ s[p].pour.station \in Range(names)
                 /\ x = NoStation \/ x \in Range(names)
      BY <1>2, <1>6, <3>1 DEF NamesOk
    <3> QED BY <1>0, <3>1
  <2>4. NamesOk(names, i + 1, fills, s)
    BY <2>2, <2>3 DEF NamesOk
  <2> QED BY <2>1, <2>4
<1>7. CASE ~(x = NoStation \/ Len(names) = RecentLimit \/ x \in Range(names))
  <2> DEFINE more == Append(names, x)
             k == Len(names)
  <2>1. Add(x, names) = more
    BY <1>7 DEF Add
  <2>2. x \in U
    BY <1>0, <1>1, <1>7 DEF Used, U
  <2>3. /\ more \in Seq(U) /\ Len(more) = k + 1 /\ more[k + 1] = x
        /\ \A a \in 1..k : more[a] = names[a]
    BY <1>2, <2>2
  <2>4. k < RecentLimit /\ k + 1 <= RecentLimit
    BY <1>2, <1>7 DEF NamesOk
  <2>5. \A a \in 1..k : names[a] # x
    BY <1>7 DEF Range
  <2>6. \A p \in 1..i : s[p].pour.station = NoStation \/ s[p].pour.station \in Range(names)
    BY <2>4 DEF NamesOk
  <2>7. last(x) <= s[i + 1].at /\ last(x) \in Nat /\ s[i + 1].at \in Nat /\ s[i + 1].at <= last(x)
    <3>1. \A p \in 1..i : s[p].pour.station # x
      BY <1>7, <2>6
    <3> QED BY <1>0, <1>1, <1>3, <1>5, <2>2, <3>1, LastUseIs DEF last
  <2>8. 1..(k + 1) = (1..k) \cup {k + 1} /\ k + 1 \notin 1..k
    BY <1>2
  <2>9. \A name : name \in Range(more) <=> name \in Range(names) \/ name = x
    BY <2>3, <2>8 DEF Range
  <2> HIDE DEF more, k
  <2>10. \A a, b \in 1..(k + 1) : more[a] = more[b] => a = b
    <3>1. \A a, b \in 1..k : names[a] = names[b] => a = b
      BY DEF NamesOk, k
    <3> QED BY <2>3, <2>5, <2>8, <3>1
  <2>11. \A a \in 1..(k + 1) : \E p \in 1..(i + 1) : s[p].pour.station = more[a]
    <3>1. \A a \in 1..k : \E p \in 1..i : s[p].pour.station = names[a]
      BY DEF NamesOk, k
    <3> QED BY <1>0, <2>3, <2>8, <3>1
  <2>12. \A p \in 1..(i + 1) : s[p].pour.station = NoStation \/ s[p].pour.station \in Range(more)
    BY <1>0, <2>6, <2>9
  <2>13. \A a, b \in 1..(k + 1) : a < b => last(more[b]) <= last(more[a])
    <3>1. ASSUME NEW a \in 1..(k + 1), NEW b \in 1..(k + 1), a < b
          PROVE  last(more[b]) <= last(more[a])
      <4>1. a \in 1..k
        BY <1>2, <3>1 DEF k
      <4>2. CASE b \in 1..k
        BY <2>3, <3>1, <4>1, <4>2 DEF NamesOk, k, last
      <4>3. CASE b = k + 1
        <5>1. s[i + 1].at <= last(names[a]) /\ last(names[a]) \in Nat
          BY <1>2, <1>3, <1>4, <4>1 DEF k
        <5> QED BY <2>3, <2>7, <4>1, <4>3, <5>1
      <4> QED BY <2>8, <4>2, <4>3
    <3> QED BY <3>1
  <2>14. \A name \in U : name \in Range(more) \/ \A a \in 1..(k + 1) : last(name) <= last(more[a])
    <3>1. ASSUME NEW name \in U, name \notin Range(more), NEW a \in 1..(k + 1)
          PROVE  last(name) <= last(more[a])
      <4>1. name # x /\ name \notin Range(names)
        BY <2>9, <3>1
      <4>2. \A p \in 1..i : s[p].pour.station # name
        BY <2>6, <3>1, <4>1 DEF Used, U
      <4>3. last(name) <= s[i + 1].at /\ last(name) \in Nat
        BY <1>3, <1>5, <4>2
      <4>4. CASE a \in 1..k
        <5>1. s[i + 1].at <= last(names[a]) /\ last(names[a]) \in Nat
          BY <1>2, <1>3, <1>4, <4>4 DEF k
        <5> QED BY <2>3, <2>7, <4>3, <4>4, <5>1
      <4>5. CASE a = k + 1
        BY <2>3, <2>7, <4>3, <4>5
      <4> QED BY <2>8, <4>4, <4>5
    <3> QED BY <3>1
  <2>15. NamesOk(more, i + 1, fills, s)
    BY <2>3, <2>4, <2>10, <2>11, <2>12, <2>13, <2>14 DEF NamesOk, U, last
  <2> QED BY <2>1, <2>15
<1> QED BY <1>6, <1>7

LEMMA RecentDoAgree ==
  ASSUME NEW fills, IsLog(fills)
  PROVE  RecentAgree(fills)
<1> DEFINE n == Cardinality(fills)
           U == {f.pour.station : f \in fills} \ {NoStation}
<1>0. PICK s : s = NewestFirst(fills)
  OBVIOUS
<1>1. IsList(s, fills) /\ n \in Nat /\ Len(s) = n /\ \A i, j \in 1..n : i <= j => s[j].at <= s[i].at
  BY <1>0, NewestFirstIs DEF IsList
<1> DEFINE Solves(names) == names = [i \in 0..n |-> IF i = 0 THEN <<>> ELSE Add(s[i].pour.station, names[i - 1])]
           names == CHOOSE names : Solves(names)
<1>2. Solves(names)
  BY <1>1, AddsExist
<1>3. RecentStations(fills) = names[n]
  BY <1>0, <1>1 DEF RecentStations
<1>4. names[0] = <<>> /\ \A i \in 1..n : names[i] = Add(s[i].pour.station, names[i - 1])
  <2>1. 0 \in 0..n /\ \A i \in 1..n : i \in 0..n /\ i # 0
    BY <1>1
  <2> QED BY <1>2, <2>1
<1> HIDE DEF names
<1> DEFINE N == {i \in Nat : i <= n => NamesOk(names[i], i, fills, s)}
<1>5. 0 \in N
  <2>1. <<>> \in Seq(Used(fills)) /\ Len(<<>>) = 0 /\ 1..0 = {} /\ RecentLimit \in Nat /\ RecentLimit # 0
    BY FuelLogAssumption
  <2>2. NamesOk(<<>>, 0, fills, s)
    BY <2>1 DEF NamesOk
  <2> QED BY <1>4, <2>2
<1>6. ASSUME NEW k \in Nat, k \in N
      PROVE  k + 1 \in N
  <2>1. ASSUME k + 1 <= n
        PROVE  NamesOk(names[k + 1], k + 1, fills, s)
    <3>1. k + 1 \in 1..n /\ (k + 1) - 1 = k /\ k < n /\ k <= n
      BY <2>1, <1>1
    <3>2. NamesOk(names[k], k, fills, s)
      BY <1>6, <3>1
    <3>3. names[k + 1] = Add(s[k + 1].pour.station, names[k])
      BY <1>4, <3>1
    <3> QED BY <1>1, <3>1, <3>2, <3>3, AddKeeps
  <2> QED BY <2>1
<1> HIDE DEF N
<1>7. n \in N
  BY <1>1, <1>5, <1>6, CountUp
<1>8. PICK r : r = names[n]
  OBVIOUS
<1>9. NamesOk(r, n, fills, s) /\ RecentStations(fills) = r
  BY <1>1, <1>3, <1>7, <1>8 DEF N
<1>10. U = Used(fills)
  BY DEF Used
<1>11. r \in Seq(U) /\ Len(r) \in Nat /\ DOMAIN r = 1..Len(r) /\ \A a \in 1..Len(r) : r[a] \in U
  BY <1>9, <1>10 DEF NamesOk
<1>12. IsInjective(r)
  BY <1>9, <1>11 DEF NamesOk, IsInjective
<1>13. Range(r) \subseteq U
  BY <1>11 DEF Range
<1>14. \A i, j \in DOMAIN r : i < j => LastUse(fills, r[i]) >= LastUse(fills, r[j])
  <2>1. \A name \in U : LastUse(fills, name) \in Nat
    BY LastUseIs
  <2> QED BY <1>9, <1>11, <2>1 DEF NamesOk
<1>15. ASSUME NEW name \in U \ Range(r)
       PROVE  Len(r) = RecentLimit /\ \A i \in DOMAIN r : LastUse(fills, r[i]) >= LastUse(fills, name)
  <2>1. name \notin Range(r)
    OBVIOUS
  <2>2. PICK f \in fills : f.pour.station = name
    OBVIOUS
  <2>3. PICK p \in 1..n : s[p] = f
    BY <1>1 DEF IsList
  <2>4. ~(Len(r) < RecentLimit)
    BY <1>9, <2>1, <2>2, <2>3 DEF NamesOk
  <2>5. Len(r) = RecentLimit
    <3>1. Len(r) <= RecentLimit /\ RecentLimit \in Nat /\ Len(r) \in Nat
      BY <1>9, <1>11, FuelLogAssumption DEF NamesOk
    <3> QED BY <2>4, <3>1
  <2>6. \A a \in 1..Len(r) : LastUse(fills, name) <= LastUse(fills, r[a])
    BY <1>9, <1>10, <2>1, <2>5 DEF NamesOk
  <2>7. \A m \in U : LastUse(fills, m) \in Nat
    BY LastUseIs
  <2>8. \A i \in DOMAIN r : LastUse(fills, r[i]) >= LastUse(fills, name)
    BY <1>11, <2>6, <2>7
  <2> QED BY <2>5, <2>8
<1> QED BY <1>9, <1>12, <1>13, <1>14, <1>15 DEF RecentAgree

-----------------------------------------------------------------------------
(* What was seen first. *)

\* Sets of fills that share none come one after the other, by their first fill.
\* A gives each of K a part of the fills that it shares with no other.
NoneShared(A, K, fills) == /\ \A a \in K : A[a] \in SUBSET fills /\ A[a] # {}
                      /\ \A a, b \in K : a # b => A[a] \cap A[b] = {}

\* Where the first fill of each part stands in the log.
InTurn(first, A, K) ==
  /\ first \in [K -> Nat]
  /\ \A a, b \in K : SeenBefore(A[a], A[b]) <=> first[a] < first[b]
  /\ \A a, b \in K : first[a] = first[b] => a = b

LEMMA SeenInTurn ==
  ASSUME NEW fills, IsLog(fills), NEW K, NEW A, NoneShared(A, K, fills)
  PROVE  \E first : InTurn(first, A, K)
<1>0. /\ \A a \in K : A[a] \in SUBSET fills /\ A[a] # {}
      /\ \A a, b \in K : a # b => A[a] \cap A[b] = {}
  BY DEF NoneShared
<1> DEFINE n == Cardinality(fills)
           s == Chronological(fills)
           P(a) == {i \in 1..n : s[i] \in A[a]}
<1>1. IsList(s, fills) /\ n \in Nat /\ \A i, j \in 1..n : FirstThen(s[i], s[j]) <=> i < j
  BY ChronologicalIs DEF IsList
<1> HIDE DEF s
<1>2. \A a \in K : P(a) \in SUBSET Nat /\ P(a) # {}
  <2>1. ASSUME NEW a \in K
        PROVE  P(a) \in SUBSET Nat /\ P(a) # {}
    <3>1. PICK f \in A[a] : f \in fills
      BY <1>0
    <3>2. PICK i \in 1..n : s[i] = f
      BY <1>1, <3>1 DEF IsList
    <3>3. i \in P(a)
      BY <3>1, <3>2
    <3> QED BY <1>1, <3>3
  <2> QED BY <2>1
<1> DEFINE first == [a \in K |-> CHOOSE m \in P(a) : \A i \in P(a) : m <= i]
<1>3. \A a \in K : first[a] \in P(a) /\ \A i \in P(a) : first[a] <= i
  <2>1. ASSUME NEW a \in K
        PROVE  first[a] \in P(a) /\ \A i \in P(a) : first[a] <= i
    <3>1. \E m \in P(a) : \A i \in P(a) : m <= i
      BY <1>2, LeastNatural
    <3> QED BY <3>1
  <2> QED BY <2>1
<1> HIDE DEF first
<1>4. \A a \in K : first[a] \in 1..n /\ first[a] \in Nat /\ s[first[a]] \in A[a]
  BY <1>3, <1>1
<1>5. ASSUME NEW a \in K, NEW b \in K
      PROVE  SeenBefore(A[a], A[b]) <=> first[a] < first[b]
  <2>1. ASSUME SeenBefore(A[a], A[b])
        PROVE  first[a] < first[b]
    <3>1. PICK p \in A[a] : \A q \in A[b] : FirstThen(p, q)
      BY <2>1 DEF SeenBefore
    <3>2. PICK i \in 1..n : s[i] = p
      BY <1>0, <1>1 DEF IsList
    <3>3. i < first[b]
      BY <1>1, <1>4, <3>1, <3>2
    <3>4. first[a] <= i
      BY <1>3, <3>2
    <3> QED BY <1>1, <1>4, <3>3, <3>4
  <2>2. ASSUME first[a] < first[b]
        PROVE  SeenBefore(A[a], A[b])
    <3>1. ASSUME NEW q \in A[b]
          PROVE  FirstThen(s[first[a]], q)
      <4>1. PICK j \in 1..n : s[j] = q
        BY <1>0, <1>1 DEF IsList
      <4>2. first[b] <= j
        BY <1>3, <4>1
      <4>3. first[a] < j
        BY <1>1, <1>4, <2>2, <4>2
      <4> QED BY <1>1, <1>4, <4>1, <4>3
    <3> QED BY <1>4, <3>1 DEF SeenBefore
  <2> QED BY <2>1, <2>2
<1>6. \A a, b \in K : first[a] = first[b] => a = b
  BY <1>0, <1>4
<1>7. first \in [K -> Nat]
  BY <1>4 DEF first
<1> QED BY <1>5, <1>6, <1>7 DEF InTurn

LEMMA ImageIsFinite ==
  ASSUME NEW S, IsFiniteSet(S), NEW f
  PROVE  IsFiniteSet({f[x] : x \in S})
<1> DEFINE T == {f[x] : x \in S}
           g == [x \in S |-> f[x]]
<1>1. g \in Surjection(S, T)
  BY DEF Surjection
<1> QED BY <1>1, FS_Surjection

-----------------------------------------------------------------------------
(* The amounts usually paid. *)

LEMMA HabitsAre ==
  ASSUME NEW fills, IsLog(fills)
  PROVE  /\ IsFiniteSet(Habits(fills))
         /\ \A cost \in Habits(fills) : /\ PaidFills(fills, cost) \in SUBSET fills /\ PaidFills(fills, cost) # {}
                                        /\ TimesPaid(fills, cost) \in Nat /\ LastPaid(fills, cost) \in Nat
<1> DEFINE f == [x \in fills |-> x.pour.cost]
           costs == {f[x] : x \in fills}
<1>1. IsFiniteSet(fills)
  BY DEF IsLog
<1>2. IsFiniteSet(costs)
  <2> HIDE DEF f
  <2> QED BY <1>1, ImageIsFinite
<1>3. costs = {x.pour.cost : x \in fills}
  OBVIOUS
<1>4. Habits(fills) \in SUBSET costs
  BY <1>3 DEF Habits
<1> HIDE DEF costs, f
<1>5. IsFiniteSet(Habits(fills))
  BY <1>2, <1>4, FS_Subset
<1>6. ASSUME NEW cost \in Habits(fills)
      PROVE  /\ PaidFills(fills, cost) \in SUBSET fills /\ PaidFills(fills, cost) # {}
             /\ TimesPaid(fills, cost) \in Nat /\ LastPaid(fills, cost) \in Nat
  <2>1. PaidFills(fills, cost) \in SUBSET fills
    BY DEF PaidFills
  <2>2. PICK p \in fills : p.pour.cost = cost
    BY DEF Habits
  <2>3. p \in PaidFills(fills, cost)
    BY <2>2 DEF PaidFills
  <2>4. TimesPaid(fills, cost) \in Nat
    <3>1. IsFiniteSet(PaidFills(fills, cost))
      BY <1>1, <2>1, FS_Subset
    <3> QED BY <3>1, FS_CardinalityType DEF TimesPaid
  <2>5. LastPaid(fills, cost) \in Nat
    <3> DEFINE S == {g.at : g \in PaidFills(fills, cost)}
    <3>1. S \in SUBSET Nat /\ S # {}
      BY <2>1, <2>3, FillFigures
    <3>2. PICK b \in Nat : \A g \in fills : g.at <= b
      BY LatestIs
    <3>3. \A x \in S : x <= b
      BY <2>1, <3>2
    <3>4. Max(S) \in S
      <4> HIDE DEF S
      <4> QED BY <3>1, <3>3, GreatestNatural
    <3> QED BY <3>1, <3>4 DEF LastPaid
  <2> QED BY <2>1, <2>3, <2>4, <2>5
<1> QED BY <1>5, <1>6

\* By a first figure, then a second, then a place.
More(t, l, v, a, b) == \/ t[a] > t[b]
                       \/ t[a] = t[b] /\ l[a] > l[b]
                       \/ t[a] = t[b] /\ l[a] = l[b] /\ v[a] < v[b]

LEMMA MoreOrders ==
  ASSUME NEW H, NEW t \in [H -> Nat], NEW l \in [H -> Nat], NEW v \in [H -> Nat],
         \A a, b \in H : v[a] = v[b] => a = b,
         NEW R, \A a, b \in H : <<a, b>> \in R <=> More(t, l, v, a, b)
  PROVE  Orders(R, H)
<1>1. \A a \in H : t[a] \in Nat /\ l[a] \in Nat /\ v[a] \in Nat
  OBVIOUS
<1>2. \A a, b \in H : More(t, l, v, a, b) => ~More(t, l, v, b, a)
  BY <1>1 DEF More
<1>3. \A a, b \in H : a = b \/ More(t, l, v, a, b) \/ More(t, l, v, b, a)
  BY <1>1 DEF More
<1>4. \A a, b, c \in H : More(t, l, v, a, b) /\ More(t, l, v, b, c) => More(t, l, v, a, c)
  BY <1>1 DEF More
<1> QED BY <1>2, <1>3, <1>4 DEF Orders

Ranked(fills) == Sorted(Habits(fills), LAMBDA a, b : PaidMore(fills, a, b))

LEMMA RankedIs ==
  ASSUME NEW fills, IsLog(fills), NEW ranked, ranked = Ranked(fills)
  PROVE  /\ IsList(ranked, Habits(fills))
         /\ \A i, j \in 1..Cardinality(Habits(fills)) :
              i <= j => TimesPaid(fills, ranked[j]) <= TimesPaid(fills, ranked[i])
<1> DEFINE H == Habits(fills)
           R == {ab \in H \X H : PaidMore(fills, ab[1], ab[2])}
           n == Cardinality(H)
           A == [c \in H |-> PaidFills(fills, c)]
<1>0. \A c \in H : TimesPaid(fills, c) \in Nat /\ LastPaid(fills, c) \in Nat
  BY HabitsAre
<1>1. PICK first : InTurn(first, A, H)
  <2>1. \A a \in H : A[a] \in SUBSET fills /\ A[a] # {}
    BY HabitsAre
  <2>2. \A a, b \in H : a # b => A[a] \cap A[b] = {}
    BY DEF PaidFills
  <2> HIDE DEF A, H
  <2>3. NoneShared(A, H, fills)
    BY <2>1, <2>2 DEF NoneShared
  <2> QED BY <2>3, SeenInTurn
<1>2. /\ first \in [H -> Nat]
      /\ \A a, b \in H : SeenBefore(PaidFills(fills, a), PaidFills(fills, b)) <=> first[a] < first[b]
      /\ \A a, b \in H : first[a] = first[b] => a = b
  BY <1>1 DEF InTurn
<1>3. PICK t \in [H -> Nat] : \A c \in H : t[c] = TimesPaid(fills, c)
  <2>1. [c \in H |-> TimesPaid(fills, c)] \in [H -> Nat]
    BY <1>0
  <2> QED BY <2>1
<1>4. PICK l \in [H -> Nat] : \A c \in H : l[c] = LastPaid(fills, c)
  <2>1. [c \in H |-> LastPaid(fills, c)] \in [H -> Nat]
    BY <1>0
  <2> QED BY <2>1
<1>5. \A a, b \in H : PaidMore(fills, a, b) <=> More(t, l, first, a, b)
  BY <1>2, <1>3, <1>4 DEF PaidMore, More
<1>6. \A a, b \in H : <<a, b>> \in R <=> PaidMore(fills, a, b)
  OBVIOUS
<1>7. IsFiniteSet(H)
  BY HabitsAre
<1> HIDE DEF R, H, A
<1>8. n \in Nat
  BY <1>7, FS_CardinalityType
<1>9. Orders(R, H)
  BY <1>2, <1>5, <1>6, MoreOrders
<1>10. PICK s \in [1..n -> H] : Follows(s, R, n)
  BY <1>7, <1>9, SortExists
<1>11. \A i, j \in 1..n : i < j => PaidMore(fills, s[i], s[j])
  BY <1>6, <1>10 DEF Follows
<1>12. ranked \in [1..n -> H] /\ \A i, j \in 1..n : i < j => PaidMore(fills, ranked[i], ranked[j])
  BY <1>11 DEF Ranked, Sorted, H
<1>13. Follows(ranked, R, n)
  BY <1>6, <1>12 DEF Follows
<1>14. IsList(ranked, H)
  BY <1>7, <1>9, <1>12, <1>13, ListIs
<1>15. ASSUME NEW i \in 1..n, NEW j \in 1..n, i <= j
       PROVE  t[ranked[j]] <= t[ranked[i]]
  <2>1. t[ranked[i]] \in Nat /\ t[ranked[j]] \in Nat
    BY <1>12
  <2>2. i < j \/ i = j
    <3>1. i \in Int /\ j \in Int
      BY <1>8
    <3> QED BY <1>15, <3>1
  <2>3. CASE i = j
    BY <2>1, <2>3
  <2>4. CASE i < j
    <3>1. ranked[i] \in H /\ ranked[j] \in H
      BY <1>12
    <3>2. More(t, l, first, ranked[i], ranked[j])
      BY <1>5, <1>12, <2>4, <3>1
    <3> QED BY <2>1, <3>2 DEF More
  <2> QED BY <2>2, <2>3, <2>4
<1>16. \A i, j \in 1..n : i <= j => TimesPaid(fills, ranked[j]) <= TimesPaid(fills, ranked[i])
  BY <1>3, <1>12, <1>15
<1> QED BY <1>14, <1>16 DEF H

LEMMA UsualDoAgree ==
  ASSUME NEW fills, IsLog(fills)
  PROVE  UsualAgree(fills)
<1> DEFINE H == Habits(fills)
           n == Cardinality(H)
           t(c) == TimesPaid(fills, c)
<1>1. PICK ranked : ranked = Ranked(fills)
  OBVIOUS
<1>2. IsList(ranked, H) /\ \A i, j \in 1..n : i <= j => t(ranked[j]) <= t(ranked[i])
  BY <1>1, RankedIs
<1>3. n \in Nat /\ ranked \in [1..n -> H] /\ Len(ranked) = n
  BY <1>2 DEF IsList
<1>4. \A c \in H : t(c) \in Nat
  BY HabitsAre
<1>5. PICK k : k = Within(UsualLimit, n)
  OBVIOUS
<1>6. k \in Nat /\ k <= n /\ k <= UsualLimit /\ (k = n \/ k = UsualLimit)
  BY <1>3, <1>5, FuelLogAssumption DEF Within
<1>7. PICK usual : usual = UsualAmounts(fills)
  OBVIOUS
<1>8. usual = SubSeq(ranked, 1, k)
  BY <1>1, <1>3, <1>5, <1>7 DEF UsualAmounts, Ranked
<1>9. DOMAIN usual = 1..k /\ Len(usual) = k /\ \A i \in 1..k : usual[i] = ranked[i] /\ i \in 1..n
  BY <1>3, <1>6, <1>8
<1> HIDE DEF H, t
<1>10. \A i \in 1..k : usual[i] \in H
  BY <1>3, <1>9
<1>11. IsInjective(usual)
  BY <1>2, <1>9 DEF IsInjective, IsList
<1>12. Range(usual) \subseteq H
  BY <1>9, <1>10 DEF Range
<1>13. ASSUME NEW i \in DOMAIN usual, NEW j \in DOMAIN usual, i < j
       PROVE  t(usual[i]) >= t(usual[j])
  <2>1. i <= j /\ i \in 1..n /\ j \in 1..n /\ usual[i] = ranked[i] /\ usual[j] = ranked[j]
    BY <1>3, <1>9, <1>13
  <2>2. t(ranked[j]) <= t(ranked[i]) /\ t(ranked[j]) \in Nat /\ t(ranked[i]) \in Nat
    BY <1>2, <1>3, <1>4, <2>1
  <2> QED BY <2>1, <2>2
<1>14. ASSUME NEW cost \in H \ Range(usual)
       PROVE  Len(usual) = UsualLimit /\ \A i \in DOMAIN usual : t(usual[i]) >= t(cost)
  <2>1. PICK p \in 1..n : ranked[p] = cost
    BY <1>2 DEF IsList
  <2>2. p \notin 1..k
    BY <2>1, <1>9 DEF Range
  <2>3. k < p
    BY <1>3, <1>6, <2>2
  <2>4. ASSUME NEW i \in 1..k
        PROVE  t(usual[i]) >= t(cost)
    <3>1. i <= p /\ i \in 1..n
      BY <1>3, <1>6, <2>3
    <3>2. t(ranked[p]) <= t(ranked[i]) /\ t(ranked[p]) \in Nat /\ t(ranked[i]) \in Nat
      BY <1>2, <1>3, <1>4, <3>1
    <3> QED BY <1>9, <2>1, <3>2
  <2> QED BY <1>3, <1>6, <1>9, <2>3, <2>4
<1> QED BY <1>7, <1>11, <1>12, <1>13, <1>14 DEF UsualAgree, H, t

-----------------------------------------------------------------------------
(* The stations within reach. *)

LEMMA NearbyDoAgree ==
  ASSUME NEW fills, IsLog(fills)
  PROVE  NearbyAgree(fills)
<1> DEFINE M(name) == {f.pour.metres : f \in NearAt(fills, name)}
           entry(name) == [name |-> name, metres |-> Min({f.pour.metres : f \in NearAt(fills, name)})]
           before(p, q) == \/ p.metres < q.metres
                           \/ p.metres = q.metres /\ SeenBefore(NearAt(fills, p.name), NearAt(fills, q.name))
           near == {f \in fills : f.pour.station # NoStation /\ f.pour.near}
<1>1. PICK names : names = {name \in {f.pour.station : f \in fills} \ {NoStation} : NearAt(fills, name) # {}}
  OBVIOUS
<1>2. PICK S : S = {entry(name) : name \in names}
  OBVIOUS
<1>3. PICK nearby : nearby = NearbyStations(fills)
  OBVIOUS
<1>4. nearby = CHOOSE s \in [1..Cardinality(S) -> S] :
                 \A i, j \in 1..Cardinality(S) : i < j => before(s[i], s[j])
  BY <1>1, <1>2, <1>3 DEF NearbyStations, Sorted
<1>5. \A name \in names : /\ NearAt(fills, name) \in SUBSET fills /\ NearAt(fills, name) # {}
                          /\ Min(M(name)) \in M(name) /\ \A m \in M(name) : Min(M(name)) <= m
  <2>1. ASSUME NEW name \in names
        PROVE  /\ NearAt(fills, name) \in SUBSET fills /\ NearAt(fills, name) # {}
               /\ Min(M(name)) \in M(name) /\ \A m \in M(name) : Min(M(name)) <= m
    <3>1. NearAt(fills, name) \in SUBSET fills
      BY DEF NearAt
    <3>2. NearAt(fills, name) # {}
      BY <1>1
    <3>3. M(name) \in SUBSET Nat /\ M(name) # {}
      BY <3>1, <3>2, FillFigures
    <3> HIDE DEF M
    <3>4. \E m \in M(name) : \A x \in M(name) : m <= x
      BY <3>3, LeastNatural
    <3>5. Min(M(name)) \in M(name) /\ \A x \in M(name) : Min(M(name)) <= x
      BY <3>4 DEF Min
    <3> QED BY <3>1, <3>2, <3>5
  <2> QED BY <2>1
<1>6. \A name \in names : Min(M(name)) \in Nat
  BY <1>5, FillFigures
<1>7. \A p \in S : p.name \in names /\ p = entry(p.name) /\ p.metres = Min(M(p.name)) /\ p.metres \in Nat
  <2>1. ASSUME NEW p \in S
        PROVE  p.name \in names /\ p = entry(p.name) /\ p.metres = Min(M(p.name)) /\ p.metres \in Nat
    <3>1. PICK name \in names : p = entry(name)
      BY <1>2
    <3>2. p.name = name /\ p.metres = Min(M(name))
      BY <3>1
    <3> HIDE DEF entry, M
    <3> QED BY <1>6, <3>1, <3>2
  <2> QED BY <2>1
<1>8. \A p, q \in S : p.name = q.name => p = q
  BY <1>7
<1>9. IsFiniteSet(S)
  <2>1. IsFiniteSet(fills)
    BY DEF IsLog
  <2> DEFINE f == [x \in fills |-> x.pour.station]
             used == {f[x] : x \in fills}
  <2>2. IsFiniteSet(used)
    <3> HIDE DEF f
    <3> QED BY <2>1, ImageIsFinite
  <2>3. names \in SUBSET used
    BY <1>1
  <2>4. IsFiniteSet(names)
    <3> HIDE DEF used
    <3> QED BY <2>2, <2>3, FS_Subset
  <2> DEFINE e == [name \in names |-> entry(name)]
             T == {e[name] : name \in names}
  <2>5. IsFiniteSet(T)
    <3> HIDE DEF e
    <3> QED BY <2>4, ImageIsFinite
  <2>6. T = S
    BY <1>2
  <2> QED BY <2>5, <2>6
<1> DEFINE A == [name \in names |-> NearAt(fills, name)]
<1>10. PICK first : InTurn(first, A, names)
  <2>1. \A a \in names : A[a] \in SUBSET fills /\ A[a] # {}
    BY <1>5
  <2>2. \A a, b \in names : a # b => A[a] \cap A[b] = {}
    BY DEF NearAt
  <2> HIDE DEF A
  <2>3. NoneShared(A, names, fills)
    BY <2>1, <2>2 DEF NoneShared
  <2> QED BY <2>3, SeenInTurn
<1>11. \A a, b \in names : SeenBefore(NearAt(fills, a), NearAt(fills, b)) <=> first[a] < first[b]
  BY <1>10 DEF InTurn
<1>12. /\ \A a, b \in names : first[a] = first[b] => a = b
       /\ \A a \in names : first[a] \in Nat
  BY <1>10 DEF InTurn
<1> DEFINE R == {pq \in S \X S : before(pq[1], pq[2])}
           n == Cardinality(S)
           turn(p) == first[p.name]
           nearer(p, q) == p.metres < q.metres \/ (p.metres = q.metres /\ turn(p) < turn(q))
<1>13. \A p, q \in S : <<p, q>> \in R <=> before(p, q)
  OBVIOUS
<1>14. \A p, q \in S : before(p, q) <=> nearer(p, q)
  BY <1>7, <1>11
<1>15. \A p, q \in S : turn(p) = turn(q) => p = q
  BY <1>7, <1>8, <1>12
<1>16. \A p \in S : turn(p) \in Nat /\ p.metres \in Nat
  BY <1>7, <1>12
<1> HIDE DEF R, turn, before
<1>17. Orders(R, S)
  <2>1. \A p, q \in S : nearer(p, q) => ~nearer(q, p)
    BY <1>16
  <2>2. \A p, q \in S : p = q \/ nearer(p, q) \/ nearer(q, p)
    BY <1>15, <1>16
  <2>3. \A p, q, r \in S : nearer(p, q) /\ nearer(q, r) => nearer(p, r)
    BY <1>16
  <2>4. \A p, q \in S : <<p, q>> \in R <=> nearer(p, q)
    BY <1>13, <1>14
  <2> HIDE DEF nearer
  <2> QED BY <2>1, <2>2, <2>3, <2>4 DEF Orders
<1>18. PICK s \in [1..n -> S] : Follows(s, R, n)
  BY <1>9, <1>17, SortExists
<1>19. \A i, j \in 1..n : i < j => before(s[i], s[j])
  BY <1>13, <1>18 DEF Follows
<1>20. nearby \in [1..n -> S] /\ \A i, j \in 1..n : i < j => before(nearby[i], nearby[j])
  BY <1>4, <1>19
<1>21. IsList(nearby, S)
  <2>1. Follows(nearby, R, n)
    BY <1>13, <1>20 DEF Follows
  <2> QED BY <1>9, <1>17, <1>20, <2>1, ListIs
<1>22. n \in Nat /\ DOMAIN nearby = 1..n
  BY <1>20, <1>21 DEF IsList
<1>23. Range(nearby) = S
  BY <1>20, <1>21, <1>22 DEF IsList, Range
<1>24. ASSUME NEW i \in DOMAIN nearby, NEW j \in DOMAIN nearby, i < j
       PROVE  nearby[i].name # nearby[j].name /\ nearby[i].metres <= nearby[j].metres
  <2>1. i \in 1..n /\ j \in 1..n /\ i # j /\ nearby[i] \in S /\ nearby[j] \in S
    BY <1>20, <1>22, <1>24
  <2>2. nearby[i] # nearby[j]
    BY <1>21, <2>1 DEF IsList
  <2>3. nearer(nearby[i], nearby[j])
    BY <1>14, <1>20, <1>24, <2>1
  <2>4. nearby[i].metres \in Nat /\ nearby[j].metres \in Nat
    BY <1>16, <2>1
  <2>5. nearby[i].metres <= nearby[j].metres
    BY <2>3, <2>4
  <2> QED BY <1>8, <2>1, <2>2, <2>5
<1>25. ASSUME NEW p \in S
       PROVE  \E f \in near : f.pour.station = p.name /\ f.pour.metres = p.metres
  <2>1. p.name \in names /\ p.metres \in M(p.name)
    BY <1>5, <1>7
  <2>2. PICK f \in NearAt(fills, p.name) : f.pour.metres = p.metres
    BY <2>1
  <2>3. f \in fills /\ f.pour.station = p.name /\ f.pour.near
    BY <2>2 DEF NearAt
  <2>4. p.name # NoStation
    BY <1>1, <2>1
  <2> QED BY <2>2, <2>3, <2>4
<1>26. ASSUME NEW f \in near
       PROVE  \E p \in S : p.name = f.pour.station /\ p.metres <= f.pour.metres
  <2>1. f \in NearAt(fills, f.pour.station)
    BY DEF NearAt
  <2>2. f.pour.station \in names
    BY <1>1, <2>1
  <2>3. PICK p \in S : p = entry(f.pour.station)
    BY <1>2, <2>2
  <2>4. f.pour.metres \in M(f.pour.station)
    BY <2>1
  <2>5. Min(M(f.pour.station)) <= f.pour.metres
    BY <1>5, <2>2, <2>4
  <2>6. p.name = f.pour.station /\ p.metres = Min(M(f.pour.station))
    BY <2>3
  <2> QED BY <2>5, <2>6
<1> QED BY <1>3, <1>23, <1>24, <1>25, <1>26 DEF NearbyAgree

-----------------------------------------------------------------------------
(* Every step keeps a log, and every log agrees with what was logged. *)

\* The desk shows a log.
LogInv == desk = [kind |-> "log", fills |-> desk.fills] /\ IsLog(desk.fills)

\* A vehicle's log holds finitely many fills, each the only one of its id: what
\* PutFill and RemoveFill keep, and all that the figures rest on.
THEOREM LogStaysWhole == FuelLogSpec => []LogInv
<1>1. FuelLogInit => LogInv
  <2>1. ASSUME FuelLogInit
        PROVE  LogInv
    <3>1. desk = [kind |-> "log", fills |-> {}] /\ desk.fills = {}
      BY <2>1 DEF FuelLogInit
    <3>2. IsLog({})
      BY FS_EmptySet DEF IsLog
    <3> QED BY <3>1, <3>2 DEF LogInv
  <2> QED BY <2>1
<1>2. LogInv /\ [FuelLogNext]_desk => LogInv'
  <2> SUFFICES ASSUME LogInv, [FuelLogNext]_desk
               PROVE  LogInv'
    OBVIOUS
  <2>0. IsLog(desk.fills) /\ desk = [kind |-> "log", fills |-> desk.fills]
    BY DEF LogInv
  <2>1. ASSUME NEW id \in FillIds, NEW at \in FillDays, NEW km \in Mileages,
               NEW full \in BOOLEAN, NEW missed \in BOOLEAN, NEW pour \in Pours,
               PutFill([id |-> id, at |-> at, km |-> km, full |-> full, missed |-> missed, pour |-> pour])
        PROVE  LogInv'
    <3> DEFINE fill == [id |-> id, at |-> at, km |-> km, full |-> full, missed |-> missed, pour |-> pour]
    <3>1. fill \in AnyFill /\ fill.id = id
      BY DEF AnyFill
    <3>2. desk' = [desk EXCEPT !.fills = Kept(id) \cup {fill}]
      BY <2>1, <3>1 DEF PutFill
    <3> HIDE DEF fill
    <3>3. Kept(id) \in SUBSET desk.fills /\ \A f \in Kept(id) : f.id # id
      BY DEF Kept
    <3>4. IsFiniteSet(Kept(id) \cup {fill})
      <4>1. IsFiniteSet(Kept(id))
        BY <2>0, <3>3, FS_Subset DEF IsLog
      <4> QED BY <4>1, FS_AddElement
    <3>5. IsLog(Kept(id) \cup {fill})
      BY <2>0, <3>1, <3>3, <3>4 DEF IsLog
    <3>6. desk' = [kind |-> "log", fills |-> Kept(id) \cup {fill}]
      BY <2>0, <3>2
    <3>7. desk'.fills = Kept(id) \cup {fill}
      BY <3>6
    <3> QED BY <3>5, <3>6, <3>7 DEF LogInv
  <2>2. ASSUME NEW fill \in desk.fills, RemoveFill(fill)
        PROVE  LogInv'
    <3>1. desk' = [kind |-> "log", fills |-> desk.fills \ {fill}]
      BY <2>0, <2>2 DEF RemoveFill
    <3>2. IsLog(desk.fills \ {fill})
      BY <2>0, FS_RemoveElement DEF IsLog
    <3>3. desk'.fills = desk.fills \ {fill}
      BY <3>1
    <3> QED BY <3>1, <3>2, <3>3 DEF LogInv
  <2>3. CASE UNCHANGED desk
    BY <2>0, <2>3 DEF LogInv
  <2> QED BY <2>1, <2>2, <2>3 DEF FuelLogNext
<1> QED BY <1>1, <1>2, PTL DEF FuelLogSpec

\* However fills are logged, late, corrected and removed: consumption is stated
\* for exactly the stretches between two full tanks with no gap between them,
\* over every litre poured in and no other; a period's figures add up; and the
\* form suggests what was really used.
THEOREM LogDoesAgree == FuelLogSpec => []LogAgrees
<1>1. LogInv => LogAgrees
  BY WindowsDoAgree, SummaryDoesAddUp, RecentDoAgree, UsualDoAgree, NearbyDoAgree DEF LogInv, LogAgrees
<1> QED BY <1>1, LogStaysWhole, PTL
=============================================================================
