------------------------------- MODULE Ledger -------------------------------
(***************************************************************************)
(* The cost ledger of one vehicle: expenses entered by hand, fills and     *)
(* services.  A fill is three rows (the entry, its expense and its         *)
(* odometer reading), a paid service likewise, a free service two; they    *)
(* are written, changed and removed in one transaction.                    *)
(*                                                                         *)
(* An edit or a removal locks the record's own row and reads it, then      *)
(* takes the vehicle's row lock if a reading moves.  A record is created   *)
(* under the vehicle's lock if it carries a reading.  Deleting the vehicle *)
(* locks it first and the records after, the other way round.              *)
(*                                                                         *)
(* The module implements Odometer, which it instantiates.                  *)
(***************************************************************************)
EXTENDS Timeline, FiniteSets

CONSTANTS
  Tx, NoTx,
  Expense,  \* expenses entered by hand
  Fill,     \* fuel entries
  Service,  \* maintenance records
  NoSource, NoEntry,
  Time, MaxOdometerKm,
  MaxCost,
  NoKm,     \* an expense without a mileage
  NoRow,    \* the row is not there
  MaxReadings  \* bound: readings ever inserted

Record  == Expense \cup Fill \cup Service
Derived == Fill \cup Service
Km      == 0..MaxOdometerKm

\* The figures of a record: its date, mileage and total cost.  A price or a
\* split that contradicts the total is refused before anything is written.
Figures(r) ==
  [at : Time, km : IF r \in Expense THEN Km \cup {NoKm} ELSE Km,
   cost : IF r \in Service THEN 0..MaxCost ELSE 1..MaxCost]
AnyFigures == UNION {Figures(r) : r \in Record}

ASSUME LedgerAssumption ==
  /\ Expense \cap Fill = {} /\ Expense \cap Service = {} /\ Fill \cap Service = {}
  /\ Time \subseteq Int
  /\ MaxOdometerKm \in Nat /\ MaxCost \in Nat /\ MaxReadings \in Nat
  /\ IsFiniteSet(Tx) /\ NoTx \notin Tx
  /\ NoKm \notin Km
  /\ NoRow \notin AnyFigures
  /\ NoSource \notin Record
  /\ NoEntry \notin [at : Time, km : Km, src : Record \cup {NoSource}]

VARIABLES
  vehicle, readings, currentOdometerKm, inserted, lock,  \* as in Odometer
  record,    \* the fuel_entries, maintenance_records and manual expenses rows
  ledger,    \* the expenses row of each fill and service
  pc,
  job,       \* what each transaction does, and the row it read
  headline   \* the figure each transaction is about to write

rows == <<readings, currentOdometerKm, inserted, record, ledger>>
vars == <<vehicle, readings, currentOdometerKm, inserted, lock, record, ledger, pc, job,
          headline>>

Kind == {"none", "create", "update", "remove", "delete vehicle"}
NoJob == [kind |-> "none", rec |-> NoSource, old |-> NoRow, new |-> NoRow]

TypeOK ==
  /\ vehicle \in {"absent", "present"}
  /\ readings \subseteq [at : Time, km : Km, seq : 0..MaxReadings, src : Record]
  /\ currentOdometerKm \in Km
  /\ inserted \in 0..MaxReadings
  /\ lock \in Tx \cup {NoTx}
  /\ \A r \in Record : record[r] \in Figures(r) \cup {NoRow}
  /\ \A r \in Derived : ledger[r] \in Figures(r) \cup {NoRow}
  /\ pc \in [Tx -> {"idle", "waiting", "locked", "ready"}]
  /\ job \in [Tx -> [kind : Kind, rec : Record \cup {NoSource}, old : AnyFigures \cup {NoRow},
                     new : AnyFigures \cup {NoRow}]]
  /\ headline \in [Tx -> Km]

Init ==
  /\ vehicle = "absent"
  /\ readings = {}
  /\ currentOdometerKm = 0
  /\ inserted = 0
  /\ lock = NoTx
  /\ record = [r \in Record |-> NoRow]
  /\ ledger = [r \in Derived |-> NoRow]
  /\ pc = [t \in Tx |-> "idle"]
  /\ job = [t \in Tx |-> NoJob]
  /\ headline = [t \in Tx |-> 0]

-----------------------------------------------------------------------------
(* What a job needs. *)

KmOf(fig) == IF fig = NoRow THEN NoKm ELSE fig.km

\* The reading moves when the mileage does, or the date under a mileage.
ReadingMoves(old, new) ==
  IF KmOf(old) = KmOf(new) THEN KmOf(new) # NoKm /\ old.at # new.at ELSE TRUE

MovesReading(j) == j.kind \in {"create", "update", "remove"} /\ ReadingMoves(j.old, j.new)
Withdraws(j)    == MovesReading(j) /\ KmOf(j.old) # NoKm
Puts(j)         == MovesReading(j) /\ KmOf(j.new) # NoKm

\* An expense row goes in: with a new expense, fill or paid service, and when a
\* free service becomes a paid one.
Paid(fig)         == fig # NoRow /\ fig.cost > 0
InsertsExpense(j) == Paid(j.new) /\ ~Paid(j.old)

\* The record's row is locked from the moment the job has read it.
HoldsRow(t, r) == pc[t] # "idle" /\ job[t].rec = r /\ job[t].kind \in {"update", "remove"}
RowFree(r)     == \A t \in Tx : ~HoldsRow(t, r)

-----------------------------------------------------------------------------
(* The readings of a job, as OdometerService writes them. *)

Remaining(t) == IF Withdraws(job[t]) THEN DeleteBySource(readings, job[t].rec) ELSE readings

Rederived(t) == IF Remaining(t) = readings THEN currentOdometerKm
                ELSE HighestOdometer(Remaining(t))

NewHeadline(t) ==
  IF Puts(job[t]) THEN NextCurrentOdometer(Rederived(t), job[t].new.km) ELSE Rederived(t)

Conflicts(t) ==
  Puts(job[t]) /\ TimelineConflict(Remaining(t), job[t].new.at, job[t].new.km)

\* Bound: as in Odometer.
RoomFor(j) ==
  Puts(j) => inserted + Cardinality({t \in Tx : Puts(job[t])}) < MaxReadings

-----------------------------------------------------------------------------
\* Mutant: the row stays locked after the transaction.
EndHolding(t) ==
  /\ pc' = [pc EXCEPT ![t] = "idle"]
  /\ job' = [job EXCEPT ![t] = NoJob]
  /\ headline' = [headline EXCEPT ![t] = 0]
  /\ lock' = lock

\* The transaction ends and gives up what it holds.
End(t) ==
  /\ pc' = [pc EXCEPT ![t] = "idle"]
  /\ job' = [job EXCEPT ![t] = NoJob]
  /\ headline' = [headline EXCEPT ![t] = 0]
  /\ lock' = IF lock = t THEN NoTx ELSE lock

CreateVehicle ==
  /\ vehicle = "absent"
  /\ \A t \in Tx : pc[t] = "idle"
  /\ vehicle' = "present"
  /\ UNCHANGED <<rows, lock, pc, job, headline>>

\* A job that moves a reading, or deletes the vehicle, wants the vehicle's lock.
Begin(t, j) ==
  /\ vehicle = "present"
  /\ pc[t] = "idle"
  /\ RoomFor(j)
  /\ job' = [job EXCEPT ![t] = j]
  /\ pc' = [pc EXCEPT ![t] =
              IF MovesReading(j) \/ j.kind = "delete vehicle" THEN "waiting" ELSE "ready"]
  /\ UNCHANGED <<vehicle, rows, lock, headline>>

\* create of the three services; an id is new, so nobody else is creating it.
Create(t, r, fig) ==
  /\ record[r] = NoRow
  /\ \A u \in Tx : job[u].rec # r
  /\ Begin(t, [kind |-> "create", rec |-> r, old |-> NoRow, new |-> fig])

\* Mutant: the row is read without FOR UPDATE.
UpdateUnlocked(t, r, fig) ==
  /\ record[r] # NoRow
  /\ Begin(t, [kind |-> "update", rec |-> r, old |-> record[r], new |-> fig])

\* update: lock and read the row, and merge the changes into what it holds.
Update(t, r, fig) ==
  /\ record[r] # NoRow
  /\ RowFree(r)
  /\ Begin(t, [kind |-> "update", rec |-> r, old |-> record[r], new |-> fig])

Remove(t, r) ==
  /\ record[r] # NoRow
  /\ RowFree(r)
  /\ Begin(t, [kind |-> "remove", rec |-> r, old |-> record[r], new |-> NoRow])

DeleteVehicle(t) == Begin(t, [NoJob EXCEPT !.kind = "delete vehicle"])

LockVehicle(t) ==
  /\ pc[t] = "waiting"
  /\ vehicle = "present"
  /\ lock = NoTx
  /\ lock' = t
  /\ pc' = [pc EXCEPT ![t] = IF job[t].kind = "delete vehicle" THEN "ready" ELSE "locked"]
  /\ UNCHANGED <<vehicle, rows, job, headline>>

\* The vehicle went while t waited: an insert fails its foreign key.
VehicleGone(t) ==
  /\ pc[t] \in {"waiting", "ready"}
  /\ vehicle = "absent"
  /\ End(t)
  /\ UNCHANGED <<vehicle, rows>>

\* Mutant: an edit is not checked against its neighbours, only a new record is.
MoveUnchecked(t) ==
  /\ pc[t] = "locked"
  /\ job[t].kind = "create" => ~Conflicts(t)
  /\ pc' = [pc EXCEPT ![t] = "ready"]
  /\ headline' = [headline EXCEPT ![t] = NewHeadline(t)]
  /\ UNCHANGED <<vehicle, rows, lock, job>>

\* removeForSource and recordIn, as far as the figures they will write.
MoveReading(t) ==
  /\ pc[t] = "locked"
  /\ ~Conflicts(t)
  /\ pc' = [pc EXCEPT ![t] = "ready"]
  /\ headline' = [headline EXCEPT ![t] = NewHeadline(t)]
  /\ UNCHANGED <<vehicle, rows, lock, job>>

\* 400, and the record goes with its reading.
Reject(t) ==
  /\ pc[t] = "locked"
  /\ Conflicts(t)
  /\ End(t)
  /\ UNCHANGED <<vehicle, rows>>

\* 409: a service with receipts cannot become free.
RefuseFree(t) ==
  /\ pc[t] = "ready"
  /\ job[t].rec \in Service
  /\ job[t].kind = "update"
  /\ Paid(job[t].old) /\ ~Paid(job[t].new)
  /\ End(t)
  /\ UNCHANGED <<vehicle, rows>>

\* Mutant: the ledger follows the record only when its cost changed.
SettledOnCost(t) ==
  LET r == job[t].rec IN
  IF r \notin Derived THEN ledger
  ELSE IF Paid(job[t].old) /\ Paid(job[t].new) /\ job[t].old.cost = job[t].new.cost THEN ledger
  ELSE [ledger EXCEPT ![r] = IF Paid(job[t].new) THEN job[t].new ELSE NoRow]

\* settleExpense, and what create and remove do to the ledger: paid stays paid
\* with the new figures, paid becomes free, free becomes paid.
Settled(t) ==
  LET r == job[t].rec IN
  IF r \notin Derived THEN ledger
  ELSE [ledger EXCEPT ![r] = IF Paid(job[t].new) THEN job[t].new ELSE NoRow]

OwnReading(t) == [at |-> job[t].new.at, km |-> job[t].new.km, seq |-> inserted,
                  src |-> job[t].rec]

\* The timeline t leaves behind.
NewReadings(t) == Remaining(t) \cup (IF Puts(job[t]) THEN {OwnReading(t)} ELSE {})

\* Everything the transaction wrote becomes visible at once.  An expense it
\* inserts shares the vehicle's row, so it waits for whoever has locked that.
Commit(t) ==
  /\ pc[t] = "ready"
  /\ job[t].kind # "delete vehicle"
  /\ InsertsExpense(job[t]) => vehicle = "present" /\ lock \in {t, NoTx}
  /\ record' = [record EXCEPT ![job[t].rec] = job[t].new]
  /\ ledger' = Settled(t)
  /\ IF MovesReading(job[t])
       THEN /\ readings' = NewReadings(t)
            /\ inserted' = inserted + (IF Puts(job[t]) THEN 1 ELSE 0)
            /\ currentOdometerKm' = headline[t]
       ELSE UNCHANGED <<readings, inserted, currentOdometerKm>>
  /\ End(t)
  /\ UNCHANGED vehicle

\* The cascade waits for every record another transaction has locked.
CommitDeletion(t) ==
  /\ pc[t] = "ready"
  /\ job[t].kind = "delete vehicle"
  /\ \A r \in Record : RowFree(r)
  /\ vehicle' = "absent"
  /\ record' = [r \in Record |-> NoRow]
  /\ ledger' = [r \in Derived |-> NoRow]
  /\ readings' = {}
  /\ currentOdometerKm' = 0
  /\ End(t)
  /\ UNCHANGED inserted

\* The deletion d holds the vehicle and waits for a record; t holds that record
\* and waits for the vehicle.
Deadlocked(t, d) ==
  /\ lock = d /\ job[d].kind = "delete vehicle"
  /\ \E r \in Record : HoldsRow(t, r)
  /\ \/ pc[t] = "waiting"
     \/ pc[t] = "ready" /\ InsertsExpense(job[t])

\* Postgres aborts one of the two.
AbortDeadlock(t) ==
  /\ \E u \in Tx : Deadlocked(t, u) \/ Deadlocked(u, t)
  /\ End(t)
  /\ UNCHANGED <<vehicle, rows>>

\* The process or the connection dies.
Crash(t) ==
  /\ pc[t] # "idle"
  /\ End(t)
  /\ UNCHANGED <<vehicle, rows>>

-----------------------------------------------------------------------------
Step(t) ==
  \/ LockVehicle(t)
  \/ VehicleGone(t)
  \/ MoveReading(t)
  \/ Reject(t)
  \/ RefuseFree(t)
  \/ Commit(t)
  \/ CommitDeletion(t)
  \/ AbortDeadlock(t)

Next ==
  \/ CreateVehicle
  \/ \E t \in Tx, r \in Record :
       \/ \E fig \in Figures(r) : Create(t, r, fig) \/ Update(t, r, fig)
       \/ Remove(t, r)
  \/ \E t \in Tx : DeleteVehicle(t) \/ Step(t) \/ Crash(t)

Spec == Init /\ [][Next]_vars

\* As in Odometer, for whatever waits on a lock: the vehicle's, the share an
\* insert takes of it, the records a deletion cascades to.  A wait that is a
\* cycle ends by deadlock_timeout.
FairSpec == /\ Spec
            /\ \A t \in Tx : /\ SF_vars(LockVehicle(t))
                           /\ SF_vars(Commit(t) \/ CommitDeletion(t))
                           /\ WF_vars(Step(t))

-----------------------------------------------------------------------------
(* What the code promises. *)

\* A fill or a service costs what its expense says, is filed on the same date at
\* the same mileage, and is counted once; a free service has no expense, and no
\* expense outlives its record (FuelService, MaintenanceService.settleExpense).
LedgerMirrorsRecords ==
  \A r \in Derived : ledger[r] = IF Paid(record[r]) THEN record[r] ELSE NoRow

\* A record with a mileage has exactly one reading, where the record says; any
\* other record has none (recordReading and removeForSource, across all edits).
OneReadingPerRecord ==
  \A r \in Record :
    LET own == {q \in readings : q.src = r}
    IN IF KmOf(record[r]) = NoKm THEN own = {}
       ELSE \E q \in own : own = {q} /\ q.at = record[r].at /\ q.km = record[r].km

\* Every request ends, from whatever step it has reached, those caught in a
\* cycle of locks included.  (vehicles.repository.ts: lockForUpdate)
EveryRequestEnds == \A t \in Tx : pc[t] # "idle" ~> pc[t] = "idle"

\* A job as OdometerService sees it: the transactions that move a reading.
WriterLock == IF lock # NoTx /\ job[lock].kind = "delete vehicle" THEN NoTx ELSE lock
WriterPc ==
  [t \in Tx |-> IF ~MovesReading(job[t]) THEN "idle"
                ELSE IF pc[t] = "ready" THEN "prepared" ELSE pc[t]]
PlanOf(j) ==
  [withdraw |-> IF Withdraws(j) THEN j.rec ELSE NoSource,
   put |-> IF Puts(j) THEN [at |-> j.new.at, km |-> j.new.km, src |-> j.rec] ELSE NoEntry]

Mileage == INSTANCE Odometer WITH
  Source    <- Record,
  lock      <- WriterLock,
  pc        <- WriterPc,
  plan      <- [t \in Tx |-> PlanOf(job[t])],
  seed      <- [at |-> 0, km |-> 0],
  seedState <- "none"

\* Whatever the three services do to the timeline is what OdometerService
\* promises: each job is a withdrawal, a recording or a move.
ImplementsOdometer == Mileage!Spec
=============================================================================
