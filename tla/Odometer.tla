------------------------------ MODULE Odometer ------------------------------
(***************************************************************************)
(* OdometerService: the one place mileage is written, for one vehicle.     *)
(*                                                                         *)
(* Manual readings, expenses, fuel entries and maintenance records write   *)
(* through transactions that take the vehicle row's lock (FOR UPDATE),     *)
(* look at the neighbours, and commit the reading together with the        *)
(* denormalised currentOdometerKm.  A transaction's work is invisible      *)
(* until it commits and leaves nothing behind when it rolls back.  The     *)
(* starting mileage is the exception: it is inserted after the vehicle     *)
(* has committed, in a statement of its own.                               *)
(*                                                                         *)
(* Vehicles share no reading, no headline and no lock, so the module       *)
(* follows one vehicle at a time.                                          *)
(***************************************************************************)
EXTENDS Timeline, FiniteSets

CONSTANTS
  Tx,             \* concurrent transactions
  NoTx,           \* nobody holds the lock
  Source,         \* records that produce readings: expenses, fills, services
  NoSource,       \* the source of a reading entered by hand
  Time,           \* the moments a reading can claim
  MaxOdometerKm,  \* the highest mileage the API accepts
  NoEntry,        \* a transaction that only withdraws
  MaxReadings     \* bound: readings ever inserted

Km == 0..MaxOdometerKm
Entry == [at : Time, km : Km, src : Source \cup {NoSource}]

ASSUME OdometerAssumption ==
  /\ Time \subseteq Int
  /\ MaxOdometerKm \in Nat
  /\ MaxReadings \in Nat
  /\ NoTx \notin Tx
  /\ NoSource \notin Source
  /\ NoEntry \notin Entry

\* What a transaction does to the timeline: record a reading, withdraw those
\* of a source, or both when a record's mileage or date moves.
Recordings  == [withdraw : {NoSource}, put : Entry]
Withdrawals == [withdraw : Source, put : {NoEntry}]
Moves       == {p \in [withdraw : Source, put : Entry] : p.put.src = p.withdraw}
Plan        == Recordings \cup Withdrawals \cup Moves

Reading == [at : Time, km : Km, seq : Nat, src : Source \cup {NoSource}]

VARIABLES
  vehicle,            \* "absent" or "present"
  readings,           \* committed odometer_readings of the vehicle
  currentOdometerKm,  \* vehicles.currentOdometerKm
  inserted,           \* readings inserted so far: what createdAt tells, if the
                      \* writers' clocks agree and no two share a millisecond
  lock,               \* the transaction holding the vehicle row FOR UPDATE
  pc,                 \* where each transaction is
  plan,               \* what each transaction came to do
  headline,           \* the figure each transaction is about to write
  seed,               \* the starting mileage still to be inserted
  seedState           \* history: what became of it

vars == <<vehicle, readings, currentOdometerKm, inserted, lock, pc, plan,
          headline, seed, seedState>>

\* "overtaken": another write committed while the seed was still pending;
\* "late": the seed landed after that; "lost": the process died first.
SeedStates == {"none", "pending", "overtaken", "landed", "late", "lost"}

IdlePlan == [withdraw |-> NoSource, put |-> NoEntry]
NoSeed   == [at |-> 0, km |-> 0]

TypeOK ==
  /\ vehicle \in {"absent", "present"}
  /\ readings \subseteq Reading
  /\ currentOdometerKm \in Km
  /\ inserted \in Nat
  /\ lock \in Tx \cup {NoTx}
  /\ pc \in [Tx -> {"idle", "waiting", "locked", "prepared"}]
  /\ plan \in [Tx -> Plan \cup {IdlePlan}]
  /\ headline \in [Tx -> Km]
  /\ seed \in [at : Time, km : Km] \cup {NoSeed}
  /\ seedState \in SeedStates

Init ==
  /\ vehicle = "absent"
  /\ readings = {}
  /\ currentOdometerKm = 0
  /\ inserted = 0
  /\ lock = NoTx
  /\ pc = [t \in Tx |-> "idle"]
  /\ plan = [t \in Tx |-> IdlePlan]
  /\ headline = [t \in Tx |-> 0]
  /\ seed = NoSeed
  /\ seedState = "none"

-----------------------------------------------------------------------------
(* The vehicle and its starting mileage. *)

SeedPending == seedState \in {"pending", "overtaken"}

\* Bound: an insertion begins only when those under way leave it room.
RoomForOne ==
  inserted + Cardinality({t \in Tx : plan[t].put # NoEntry})
           + (IF SeedPending THEN 1 ELSE 0) < MaxReadings

\* createOwned without initialOdometerKm: the timeline starts empty.
CreateVehicle ==
  /\ vehicle = "absent"
  /\ ~SeedPending
  /\ \A t \in Tx : pc[t] = "idle"
  /\ vehicle' = "present"
  /\ seedState' = "none"
  /\ UNCHANGED <<readings, currentOdometerKm, inserted, lock, pc, plan, headline, seed>>

\* createOwned with a starting mileage.  The vehicle commits with the figure
\* as its headline; the reading is inserted by a later statement.
CreateVehicleWithMileage(at, km) ==
  /\ vehicle = "absent"
  /\ ~SeedPending
  /\ \A t \in Tx : pc[t] = "idle"
  /\ RoomForOne
  /\ vehicle' = "present"
  /\ currentOdometerKm' = km
  /\ seed' = [at |-> at, km |-> km]
  /\ seedState' = "pending"
  /\ UNCHANGED <<readings, inserted, lock, pc, plan, headline>>

\* The insert takes no lock of its own, but its foreign key has to share the
\* vehicle row: it waits for a FOR UPDATE holder, and fails on a deleted row.
Seed ==
  /\ SeedPending
  /\ vehicle = "present"
  /\ lock = NoTx
  /\ readings' = readings \cup
       {[at |-> seed.at, km |-> seed.km, seq |-> inserted, src |-> NoSource]}
  /\ inserted' = inserted + 1
  /\ seed' = NoSeed
  /\ seedState' = IF seedState = "pending" THEN "landed" ELSE "late"
  /\ UNCHANGED <<vehicle, currentOdometerKm, lock, pc, plan, headline>>

\* The process dies between the two statements, or the vehicle was deleted.
LoseSeed ==
  /\ SeedPending
  /\ seed' = NoSeed
  /\ seedState' = "lost"
  /\ UNCHANGED <<vehicle, readings, currentOdometerKm, inserted, lock, pc, plan, headline>>

\* deleteReturningDocumentKeys: locks the row and deletes it, and the
\* timeline cascades away with it.
DeleteVehicle ==
  /\ vehicle = "present"
  /\ lock = NoTx
  /\ vehicle' = "absent"
  /\ readings' = {}
  /\ currentOdometerKm' = 0
  /\ UNCHANGED <<inserted, lock, pc, plan, headline, seed, seedState>>

-----------------------------------------------------------------------------
(* A transaction that writes mileage. *)

\* The timeline as t sees it once it has withdrawn the readings it replaces.
Remaining(t) == IF plan[t].withdraw = NoSource THEN readings
                ELSE DeleteBySource(readings, plan[t].withdraw)

\* Mutant: the withdrawn reading's figure survives it.
RederivedNever(t) == currentOdometerKm

\* removeForSource re-derives the headline only if it removed something.
Rederived(t) == IF Remaining(t) = readings THEN currentOdometerKm
                ELSE HighestOdometer(Remaining(t))

\* The headline t will leave: the re-derived one, raised by its own reading.
NewHeadline(t) ==
  IF plan[t].put = NoEntry THEN Rederived(t)
  ELSE NextCurrentOdometer(Rederived(t), plan[t].put.km)

Conflicts(t) ==
  /\ plan[t].put # NoEntry
  /\ TimelineConflict(Remaining(t), plan[t].put.at, plan[t].put.km)

\* The transaction ends and gives up what it holds.
End(t) ==
  /\ pc' = [pc EXCEPT ![t] = "idle"]
  /\ plan' = [plan EXCEPT ![t] = IdlePlan]
  /\ headline' = [headline EXCEPT ![t] = 0]
  /\ lock' = IF lock = t THEN NoTx ELSE lock

\* The guards let a request for this vehicle through.
BeginWrite(t, p) ==
  /\ vehicle = "present"
  /\ pc[t] = "idle"
  /\ p.put # NoEntry => RoomForOne
  /\ pc' = [pc EXCEPT ![t] = "waiting"]
  /\ plan' = [plan EXCEPT ![t] = p]
  /\ UNCHANGED <<vehicle, readings, currentOdometerKm, inserted, lock, headline,
                 seed, seedState>>

\* Mutant: a plain SELECT, which waits for nobody.
SelectVehicle(t) ==
  /\ pc[t] = "waiting"
  /\ vehicle = "present"
  /\ lock' = t
  /\ pc' = [pc EXCEPT ![t] = "locked"]
  /\ UNCHANGED <<vehicle, readings, currentOdometerKm, inserted, plan, headline,
                 seed, seedState>>

\* SELECT ... FOR UPDATE: everyone else on this vehicle waits at the door.
LockVehicle(t) ==
  /\ pc[t] = "waiting"
  /\ vehicle = "present"
  /\ lock = NoTx
  /\ lock' = t
  /\ pc' = [pc EXCEPT ![t] = "locked"]
  /\ UNCHANGED <<vehicle, readings, currentOdometerKm, inserted, plan, headline,
                 seed, seedState>>

\* The vehicle went while t waited: there is no row to lock, an insert fails
\* its foreign key, and a withdrawal finds nothing.
VehicleGone(t) ==
  /\ pc[t] = "waiting"
  /\ vehicle = "absent"
  /\ End(t)
  /\ UNCHANGED <<vehicle, readings, currentOdometerKm, inserted, seed, seedState>>

\* The queries the decision depends on: neighbours and headline.
Prepare(t) ==
  /\ pc[t] = "locked"
  /\ ~Conflicts(t)
  /\ pc' = [pc EXCEPT ![t] = "prepared"]
  /\ headline' = [headline EXCEPT ![t] = NewHeadline(t)]
  /\ UNCHANGED <<vehicle, readings, currentOdometerKm, inserted, lock, plan,
                 seed, seedState>>

\* 400: the reading contradicts a neighbour; the caller's record goes with it.
Reject(t) ==
  /\ pc[t] = "locked"
  /\ Conflicts(t)
  /\ End(t)
  /\ UNCHANGED <<vehicle, readings, currentOdometerKm, inserted, seed, seedState>>

\* The statements of the transaction take effect together.
Commit(t) ==
  /\ pc[t] = "prepared"
  /\ IF plan[t].put = NoEntry
       THEN /\ readings' = Remaining(t)
            /\ inserted' = inserted
       ELSE /\ readings' = Remaining(t) \cup
                 {[at |-> plan[t].put.at, km |-> plan[t].put.km,
                   seq |-> inserted, src |-> plan[t].put.src]}
            /\ inserted' = inserted + 1
  /\ currentOdometerKm' = headline[t]
  /\ seedState' = IF seedState = "pending" THEN "overtaken" ELSE seedState
  /\ End(t)
  /\ UNCHANGED <<vehicle, seed>>

\* The process or the connection dies: Postgres rolls the transaction back.
Crash(t) ==
  /\ pc[t] # "idle"
  /\ End(t)
  /\ UNCHANGED <<vehicle, readings, currentOdometerKm, inserted, seed, seedState>>

-----------------------------------------------------------------------------
Step(t) ==
  \/ LockVehicle(t)
  \/ VehicleGone(t)
  \/ Prepare(t)
  \/ Reject(t)
  \/ Commit(t)

Next ==
  \/ CreateVehicle
  \/ \E at \in Time, km \in Km : CreateVehicleWithMileage(at, km)
  \/ Seed
  \/ LoseSeed
  \/ DeleteVehicle
  \/ \E t \in Tx, p \in Plan : BeginWrite(t, p)
  \/ \E t \in Tx : Step(t)
  \/ \E t \in Tx : Crash(t)

Spec == Init /\ [][Next]_vars

-----------------------------------------------------------------------------
(* What the code promises. *)

\* The timeline never contradicts itself, whatever transactions interleave:
\* in the order every query uses, mileage only counts up.  The exception is a
\* starting mileage that landed after another write (recordIn checks the
\* neighbours under the lock; seed checks nothing).
TimelineMonotone == seedState # "late" => Monotone(readings)

\* The headline figure and the timeline cannot disagree: currentOdometerKm is
\* the highest committed reading, whoever wrote, withdrew or died in between
\* (recordIn and removeForSource update it in the reading's transaction).
HeadlineIsHighest ==
  seedState \in {"none", "landed"} => currentOdometerKm = HighestOdometer(readings)

\* A backdated reading must not drag the headline down: it falls only when the
\* highest reading is withdrawn, or with the vehicle itself.
FallsByWithdrawal ==
  currentOdometerKm' < currentOdometerKm => \/ \E r \in readings : r \notin readings'
                                            \/ vehicle' = "absent"
HeadlineFallsOnlyByWithdrawal == [][FallsByWithdrawal]_vars

=============================================================================
