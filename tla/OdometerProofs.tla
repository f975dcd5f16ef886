--------------------------- MODULE OdometerProofs ---------------------------
(***************************************************************************)
(* For every set of transactions, records and moments: the timeline of     *)
(* Odometer never contradicts itself and its headline is its highest       *)
(* reading.  The lemmas about Timeline come first, then the inductive      *)
(* invariant IInv, then the theorems.                                      *)
(***************************************************************************)
EXTENDS Odometer, TLAPS, WellFoundedInduction

\* A non-empty set of naturals has a least element.
LEMMA LeastNatural ==
  ASSUME NEW S \in SUBSET Nat, S # {}
  PROVE  \E m \in S : \A n \in S : m <= n
<1>1. PICK m \in S : \A n \in S : <<n, m>> \notin OpToRel(<, Nat)
  BY NatLessThanWellFounded, WFMin
<1>2. \A n \in S : ~(n < m)
  BY <1>1 DEF OpToRel
<1>3. \A n \in S : m <= n
  BY ONLY <1>2, S \in SUBSET Nat, m \in S
<1> QED BY <1>3

\* So has a non-empty set whose elements are measured by naturals.
LEMMA LeastMeasure ==
  ASSUME NEW S, S # {}, NEW f \in [S -> Nat]
  PROVE  \E m \in S : \A n \in S : f[m] <= f[n]
<1> DEFINE V == {f[n] : n \in S}
<1>1. V \in SUBSET Nat /\ V # {}
  OBVIOUS
<1>2. PICK v \in V : \A w \in V : v <= w
  BY <1>1, LeastNatural
<1>3. PICK m \in S : f[m] = v
  OBVIOUS
<1> QED BY <1>2, <1>3

\* The readings of one timeline were inserted one after the other.
Ordered(R, n) ==
  /\ \A r \in R : r.seq < n
  /\ \A p, q \in R : p.seq = q.seq => p = q

\* findFirst finds the newest reading at or before a moment if there is one.
LEMMA PreviousExists ==
  ASSUME NEW R \in SUBSET Reading, NEW at \in Time, NEW n \in Nat, Ordered(R, n),
         NEW r \in R, r.at <= at
  PROVE  \E p \in PreviousReading(R, at) : r = p \/ Before(r, p)
<1> DEFINE C == {q \in R : q.at <= at}
<1>1. at \in Int /\ \A q \in R : q.at \in Int /\ q.seq \in Nat /\ q.seq < n
  BY OdometerAssumption DEF Reading, Ordered
<1>2. PICK q \in C : \A x \in C : x.at <= q.at
  <2> DEFINE age == [x \in C |-> at - x.at]
  <2>1. C # {} /\ age \in [C -> Nat]
    BY <1>1
  <2>2. PICK q \in C : \A x \in C : age[q] <= age[x]
    BY <2>1, LeastMeasure
  <2>3. \A x \in C : at - q.at <= at - x.at
    BY <2>2
  <2>4. \A x \in C : x.at <= q.at
    BY <2>3, <1>1
  <2> QED BY <2>4
<1> DEFINE D == {x \in C : x.at = q.at}
<1>3. PICK p \in D : \A x \in D : x.seq <= p.seq
  <2> DEFINE gap == [x \in D |-> n - x.seq]
  <2>1. D # {} /\ gap \in [D -> Nat]
    BY <1>1
  <2>2. PICK p \in D : \A x \in D : gap[p] <= gap[x]
    BY <2>1, LeastMeasure
  <2>3. \A x \in D : n - p.seq <= n - x.seq
    BY <2>2
  <2>4. \A x \in D : x.seq <= p.seq
    BY <2>3, <1>1
  <2> QED BY <2>4
<1>4. p \in PreviousReading(R, at)
  BY <1>1, <1>2, <1>3 DEF PreviousReading, Before
<1>5. r = p \/ Before(r, p)
  BY <1>1, <1>2, <1>3 DEF Ordered, Before
<1> QED BY <1>4, <1>5

\* findFirst finds the oldest reading after a moment if there is one.
LEMMA NextExists ==
  ASSUME NEW R \in SUBSET Reading, NEW at \in Time, NEW n \in Nat, Ordered(R, n),
         NEW r \in R, r.at > at
  PROVE  \E p \in NextReading(R, at) : r = p \/ Before(p, r)
<1> DEFINE C == {q \in R : q.at > at}
<1>1. at \in Int /\ \A q \in R : q.at \in Int /\ q.seq \in Nat
  BY OdometerAssumption DEF Reading
<1>2. PICK q \in C : \A x \in C : q.at <= x.at
  <2> DEFINE lead == [x \in C |-> x.at - at]
  <2>1. C # {} /\ lead \in [C -> Nat]
    BY <1>1
  <2>2. PICK q \in C : \A x \in C : lead[q] <= lead[x]
    BY <2>1, LeastMeasure
  <2>3. \A x \in C : q.at - at <= x.at - at
    BY <2>2
  <2>4. \A x \in C : q.at <= x.at
    BY <2>3, <1>1
  <2> QED BY <2>4
<1> DEFINE D == {x \in C : x.at = q.at}
<1>3. PICK p \in D : \A x \in D : p.seq <= x.seq
  <2> DEFINE rank == [x \in D |-> x.seq]
  <2>1. D # {} /\ rank \in [D -> Nat]
    BY <1>1
  <2>2. PICK p \in D : \A x \in D : rank[p] <= rank[x]
    BY <2>1, LeastMeasure
  <2> QED BY <2>2
<1>4. p \in NextReading(R, at)
  BY <1>1, <1>2, <1>3 DEF NextReading, Before
<1>5. r = p \/ Before(p, r)
  BY <1>1, <1>2, <1>3 DEF Ordered, Before
<1> QED BY <1>4, <1>5

\* Comparing a reading with its two neighbours is enough: accepted, and
\* inserted last, it leaves the whole timeline monotone.
LEMMA AcceptedReadingFits ==
  ASSUME NEW R \in SUBSET Reading, NEW n \in Nat, Ordered(R, n), Monotone(R),
         NEW x \in Reading, x.seq = n, ~TimelineConflict(R, x.at, x.km)
  PROVE  Monotone(R \cup {x})
<1>0. ASSUME NEW q \in Reading PROVE q.at \in Time /\ q.at \in Int /\ q.seq \in Nat /\ q.km \in Int
  <2>1. q.at \in Time /\ q.seq \in Nat /\ q.km \in Km
    BY DEF Reading
  <2>2. q.at \in Int
    BY <2>1, OdometerAssumption
  <2>3. q.km \in Int
    BY <2>1 DEF Km
  <2> QED BY <2>1, <2>2, <2>3
<1>1. x.at \in Time /\ \A q \in R \cup {x} : q.at \in Int /\ q.seq \in Nat /\ q.km \in Int
  BY <1>0
<1>2. ASSUME NEW r \in R, Before(r, x) PROVE r.km <= x.km
  <2>1. r.at <= x.at
    BY <1>1, <1>2 DEF Before
  <2>2. PICK p \in PreviousReading(R, x.at) : r = p \/ Before(r, p)
    BY <1>1, <2>1, PreviousExists
  <2>3. p \in R /\ ~(x.km < p.km)
    BY <2>2 DEF TimelineConflict, PreviousReading
  <2>4. r.km <= p.km
    BY <2>2, <2>3, <1>1 DEF Monotone
  <2> QED BY <2>3, <2>4, <1>1
<1>3. ASSUME NEW r \in R, Before(x, r) PROVE x.km <= r.km
  <2>1. r.at > x.at
    BY <1>1, <1>3 DEF Before, Ordered
  <2>2. PICK p \in NextReading(R, x.at) : r = p \/ Before(p, r)
    BY <1>1, <2>1, NextExists
  <2>3. p \in R /\ ~(x.km > p.km)
    BY <2>2 DEF TimelineConflict, NextReading
  <2>4. p.km <= r.km
    BY <2>2, <2>3, <1>1 DEF Monotone
  <2> QED BY <2>3, <2>4, <1>1
<1>4. ~Before(x, x)
  BY <1>1 DEF Before
<1> QED BY <1>1, <1>2, <1>3, <1>4 DEF Monotone

\* The highest reading exists and is one of the readings.
LEMMA HighestIsMaximum ==
  ASSUME NEW R \in SUBSET Reading
  PROVE  /\ R # {} => /\ HighestOdometer(R) \in {r.km : r \in R}
                      /\ \A r \in R : r.km <= HighestOdometer(R)
         /\ R = {} => HighestOdometer(R) = 0
         /\ HighestOdometer(R) \in Km
<1> USE OdometerAssumption
<1>1. \A r \in R : r.km \in Km
  BY DEF Reading
<1>2. CASE R = {}
  BY <1>2 DEF HighestOdometer, Km
<1>3. CASE R # {}
  <2> DEFINE room == [r \in R |-> MaxOdometerKm - r.km]
  <2>1. room \in [R -> Nat]
    BY <1>1 DEF Km
  <2>2. PICK m \in R : \A r \in R : room[m] <= room[r]
    BY <2>1, <1>3, LeastMeasure
  <2>3. \A r \in R : r.km <= m.km
    BY <2>2, <1>1 DEF Km
  <2>4. /\ HighestOdometer(R) \in {r.km : r \in R}
        /\ \A r \in R : r.km <= HighestOdometer(R)
    BY <2>3, <1>3 DEF HighestOdometer
  <2> QED BY <2>4, <1>1, <1>3
<1> QED BY <1>2, <1>3

\* Raising the headline by a new reading is the same as deriving it again.
LEMMA HighestOfOneMore ==
  ASSUME NEW R \in SUBSET Reading, NEW x \in Reading
  PROVE  HighestOdometer(R \cup {x}) = NextCurrentOdometer(HighestOdometer(R), x.km)
<1> USE OdometerAssumption
<1> DEFINE Q == R \cup {x}
<1>1. Q \in SUBSET Reading /\ Q # {} /\ \A r \in Q : r.km \in Km
  BY DEF Reading
<1>2. HighestOdometer(Q) \in {r.km : r \in Q} /\ \A r \in Q : r.km <= HighestOdometer(Q)
  BY <1>1, HighestIsMaximum
<1>3. CASE R = {}
  BY <1>1, <1>2, <1>3 DEF HighestOdometer, NextCurrentOdometer, Km
<1>4. CASE R # {}
  <2>1. HighestOdometer(R) \in {r.km : r \in R} /\ \A r \in R : r.km <= HighestOdometer(R)
    BY <1>4, HighestIsMaximum
  <2> QED BY <1>1, <1>2, <2>1 DEF NextCurrentOdometer, Km
<1> QED BY <1>3, <1>4

-----------------------------------------------------------------------------
(* The inductive invariant. *)

\* A transaction that has looked at the timeline still sees what it saw: the
\* lock kept everybody else out.
ViewHolds ==
  \A t \in Tx : pc[t] = "prepared" => ~Conflicts(t) /\ headline[t] = NewHeadline(t)

LockHeld ==
  /\ \A t \in Tx : pc[t] \in {"locked", "prepared"} <=> lock = t
  /\ \A t \in Tx : pc[t] # "idle" => plan[t] \in Plan
  /\ lock # NoTx => vehicle = "present"

\* A vehicle that is gone has nothing; one whose seed nobody overtook has
\* its starting mileage as headline and an empty timeline.
FreshVehicle ==
  /\ vehicle = "absent" => readings = {} /\ currentOdometerKm = 0
  /\ SeedPending => seed \in [at : Time, km : Km]
  /\ seedState = "pending" => readings = {}
  /\ seedState = "pending" /\ vehicle = "present" => currentOdometerKm = seed.km

IInv ==
  /\ TypeOK
  /\ Ordered(readings, inserted)
  /\ LockHeld
  /\ ViewHolds
  /\ FreshVehicle
  /\ TimelineMonotone
  /\ HeadlineIsHighest

\* What is left after a withdrawal is a timeline like the one before.
LEMMA RemainingIsTimeline ==
  ASSUME NEW t \in Tx, readings \subseteq Reading, Ordered(readings, inserted)
  PROVE  /\ Remaining(t) \subseteq readings
         /\ Remaining(t) \subseteq Reading
         /\ Ordered(Remaining(t), inserted)
         /\ Monotone(readings) => Monotone(Remaining(t))
<1>1. Remaining(t) \subseteq readings
  BY DEF Remaining, DeleteBySource
<1> QED BY <1>1 DEF Ordered, Monotone

\* The headline a transaction computes is a mileage the column can hold, and
\* the highest of what it leaves when the headline was right before.
LEMMA NewHeadlineIsHighest ==
  ASSUME NEW t \in Tx, TypeOK, Ordered(readings, inserted), plan[t] \in Plan
  PROVE  /\ NewHeadline(t) \in Km
         /\ currentOdometerKm = HighestOdometer(readings) =>
              /\ plan[t].put = NoEntry => NewHeadline(t) = HighestOdometer(Remaining(t))
              /\ plan[t].put # NoEntry =>
                   \A x \in Reading : x.km = plan[t].put.km =>
                     NewHeadline(t) = HighestOdometer(Remaining(t) \cup {x})
<1>1. Remaining(t) \subseteq Reading
  BY RemainingIsTimeline DEF TypeOK
<1>2. Rederived(t) \in Km
  BY <1>1, HighestIsMaximum DEF Rederived, TypeOK
<1>3. plan[t].put # NoEntry => plan[t].put.km \in Km
  BY DEF Plan, Recordings, Withdrawals, Moves, Entry
<1>4. NewHeadline(t) \in Km
  BY <1>2, <1>3 DEF NewHeadline, NextCurrentOdometer
<1>5. ASSUME currentOdometerKm = HighestOdometer(readings)
      PROVE  Rederived(t) = HighestOdometer(Remaining(t))
  BY <1>5 DEF Rederived
<1> QED BY <1>1, <1>4, <1>5, HighestOfOneMore DEF NewHeadline

-----------------------------------------------------------------------------
(* Every action preserves the inductive invariant. *)

\* A vehicle that does not exist yet satisfies it.
LEMMA InitEstablishes == Init => IInv
<1> SUFFICES ASSUME Init PROVE IInv
  OBVIOUS
<1> USE OdometerAssumption
<1>1. TypeOK
  BY DEF Init, TypeOK, Km, SeedStates
<1>2. Ordered(readings, inserted) /\ Monotone(readings)
  BY DEF Init, Ordered, Monotone
<1>3. LockHeld
  BY DEF Init, LockHeld
<1>4. ViewHolds
  BY DEF Init, ViewHolds
<1>5. FreshVehicle
  BY DEF Init, FreshVehicle, SeedPending
<1>6. HeadlineIsHighest
  BY DEF Init, HeadlineIsHighest, HighestOdometer
<1> QED BY <1>1, <1>2, <1>3, <1>4, <1>5, <1>6 DEF IInv, TimelineMonotone

\* What happens to the vehicle leaves every transaction's view intact.
LEMMA VehicleSteps ==
  ASSUME IInv,
         \/ CreateVehicle
         \/ \E at \in Time, km \in Km : CreateVehicleWithMileage(at, km)
         \/ Seed
         \/ LoseSeed
         \/ DeleteVehicle
  PROVE  IInv'
<1> USE OdometerAssumption DEF IInv
<1>1. CASE CreateVehicle
  <2>1. TypeOK'
    BY <1>1 DEF CreateVehicle, TypeOK, SeedStates
  <2>2. readings = {} /\ currentOdometerKm = 0
    BY <1>1 DEF CreateVehicle, FreshVehicle
  <2>3. LockHeld' /\ ViewHolds' /\ FreshVehicle'
    BY <1>1 DEF CreateVehicle, LockHeld, ViewHolds, FreshVehicle, SeedPending
  <2>4. HeadlineIsHighest' /\ TimelineMonotone' /\ Ordered(readings, inserted)'
    BY <1>1, <2>2 DEF CreateVehicle, HeadlineIsHighest, HighestOdometer, TimelineMonotone,
                      Monotone, Ordered
  <2> QED BY <2>1, <2>3, <2>4
<1>2. ASSUME NEW at \in Time, NEW km \in Km, CreateVehicleWithMileage(at, km)
      PROVE  IInv'
  <2>1. TypeOK'
    BY <1>2 DEF CreateVehicleWithMileage, TypeOK, SeedStates
  <2>2. readings = {} /\ readings' = {}
    BY <1>2 DEF CreateVehicleWithMileage, FreshVehicle
  <2>3. LockHeld' /\ ViewHolds'
    BY <1>2 DEF CreateVehicleWithMileage, LockHeld, ViewHolds
  <2>4. FreshVehicle'
    BY <1>2, <2>2 DEF CreateVehicleWithMileage, FreshVehicle, SeedPending
  <2>5. HeadlineIsHighest' /\ TimelineMonotone' /\ Ordered(readings, inserted)'
    BY <1>2, <2>2 DEF CreateVehicleWithMileage, HeadlineIsHighest, TimelineMonotone,
                      Monotone, Ordered
  <2> QED BY <2>1, <2>3, <2>4, <2>5
<1>3. CASE Seed
  <2> DEFINE x == [at |-> seed.at, km |-> seed.km, seq |-> inserted, src |-> NoSource]
  <2>1. x \in Reading /\ inserted \in Nat
    BY <1>3 DEF Seed, FreshVehicle, Reading, TypeOK
  <2>2. readings' = readings \cup {x} /\ inserted' = inserted + 1
    BY <1>3 DEF Seed
  <2>3. TypeOK'
    BY <1>3, <2>1, <2>2 DEF Seed, TypeOK, SeedStates
  <2>4. Ordered(readings, inserted)'
    <3>1. \A r \in readings : r.seq \in Nat /\ r.seq < inserted
      BY DEF TypeOK, Reading, Ordered
    <3> QED BY <2>1, <2>2, <3>1 DEF Ordered
  <2>5. LockHeld' /\ ViewHolds' /\ FreshVehicle'
    BY <1>3 DEF Seed, LockHeld, ViewHolds, FreshVehicle, SeedPending
  <2>6. TimelineMonotone' /\ HeadlineIsHighest'
    <3>1. CASE seedState = "pending"
      <4>1. readings = {} /\ currentOdometerKm' = x.km /\ readings' = {x}
        BY <1>3, <3>1, <2>2 DEF Seed, FreshVehicle
      <4>2. Monotone({x}) /\ HighestOdometer({x}) = x.km
        BY <2>1 DEF Monotone, HighestOdometer, Reading, Km
      <4> QED BY <4>1, <4>2 DEF TimelineMonotone, HeadlineIsHighest
    <3>2. CASE seedState = "overtaken"
      BY <1>3, <3>2 DEF Seed, TimelineMonotone, HeadlineIsHighest
    <3> QED BY <1>3, <3>1, <3>2 DEF Seed, SeedPending
  <2> QED BY <2>3, <2>4, <2>5, <2>6
<1>4. CASE LoseSeed
  <2>1. TypeOK'
    BY <1>4 DEF LoseSeed, TypeOK, SeedStates
  <2>2. LockHeld' /\ FreshVehicle'
    BY <1>4 DEF LoseSeed, LockHeld, FreshVehicle, SeedPending
  <2>3. ViewHolds'
    BY <1>4 DEF LoseSeed, ViewHolds, Conflicts, NewHeadline, Remaining, Rederived
  <2>4. HeadlineIsHighest' /\ TimelineMonotone' /\ Ordered(readings, inserted)'
    BY <1>4 DEF LoseSeed, HeadlineIsHighest, TimelineMonotone, Ordered, SeedPending
  <2> QED BY <2>1, <2>2, <2>3, <2>4
<1>5. CASE DeleteVehicle
  <2>1. TypeOK'
    BY <1>5 DEF DeleteVehicle, TypeOK, Km
  <2>2. LockHeld' /\ ViewHolds' /\ FreshVehicle'
    BY <1>5 DEF DeleteVehicle, LockHeld, ViewHolds, FreshVehicle, SeedPending
  <2>3. HeadlineIsHighest' /\ TimelineMonotone' /\ Ordered(readings, inserted)'
    BY <1>5 DEF DeleteVehicle, HeadlineIsHighest, HighestOdometer, TimelineMonotone,
                Monotone, Ordered
  <2> QED BY <2>1, <2>2, <2>3
<1> QED BY <1>1, <1>2, <1>3, <1>4, <1>5

\* While the timeline, the headline and the plans stand still, so does what
\* each transaction would do to them.
LEMMA SameTimelineSameView ==
  ASSUME UNCHANGED <<readings, currentOdometerKm>>, NEW t \in Tx, plan'[t] = plan[t]
  PROVE  (Conflicts(t)' <=> Conflicts(t)) /\ NewHeadline(t)' = NewHeadline(t)
BY DEF Conflicts, NewHeadline, Remaining, Rederived

\* Ending a transaction, committed or not, frees the row and nothing else.
LEMMA EndKeepsLocks ==
  ASSUME TypeOK, LockHeld, NEW t \in Tx, End(t), vehicle' = vehicle,
         pc[t] \in {"locked", "prepared"} \/ lock # t
  PROVE  /\ LockHeld'
         /\ pc' \in [Tx -> {"idle", "waiting", "locked", "prepared"}]
         /\ plan' \in [Tx -> Plan \cup {IdlePlan}]
         /\ lock' \in Tx \cup {NoTx}
         /\ headline' \in [Tx -> Km]
         /\ \A u \in Tx : pc'[u] = "prepared" =>
              u # t /\ pc[u] = "prepared" /\ plan'[u] = plan[u] /\ headline'[u] = headline[u]
<1> USE OdometerAssumption DEF TypeOK
<1>1. LockHeld'
  BY DEF End, LockHeld
<1>2. headline' \in [Tx -> Km]
  BY DEF End, Km
<1> QED BY <1>1, <1>2 DEF End

\* A transaction that ends without committing leaves no trace.
LEMMA RollbackSteps ==
  ASSUME IInv, NEW t \in Tx, VehicleGone(t) \/ Reject(t) \/ Crash(t)
  PROVE  IInv'
<1> USE OdometerAssumption DEF IInv
<1>1. /\ End(t)
      /\ UNCHANGED <<vehicle, readings, currentOdometerKm, inserted, seed, seedState>>
      /\ pc[t] \in {"locked", "prepared"} \/ lock # t
  BY DEF VehicleGone, Reject, Crash, LockHeld, TypeOK
<1>2. /\ LockHeld'
      /\ \A u \in Tx : pc'[u] = "prepared" =>
           pc[u] = "prepared" /\ plan'[u] = plan[u] /\ headline'[u] = headline[u]
  BY <1>1, EndKeepsLocks
<1>3. TypeOK'
  BY <1>1, EndKeepsLocks DEF TypeOK
<1>4. ViewHolds'
  BY <1>1, <1>2, SameTimelineSameView DEF ViewHolds
<1>5. FreshVehicle' /\ HeadlineIsHighest' /\ TimelineMonotone' /\ Ordered(readings, inserted)'
  BY <1>1 DEF FreshVehicle, HeadlineIsHighest, TimelineMonotone, Ordered, SeedPending
<1> QED BY <1>2, <1>3, <1>4, <1>5

\* Up to its commit a transaction changes only its own state and the lock.
LEMMA ForwardSteps ==
  ASSUME IInv, NEW t \in Tx,
         (\E p \in Plan : BeginWrite(t, p)) \/ LockVehicle(t) \/ Prepare(t)
  PROVE  IInv'
<1> USE OdometerAssumption DEF IInv
<1>1. UNCHANGED <<vehicle, readings, currentOdometerKm, inserted, seed, seedState>>
  BY DEF BeginWrite, LockVehicle, Prepare
<1>2. FreshVehicle' /\ HeadlineIsHighest' /\ TimelineMonotone' /\ Ordered(readings, inserted)'
  BY <1>1 DEF FreshVehicle, HeadlineIsHighest, TimelineMonotone, Ordered, SeedPending
<1>3. ASSUME NEW p \in Plan, BeginWrite(t, p) PROVE IInv'
  <2>1. TypeOK' /\ LockHeld'
    BY <1>1, <1>3 DEF BeginWrite, TypeOK, LockHeld
  <2>2. \A u \in Tx : pc'[u] = "prepared" =>
          pc[u] = "prepared" /\ plan'[u] = plan[u] /\ headline'[u] = headline[u]
    BY <1>3 DEF BeginWrite, TypeOK
  <2>3. ViewHolds'
    BY <1>1, <2>2, SameTimelineSameView DEF ViewHolds
  <2> QED BY <1>2, <2>1, <2>3
<1>4. CASE LockVehicle(t)
  <2>1. TypeOK' /\ LockHeld'
    BY <1>1, <1>4 DEF LockVehicle, TypeOK, LockHeld
  <2>2. \A u \in Tx : pc'[u] = "prepared" =>
          pc[u] = "prepared" /\ plan'[u] = plan[u] /\ headline'[u] = headline[u]
    BY <1>4 DEF LockVehicle, TypeOK
  <2>3. ViewHolds'
    BY <1>1, <2>2, SameTimelineSameView DEF ViewHolds
  <2> QED BY <1>2, <2>1, <2>3
<1>5. CASE Prepare(t)
  <2>1. plan[t] \in Plan
    BY <1>5 DEF Prepare, LockHeld
  <2>2. NewHeadline(t) \in Km
    BY <2>1, NewHeadlineIsHighest
  <2>3. TypeOK' /\ LockHeld'
    BY <1>1, <1>5, <2>2 DEF Prepare, TypeOK, LockHeld
  <2>4. \A u \in Tx : plan'[u] = plan[u]
    BY <1>5 DEF Prepare
  <2>5. ASSUME NEW u \in Tx, pc'[u] = "prepared"
        PROVE  ~Conflicts(u) /\ headline'[u] = NewHeadline(u)
    BY <1>5, <2>5 DEF Prepare, TypeOK, ViewHolds
  <2>6. ViewHolds'
    BY <1>1, <2>4, <2>5, SameTimelineSameView DEF ViewHolds
  <2> QED BY <1>2, <2>3, <2>6
<1> QED BY <1>3, <1>4, <1>5

\* A commit puts its reading where its neighbours allow it, and writes the
\* headline of the timeline it leaves.
LEMMA CommitStep ==
  ASSUME IInv, NEW t \in Tx, Commit(t)
  PROVE  IInv'
<1> USE OdometerAssumption DEF IInv
<1> DEFINE R == Remaining(t)
           x == [at |-> plan[t].put.at, km |-> plan[t].put.km,
                 seq |-> inserted, src |-> plan[t].put.src]
<1>1. /\ pc[t] = "prepared" /\ lock = t /\ plan[t] \in Plan /\ vehicle = "present"
      /\ ~Conflicts(t) /\ headline[t] = NewHeadline(t)
  BY DEF Commit, LockHeld, ViewHolds
<1>2. /\ End(t) /\ vehicle' = vehicle /\ seed' = seed
      /\ currentOdometerKm' = NewHeadline(t)
      /\ seedState' = IF seedState = "pending" THEN "overtaken" ELSE seedState
  BY <1>1 DEF Commit
<1>3. /\ R \subseteq Reading
      /\ Ordered(R, inserted)
      /\ Monotone(readings) => Monotone(R)
  BY RemainingIsTimeline DEF TypeOK
<1>4. LockHeld' /\ ViewHolds'
  <2>1. \A u \in Tx : pc[u] = "prepared" => u = t
    BY <1>1 DEF LockHeld
  <2> QED BY <1>1, <1>2, <2>1, EndKeepsLocks DEF ViewHolds
<1>5. FreshVehicle'
  BY <1>1, <1>2 DEF FreshVehicle, SeedPending
<1>6. NewHeadline(t) \in Km /\ inserted \in Nat
  BY <1>1, NewHeadlineIsHighest DEF TypeOK
<1>7. readings' \subseteq Reading /\ inserted' \in Nat => TypeOK'
  BY <1>1, <1>2, <1>6, EndKeepsLocks DEF TypeOK, SeedStates
<1>8. CASE plan[t].put = NoEntry
  <2>1. readings' = R /\ inserted' = inserted
    BY <1>8 DEF Commit
  <2>2. TypeOK' /\ Ordered(readings, inserted)'
    BY <1>3, <1>6, <1>7, <2>1
  <2>3. TimelineMonotone'
    BY <1>2, <1>3, <2>1 DEF TimelineMonotone
  <2>4. HeadlineIsHighest'
    BY <1>1, <1>2, <1>8, <2>1, NewHeadlineIsHighest DEF HeadlineIsHighest
  <2> QED BY <1>4, <1>5, <2>2, <2>3, <2>4
<1>9. CASE plan[t].put # NoEntry
  <2>1. readings' = R \cup {x} /\ inserted' = inserted + 1
    BY <1>9 DEF Commit
  <2>2. x \in Reading /\ x.seq = inserted /\ x.at = plan[t].put.at /\ x.km = plan[t].put.km
    BY <1>1, <1>6, <1>9 DEF Plan, Recordings, Withdrawals, Moves, Entry, Reading
  <2>3. TypeOK'
    BY <1>3, <1>6, <1>7, <2>1, <2>2
  <2>4. Ordered(readings, inserted)'
    <3>1. \A r \in R : r.seq \in Nat /\ r.seq < inserted
      BY <1>3 DEF Reading, Ordered
    <3> QED BY <1>3, <1>6, <2>1, <2>2, <3>1 DEF Ordered
  <2>5. ~TimelineConflict(R, x.at, x.km)
    BY <1>1, <1>9, <2>2 DEF Conflicts
  <2>6. Monotone(R) => Monotone(R \cup {x})
    BY <1>3, <1>6, <2>2, <2>5, AcceptedReadingFits
  <2>7. TimelineMonotone'
    BY <1>2, <1>3, <2>1, <2>6 DEF TimelineMonotone
  <2>8. HeadlineIsHighest'
    BY <1>1, <1>2, <1>9, <2>1, <2>2, NewHeadlineIsHighest DEF HeadlineIsHighest
  <2> QED BY <1>4, <1>5, <2>3, <2>4, <2>7, <2>8
<1> QED BY <1>8, <1>9

\* A step that changes nothing preserves everything.
LEMMA Stuttering == ASSUME IInv, UNCHANGED vars PROVE IInv'
BY DEF vars, IInv, TypeOK, Ordered, LockHeld, ViewHolds, FreshVehicle, SeedPending,
       TimelineMonotone, HeadlineIsHighest, Conflicts, NewHeadline, Remaining, Rederived

\* IInv holds in every reachable state: recordIn, removeForSource, seed, the
\* deletion and every rollback preserve it, whatever they interleave with.
THEOREM IInvIsInductive == Spec => []IInv
<1>1. IInv /\ [Next]_vars => IInv'
  BY VehicleSteps, RollbackSteps, ForwardSteps, CommitStep, Stuttering DEF Next, Step
<1> QED BY InitEstablishes, <1>1, PTL DEF Spec

-----------------------------------------------------------------------------
\* OdometerService keeps to the types of its tables.
THEOREM TypeCorrect == Spec => []TypeOK
BY IInvIsInductive, PTL DEF IInv

\* The timeline never contradicts itself, for any number of concurrent writers,
\* unless a starting mileage landed behind another write.
THEOREM TimelineNeverContradicts == Spec => []TimelineMonotone
BY IInvIsInductive, PTL DEF IInv

\* currentOdometerKm is the highest committed reading at every moment.
THEOREM HeadlineAgrees == Spec => []HeadlineIsHighest
BY IInvIsInductive, PTL DEF IInv

\* A backdated reading does not drag the headline down: a commit that withdraws
\* nothing starts from the headline there is.
LEMMA CommitDoesNotDrag ==
  ASSUME IInv, NEW t \in Tx, Commit(t), \A r \in readings : r \in readings'
  PROVE  currentOdometerKm' >= currentOdometerKm
<1>1. /\ plan[t] \in Plan /\ currentOdometerKm' = NewHeadline(t)
      /\ currentOdometerKm \in Km /\ TypeOK /\ Ordered(readings, inserted)
  BY DEF Commit, IInv, LockHeld, ViewHolds, TypeOK
<1>2. Remaining(t) = readings
  <2>1. Remaining(t) \subseteq readings
    BY <1>1, RemainingIsTimeline DEF TypeOK
  <2>2. \A r \in readings : r.seq # inserted
    BY <1>1 DEF Ordered, TypeOK, Reading
  <2>3. \A r \in readings : r \in Remaining(t)
    BY <2>2 DEF Commit
  <2> QED BY <2>1, <2>3
<1>3. Rederived(t) = currentOdometerKm
  BY <1>2 DEF Rederived
<1>4. plan[t].put # NoEntry => plan[t].put.km \in Nat
  BY <1>1, OdometerAssumption DEF Plan, Recordings, Withdrawals, Moves, Entry, Km
<1> QED BY <1>1, <1>3, <1>4, OdometerAssumption DEF NewHeadline, NextCurrentOdometer, Km

\* currentOdometerKm falls only when a reading is withdrawn, or with its vehicle.
THEOREM HeadlineDoesNotSag == Spec => HeadlineFallsOnlyByWithdrawal
<1>1. IInv /\ [Next]_vars => [FallsByWithdrawal]_vars
  <2> SUFFICES ASSUME IInv, Next, currentOdometerKm' < currentOdometerKm,
                      \A r \in readings : r \in readings', vehicle' # "absent"
               PROVE  FALSE
    BY DEF FallsByWithdrawal
  <2>1. currentOdometerKm \in Nat
    BY OdometerAssumption DEF IInv, TypeOK, Km
  <2>2. currentOdometerKm' # currentOdometerKm
    BY <2>1
  <2>3. ASSUME NEW at \in Time, NEW km \in Km, CreateVehicleWithMileage(at, km) PROVE FALSE
    <3>1. currentOdometerKm = 0 /\ currentOdometerKm' = km /\ km \in Nat
      BY <2>3, OdometerAssumption DEF CreateVehicleWithMileage, IInv, FreshVehicle, Km
    <3> QED BY <3>1
  <2>4. ASSUME NEW t \in Tx, Commit(t) PROVE FALSE
    <3>1. currentOdometerKm' >= currentOdometerKm /\ currentOdometerKm' \in Nat
      <4>1. NewHeadline(t) \in Km /\ currentOdometerKm' = NewHeadline(t)
        <5>1. plan[t] \in Plan /\ headline[t] = NewHeadline(t)
          BY <2>4 DEF Commit, IInv, LockHeld, ViewHolds
        <5> QED BY <2>4, <5>1, NewHeadlineIsHighest DEF Commit, IInv
      <4> QED BY <2>4, <4>1, CommitDoesNotDrag, OdometerAssumption DEF Km
    <3> QED BY <2>1, <3>1
  <2>5. CASE DeleteVehicle
    BY <2>5 DEF DeleteVehicle
  <2> QED BY <2>2, <2>3, <2>4, <2>5
          DEF Next, Step, CreateVehicle, Seed, LoseSeed, BeginWrite, LockVehicle, VehicleGone,
              Prepare, Reject, Crash
<1> QED BY <1>1, IInvIsInductive, PTL DEF Spec, HeadlineFallsOnlyByWithdrawal

=============================================================================
