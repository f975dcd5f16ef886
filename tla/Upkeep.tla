------------------------------- MODULE Upkeep -------------------------------
(***************************************************************************)
(* SchedulesService, RemindersService and DueSweepService over one car: a   *)
(* maintenance schedule with the services that count toward it, reminders  *)
(* that repeat, and the sweep that announces what falls due.               *)
(*                                                                         *)
(* Requests and the sweep interleave between their statements.  The car's  *)
(* mileage is the highest of its readings, as Odometer shows.  What becomes *)
(* of a notification is Outbox's.                                          *)
(***************************************************************************)
EXTENDS Due

CONSTANTS
  Req,         \* requests that complete or change a reminder, at once
  Reminder,    \* reminders, in the order they are made: a bound
  Service,     \* service records: a bound
  Km,          \* mileages
  Date,        \* the days that come, as dates
  Schedule,    \* the name of the schedule
  Terms,       \* intervals a schedule may have
  Notify,      \* the notice the schedule and the reminders give
  Bases,       \* what an owner remembers of the last service
  Dues,        \* what a reminder may be set to: a mileage, a date, a repeat
  MaxChanges,  \* bound: what people do
  NoReq, None

\* A row of reminders: the reminder it follows, if any, is after.
States      == {"PENDING", "COMPLETED", "deleted"}
Calendar    == [y : Int, m : Int, d : Int]
ReminderRow ==
  [state : States, km : Int \cup {Unset}, date : Calendar \cup {Unset},
   repeat : Int \cup {Unset}, after : Reminder \cup {Unset}]

ASSUME UpkeepAssumption ==
  /\ Reminder \subseteq Nat /\ Km \subseteq Nat /\ MaxChanges \in Nat
  /\ \A d \in Dues : /\ d.km \in Int \cup {Unset} /\ d.date \in Calendar \cup {Unset}
                     /\ d.repeat \in Int \cup {Unset}
  /\ Schedule \notin Reminder /\ Unset \notin Int /\ Unset \notin Calendar
  /\ NoReq \notin Req /\ None \notin Terms /\ None \notin ReminderRow

VARIABLES
  today,    \* the date in the owner's time zone
  driven,   \* the highest reading that is no service's
  schedule, \* maintenance_schedules: its terms, baseline and isActive
  service,  \* maintenance_records linked to the schedule, each with its reading
  reminder, \* reminders
  held,     \* the request whose transaction has locked a reminder's row
  req,      \* what each request is doing
  seen,     \* what the sweep of the car has read
  notices,  \* notifications, by their dedupeKey
  changes,  \* bound: changes so far
  steady,   \* history: nothing has changed since the sweep began
  swept     \* history: a sweep has ended, and nothing has changed since it began

car  == <<today, driven, schedule, service, reminder>>
upkeep == <<car, held, req, seen, notices, changes, steady, swept>>

Unswept == [pc |-> "idle"]
IdleReq == [pc |-> "idle"]
Reads   == {"mileage", "services"}

UpkeepTypeOK ==
  /\ today \in Date
  /\ driven \in Km
  /\ schedule \in {None} \cup [terms : Terms, base : Bases, active : BOOLEAN]
  /\ service \in [Service -> {None} \cup [km : Km, date : Date]]
  /\ reminder \in [Reminder -> {None} \cup ReminderRow]
  /\ held \in [Reminder -> Req \cup {NoReq}]
  /\ changes \in 0..MaxChanges
  /\ steady \in BOOLEAN /\ swept \in BOOLEAN

-----------------------------------------------------------------------------
Mileage == AtMost({driven} \cup {service[s].km : s \in {x \in Service : service[x] # None}})

Services ==
  {service[s] : s \in {x \in Service : service[x] # None}}
    \cup (IF schedule = None \/ schedule.base = Unset THEN {}
          ELSE {[km |-> schedule.base, date |-> Unset]})

PendingReminders == {r \in Reminder : reminder[r] # None /\ reminder[r].state = "PENDING"}
Unused           == {r \in Reminder : reminder[r] = None /\ \A q \in Reminder : q < r => reminder[q] # None}

Point(r) == [km |-> reminder[r].km, date |-> reminder[r].date]

\* What is due on the car now.
Standing ==
  {Says(Schedule, d) : d \in
     IF schedule = None \/ ~schedule.active THEN {}
     ELSE {DueState(schedule.terms, Notify, Services, Mileage, today)}}
  \cup {Says(r, DueAt(Point(r), Notify, Mileage, today)) : r \in PendingReminders}

\* Somebody changes something.
Change ==
  /\ changes < MaxChanges
  /\ changes' = changes + 1
  /\ steady' = FALSE
  /\ swept' = FALSE

-----------------------------------------------------------------------------
(* The car and its schedule. *)

Pass(d) ==
  /\ DayNumber(today) < DayNumber(d)
  /\ today' = d
  /\ steady' = FALSE
  /\ swept' = FALSE
  /\ UNCHANGED <<driven, schedule, service, reminder, held, req, seen, notices, changes>>

Drive(k) ==
  /\ k > Mileage
  /\ Change
  /\ driven' = k
  /\ UNCHANGED <<today, schedule, service, reminder, held, req, seen, notices>>

\* A record with its reading, linked to the schedule, in one transaction.
LogService(s) ==
  /\ schedule # None
  /\ service[s] = None
  /\ Change
  /\ service' = [service EXCEPT ![s] = [km |-> Mileage, date |-> today]]
  /\ UNCHANGED <<today, driven, schedule, reminder, held, req, seen, notices>>

DeleteService(s) ==
  /\ service[s] # None
  /\ Change
  /\ service' = [service EXCEPT ![s] = None]
  /\ UNCHANGED <<today, driven, schedule, reminder, held, req, seen, notices>>

CreateSchedule(t, base) ==
  /\ schedule = None
  /\ t.km # Unset \/ t.months # Unset
  /\ Change
  /\ schedule' = [terms |-> t, base |-> base, active |-> TRUE]
  /\ UNCHANGED <<today, driven, service, reminder, held, req, seen, notices>>

\* PATCH: its terms, its baseline, and whether it is paused.
UpdateSchedule(t, base, active) ==
  /\ schedule # None
  /\ t.km # Unset \/ t.months # Unset
  /\ [terms |-> t, base |-> base, active |-> active] # schedule
  /\ Change
  /\ schedule' = [terms |-> t, base |-> base, active |-> active]
  /\ UNCHANGED <<today, driven, service, reminder, held, req, seen, notices>>

\* The records stay, and count toward nothing: the foreign key is cleared.
DeleteSchedule ==
  /\ schedule # None
  /\ Change
  /\ schedule' = None
  /\ driven' = Mileage
  /\ service' = [s \in Service |-> None]
  /\ UNCHANGED <<today, reminder, held, req, seen, notices>>

-----------------------------------------------------------------------------
(* Reminders. *)

\* assertDuePoint.
Dueable(d) == (d.km # Unset \/ d.date # Unset) /\ (d.repeat # Unset => d.date # Unset)

NewReminder(d, after) ==
  [state |-> "PENDING", km |-> d.km, date |-> d.date, repeat |-> d.repeat, after |-> after]

CreateReminder(d) ==
  /\ Dueable(d)
  /\ Change
  /\ \E r \in Unused : reminder' = [reminder EXCEPT ![r] = NewReminder(d, Unset)]
  /\ UNCHANGED <<today, driven, schedule, service, held, req, seen, notices>>

There(r) == reminder[r] # None /\ reminder[r].state # "deleted"

\* Mutant: the row is read and not locked.
ReadReminder(q, r, what) ==
  /\ req[q].pc = "idle"
  /\ There(r)
  /\ req' = [req EXCEPT ![q] = [pc |-> what, of |-> r, row |-> reminder[r]]]
  /\ UNCHANGED <<car, held, seen, notices, changes, steady, swept>>

\* SELECT ... FOR UPDATE waits for the row; findInVehicle then reads it.
LockReminder(q, r, what) ==
  /\ req[q].pc = "idle"
  /\ There(r)
  /\ held[r] = NoReq
  /\ held' = [held EXCEPT ![r] = q]
  /\ req' = [req EXCEPT ![q] = [pc |-> what, of |-> r, row |-> reminder[r]]]
  /\ UNCHANGED <<car, seen, notices, changes, steady, swept>>

Release(q) ==
  /\ held' = [r \in Reminder |-> IF held[r] = q THEN NoReq ELSE held[r]]
  /\ req' = [req EXCEPT ![q] = IdleReq]

\* Completed already, or the transaction is given up.
Abandon(q) ==
  /\ req[q].pc # "idle"
  /\ Release(q)
  /\ UNCHANGED <<car, seen, notices, changes, steady, swept>>

NextDate(row) == AddMonths(row.date, row.repeat)

\* The completion and the next occurrence commit together.
CompleteReminder(q) ==
  /\ req[q].pc = "completing"
  /\ req[q].row.state = "PENDING"
  /\ Change
  /\ LET r == req[q].of
         done == [reminder EXCEPT ![r].state = "COMPLETED"]
     IN IF req[q].row.repeat = Unset
        THEN reminder' = done
        ELSE \E n \in Unused : reminder' =
               [done EXCEPT ![n] = NewReminder(
                 [km |-> Unset, date |-> NextDate(req[q].row), repeat |-> req[q].row.repeat], r)]
  /\ Release(q)
  /\ UNCHANGED <<today, driven, schedule, service, seen, notices>>

\* PATCH: the due point moves.
UpdateReminder(q, d) ==
  /\ req[q].pc = "updating"
  /\ Dueable(d)
  /\ Change
  /\ reminder' = [reminder EXCEPT ![req[q].of].km = d.km, ![req[q].of].date = d.date,
                                  ![req[q].of].repeat = d.repeat]
  /\ Release(q)
  /\ UNCHANGED <<today, driven, schedule, service, seen, notices>>

RemoveReminder(q) ==
  /\ req[q].pc = "removing"
  /\ Change
  /\ reminder' = [reminder EXCEPT ![req[q].of].state = "deleted"]
  /\ Release(q)
  /\ UNCHANGED <<today, driven, schedule, service, seen, notices>>

-----------------------------------------------------------------------------
(* The sweep of the car. *)

\* vehiclesToSweep finds an active schedule or a pending reminder; the rows of
\* both are listed.  Nothing relates the two tables.
SweepCar ==
  /\ seen = Unswept
  /\ (schedule # None /\ schedule.active) \/ PendingReminders # {}
  /\ seen' = [pc |-> "reading", left |-> Reads, today |-> today, schedule |-> schedule,
              reminders |-> {[of |-> r, point |-> Point(r)] : r \in PendingReminders},
              km |-> 0, services |-> {}]
  /\ steady' = TRUE
  /\ UNCHANGED <<car, held, req, notices, changes, swept>>

\* withDue sends both statements at once: either may be first.
ReadMileage ==
  /\ seen.pc = "reading"
  /\ "mileage" \in seen.left
  /\ seen' = [seen EXCEPT !.left = @ \ {"mileage"}, !.km = Mileage]
  /\ UNCHANGED <<car, held, req, notices, changes, steady, swept>>

ReadServices ==
  /\ seen.pc = "reading"
  /\ "services" \in seen.left
  /\ seen' = [seen EXCEPT !.left = @ \ {"services"},
                          !.services = IF seen.schedule = None THEN {} ELSE Services]
  /\ UNCHANGED <<car, held, req, notices, changes, steady, swept>>

\* The alerts of what was read.
Alerts ==
  {Says(Schedule, d) : d \in
     IF seen.schedule = None \/ ~seen.schedule.active THEN {}
     ELSE {DueState(seen.schedule.terms, Notify, seen.services, seen.km, seen.today)}}
  \cup {Says(x.of, DueAt(x.point, Notify, seen.km, seen.today)) :
          x \in seen.reminders}

\* INSERT ... ON CONFLICT DO NOTHING on the dedupeKey.
Deliver ==
  /\ seen.pc = "reading"
  /\ seen.left = {}
  /\ notices' = notices \cup
       {[key |-> DedupeKey(a), says |-> a] : a \in {x \in Alerts :
          Alerting(x.status) /\ \A n \in notices : n.key # DedupeKey(x)}}
  /\ seen' = Unswept
  /\ swept' = steady
  /\ UNCHANGED <<car, held, req, changes, steady>>

-----------------------------------------------------------------------------
UpkeepInit ==
  /\ today \in {d \in Date : \A e \in Date : DayNumber(d) <= DayNumber(e)}
  /\ driven \in {k \in Km : \A l \in Km : k <= l}
  /\ schedule = None
  /\ service = [s \in Service |-> None]
  /\ reminder = [r \in Reminder |-> None]
  /\ held = [r \in Reminder |-> NoReq]
  /\ req = [q \in Req |-> IdleReq]
  /\ seen = Unswept
  /\ notices = {}
  /\ changes = 0
  /\ steady = FALSE
  /\ swept = FALSE

UpkeepNext ==
  \/ \E d \in Date : Pass(d)
  \/ \E k \in Km : Drive(k)
  \/ \E s \in Service : LogService(s) \/ DeleteService(s)
  \/ \E t \in Terms, k \in Bases :
       CreateSchedule(t, k) \/ \E a \in BOOLEAN : UpdateSchedule(t, k, a)
  \/ DeleteSchedule
  \/ \E d \in Dues : CreateReminder(d) \/ \E q \in Req : UpdateReminder(q, d)
  \/ \E q \in Req, r \in Reminder, what \in {"completing", "updating", "removing"} :
       LockReminder(q, r, what)
  \/ \E q \in Req : CompleteReminder(q) \/ RemoveReminder(q) \/ Abandon(q)
  \/ SweepCar
  \/ ReadMileage
  \/ ReadServices
  \/ Deliver

UpkeepSpec == UpkeepInit /\ [][UpkeepNext]_upkeep

-----------------------------------------------------------------------------
\* A reminder that repeats is succeeded once, however many requests complete,
\* change or delete it at once.  (reminders.service.ts: complete)
OneSuccessor ==
  \A m, n \in Reminder :
    reminder[m] # None /\ reminder[n] # None /\ reminder[m].after # Unset
      /\ reminder[m].after = reminder[n].after => m = n

\* After a sweep over which nothing changed, whatever is due soon, due or
\* overdue has been announced for the cycle it is in: not once ever, and not
\* swallowed by an earlier step.  What is due is what Due's arithmetic says, here
\* and in the sweep alike.  (due-sweep.service.ts; alerts.ts: dedupeKey)
EveryDueIsAnnounced ==
  swept => \A a \in Standing : Alerting(a.status) =>
             \E n \in notices : n.says = a
=============================================================================
