------------------------------- MODULE Access -------------------------------
(***************************************************************************)
(* Who reaches which rows: the routes under a vehicle and under one        *)
(* record, the guards before them, and the handlers behind, which find     *)
(* their row again in the vehicle the guard passed.  Other requests come   *)
(* between a guard and its handler.                                        *)
(***************************************************************************)
EXTENDS Desk, FiniteSets

CONSTANTS
  Users, Vehicles,
  Nobody,       \* a request with no valid token
  Malformed,    \* an id that is not a UUID
  NoRow,        \* a row that names no other
  MaxRows       \* bound: rows at once

Kinds == {"reading", "expense", "fuel", "service", "schedule", "reminder", "document"}

Ids == Kinds \X Vehicles

ASSUME AccessAssumption ==
  /\ Nobody \notin Users /\ Malformed \notin Vehicles \cup Ids /\ NoRow \notin Ids
  /\ Vehicles \cap Ids = {} /\ MaxRows \in Nat

KindOf(id) == id[1]

VehicleOf(id) == id[2]

\* What a row of a kind may name besides its vehicle, by way of the body.
Nameable(kind) == CASE kind = "service" -> {"schedule"}
                    [] kind = "document" -> {"expense", "reminder"}
                    [] OTHER -> {}

-----------------------------------------------------------------------------
(* The routes: what the path names, what it does to rows of which kind, and *)
(* the least role for it.                                                   *)

Route(names, does, kind, role) == [names |-> names, does |-> does, kind |-> kind, role |-> role]

\* /vehicles/:vehicleId/<kind>
Lists(kind) == Route("vehicle", "lists", kind, "VIEWER")

Creates(kind) == Route("vehicle", "creates", kind, "EDITOR")

\* /<kind>/:id
Reads(kind) == Route(kind, "reads", kind, "VIEWER")

Changes(kind) == Route(kind, "changes", kind, "EDITOR")

Removes(kind) == Route(kind, "removes", kind, "EDITOR")

VehicleRoutes ==
  {Route("vehicle", "reads", "vehicle", "VIEWER"), Route("vehicle", "changes", "vehicle", "EDITOR"),
   Route("vehicle", "removes", "vehicle", "OWNER")}

OdometerRoutes == {Lists("reading"), Creates("reading")}

VehicleExpensesRoutes == {Lists("expense"), Creates("expense")}

ExpensesRoutes == {Reads("expense"), Changes("expense"), Removes("expense")}

\* Suggestions and consumption read the same rows as the list.
VehicleFuelRoutes == {Lists("fuel"), Creates("fuel")}

FuelRoutes == {Reads("fuel"), Changes("fuel"), Removes("fuel")}

VehicleMaintenanceRoutes == {Lists("service"), Creates("service"), Lists("schedule"), Creates("schedule")}

MaintenanceRoutes == {Reads("service"), Changes("service"), Removes("service")}

SchedulesRoutes == {Reads("schedule"), Changes("schedule"), Removes("schedule")}

VehicleRemindersRoutes == {Lists("reminder"), Creates("reminder")}

RemindersRoutes == {Reads("reminder"), Changes("reminder"), Removes("reminder")}

VehicleDocumentsRoutes == {Lists("document"), Creates("document")}

\* A download URL reads, a confirmation changes.
DocumentsRoutes == {Reads("document"), Changes("document"), Removes("document")}

Routes == VehicleRoutes \cup OdometerRoutes \cup VehicleExpensesRoutes \cup ExpensesRoutes
          \cup VehicleFuelRoutes \cup FuelRoutes \cup VehicleMaintenanceRoutes \cup MaintenanceRoutes
          \cup SchedulesRoutes \cup VehicleRemindersRoutes \cup RemindersRoutes
          \cup VehicleDocumentsRoutes \cup DocumentsRoutes

-----------------------------------------------------------------------------
(* desk.owner says who created a vehicle, gone or not; desk.members whom    *)
(* the membership table lists.                                              *)

NoRequest == [is |-> "idle"]

AccessInit ==
  desk = [kind |-> "access", owner |-> [v \in Vehicles |-> Nobody], members |-> {}, rows |-> {},
          request |-> NoRequest]

Member(v, user, role) == [vehicle |-> v, user |-> user, role |-> role]

Exists(v) == \E m \in desk.members : m.vehicle = v

Rank == [VIEWER |-> 0, EDITOR |-> 1, OWNER |-> 2]

RoleSatisfies(held, required) == Rank[held] >= Rank[required]

\* The vehicle a path is about: named in it, or by the row it names.
ResolveVehicle(route, id) ==
  IF route.names = "vehicle" THEN {id} ELSE {VehicleOf(r.id) : r \in {s \in desk.rows : s.id = id}}

\* Mutant: a row somebody named is reached by whoever names it.
MembershipOfAny(vs, user) == {m \in desk.members : m.vehicle \in vs}

Membership(vs, user) == {m \in desk.members : m.vehicle \in vs /\ m.user = user}

\* The guards in their order, down to the vehicle a request passes with.
Guarded(user, route, id) ==
  LET ms == Membership(ResolveVehicle(route, id), user) IN
  IF user = Nobody THEN "unauthorized"
  ELSE IF id = Malformed THEN "bad request"
  ELSE IF ms = {} THEN "not found"
  ELSE IF \E m \in ms : RoleSatisfies(m.role, route.role) THEN "passed" ELSE "forbidden"

-----------------------------------------------------------------------------
(* The handlers.  Each returns the state it leaves and what it answers.    *)

Answer(db, says, shown) == [db |-> db, says |-> says, shown |-> shown]

NotFound == Answer(desk, "not found", {})

FindInVehicle(id, v) == {r \in desk.rows : r.id = id /\ VehicleOf(r.id) = v}

\* What a body names has to be there, in the same vehicle.
NamesOk(kind, v, of) == of = NoRow \/ FindInVehicle(of, v) # {}

\* A file's expense is not found; a service's schedule is a bad request.
NothingNamed(kind) == Answer(desk, IF kind = "document" THEN "not found" ELSE "bad request", {})

\* Without the rows at ids: files go with what they are attached to, a
\* service outlives its schedule.
Without(ids) ==
  {IF r.of \in ids THEN [r EXCEPT !.of = NoRow] ELSE r :
     r \in {s \in desk.rows : s.id \notin ids /\ ~(KindOf(s.id) = "document" /\ s.of \in ids)}}

OnVehicle(route, v) ==
  IF ~Exists(v) THEN NotFound
  ELSE IF route.does = "removes"
  THEN Answer([desk EXCEPT !.members = {m \in @ : m.vehicle # v},
                           !.rows = {r \in @ : VehicleOf(r.id) # v}], "done", {})
  ELSE Answer(desk, "done", {v})

OnCollection(route, v, of) ==
  LET id == <<route.kind, v>> IN
  IF route.does = "lists"
  THEN Answer(desk, "done", {VehicleOf(r.id) : r \in {s \in desk.rows : KindOf(s.id) = route.kind /\ VehicleOf(s.id) = v}})
  ELSE IF ~Exists(v) THEN NotFound
  ELSE IF ~NamesOk(route.kind, v, of) THEN NothingNamed(route.kind)
  ELSE Answer([desk EXCEPT !.rows = {r \in @ : r.id # id} \cup {[id |-> id, of |-> of]}], "done", {v})

OnRow(route, id, v, of) ==
  LET found == FindInVehicle(id, v) IN
  IF found = {} THEN NotFound
  ELSE IF route.does = "removes" THEN Answer([desk EXCEPT !.rows = Without({id})], "done", {})
  ELSE IF ~NamesOk(route.kind, v, of)
  THEN NothingNamed(route.kind)
  ELSE Answer(IF route.does = "changes" /\ route.kind = "service"
              THEN [desk EXCEPT !.rows = (@ \ found) \cup {[id |-> id, of |-> of]}] ELSE desk,
              "done", {VehicleOf(id)})

Handled(route, id, v, of) ==
  IF route.kind = "vehicle" THEN OnVehicle(route, v)
  ELSE IF route.names = "vehicle" THEN OnCollection(route, v, of)
  ELSE OnRow(route, id, v, of)

-----------------------------------------------------------------------------
(* Requests. *)

\* What a body may name: the ids of rows, on whichever vehicle.
Named(route) ==
  {NoRow} \cup (IF route.does = "creates" \/ (route.does = "changes" /\ route.kind = "service")
                THEN Nameable(route.kind) \X Vehicles ELSE {})

PathIds(route) ==
  {Malformed} \cup (IF route.names = "vehicle" THEN Vehicles ELSE {route.names} \X Vehicles)

HasRoom(db) == Cardinality(db.rows) <= MaxRows

\* POST /vehicles: the row and the owner's membership together.
CreateVehicle(user, v) ==
  /\ desk.owner[v] = Nobody
  /\ desk' = [desk EXCEPT !.owner[v] = user, !.members = @ \cup {Member(v, user, "OWNER")}]

\* GET /vehicles: through membership.
ListVehicles(user) ==
  /\ desk.request = NoRequest
  /\ desk' = [desk EXCEPT !.request = [is |-> "answered", user |-> user, about |-> {}, says |-> "done",
                                       shown |-> {m.vehicle : m \in {n \in desk.members : n.user = user}}]]

Answered(user, id, says, shown) ==
  [is |-> "answered", user |-> user, about |-> {id} \cap (Vehicles \cup Ids), says |-> says, shown |-> shown]

Arrive(user, route, id, of) ==
  /\ desk.request = NoRequest
  /\ LET verdict == Guarded(user, route, id) IN
     desk' = [desk EXCEPT !.request =
       IF verdict # "passed" THEN Answered(user, id, verdict, {})
       ELSE [is |-> "passed", user |-> user, route |-> route, id |-> id, of |-> of,
             vehicle |-> CHOOSE v \in ResolveVehicle(route, id) : TRUE]]

Handle ==
  /\ desk.request.is = "passed"
  /\ LET q == desk.request
         a == Handled(q.route, q.id, q.vehicle, q.of)
     IN HasRoom(a.db) /\ desk' = [a.db EXCEPT !.request = Answered(q.user, q.id, a.says, a.shown)]

\* A whole other request, while one is between its guard and its handler.
Meanwhile(user, route, id, of) ==
  /\ desk.request.is = "passed"
  /\ route.does \in {"creates", "changes", "removes"}
  /\ Guarded(user, route, id) = "passed"
  /\ LET a == Handled(route, id, CHOOSE v \in ResolveVehicle(route, id) : TRUE, of)
     IN HasRoom(a.db) /\ desk' = a.db

Read ==
  /\ desk.request.is = "answered"
  /\ desk' = [desk EXCEPT !.request = NoRequest]

AccessNext ==
  \/ \E user \in Users, v \in Vehicles : CreateVehicle(user, v)
  \/ \E user \in Users : ListVehicles(user)
  \/ \E user \in Users \cup {Nobody}, route \in Routes : \E id \in PathIds(route), of \in Named(route) :
       Arrive(user, route, id, of) \/ Meanwhile(user, route, id, of)
  \/ Handle
  \/ Read

AccessSpec == AccessInit /\ [][AccessNext]_desk

-----------------------------------------------------------------------------
\* Nobody sees a vehicle's rows but who is a member of it, nobody else can tell
\* a row that is not theirs from one that is not there, and no row comes to
\* name a row of another vehicle, whatever a body names and whatever is deleted
\* between a guard and its handler.  (vehicle-membership.guard.ts:60,
\* documents.service.ts:79, maintenance.service.ts assertSchedule)
OnlyMembersReach ==
  On("access") =>
    /\ desk.request.is = "answered" =>
         LET q == desk.request
             mine(v) == desk.owner[v] = q.user
         IN /\ \A v \in q.shown : mine(v)
            /\ \A id \in q.about \ Vehicles : ~mine(VehicleOf(id)) => q.says \in {"not found", "unauthorized"}
            /\ \A v \in q.about \cap Vehicles : ~mine(v) => q.says \in {"not found", "unauthorized"}
    /\ \A r \in desk.rows : r.of # NoRow => VehicleOf(r.of) = VehicleOf(r.id)
=============================================================================
