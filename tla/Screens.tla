------------------------------ MODULE Screens ------------------------------
(***************************************************************************)
(* The lists and cards of the product: each reads through the query cache  *)
(* and every form and button that writes tells the cache what to read      *)
(* again.  One panel is looked at at a time; what it reads is a version of *)
(* the server's rows.  The cache itself (TanStack Query) is a library: a   *)
(* query is read when a panel that shows it appears and it was never read, *)
(* has aged or was invalidated, and at once when it is invalidated on      *)
(* screen.                                                                 *)
(***************************************************************************)
EXTENDS Desk, Sequences, FiniteSets

CONSTANTS
  PageSize,
  RowsAtFirst,   \* the rows there are, and those the filter lets through, as <<all, some>>
  MostRows, MostWrites,
  MostTurns   \* bound: looks, pages and filters turned, minutes, failed reads

ASSUME ScreensAssumption ==
  /\ {PageSize, MostRows} \subseteq Nat \ {0} /\ {MostWrites, MostTurns} \subseteq Nat
  /\ RowsAtFirst \subseteq (0..MostRows) \X (0..MostRows)
  /\ \A rows \in RowsAtFirst : rows[2] <= rows[1]

-----------------------------------------------------------------------------
(* The panels: the key they read under, what their rows are, what else of  *)
(* the server's state their figures come from.  A panel may have pages and *)
(* a filter, show a failed read as nothing, or read again by itself.       *)

Plain(key, rows, also) ==
  [key |-> key, rows |-> rows, reads |-> {rows} \cup also, paged |-> FALSE, filtered |-> FALSE,
   silent |-> FALSE, polled |-> FALSE]

Paged(panel) == [panel EXCEPT !.paged = TRUE]
Filtered(panel) == [panel EXCEPT !.filtered = TRUE]
Silent(panel) == [panel EXCEPT !.silent = TRUE]

VehicleList == Filtered(Plain(<<"vehicles", "list">>, "cars", {}))
VehicleDetail == Plain(<<"vehicles", "detail">>, "cars", {"users"})
OdometerTimeline == Paged(Plain(<<"vehicles", "car", "odometer">>, "readings", {}))
RecentExpenses == Plain(<<"vehicles", "car", "expenses">>, "expenses", {"documents"})
ExpenseLedger == Filtered(Paged(RecentExpenses))
FuelLog == Filtered(Paged(Plain(<<"vehicles", "car", "fuel", "list">>, "fuel", {"documents"})))
FuelSummaryCard == Plain(<<"vehicles", "car", "fuel", "list">>, "fuel", {})
ConsumptionPanel == Plain(<<"vehicles", "car", "fuel", "consumption">>, "fuel", {})
MaintenanceLog ==
  Filtered(Paged(Plain(<<"vehicles", "car", "maintenance", "list">>, "services", {"documents"})))
DuePanel == Plain(<<"vehicles", "car", "maintenance", "schedules">>, "schedules", {"services", "cars"})
MaintenanceSummaryCard == DuePanel
\* Says that none is left once none is pending, which is not told apart from
\* none being there.
RemindersPanel == Plain(<<"vehicles", "car", "reminders">>, "reminders", {"cars", "documents"})
RemindersSummaryCard == RemindersPanel
AttachmentsPanel == Plain(<<"vehicles", "car", "documents">>, "documents", {})
CarPapersCard == AttachmentsPanel
NotificationsPage == Filtered(Paged(Plain(<<"notifications", "list">>, "notifications", {})))
LatestInBell == Silent(Plain(<<"notifications", "list">>, "notifications", {}))
UnreadInBell ==
  [Silent(Plain(<<"notifications", "unread-count">>, "notifications", {})) EXCEPT !.polled = TRUE]
ConnectedAccounts == Silent(Plain(<<"auth", "connected">>, "accounts", {}))

Panels ==
  {VehicleList, VehicleDetail, OdometerTimeline, RecentExpenses, ExpenseLedger, FuelLog,
   FuelSummaryCard, ConsumptionPanel, MaintenanceLog, DuePanel, MaintenanceSummaryCard,
   RemindersPanel, RemindersSummaryCard, AttachmentsPanel, CarPapersCard, NotificationsPage,
   LatestInBell, UnreadInBell, ConnectedAccounts}

-----------------------------------------------------------------------------
(* What writes: the rows it may add, drop or alter, the keys its answer    *)
(* clears, and whether any end of it does, or only success.                *)

OfCars(adds, drops, alters) ==
  [adds |-> adds, drops |-> drops, alters |-> alters, clears |-> <<"vehicles">>, always |-> FALSE]

SaveVehicle == OfCars({"cars"}, {}, {"cars", "readings"})
Archive == OfCars({}, {}, {"cars"})
RecordMileage == OfCars({"readings"}, {}, {"cars", "readings"})
SaveExpense == OfCars({"expenses", "readings"}, {"readings"}, {"expenses", "readings", "cars"})
RemoveExpense == OfCars({}, {"expenses", "documents", "readings"}, {"cars"})
SaveFuel == OfCars({"fuel", "expenses", "readings"}, {}, {"fuel", "expenses", "readings", "cars"})
RemoveFuel == OfCars({}, {"fuel", "expenses", "documents", "readings"}, {"cars"})
SaveService ==
  OfCars({"services", "expenses", "readings"}, {"readings", "expenses"},
         {"services", "expenses", "readings", "cars"})
RemoveService == OfCars({}, {"services", "expenses", "documents", "readings"}, {"cars"})
SaveSchedule == OfCars({"schedules"}, {}, {"schedules"})
ToggleSchedule == OfCars({}, {}, {"schedules"})
RemoveSchedule == OfCars({}, {"schedules"}, {"services"})
SaveReminder == OfCars({"reminders"}, {}, {"reminders"})
CompleteReminder == OfCars({"reminders"}, {}, {"reminders"})
RemoveReminder == OfCars({}, {"reminders", "documents"}, {})
Attach == OfCars({"documents"}, {}, {})
Detach == OfCars({}, {"documents"}, {})
MarkRead ==
  [adds |-> {}, drops |-> {}, alters |-> {"notifications"}, clears |-> <<"notifications">>,
   always |-> TRUE]
Disconnect ==
  [adds |-> {}, drops |-> {"accounts"}, alters |-> {}, clears |-> <<"auth", "connected">>,
   always |-> FALSE]

\* Settings: the currency every amount is shown in.  Its answer clears nothing.
SaveProfile ==
  [adds |-> {}, drops |-> {}, alters |-> {"users"}, clears |-> <<"nothing">>, always |-> FALSE]

Writes ==
  {SaveVehicle, Archive, RecordMileage, SaveExpense, RemoveExpense, SaveFuel, RemoveFuel,
   SaveService, RemoveService, SaveSchedule, ToggleSchedule, RemoveSchedule, SaveReminder,
   CompleteReminder, RemoveReminder, Attach, Detach, MarkRead, Disconnect, SaveProfile}

Touched(write) == write.adds \cup write.drops \cup write.alters

-----------------------------------------------------------------------------
(* The server's rows, all of them and those the filter lets through, and   *)
(* what a page of them reads as.                                           *)

Pages(n) == Within(1, n) + ((n - Within(1, n)) \div PageSize)

Matching(filter) ==
  IF desk.panel = VehicleList
  THEN IF filter THEN desk.server.all ELSE desk.server.some  \* archived ones shown, or hidden
  ELSE IF filter THEN desk.server.some ELSE desk.server.all

Unread == [version |-> -1, here |-> 0, pages |-> 0]

View(filter, page) ==
  LET n == Matching(filter)
      before == (page - 1) * PageSize
  IN IF desk.panel.paged
     THEN [version |-> desk.server.version, pages |-> Pages(n),
           here |-> IF n > before THEN Within(PageSize, n - before) ELSE 0]
     ELSE [version |-> desk.server.version, pages |-> 1, here |-> n]

\* A query: its data, whether it must be read again, the read that is out.
\* missed: a write it was not told of since its last read was sent.
Query == [data |-> Unread, old |-> FALSE, read |-> "no", got |-> Unread, failed |-> FALSE,
          missed |-> FALSE]

QueryKeys == BOOLEAN \X (1..Pages(MostRows))

ScreensInit ==
  \E panel \in Panels, rows \in RowsAtFirst :
    desk = [kind |-> "screen", panel |-> panel, mounted |-> FALSE, filter |-> FALSE,
            paging |-> [of |-> FALSE, page |-> 1],
            server |-> [version |-> 0, all |-> rows[1],
                        some |-> IF panel.filtered THEN rows[2] ELSE rows[1]],
            cache |-> [k \in QueryKeys |-> Query],
            pending |-> {}, turns |-> 0, fewer |-> FALSE]

-----------------------------------------------------------------------------
\* The page belongs to the query it was chosen for.
PageFor(paging, filter) == IF paging.of = filter THEN paging.page ELSE 1

Key == <<desk.filter, PageFor(desk.paging, desk.filter)>>
Current == desk.cache[Key]

Send(q) == [q EXCEPT !.read = "sent", !.got = Unread, !.missed = FALSE]

\* A panel appears, or turns to another query.
Mounts(q) ==
  IF q.read = "no" /\ (q.data = Unread \/ q.old \/ q.failed)
  THEN [Send(q) EXCEPT !.failed = @ /\ q.data # Unread] ELSE q

Turn(paging, filter) ==
  /\ desk.turns < MostTurns
  /\ desk' = [desk EXCEPT !.turns = @ + 1, !.mounted = TRUE, !.filter = filter, !.paging = paging,
                          !.cache[<<filter, PageFor(paging, filter)>>] = Mounts(@)]

Look ==
  /\ ~desk.mounted
  /\ Turn([of |-> FALSE, page |-> 1], FALSE)

Leave ==
  /\ desk.mounted
  /\ desk' = [desk EXCEPT !.mounted = FALSE]

\* Five minutes out of sight.
Forget ==
  /\ ~desk.mounted
  /\ \A k \in QueryKeys : desk.cache[k].read = "no"
  /\ desk' = [desk EXCEPT !.cache = [k \in QueryKeys |-> Query]]

\* A minute: everything read is stale.
Aging(q) == [q EXCEPT !.old = @ \/ q.data # Unread]

Age ==
  /\ desk.turns < MostTurns
  /\ \E k \in QueryKeys : desk.cache[k].data # Unread /\ ~desk.cache[k].old
  /\ desk' = [desk EXCEPT !.turns = @ + 1, !.cache = [k \in QueryKeys |-> Aging(@[k])]]

\* Mutant: a failed read is shown as a car with no history.
SaysNothing ==
  IF Current.data = Unread /\ ~Current.failed THEN "loading"
  ELSE IF Current.data.here > 0 THEN "rows"
  ELSE IF desk.filter THEN "none match" ELSE "nothing yet"

\* What the panel says.
Says ==
  IF Current.failed /\ ~desk.panel.silent THEN "could not load"
  ELSE IF Current.data = Unread /\ ~Current.failed THEN "loading"
  ELSE IF Current.data.here > 0 THEN "rows"
  ELSE IF desk.filter THEN "none match" ELSE "nothing yet"

\* Previous and Next wait for a read that is out, except on the notifications page.
GoToPage(page) ==
  /\ desk.mounted
  /\ desk.panel.paged
  /\ Current.data.pages > 1
  /\ Current.read = "no" \/ desk.panel = NotificationsPage
  /\ \/ page = Key[2] - 1 /\ page >= 1
     \/ page = Key[2] + 1 /\ page <= Current.data.pages
  /\ Turn([of |-> desk.filter, page |-> page], desk.filter)

\* The notifications page starts again at its first page; the logs work the
\* page out.  The vehicle list offers its filter only beside some cars.
ChangeFilter ==
  /\ desk.mounted
  /\ desk.panel.filtered
  /\ desk.panel = VehicleList => Says = "rows" \/ desk.filter
  /\ Turn(IF desk.panel = NotificationsPage THEN [of |-> ~desk.filter, page |-> 1] ELSE desk.paging,
          ~desk.filter)

-----------------------------------------------------------------------------
(* A read: the server answers with what it has, and the answer lands; or   *)
(* it has failed after every retry.                                        *)

ReadServer(k) ==
  /\ desk.cache[k].read = "sent"
  /\ desk' = [desk EXCEPT !.cache[k].read = "answered", !.cache[k].got = View(k[1], k[2])]

Land(k) ==
  /\ desk.cache[k].read = "answered"
  /\ desk' = [desk EXCEPT !.cache[k] = [@ EXCEPT !.data = desk.cache[k].got, !.got = Unread,
                                                 !.read = "no", !.old = FALSE, !.failed = FALSE]]

FailToRead(k) ==
  /\ desk.turns < MostTurns
  /\ desk.cache[k].read = "sent"
  /\ desk' = [desk EXCEPT !.turns = @ + 1, !.cache[k] = [@ EXCEPT !.read = "no", !.old = TRUE, !.failed = TRUE]]

TryAgain ==
  /\ desk.mounted
  /\ Says = "could not load"
  /\ Current.read = "no"
  /\ desk' = [desk EXCEPT !.cache[Key] = [Send(@) EXCEPT !.failed = desk.cache[Key].data # Unread]]

Poll ==
  /\ desk.mounted
  /\ desk.panel.polled
  /\ Current.read = "no"
  /\ desk' = [desk EXCEPT !.cache[Key] = Send(@)]

-----------------------------------------------------------------------------
(* A write. *)

Start(write) ==
  /\ desk.pending = {}
  /\ desk.server.version < MostWrites
  /\ Touched(write) \cap desk.panel.reads # {}
  /\ desk' = [desk EXCEPT !.pending = {[write |-> write, waiting |-> TRUE, committed |-> FALSE]}]

\* The rows of the panel after the write: one more, one fewer, or others.
After(write) ==
  LET s == desk.server
      rows == desk.panel.rows
      next(all, some) == [version |-> s.version + 1, all |-> all, some |-> some]
  IN {t \in
       (IF rows \in write.adds THEN {next(s.all + 1, s.some), next(s.all + 1, s.some + 1)} ELSE {})
       \cup (IF rows \in write.drops THEN {next(s.all - 1, s.some), next(s.all - 1, s.some - 1)} ELSE {})
       \cup {next(s.all, s.some), next(s.all, s.some - 1), next(s.all, s.some + 1)} :
         /\ t.all \in 0..MostRows /\ t.some \in 0..t.all
         /\ ~desk.panel.filtered => t.some = t.all}

\* Nobody here will say that these are stale.
Unaware(cache) == [k \in QueryKeys |-> [cache[k] EXCEPT !.missed = cache[k] # Query]]

\* The server does it, whether or not the browser still waits.
Commit ==
  \E w \in desk.pending :
    /\ ~w.committed
    /\ \E s \in After(w.write) :
         desk' = [desk EXCEPT
           !.server = s,
           !.fewer = @ \/ s.all < desk.server.all \/ s.some < desk.server.some,
           !.pending = IF w.waiting THEN {[w EXCEPT !.committed = TRUE]} ELSE {},
           !.cache = IF w.waiting THEN @ ELSE Unaware(@)]

\* A query is told by the first parts of its key.
Under(prefix, key) == \A i \in DOMAIN prefix : i \in DOMAIN key /\ key[i] = prefix[i]

\* invalidateQueries: what is on screen is read again, a read that is out
\* begun anew.  A first read that is out is not, nor one of a query that is
\* off screen: what they bring is taken for fresh.
Invalidate(write) ==
  IF ~Under(write.clears, desk.panel.key) THEN desk.cache
  ELSE [k \in QueryKeys |->
         LET q == desk.cache[k] IN
         IF q = Query THEN q
         ELSE IF desk.mounted /\ k = Key /\ (q.read = "no" \/ q.data # Unread)
         THEN [Send(q) EXCEPT !.old = TRUE, !.failed = @ /\ q.data # Unread]
         ELSE [q EXCEPT !.old = TRUE, !.missed = @ \/ q.read # "no"]]

Unannounced == {SaveProfile}

\* onSuccess.  A new reading belongs on the timeline's first page.
WriteAnswered ==
  \E w \in desk.pending :
    /\ w.waiting
    /\ w.committed
    /\ LET first == desk.panel = OdometerTimeline /\ w.write = RecordMileage
           told == IF w.write \in Unannounced THEN Unaware(desk.cache) ELSE Invalidate(w.write)
           paging == [of |-> FALSE, page |-> 1]
       IN desk' = [desk EXCEPT
            !.pending = {},
            !.paging = IF first THEN paging ELSE @,
            !.cache = IF first /\ desk.mounted THEN [told EXCEPT ![<<FALSE, 1>>] = Mounts(@)] ELSE told]

\* onError, of a write that was refused, that never arrived, or whose answer
\* was lost.
GiveUp ==
  \E w \in desk.pending :
    /\ w.waiting
    /\ \E arrives \in BOOLEAN :
         LET told == IF w.write.always THEN Invalidate(w.write) ELSE desk.cache IN
         /\ w.committed => ~arrives
         /\ desk' = [desk EXCEPT
              !.pending = IF arrives THEN {[w EXCEPT !.waiting = FALSE]} ELSE {},
              !.cache = IF w.committed /\ ~w.write.always THEN Unaware(told) ELSE told]

\* The hourly sweep, and its worker, announce something to a person.
Sweep ==
  /\ desk.panel.rows = "notifications"
  /\ desk.server.version < MostWrites
  /\ desk.pending = {}
  /\ desk.server.all < MostRows
  /\ desk' = [desk EXCEPT !.server = [version |-> @.version + 1, all |-> @.all + 1, some |-> @.some + 1],
                          !.cache = Unaware(@)]

ScreensNext ==
  \/ Look \/ Leave \/ Forget \/ Age \/ ChangeFilter \/ TryAgain \/ Poll
  \/ \E page \in 1..Pages(MostRows) : GoToPage(page)
  \/ \E k \in QueryKeys : ReadServer(k) \/ Land(k) \/ FailToRead(k)
  \/ \E write \in Writes : Start(write)
  \/ Commit \/ WriteAnswered \/ GiveUp \/ Sweep

ScreensSpec == ScreensInit /\ [][ScreensNext]_desk

-----------------------------------------------------------------------------
Quiet == desk.mounted /\ desk.pending = {} /\ Current.read = "no" /\ ~Current.missed

\* Every car there is has been archived, which the list of cars does not say.
AllArchived == desk.panel = VehicleList /\ desk.server.some = 0 /\ ~desk.filter

\* Once nothing is out, what a panel shows is what the server has, whichever
\* form or button on whichever page wrote last and whatever was being read
\* meanwhile; and it says there is nothing only where there is nothing.  The
\* exceptions: a write whose answer never came, one whose answer met a first
\* read still out, a failed read that three panels show as nothing, a page
\* that lost its rows under its reader, and cars that are all archived.
\* (odometer-timeline.tsx:45, "so both caches go"; :103, "as a car with no
\* history"; fuel-log.tsx:152, "the page belongs to the query it was chosen for")
ScreensFollow ==
  On("screen") /\ Quiet =>
    /\ Current.failed => Says = "could not load" \/ desk.panel.silent
    /\ ~Current.failed => Current.data = View(Key[1], Key[2])
    /\ ~Current.failed /\ Says \in {"none match", "nothing yet"} =>
         \/ Matching(desk.filter) = 0
         \/ desk.fewer
    /\ ~Current.failed /\ Says = "nothing yet" => desk.server.all = 0 \/ desk.fewer \/ AllArchived
=============================================================================
