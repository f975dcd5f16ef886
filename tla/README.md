# CarCare in TLA+

A verification project for CarCare, a maintenance and cost log for private cars: a NestJS
API and a BullMQ worker over Postgres, Redis and an S3-compatible object store
(`backend/`), and a Next.js client (`frontend/`). The modules model the code that decides
something: under concurrency or failure on the server, in several tabs of a browser, or in
the arithmetic and the rules that form, API and table each state for themselves.
`PROJECT.json` maps each definition to the lines it translates, and lists runs, mutants,
findings, hazards and theorems.

## The system

Several API replicas and workers run the same code. They share nothing but Postgres
(Prisma, READ COMMITTED, interactive transactions, row locks by `SELECT ... FOR UPDATE`),
Redis and the object store. A process may die between any two awaits; what it had not
committed is rolled back, what it had not sent is not sent. The browser's tabs share one
refresh cookie and nothing else.

| Component | State | Operations | What is hard | Module |
|---|---|---|---|---|
| Odometer | `odometer_readings`, `vehicles.currentOdometerKm` | record, withdraw, seed, reads | concurrent writers validate against neighbours; the headline is a derived copy | `Timeline`, `Odometer` |
| Vehicles | `vehicles`, `vehicle_members` | create (two commits with a starting mileage), update, delete with cascade | partial creation; a deletion against writers that hold other rows | `Odometer`, `Ledger`, `Access` |
| Expenses, fuel, maintenance | `expenses`, `fuel_entries`, `maintenance_records`, their readings | create, update, remove; one transaction over two or three tables | record, expense and reading must move together; lock order | `Ledger` |
| Idempotency | `idempotency_keys`, the form's current submission | create with a key, replay | a retry racing the original; a lost answer | `Submission` |
| Due engine, schedules, reminders, sweep | `maintenance_schedules`, `reminders` | due states by mileage and calendar; complete with succession; the hourly sweep | month ends, zero windows, reads that disagree, double completion | `Due`, `Upkeep` |
| Notifications | `notifications` as outbox, two BullMQ queues | sweep, digest, mark read, unsubscribe | two workers, a crash around the mail, lost jobs | `Outbox` |
| Documents | `documents`, objects in the store | request upload, confirm, remove; purge after owners are deleted | two stores and no common commit; limits; signed URLs that outlive everything | `Documents` |
| Sessions | `refresh_tokens`, `users.passwordHash` | login, refresh, logout, reset | rotation, replay detection and grace under concurrency | `Sessions` |
| Browser session | access token, in-flight refresh, generation, the shared cookie | refresh, 401 retry, login, logout, reload | answers after the session they belong to; tabs that refresh together | `BrowserSession` |
| Account email, OAuth, users | `email_tokens`, `oauth_accounts`, states in Redis | register, issue, verify, reset, sign in, link, unlink | single use, newest link only, refuse rather than merge, last way in | `Accounts` |
| Rate limiting | a sorted set per key in Redis | consume | the window's edge; Redis away | `Throttle` |
| Guards and routes | none of their own | every route under a vehicle or a record | a row named in a body; a row deleted between guard and handler | `Access` |
| Mileage entry | the mileage box | complete, trip, suggest, photo, judge | the box and the odometer must agree | `Mileage` |
| Fuel log and form | three figures, the fills | derive, check, consumption, suggestions | rounding twice; which stretches count | `FuelForm`, `FuelLog` |
| Service form | total, parts, labour | derive, split, check | typed against worked out | `ServiceForm` |
| Forms, DTOs, tables | one record's fields | open, fill, send, store, open again | one rule in three places | `Forms` |
| Pages and the query cache | what each panel read | look, page, filter, write, invalidate | what a write makes stale, and when | `Screens` |

How they interact. The odometer is called by the three ledger services inside *their*
transactions; so are expenses by fuel and maintenance, and document keys by everything that
deletes an owner. Every one of these takes row locks, and the orders differ: creating a
record locks the vehicle first, editing one locks the record first, deleting the vehicle
locks it first and its records through the cascade. The sweep reads schedules, reminders,
readings and services outside a transaction and writes notifications; the digest reads
those, and Redis only carries the jobs between them. The client meets all of it through
one fetch wrapper that refreshes the session, keys that make creates repeatable, and a
cache that each write must invalidate.

## Modules

The concurrent core. A transaction is a process with a `pc`; its reads and writes become
one or more actions, cut where another's step can make a difference: at every wait for a
lock, and between statements that hold none. What it writes is invisible until its commit
action; `Crash` (or `Abort`) may end it anywhere, leaving nothing. Lock waits are guards on
the holder. Under READ COMMITTED a blocked `UPDATE` looks again at the rows it waited for
but not at rows inserted meanwhile; `Sessions` and `Accounts` keep the set of rows a
statement saw (`want`) because their properties depend on exactly that.

`Timeline`, `Odometer`. `Timeline` is the pure part: order, neighbours, conflict, headline.
In `Odometer`, `lock` is the vehicle's `FOR UPDATE` lock, `plan` what a request does to the
timeline (record, withdraw, or both when a record moves), `headline` the figure it computed
and has not yet written. `seed` and `seedState` follow the starting mileage, which
`VehiclesService.create` inserts after the vehicle has committed; `seedState` remembers
whether another write got in between.

`Ledger`. `record` holds the rows, `ledger` the expense of each fill and service, `job` what
a transaction does and the row it read. A job that moves no reading never takes the
vehicle's lock. Deadlocks between an edit and the deletion of the vehicle are real in the
code; `AbortDeadlock` is Postgres's answer to them. `ImplementsOdometer` instantiates
`Odometer` with `WriterLock`, `WriterPc` and the plan of each job as refinement mapping.

`Submission`. The form (`form`: its fields, the submission it keeps, the request it waits
for) and the endpoint behind it (`request`, `stored`): look the key up, insert it with the
record in one transaction, wait for a twin's unique index, replay. Attempts are given up by
the browser and carried on by the server; answers are lost. `FillsIn` says whether the form
fills a field in by itself, as the fuel and the maintenance form do and the expense form
does not. `episode` is history: one number per entry somebody made.

`Sessions`. One action per statement of `refresh`, `rotate`, `createIfFamilyLive`,
`revokeFamily` and `resetPassword`; `held` is the row locks, `since` the time a statement
was built (tokens expire relative to that, not to their commit). `session`, `parent`,
`signedInAs` and `signedOut` are history variables that no guard reads, except that a new
session is one not yet started.

`BrowserSession`. `call` is a request with the cookie and bearer of the moment it was sent;
the server acts on it in one step (`Sessions` shows what that step promises), the answer
arrives in any later order or never. A tab's step on an answer includes every promise that
settles in turn: JavaScript runs no other event in between. `access`, `generation`,
`inFlight` are `session.ts`; `boot`, `status`, `shown` are `AuthProvider`; `jar` is the
cookie of the browser. `quiet` is history: nobody ended or replaced the session, no server
failed.

`Accounts`. An account goes by its address. Links (`link`, `held`, `req`) follow `replace`,
`usable`, `consume` statement by statement; OAuth follows `start`, `complete`, the lookups
and writes behind it, and `unlink`'s count and delete, which share no transaction. `proved`,
`replaced`, `uses`, `attached`, `entered`, `done` are history.

`Documents`. `lock` is the owner rows held; a fill or a service locks its own record instead
(`RecordHeld`), which is what the code does. `object` is the store, changed by `Put` at any
time while a signed URL lives; `collected` remembers which keys a deleting transaction read.

`Outbox`. `emailStatus` and `read` are the notifications table, `digest` the job of each
user's fixed id, `scheduled` the repeatable sweep in Redis. From the claim to the commit a
digester's `rows` are locked, which is what `MarkRead` and `DeleteVehicle` wait for. `Stall`
lets two digests of one user run at once. A transaction lost before or after the mail server
accepts is `DigestFails`. The alerts are any set: what is due is `Upkeep`'s affair. `mailed`
and `consent` are history.

`Due`, `Upkeep`. `Due` is the due engine with its calendar: day numbers, months clamped to
their end, urgency, the alert's dedupe key. `Upkeep` runs it over one car: schedules and
reminders created, changed, completed (a locked row, a claim, a successor) and deleted,
services, driving, days that pass, and a sweep that reads in several statements.

The desk. Eight modules model what one person and one request reach, where what is hard is
not an interleaving of processes but a long sequence of edits, arithmetic and rules. Each
keeps a record of a kind of its own in the variable of `Desk`, and `MCEntry` composes them:
`FuelForm`, `ServiceForm` (form and service, the figures one derives and the other checks),
`FuelLog` (consumption, summaries and suggestions, against definitions that do not walk the log;
a sort is the one sequence its comparison leaves, with ties in the order the history came),
`Mileage` (the box against the odometer of `Timeline`), `Access` (guards, handlers and
concurrent deletions), `Throttle` (the sliding window), `Forms` (form, DTO and table of every
record as tables of rules; a text is its length, a moment its day and a time in it, which a date
box cuts off and a save makes again) and `Screens` (which query every panel reads
and which keys every write invalidates; the cache library is external).

`MC...` modules give the constants their instances and the symmetry sets; `...Proofs` hold
the theorems.

## Runs

| Run | Question | Bounds |
|---|---|---|
| `odometer` | do concurrent writers keep the timeline monotone and the headline right, and does the headline fall only by a withdrawal? | 2 transactions, 2 records and readings by hand, 2 moments, mileages 0..2, 3 readings |
| `ledger` | do records, expenses and readings move together, does every request end, and is what happens to the timeline an `Odometer`? | 2 transactions, one record of each kind, 2 moments, 2 mileages, 2 amounts, 2 readings |
| `submission` | does one entry make one record, and is no retry taken for another request? | 2 entries, 3 keys, 3 requests at once, 3 episodes, 2 moments |
| `submission_filled` | the same where the form fills a field in by itself: *violated* | as above |
| `sessions` | rotation, grace, replay, logout and reset together | 3 requests, 3 tokens, 1 session, clock 0..2, 1 reset |
| `browser` | do late, lost and reordered answers leave every tab and the shared cookie right? | 2 tabs, 3 calls at once, 3 tokens, 1 sign-in of 1 person, 2 deeds |
| `accounts` | is an account confirmed only by who reads its address, never locked out, and no link, flow or identity of use twice or to another? | 2 requests, 2 addresses, 1 provider, 1 identity, 2 browsers, 3 links and flows together |
| `documents` | limits, READY, keys collected | 2 requests, 2 documents, limit 1, three kinds of owner |
| `outbox` | is each row announced and mailed once, only to who wants it, and settled in the end? | 1 user, 2 alerts, 1 sweeper, 2 digesters, 1 failure |
| `upkeep` | is a reminder succeeded once, and everything due announced for its cycle? | 2 requests, 3 reminders, 2 services, 3 mileages, 31 January, 28 February and 28 March, 3 changes |
| `entry` | does what the browser works out and shows agree with what the server takes and has? | below |
| `entry_price` | does an edit that leaves a fill's figures alone leave its price alone? *violated* | the fuel part of `entry` |

Why the bounds are enough. A conflict between writers needs two of them (a third only queues
behind the same lock); a timeline conflict needs two readings and a third to fall between. In
`Submission` a third request is the retry while two twins race. In `Sessions` a third request
lets a revocation race a refresh that races another, and what is inserted is always one
token. In `BrowserSession` two tabs present one cookie at once, and the third token is the
successor of a successor; calls are bounded together, so one tab may have several under way.
In `Accounts` two requests open, replace or attach the same thing at once, a second address
lets somebody be taken for another, a second browser be handed a callback that is not its
own. A limit of one is reached with one document and overrun with two. In `Outbox` users
share only the sweep's pass; a second alert lets a claim hold a read and an unread row, or
leave one to another digest; one failure is a lost mail, an overlap or an empty Redis. The
days of `Upkeep` are an end of month and what a month's step makes of it, its mileages lie
before, in and beyond the warning window. `entry` takes for each form and list the smallest
values on both sides of every comparison: figures whose rounding differs between form and
API and zero boxes; total, half split and whole split; two users and two vehicles; limits of
two, windows of two and three moments; three fills of which some are partial, missed, at one
mileage, at two stations in reach or entered late; mileages that end alike; bodies with every
rule at and one past its bound; moments of today, which does not end, and of another day, at
midday and at another time; a page of one row and lists of none, one and two. All `Max...`, `Most...` and the size of
`Token`, `Key`, `Doc`, `Call`, `State` bound runs only and appear in guards, never in what is
promised. Where those run out the system stops, and the run does not check for deadlock;
`odometer`, `ledger` and `outbox` do.

Five things the models merge, which no property above can therefore tell apart:

- *Odometer*: readings of one moment stand in the order of insertion, which is under the vehicle's
  lock; the code sorts them by `createdAt` (`odometer.repository.ts:104`), the clock of the process
  that wrote. Clocks that disagree, and two readings in one millisecond, are outside.
- *Upkeep*: `Due` works out both what is due and what the sweep saw, so `EveryDueIsAnnounced` is
  about who is told of what, over cycles and steps of urgency, and not about the arithmetic of
  `due.ts`, whose month ends have unit tests of their own (`maintenance/domain/due.spec.ts`).
- *Throttle*: an attempt's two scripts, by address and by email, are one step, so nobody comes
  between them.
- *Fuel log*: the windows are a set; the order they are listed in is not checked.
- *Screens*: the reminders panel says there are none once none is pending, where the model goes by
  all rows.

Each property of a passing run has a mutant: a plausible bug, written beside the definition
it changes (a lock left out, a check not repeated, a late answer stored, an order by the wrong
column), that the run must catch.

### Fairness

Only the `FairSpec` of `Ledger` and of `Outbox` assume any. In both, weak fairness of each
process's own steps: its connection holds and Node runs on. In `Ledger`, strong fairness of
whatever waits for a row lock: Postgres hands a row lock to its waiters in turn, so a waiter
is not overtaken for ever, although the lock is taken again and again. `EveryRequestEnds` is then
about every request, waiting or not: whatever has begun commits, is refused or is rolled back. In `Outbox`, weak
fairness of the hourly `Tick` and strong fairness of a queued job being taken up: BullMQ's
queue is first come, first served. Attempts fail at most `MaxFailures` times: a mail
server that never answers settles nothing. Nothing is assumed of clients, of vehicles being
created, of workers being started, or of crashes not happening. `BrowserSession` has none:
an answer may never come, so "nobody waits in vain" is stated as a safety property, that
whoever waits waits for a call that is still under way.

### Findings

Two statements of the code's own comments fail in a run (`findings` quotes them):

1. `entry_price`. The edit form of a fill sends litres and amount with every edit and leaves
   the price out when no figure moved; the service takes their presence for a change and
   derives the price again. A fill whose price came from the pump's table is saved
   untouched and keeps the quotient of amount and rounded litres instead.
2. `submission_filled`. The fuel and the maintenance form identify a submission by their
   whole state, the fields they fill in by themselves included. Lose the answer of a first
   submit, let the suggestion arrive, submit the same entry: a new key, a second record.

Others were met while modelling. They are in the models, as actions the properties are
stated around, but have no run of their own:

- *Starting mileage.* `seed` skips validation because "nothing else can have written to it
  yet" (`odometer.service.ts:142`); the vehicle is visible before it, and a reading can come
  first. A crash between the two commits leaves a headline no reading carries, although "the
  timeline has a first point" (`vehicles.service.ts:42`). `TimelineMonotone` and
  `HeadlineIsHighest` except a late and a lost seed.
- *Sessions.* A logout or replay that waits for a row under rotation misses the successor
  (`refresh-token.repository.ts:89`); a login compared before a reset starts its session
  after the sign-out (`auth.service.ts:88`); a reset that dies between the password and the
  sign-out leaves the sessions (`account-email.service.ts:107`). `QuietEndIsFinal` is about ends
  that nothing raced.
- *Browser.* The refresh handler clears the cookie whatever the error was
  (`auth.controller.ts:128`); a cold load's refresh that fails late may clear the token of a
  login made meanwhile, since only `endSession` moves the generation (`session.ts:42`); logging
  out does not empty the query cache.
- *Account email.* Two links asked for at once both stay usable: neither DELETE sees the
  other's row.
- *Documents.* Deleting a fill or a service locks its record and not the expense an upload
  locks, so a receipt uploaded meanwhile loses its row and keeps its file
  (`fuel.service.ts:266`); an upload to an expense and the deletion of the vehicle deadlock,
  where the comment expects a foreign-key error.
- *Jobs.* A Redis that restarts empty loses the repeatable sweep until a worker restarts
  (`job-scheduler.ts:22`).
- *Due engine.* Mileage and services are read in two statements
  (`schedules.service.ts:118`): a service committed in between makes its schedule look
  overdue and announces it. Deleting a schedule that another request deleted answers 500.
- *Idempotency.* The 409 that says a key's record was deleted leaves the form with that key.
- *Forms.* Clearing the total beside half a split sends null on an edit and is answered 400
  (`maintenance-form.tsx:197`); nulls that `IsOptional` lets through, and a derived price or a
  sum of parts beyond the column's digits, end as 500; where a form is looser than the API is
  named in `Looser`, where the API is looser than the table in `Unguarded`. The schedule form
  takes a last service at 0 km for none. It refuses a zero interval only when the text is "0":
  "00" and "0.0" are sent as 0 and answered 400 (`schedule-form.tsx:48`). And it makes the moment
  of the last service again on every save (`schedule-form.tsx:118`): a schedule saved untouched
  moves it to now if it was today and to midday if it was not. The other three forms send the day
  only if it changed, because "re-deriving it on every save would move the expense to midday"
  (`expense-form.tsx:75`). `FormsAgree` excepts that one field, for a moment of the same day
  (`Rederived`). Edit forms send every field, so an edit from a stale form writes back what
  somebody else changed.
- *Mileage box.* On an edit it asks about midday or now and sends the stored moment.
- *Rate limits.* Of two verdicts with equally little left the first is reported, so an email's
  refusal after the address's last attempt goes unseen (`rate-limit.guard.ts:60`).
- *Pages.* A last page emptied under its reader says "No … yet"; the bell, the connected
  accounts and one card show a failed read as nothing; a list of archived cars only says there
  are none; an invalidation during a first read is swallowed.

## Proofs

Eight modules hold theorems that TLAPS checks for every value of the constants, under each
module's named assumption (`OdometerAssumption`, `LedgerAssumption`, ...): bounds are naturals,
sentinels lie outside the sets they stand beside, moments, tokens, mileages and amounts are
numbers where the code compares them. Some need a finite set: `LedgerAssumption` finitely many
transactions (it counts the readings under way), `DocumentsAssumption` finitely many documents
and `ThrottleAssumption` finitely many rows of a key (both count them); `BrowserAssumption` asks
that there be a call for every tab. Each argument is an invariant that is inductive where the
promise alone is not, one lemma per action, and a last step that draws the promise from it.

- **`OdometerProofs`**: `TimelineMonotone`, `HeadlineIsHighest`, `HeadlineFallsOnlyByWithdrawal`.
  A commit is safe because what was checked under the lock still stands, so `IInv` adds: the
  lock is held exactly by the transaction that has read the timeline (`LockHeld`); what it found
  is still so (`ViewHolds`); readings carry the order of their insertion (`Ordered`); a vehicle
  whose seed is pending and unovertaken has no readings (`FreshVehicle`). `AcceptedReadingFits`
  is the heart: comparing a reading with its two neighbours is enough for the whole timeline. That
  the neighbours exist rests on finite descent over `seq`, since `readings` is not known finite.
- **`LedgerProofs`**: `LedgerMirrorsRecords`, `OneReadingPerRecord`, and `ImplementsOdometer`:
  initial states map to initial states, every step to a step or a stutter. `IInv` says what each
  job may hold and that its row is still as it was read (`Read`, `Apart`). From the refinement and
  `OdometerProofs` follow, for the services themselves, `LedgerKeepsTimeline` and
  `LedgerKeepsHeadline`: no sequence of fills, services and expenses makes a timeline contradict
  itself or the headline differ from its highest reading.

  *Fuel log*: `LogAgrees`, for every log and not only those the odometer lets be written.
  `LogInv` is all that is asked of a state: finitely many fills, an id being one fill's (under
  `FuelLogAssumption`: ids, days, mileages, litres, amounts and metres are numbers, a list has room
  for a name). The rest is about what the log computes, by counting up (`CountUp`: a set with zero
  and every successor is all of the naturals; the predicate is a set, so no operator is
  instantiated). A sum over a finite set exists, is the same in whatever order it is taken and adds
  up over parts (`SumExists` to `SumOfNaturals`); an order without ties sorts a finite set into one
  sequence that has each element once (`SortExists`, `ListIs`). *Consumption*: after each fill the
  walk holds the windows closed so far and the one stretch that is open, if any, with all that was
  poured over it (`RunOk`); at the end those are the pairs of `WindowsAgree`. *Summary*: a window
  covers what no earlier one covers (`Fits`), so a period's sums are at most what was bought and
  driven. *Suggestions*: the names kept after the newest fills (`NamesOk`); a habit, or a station in
  reach, stands where its count and date, or its distance, put it, and where those tie, where its
  first fill is in the log (`SeenInTurn`: parts of a log that share no fill come in turn).
- **`EntryProofs`**, what is entered once and how. *Submission*: `RetryIsUnderstood` for every
  form; `OneRecordPerEntry` under `FillsIn = FALSE`, which is the expense form; for the others
  `submission_filled` shows that the assumption is needed. `OnePayload`: a key carries one payload
  wherever it is; `OneKey`, `NotAhead`, `OwnKey`: an entry has one key, the one the form keeps.
  *Fuel form*: `WorkedOutIsAccepted` from `FuelInv`: a figure nobody typed is the rounded quotient
  or product of the two that were, so the service's own product is off by half a unit of the
  rounding each way (`RoundedBounds`), and only a total under 25 millimes or under a quarter of
  the price leaves the tolerance. *Service form*: `NewCostsAreUnderstood` from `ServiceInv`: a total
  nobody typed is empty or the sum of the split. *Mileage*: `MileageAgrees` from `MileageInv`, for
  readings with numbers of their own: box and odometer look at the same neighbours, and the number
  completed from its end is the next with that end whatever the power of ten. *Forms*: `FormsAgree`
  from `FormsInv` (a stored row's fields fit the API's rules for a new record and its columns, an
  untouched edit still shows the row, its moments as days), for any number of boxes touched and up
  to a billion requests, the largest time a moment may have (`FormsAssumption`). A row holds
  moments where the form holds days: what a picker shows of a moment is a day of the form's, and a
  picked day is sent as a moment that fits; what an untouched edit changes is a last service at 0 km
  (`AtZero`), or the time of one within its day (`Redone`). The comparison itself is `TablesAgree`, field by field of
  eleven forms: each of the form's, the API's and the column's rules is the tighter one, whatever
  the value, but for the fields named (`LooserIn`, `UnguardedIn`). Two of those need a reason of
  their own: the API alone does not keep a service's total from being null, the costs' check does,
  and a reminder's warning is not checked by the form, whose chips offer only what fits.
- **`AuthProofs`**, who gets in and how often. *Sessions*: `OneSuccessor`,
  `RunningSessionKeepsToken`, `QuietEndIsFinal`, `RefusedOnlyWhenOver`. The heart is `Renewed`: a
  running session has a live token that lasts as long as any it gave out, so whoever is turned
  away presented one that expired on the way. *Access*: `OnlyMembersReach` from `AccessInv`: a
  member is the vehicle's creator, a row never changes its vehicle, so what a guard found still
  holds when the handler runs, even after a deletion. *Throttle*: `LimitsHold` from `ThrottleInv`:
  since Redis last lost its counts, every attempt let through that is young enough to matter is
  still counted (`StillCounted`), so each window's attempts are at most what the script saw.
- **`AlertProofs`**, what is due and who hears of it. *Upkeep*: `OneSuccessor` from `ReminderInv`:
  who works on a reminder has locked it and has its row, and one that has a successor is no longer
  pending; `EveryDueIsAnnounced` from `AnnounceInv`: what a sweep has read is what is there while
  nothing moves (`Fresh`), and a row's key says what the row says (`Keyed`). *Outbox*: `MailedOnce`,
  `SentMeansMailed`, `NoMailWithoutConsent`. `Disjoint`: no two digests hold a row; `Truth`: what
  the table says of a free row and of a held one; `Asked`: what is on its way to the mail server
  was wanted since the digest started.
- **`BrowserSessionProofs`**, what the browser holds. *Session*: `StoredByOwnSession`,
  `OneRefreshInFlight`, `NobodyWaitsInVain` from `TabInv` (a tab's refreshes are of its own
  generations, the one of the present one is `inFlight`, and waiters wait for one on its way);
  `QuietSessionLasts` from `CookieInv`: while nobody ends the session everything the browser sends
  or is about to receive is of one live family, and what arrives last is what is newest or still in
  its grace. *Screens*: `ScreensFollow` for any page size and numbers of rows, from `ScreenInv`:
  what a query read and was not told to forget is what the server has (`SoundQuery`), a write whose
  answer is on its way has touched what the panel reads (`SoundWrites`), and nobody is on a page
  beyond the last unless rows went (`SoundPages`). `WhatIsTouchedIsTold` is the fact about the code:
  every write but one clears a key that the key of every panel showing its rows begins with. The
  exception is `SaveProfile`, whose answer clears nothing: a list read before it counts as missed.
- **`AccountsProofs`**: `ConfirmedMeansProved`, `LinkWorksOnce`, `OlderLinkIsDead`,
  `FlowEndsWhereItBegan`, `EnteredOwnAccount` from `LinkInv` (a link that was there when another
  was issued is spent, deleted, or held by the issuer, until the issuer commits), `SignInInv` and
  `FlowInv`. `WayIn` is proved for a registry of one provider, which is what `ProviderRegistry`
  has: then only an account with a password reaches the delete, and passwords are never taken
  back. With two, two disconnections at once could each count on the other.
- **`DocumentsProofs`**: `WithinLimit`, `ReadyHasFile`, `PlainKeysCollected`. `RoomIsHeld`: who
  counted holds the owner's row and its last place; `KeysAreAll`: who read the keys under the
  owner's lock has all that the cascade takes; `PurgedIsGone`: only files of rows that are gone or
  failed are purged.

`TypeOK` is proved of the concurrent modules but `Upkeep`, whose date of the last run a bound
caps, and `BrowserSession`, whose generations a run bounds and the proof does not (`ReminderInv`
with `AnnounceInv`, and `Types`, take its place).

Only model-checked: `EveryRequestEnds` and `OwedIsSettled`, since liveness under fairness and
ENABLED are beyond the prover. No module declares a RECURSIVE operator: the library's induction
theorems take an operator as a parameter, which the installed provers cannot instantiate, so what a
fold computes is proved over sets of naturals instead (`CountUp`, below `LedgerProofs`).

## Not modelled

- *Configuration, health, logging, metadata*: start-up checks and probes, no state.
- *Presentation*: layout, wording, charts, exports, the landing page, focus, the catalogue of
  makes and models, the table of official prices, presets and suggestions that are data.
- *Exception filters, headers and CORS* of the HTTP layer; validation is in `Forms`, identity in
  `Access`.
- *Users*: single-row reads and updates of the profile beyond its fields and what they
  invalidate. Memberships other than the owner's: no endpoint creates one, so `Access` takes any
  role for given.
- The unique index on the licence plate; the send window's arithmetic; `deleteExpiredBefore`,
  which nothing calls.
- Prisma, Postgres, Redis, BullMQ, S3, TanStack Query, the identity provider and the photo
  reader are modelled by the guarantees the code relies on, never by their implementation, and
  marked external in the map. Vehicles do not interact, so the concurrent modules follow one.
