------------------------------- MODULE Outbox -------------------------------
(***************************************************************************)
(* Reminders on their way out: the hourly sweep writes what fell due into  *)
(* the notifications table, asks for a digest for everyone owed an email,  *)
(* and the digest mails what it claims.  The table is the outbox, Redis    *)
(* only a queue.  One vehicle with its members; what the due engine says   *)
(* is any set of alerts.                                                   *)
(*                                                                         *)
(* Each worker process runs one sweep and one digest at a time, so the two *)
(* kinds of job have processes of their own here.                          *)
(***************************************************************************)
EXTENDS Integers

CONSTANTS
  User,         \* members of the vehicle
  Alert,        \* dedupe keys: one per item, status and due point
  Sweeper,      \* RemindersProcessor, one per worker
  Digester,     \* NotificationsProcessor, one per worker
  NoUser,
  MaxFailures   \* bound: failed attempts, stalls and restarts of Redis

ASSUME OutboxAssumption ==
  /\ NoUser \notin User
  /\ Digester \cap {"none", "queued"} = {}
  /\ MaxFailures \in Nat

VARIABLES
  vehicle,      \* "present" or "absent"
  emailStatus,  \* notifications.emailStatus, "none" where there is no row
  read,         \* rows whose readAt is set
  wants,        \* users with email on, a confirmed address and a transport
  scheduled,    \* the repeatable sweep is registered in Redis
  sweepQueued,  \* a sweep job waits
  digest,       \* the job digest-<user>: none, queued, or who works on it
  sweep,        \* what each sweeper is doing
  job,          \* what each digester is doing
  mailed,       \* history: mails of a row whose transaction was not lost, up to 2
  failures

rows  == <<vehicle, emailStatus, read, mailed>>
redis == <<scheduled, sweepQueued, digest>>
vars  == <<vehicle, emailStatus, read, mailed, wants, scheduled, sweepQueued, digest,
           sweep, job, failures>>

Row == User \X Alert

NoSweep == [pc |-> "idle", alerts |-> {}, emailTo |-> {}, owed |-> {}]

\* rows: the claimed alerts; unread: those not read when claimed; consent:
\* history, whether the user wanted email at some time since the job began.
NoJob == [pc |-> "idle", user |-> NoUser, rows |-> {}, unread |-> {}, consent |-> FALSE]

TypeOK ==
  /\ vehicle \in {"present", "absent"}
  /\ emailStatus \in [Row -> {"none", "PENDING", "SENT", "SKIPPED"}]
  /\ read \subseteq {n \in Row : emailStatus[n] # "none"}
  /\ wants \subseteq User
  /\ scheduled \in BOOLEAN /\ sweepQueued \in BOOLEAN
  /\ digest \in [User -> {"none", "queued"} \cup Digester]
  /\ sweep \in [Sweeper -> [pc : {"idle", "sweeping", "delivering", "swept", "asking"},
                            alerts : SUBSET Alert, emailTo : SUBSET User,
                            owed : SUBSET User]]
  /\ job \in [Digester -> [pc : {"idle", "started", "claimed", "sending", "sent"},
                           user : User \cup {NoUser}, rows : SUBSET Alert,
                           unread : SUBSET Alert, consent : BOOLEAN]]
  /\ mailed \in [Row -> 0..2]
  /\ failures \in 0..MaxFailures

\* A worker has just started: see Boot.
Init ==
  /\ vehicle = "present"
  /\ emailStatus = [n \in Row |-> "none"]
  /\ read = {}
  /\ wants \in SUBSET User
  /\ scheduled = TRUE
  /\ sweepQueued = TRUE
  /\ digest = [u \in User |-> "none"]
  /\ sweep = [s \in Sweeper |-> NoSweep]
  /\ job = [d \in Digester |-> NoJob]
  /\ mailed = [n \in Row |-> 0]
  /\ failures = 0

-----------------------------------------------------------------------------
Pending(u) == {a \in Alert : emailStatus[u, a] = "PENDING"}
Claimed(d) == {job[d].user} \X job[d].rows
Locked     == UNION {Claimed(d) : d \in Digester}

Mailing(d) == {job[d].user} \X job[d].unread

Sweeping(s, pc) == sweep[s].pc = pc
Working(d, pc)  == job[d].pc = pc

\* onApplicationBootstrap of a worker: the schedule is upserted by name, and
\* one sweep queued at once.
Boot ==
  /\ scheduled' = TRUE
  /\ sweepQueued' = TRUE
  /\ UNCHANGED <<rows, wants, digest, sweep, job, failures>>

\* The hour comes round.
Tick ==
  /\ scheduled
  /\ sweepQueued' = TRUE
  /\ UNCHANGED <<rows, wants, scheduled, digest, sweep, job, failures>>

-----------------------------------------------------------------------------
(* The sweep. *)

\* The due states of the vehicle, if it still exists, give the alerts A.
StartSweep(s, A) ==
  /\ Sweeping(s, "idle")
  /\ sweepQueued
  /\ vehicle = "absent" => A = {}
  /\ sweepQueued' = FALSE
  /\ sweep' = [sweep EXCEPT ![s] = [NoSweep EXCEPT !.pc = "sweeping", !.alerts = A]]
  /\ UNCHANGED <<rows, wants, scheduled, digest, job, failures>>

\* deliver asks who wants email, in a statement before the insert.
ReadRecipients(s) ==
  /\ Sweeping(s, "sweeping")
  /\ sweep' = [sweep EXCEPT ![s].pc = "delivering", ![s].emailTo = wants]
  /\ UNCHANGED <<rows, wants, redis, job, failures>>

NewStatus(s, u) == IF u \in sweep[s].emailTo THEN "PENDING" ELSE "SKIPPED"

\* One row per member and alert; ON CONFLICT DO NOTHING on (userId, dedupeKey).
Inserted(s) ==
  [n \in Row |-> IF n[2] \in sweep[s].alerts /\ emailStatus[n] = "none"
                 THEN NewStatus(s, n[1]) ELSE emailStatus[n]]

InsertNew(s) ==
  /\ Sweeping(s, "delivering")
  /\ vehicle = "present"
  /\ emailStatus' = Inserted(s)
  /\ sweep' = [sweep EXCEPT ![s] = [NoSweep EXCEPT !.pc = "swept"]]
  /\ UNCHANGED <<vehicle, read, mailed, wants, redis, job, failures>>

\* The vehicle went meanwhile: its rows have nothing to point at, and the sweep
\* goes on to the next car.
SweepVehicleFails(s) ==
  /\ Sweeping(s, "delivering")
  /\ vehicle = "absent"
  /\ sweep' = [sweep EXCEPT ![s] = [NoSweep EXCEPT !.pc = "swept"]]
  /\ UNCHANGED <<rows, wants, redis, job, failures>>

Asking(s, owed) ==
  sweep' = [sweep EXCEPT ![s] = IF owed = {} THEN NoSweep
                                ELSE [NoSweep EXCEPT !.pc = "asking", !.owed = owed]]

\* Everyone owed an email, from the table, not from what this sweep created.
UsersAwaitingEmail(s) ==
  /\ Sweeping(s, "swept")
  /\ Asking(s, {u \in User : Pending(u) # {}})
  /\ UNCHANGED <<rows, wants, redis, job, failures>>

\* BullMQ ignores an add whose id is taken.
AddDigest(s, u) ==
  /\ Sweeping(s, "asking")
  /\ u \in sweep[s].owed
  /\ digest' = [digest EXCEPT ![u] = IF @ = "none" THEN "queued" ELSE @]
  /\ Asking(s, sweep[s].owed \ {u})
  /\ UNCHANGED <<rows, wants, scheduled, sweepQueued, job, failures>>

\* The sweep throws or its worker dies: it is tried again, or given up.
SweepFails(s) ==
  /\ ~Sweeping(s, "idle")
  /\ failures < MaxFailures
  /\ failures' = failures + 1
  /\ sweepQueued' \in {sweepQueued, TRUE}
  /\ sweep' = [sweep EXCEPT ![s] = NoSweep]
  /\ UNCHANGED <<rows, wants, scheduled, digest, job>>

-----------------------------------------------------------------------------
(* The digest: one transaction from the claim to the commit. *)

\* Any time after it was queued: the send window delays it.
StartDigest(d, u) ==
  /\ Working(d, "idle")
  /\ digest[u] = "queued"
  /\ digest' = [digest EXCEPT ![u] = d]
  /\ job' = [job EXCEPT ![d] = [NoJob EXCEPT !.pc = "started", !.user = u,
                                             !.consent = u \in wants]]
  /\ UNCHANGED <<rows, wants, scheduled, sweepQueued, sweep, failures>>

\* Mutant: the finished job keeps its id.
CompleteKept(d) ==
  /\ digest' = digest
  /\ job' = [job EXCEPT ![d] = NoJob]

\* removeOnComplete frees the id, unless the job was taken from this worker.
Complete(d) ==
  /\ digest' = [digest EXCEPT ![job[d].user] = IF @ = d THEN "none" ELSE @]
  /\ job' = [job EXCEPT ![d] = NoJob]

\* Mutant: no row lock, so that two digests read PENDING and both send.
ClaimableUnlocked(d) == Pending(job[d].user)

\* FOR UPDATE SKIP LOCKED.
Claimable(d) == {a \in Pending(job[d].user) : <<job[d].user, a>> \notin Locked}

ClaimUnsent(d) ==
  /\ Working(d, "started")
  /\ Claimable(d) # {}
  /\ job' = [job EXCEPT ![d].pc = "claimed", ![d].rows = Claimable(d),
                        ![d].unread = {a \in Claimable(d) : <<job[d].user, a>> \notin read}]
  /\ UNCHANGED <<rows, wants, redis, sweep, failures>>

NothingToSend(d) ==
  /\ Working(d, "started")
  /\ Claimable(d) = {}
  /\ Complete(d)
  /\ UNCHANGED <<rows, wants, scheduled, sweepQueued, sweep, failures>>

Settle(S, status) ==
  emailStatus' = [n \in Row |-> IF n \in S THEN status ELSE emailStatus[n]]

\* Mutant: the email was promised when the row was written.
UnwantedNever(d) == FALSE

Unwanted(d) == job[d].user \notin wants

\* Email is off by now, or all was read in the app: skipped, and committed.
SkipClaimed(d) ==
  /\ Working(d, "claimed")
  /\ Unwanted(d) \/ job[d].unread = {}
  /\ Settle(Claimed(d), "SKIPPED")
  /\ Complete(d)
  /\ UNCHANGED <<vehicle, read, mailed, wants, scheduled, sweepQueued, sweep, failures>>

Render(d) ==
  /\ Working(d, "claimed")
  /\ ~Unwanted(d)
  /\ job[d].unread # {}
  /\ job' = [job EXCEPT ![d].pc = "sending"]
  /\ UNCHANGED <<rows, wants, redis, sweep, failures>>

\* The mail server accepts the message.
Send(d) ==
  /\ Working(d, "sending")
  /\ mailed' = [n \in Row |-> IF n \in Mailing(d) /\ mailed[n] < 2 THEN mailed[n] + 1
                              ELSE mailed[n]]
  /\ job' = [job EXCEPT ![d].pc = "sent"]
  /\ UNCHANGED <<vehicle, emailStatus, read, wants, redis, sweep, failures>>

\* What was mailed is SENT, what was read before is SKIPPED.
CommitDigest(d) ==
  /\ Working(d, "sent")
  /\ emailStatus' = [n \in Row |-> IF n \in Mailing(d) THEN "SENT"
                                   ELSE IF n \in Claimed(d) THEN "SKIPPED"
                                   ELSE emailStatus[n]]
  /\ Complete(d)
  /\ UNCHANGED <<vehicle, read, mailed, wants, scheduled, sweepQueued, sweep, failures>>

\* Mutant: the rows were marked before the mail, in a statement of their own.
RolledBackMarked(d) ==
  /\ Settle(Mailing(d), "SENT")
  /\ mailed' = mailed

\* Nothing was written; a mail already accepted is one the table knows nothing of.
RolledBack(d) ==
  /\ emailStatus' = emailStatus
  /\ mailed' = [n \in Row |-> IF Working(d, "sent") /\ n \in Mailing(d) THEN 0
                              ELSE mailed[n]]

\* The mail server refuses, the transaction times out or the worker dies: the
\* rows stay owed, and the job is tried again or has exhausted its attempts.
DigestFails(d) ==
  /\ ~Working(d, "idle")
  /\ failures < MaxFailures
  /\ failures' = failures + 1
  /\ RolledBack(d)
  /\ digest' \in {[digest EXCEPT ![job[d].user] = IF @ = d THEN next ELSE @] :
                    next \in {"queued", "none"}}
  /\ job' = [job EXCEPT ![d] = NoJob]
  /\ UNCHANGED <<vehicle, read, wants, scheduled, sweepQueued, sweep>>

\* BullMQ takes a silent worker's job for stalled and hands it to another, while
\* the first one carries on.
Stall(u) ==
  /\ digest[u] \in Digester
  /\ failures < MaxFailures
  /\ failures' = failures + 1
  /\ digest' = [digest EXCEPT ![u] = "queued"]
  /\ UNCHANGED <<rows, wants, scheduled, sweepQueued, sweep, job>>

\* Redis restarts with nothing on disk; the workers reconnect and go on.
RedisRestarts ==
  /\ failures < MaxFailures
  /\ failures' = failures + 1
  /\ scheduled' = FALSE
  /\ sweepQueued' = FALSE
  /\ digest' = [u \in User |-> "none"]
  /\ UNCHANGED <<rows, wants, sweep, job>>

-----------------------------------------------------------------------------
(* What people do meanwhile. *)

\* markRead of one row and markAllRead: the update waits for a digest's locks.
MarkRead(S) ==
  /\ S # {}
  /\ S \cap Locked = {}
  /\ read' = read \cup S
  /\ UNCHANGED <<vehicle, emailStatus, mailed, wants, redis, sweep, job, failures>>

UnreadRows(u) == {n \in {u} \X Alert : emailStatus[n] # "none" /\ n \notin read}

\* The unsubscribe link, or the setting.
TurnOff(u) ==
  /\ u \in wants
  /\ wants' = wants \ {u}
  /\ UNCHANGED <<rows, redis, sweep, job, failures>>

\* The setting, or an address confirmed at last.
TurnOn(u) ==
  /\ u \notin wants
  /\ wants' = wants \cup {u}
  /\ job' = [d \in Digester |-> IF job[d].user = u THEN [job[d] EXCEPT !.consent = TRUE]
                                ELSE job[d]]
  /\ UNCHANGED <<rows, redis, sweep, failures>>

\* A notification goes with its car; the cascade waits for locked rows.
DeleteVehicle ==
  /\ vehicle = "present"
  /\ Locked = {}
  /\ vehicle' = "absent"
  /\ emailStatus' = [n \in Row |-> "none"]
  /\ read' = {}
  /\ mailed' = [n \in Row |-> 0]
  /\ UNCHANGED <<wants, redis, sweep, job, failures>>

-----------------------------------------------------------------------------
SweepStep(s) ==
  \/ \E A \in SUBSET Alert : StartSweep(s, A)
  \/ ReadRecipients(s)
  \/ InsertNew(s)
  \/ SweepVehicleFails(s)
  \/ UsersAwaitingEmail(s)
  \/ \E u \in User : AddDigest(s, u)

DigestStep(d) ==
  \/ ClaimUnsent(d)
  \/ NothingToSend(d)
  \/ SkipClaimed(d)
  \/ Render(d)
  \/ Send(d)
  \/ CommitDigest(d)

Next ==
  \/ Boot
  \/ Tick
  \/ RedisRestarts
  \/ DeleteVehicle
  \/ \E s \in Sweeper : SweepStep(s) \/ SweepFails(s)
  \/ \E d \in Digester : DigestStep(d) \/ DigestFails(d)
  \/ \E u \in User :
       \/ \E d \in Digester : StartDigest(d, u)
       \/ Stall(u)
       \/ TurnOff(u)
       \/ TurnOn(u)
       \/ \E n \in UnreadRows(u) : MarkRead({n})
       \/ MarkRead(UnreadRows(u))

Spec == Init /\ [][Next]_vars

\* The clock ticks, a job taken up is carried on, and the queue is first come
\* first served.  Nobody starts a worker: fairness says nothing of Boot.
FairSpec ==
  /\ Spec
  /\ WF_vars(Tick)
  /\ \A s \in Sweeper : WF_vars(SweepStep(s))
  /\ \A d \in Digester : WF_vars(DigestStep(d))
  /\ \A u \in User : SF_vars(\E d \in Digester : StartDigest(d, u))

-----------------------------------------------------------------------------
(* What the code promises. *)

\* Two overlapping digests never mail the same row, however a job is retried or
\* handed on: only a mail whose transaction was lost is repeated (claimUnsent).
MailedOnce == \A n \in Row : mailed[n] <= 1

\* The table tells the truth about every row no digest is at work on: SENT if and
\* only if a mail left, so that nothing owed is dropped and nothing skipped sent.
SentMeansMailed ==
  \A n \in Row : n \notin Locked => (emailStatus[n] = "SENT" <=> mailed[n] = 1)

\* Whoever had email off for as long as a digest ran gets nothing from it,
\* although the rows were written when it was on.
SendsWithConsent == \A d \in Digester : Send(d) => job[d].consent
NoMailWithoutConsent == [][SendsWithConsent]_vars

\* The table is the outbox: whichever digests were lost, every row owed an email
\* is settled in the end, provided the sweep is still scheduled.
OwedIsSettled ==
  <>[]scheduled => \A n \in Row : emailStatus[n] = "PENDING" ~> emailStatus[n] # "PENDING"

=============================================================================
