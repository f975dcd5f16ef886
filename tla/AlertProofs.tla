---------------------------- MODULE AlertProofs -----------------------------
(***************************************************************************)
(* What becomes of what falls due.  Upkeep, for any number of requests and *)
(* reminders: a reminder is succeeded once, and a sweep that nothing       *)
(* disturbs leaves nothing due unannounced.  Outbox, for any number of     *)
(* members, alerts and workers: a digest works on rows no other digest     *)
(* holds, so a row is mailed once unless a transaction was lost, and the   *)
(* table says SENT of exactly the rows that were mailed.                   *)
(***************************************************************************)
EXTENDS Outbox, Upkeep, TLAPS

-----------------------------------------------------------------------------
(* Outbox. *)

Statuses == {"none", "PENDING", "SENT", "SKIPPED"}
Holders  == {"none", "queued"} \cup Digester
AnySweep ==
  [pc : {"idle", "sweeping", "delivering", "swept", "asking"},
   alerts : SUBSET Alert, emailTo : SUBSET User, owed : SUBSET User]
AnyJob ==
  [pc : {"idle", "started", "claimed", "sending", "sent"}, user : User \cup {NoUser},
   rows : SUBSET Alert, unread : SUBSET Alert, consent : BOOLEAN]

\* What a digest holds, it took after it started, for a member, and mails a part of it.
Kept(j) ==
  /\ j.pc \in {"idle", "started"} => j.rows = {}
  /\ j.pc # "idle" => j.user \in User
  /\ j.unread \subseteq j.rows

JobsKept == \A d \in Digester : Kept(job[d])
Disjoint == \A d, e \in Digester : d # e => Claimed(d) \cap Claimed(e) = {}

\* What the table says of a row nobody holds, and of one that digest d holds.
Free(n) == mailed[n] <= 1 /\ (emailStatus[n] = "SENT" <=> mailed[n] = 1)
Sure(d, n) ==
  /\ emailStatus[n] = "PENDING"
  /\ mailed[n] = IF Working(d, "sent") /\ n \in Mailing(d) THEN 1 ELSE 0

Truth ==
  /\ \A n \in Row : n \notin Locked => Free(n)
  /\ \A d \in Digester : \A n \in Claimed(d) : Sure(d, n)

IInv == TypeOK /\ JobsKept /\ Disjoint /\ Truth

-----------------------------------------------------------------------------
LEMMA NothingIsTyped ==
  NoJob \in AnyJob /\ NoSweep \in AnySweep /\ Kept(NoJob)
BY DEF NoJob, NoSweep, AnyJob, AnySweep, Kept

LEMMA TypeIsParts ==
  TypeOK <=> /\ vehicle \in {"present", "absent"}
             /\ emailStatus \in [Row -> Statuses]
             /\ read \subseteq {n \in Row : emailStatus[n] # "none"}
             /\ wants \subseteq User
             /\ scheduled \in BOOLEAN /\ sweepQueued \in BOOLEAN
             /\ digest \in [User -> Holders]
             /\ sweep \in [Sweeper -> AnySweep]
             /\ job \in [Digester -> AnyJob]
             /\ mailed \in [Row -> 0..2]
             /\ failures \in 0..MaxFailures
BY DEF TypeOK, Statuses, Holders, AnySweep, AnyJob

LEMMA ClaimedAreRows ==
  ASSUME TypeOK, JobsKept, NEW d \in Digester
  PROVE  Claimed(d) \subseteq Row /\ Mailing(d) \subseteq Claimed(d)
<1>1. job[d] \in AnyJob /\ Kept(job[d])
  BY TypeIsParts DEF JobsKept
<1>2. job[d].rows # {} => job[d].user \in User
  BY <1>1 DEF Kept
<1> QED BY <1>1, <1>2 DEF Claimed, Mailing, Row, AnyJob, Kept

\* A step of one digest, that leaves it with job j.
LEMMA OneJob ==
  ASSUME TypeOK, JobsKept, NEW d \in Digester, NEW j \in AnyJob, Kept(j),
         job' = [job EXCEPT ![d] = j]
  PROVE  /\ job' \in [Digester -> AnyJob] /\ JobsKept'
         /\ job'[d] = j
         /\ Claimed(d)' = {j.user} \X j.rows /\ Mailing(d)' = {j.user} \X j.unread
         /\ \A e \in Digester : e # d => /\ job'[e] = job[e]
                                         /\ Claimed(e)' = Claimed(e)
                                         /\ Mailing(e)' = Mailing(e)
<1>1. job \in [Digester -> AnyJob]
  BY TypeIsParts
<1>2. job' \in [Digester -> AnyJob] /\ job'[d] = j
      /\ \A e \in Digester : e # d => job'[e] = job[e]
  BY <1>1
<1>3. JobsKept'
  BY <1>2 DEF JobsKept
<1> QED BY <1>2, <1>3 DEF Claimed, Mailing

LEMMA LockedIsHeld ==
  ASSUME NEW n PROVE n \in Locked <=> \E d \in Digester : n \in Claimed(d)
BY DEF Locked

-----------------------------------------------------------------------------
LEMMA TypeInit == Init => TypeOK
BY OutboxAssumption, NothingIsTyped, TypeIsParts DEF Init, Statuses, Holders

\* A job handed back is given to the same queue.
LEMMA DigestTyped ==
  ASSUME TypeOK, NEW d \in Digester, NEW next \in Holders,
         digest' = [digest EXCEPT ![job[d].user] = IF @ = d THEN next ELSE @]
  PROVE  digest' \in [User -> Holders]
BY TypeIsParts

\* Which job a digest's step leaves it with.
LEMMA StartLeaves ==
  ASSUME TypeOK, JobsKept, NEW d \in Digester, NEW u \in User, StartDigest(d, u)
  PROVE  \E j \in AnyJob : /\ Kept(j) /\ job' = [job EXCEPT ![d] = j]
                           /\ j.rows = {} /\ j.pc = "started"
<1> DEFINE j == [NoJob EXCEPT !.pc = "started", !.user = u, !.consent = u \in wants]
<1>1. j.pc = "started" /\ j.user = u /\ j.rows = {} /\ j.unread = {}
  BY DEF NoJob
<1>2. j \in AnyJob
  <2>1. (u \in wants) \in BOOLEAN
    OBVIOUS
  <2>2. ASSUME NEW c \in BOOLEAN
        PROVE  [NoJob EXCEPT !.pc = "started", !.user = u, !.consent = c] \in AnyJob
    BY DEF NoJob, AnyJob
  <2> QED BY <2>1, <2>2
<1>3. Kept(j)
  BY <1>1 DEF Kept
<1>4. job' = [job EXCEPT ![d] = j]
  BY DEF StartDigest
<1> HIDE DEF j
<1> QED BY <1>1, <1>2, <1>3, <1>4

LEMMA ClaimLeaves ==
  ASSUME TypeOK, JobsKept, NEW d \in Digester, ClaimUnsent(d)
  PROVE  \E j \in AnyJob : /\ Kept(j) /\ job' = [job EXCEPT ![d] = j]
                           /\ j.user = job[d].user /\ j.rows = Claimable(d) /\ j.pc = "claimed"
<1> DEFINE j == [job[d] EXCEPT !.pc = "claimed", !.rows = Claimable(d),
                   !.unread = {a \in Claimable(d) : <<job[d].user, a>> \notin read}]
<1>1. job[d] \in AnyJob /\ Kept(job[d]) /\ job[d].pc = "started"
  BY TypeIsParts DEF JobsKept, ClaimUnsent, Working
<1>2. Claimable(d) \subseteq Alert
  BY DEF Claimable, Pending
<1>3. job[d].user \in User
  BY <1>1 DEF Kept
<1>4. j \in AnyJob /\ j.user = job[d].user /\ j.rows = Claimable(d) /\ j.pc = "claimed"
  BY <1>1, <1>2 DEF AnyJob
<1>5. Kept(j)
  BY <1>1, <1>3, <1>4 DEF Kept, AnyJob
<1>6. job' = [job EXCEPT ![d] = j]
  BY <1>1 DEF ClaimUnsent
<1> HIDE DEF j
<1> QED BY <1>4, <1>5, <1>6

\* Render and Send: the digest moves on with what it holds.
LEMMA MovesOn ==
  ASSUME TypeOK, JobsKept, NEW d \in Digester, NEW pc \in {"sending", "sent"},
         job[d].pc # "idle", job' = [job EXCEPT ![d].pc = pc]
  PROVE  \E j \in AnyJob : /\ Kept(j) /\ job' = [job EXCEPT ![d] = j] /\ j.pc = pc
                           /\ j.user = job[d].user /\ j.rows = job[d].rows
                           /\ j.unread = job[d].unread
<1> DEFINE j == [job[d] EXCEPT !.pc = pc]
<1>1. job[d] \in AnyJob /\ Kept(job[d]) /\ job' = [job EXCEPT ![d] = j]
  BY TypeIsParts DEF JobsKept
<1>2. j \in AnyJob /\ j.pc = pc /\ j.user = job[d].user /\ j.rows = job[d].rows
      /\ j.unread = job[d].unread
  BY <1>1 DEF AnyJob
<1>3. Kept(j)
  BY <1>1, <1>2 DEF Kept
<1> HIDE DEF j
<1> QED BY <1>1, <1>2, <1>3

\* TurnOn: nothing but the history of consent.
LEMMA ConsentOnly ==
  ASSUME TypeOK, JobsKept, NEW u \in User, TurnOn(u)
  PROVE  /\ job' \in [Digester -> AnyJob] /\ JobsKept'
         /\ \A d \in Digester : /\ job'[d].pc = job[d].pc /\ job'[d].user = job[d].user
                                /\ job'[d].rows = job[d].rows
                                /\ job'[d].unread = job[d].unread
<1>1. job \in [Digester -> AnyJob]
  BY TypeIsParts
<1>2. ASSUME NEW d \in Digester
      PROVE  /\ [job[d] EXCEPT !.consent = TRUE] \in AnyJob
             /\ [job[d] EXCEPT !.consent = TRUE].pc = job[d].pc
             /\ [job[d] EXCEPT !.consent = TRUE].user = job[d].user
             /\ [job[d] EXCEPT !.consent = TRUE].rows = job[d].rows
             /\ [job[d] EXCEPT !.consent = TRUE].unread = job[d].unread
  BY <1>1 DEF AnyJob
<1>3. \A d \in Digester : job'[d] \in {job[d], [job[d] EXCEPT !.consent = TRUE]}
  BY DEF TurnOn
<1>4. job' = [d \in Digester |-> job'[d]]
  BY DEF TurnOn
<1>5. job' \in [Digester -> AnyJob]
  BY <1>1, <1>2, <1>3, <1>4
<1>6. \A d \in Digester : /\ job'[d].pc = job[d].pc /\ job'[d].user = job[d].user
                          /\ job'[d].rows = job[d].rows /\ job'[d].unread = job[d].unread
  BY <1>2, <1>3
<1>7. JobsKept'
  BY <1>6 DEF JobsKept, Kept
<1> QED BY <1>5, <1>6, <1>7

-----------------------------------------------------------------------------
LEMMA SweepTyped ==
  ASSUME TypeOK, NEW s \in Sweeper, SweepStep(s) \/ SweepFails(s)
  PROVE  sweep' \in [Sweeper -> AnySweep]
<1>0. sweep \in [Sweeper -> AnySweep] /\ wants \subseteq User /\ NoSweep \in AnySweep
  BY TypeIsParts, NothingIsTyped
<1>1. ASSUME NEW A \in SUBSET Alert, StartSweep(s, A) PROVE sweep' \in [Sweeper -> AnySweep]
  BY <1>0, <1>1 DEF StartSweep, AnySweep
<1>2. CASE ReadRecipients(s)
  BY <1>0, <1>2 DEF ReadRecipients, AnySweep
<1>3. CASE InsertNew(s) \/ SweepVehicleFails(s)
  BY <1>0, <1>3 DEF InsertNew, SweepVehicleFails, AnySweep
<1>4. ASSUME NEW O \in SUBSET User, Asking(s, O) PROVE sweep' \in [Sweeper -> AnySweep]
  BY <1>0, <1>4 DEF Asking, AnySweep
<1>5. CASE UsersAwaitingEmail(s)
  <2>1. {u \in User : Pending(u) # {}} \in SUBSET User
    OBVIOUS
  <2> QED BY <1>4, <1>5, <2>1 DEF UsersAwaitingEmail
<1>6. ASSUME NEW u \in User, AddDigest(s, u) PROVE sweep' \in [Sweeper -> AnySweep]
  <2>1. sweep[s].owed \ {u} \in SUBSET User
    BY <1>0 DEF AnySweep
  <2> QED BY <1>4, <1>6, <2>1 DEF AddDigest
<1>7. CASE SweepFails(s)
  BY <1>0, <1>7 DEF SweepFails
<1> QED BY <1>1, <1>2, <1>3, <1>5, <1>6, <1>7 DEF SweepStep

\* A step of the sweep, of Redis, of the members: the jobs and the mails stay.
LEMMA TypeNext ==
  ASSUME TypeOK, JobsKept, [Next]_vars
  PROVE  TypeOK' /\ JobsKept'
<1> DEFINE Table == /\ vehicle' \in {"present", "absent"}
                    /\ emailStatus' \in [Row -> Statuses]
                    /\ read' \subseteq {n \in Row : emailStatus'[n] # "none"}
                    /\ mailed' \in [Row -> 0..2]
           Queue == /\ scheduled' \in BOOLEAN /\ sweepQueued' \in BOOLEAN
                    /\ digest' \in [User -> Holders]
           Rest  == wants' \subseteq User /\ failures' \in 0..MaxFailures
           Done  == job' \in [Digester -> AnyJob] /\ JobsKept'
           Steps == sweep' \in [Sweeper -> AnySweep]
           All   == Table /\ Queue /\ Rest /\ Done /\ Steps
<1>0. /\ vehicle \in {"present", "absent"}
      /\ emailStatus \in [Row -> Statuses]
      /\ read \subseteq {n \in Row : emailStatus[n] # "none"}
      /\ wants \subseteq User
      /\ scheduled \in BOOLEAN /\ sweepQueued \in BOOLEAN
      /\ digest \in [User -> Holders]
      /\ sweep \in [Sweeper -> AnySweep]
      /\ job \in [Digester -> AnyJob]
      /\ mailed \in [Row -> 0..2]
      /\ failures \in 0..MaxFailures
  BY TypeIsParts
<1>1. ASSUME UNCHANGED rows PROVE Table
  BY <1>0, <1>1 DEF rows
<1>2. ASSUME UNCHANGED job PROVE Done
  BY <1>0, <1>2 DEF JobsKept
<1>3. ASSUME Boot \/ Tick \/ RedisRestarts PROVE All
  <2>1. CASE Boot \/ Tick
    BY <1>0, <1>1, <1>2, <2>1 DEF Boot, Tick
  <2>2. CASE RedisRestarts
    <3>1. Queue
      BY <2>2 DEF RedisRestarts, Holders
    <3>2. failures' \in 0..MaxFailures
      BY <1>0, <2>2, OutboxAssumption DEF RedisRestarts
    <3> QED BY <1>0, <1>1, <1>2, <2>2, <3>1, <3>2 DEF RedisRestarts
  <2> HIDE DEF All
  <2> QED BY <1>3, <2>1, <2>2
<1>4. ASSUME DeleteVehicle PROVE All
  <2>1. Table
    BY <1>4 DEF DeleteVehicle, Statuses
  <2> QED BY <1>0, <1>2, <1>4, <2>1 DEF DeleteVehicle, redis
<1>5. ASSUME NEW s \in Sweeper, SweepStep(s) \/ SweepFails(s) PROVE All
  <2>1. Steps
    BY <1>5, SweepTyped
  <2>2. ASSUME NEW A \in SUBSET Alert, StartSweep(s, A) PROVE All
    BY <1>0, <1>1, <1>2, <2>1, <2>2 DEF StartSweep
  <2>3. CASE ReadRecipients(s) \/ SweepVehicleFails(s) \/ UsersAwaitingEmail(s)
    BY <1>0, <1>1, <1>2, <2>1, <2>3 DEF ReadRecipients, SweepVehicleFails, UsersAwaitingEmail, redis
  <2>4. CASE InsertNew(s)
    <3>1. \A n \in Row : emailStatus'[n] \in Statuses
                         /\ (emailStatus[n] # "none" => emailStatus'[n] # "none")
      BY <1>0, <2>4 DEF InsertNew, Inserted, NewStatus, Statuses
    <3>2. emailStatus' = [n \in Row |-> emailStatus'[n]]
      BY <2>4 DEF InsertNew, Inserted
    <3>3. Table
      BY <1>0, <2>4, <3>1, <3>2 DEF InsertNew
    <3> QED BY <1>0, <1>2, <2>1, <2>4, <3>3 DEF InsertNew, redis
  <2>5. ASSUME NEW u \in User, AddDigest(s, u) PROVE All
    <3>1. Queue
      BY <1>0, <2>5 DEF AddDigest, Holders
    <3> QED BY <1>0, <1>1, <1>2, <2>1, <2>5, <3>1 DEF AddDigest
  <2>6. CASE SweepFails(s)
    <3>1. failures' \in 0..MaxFailures
      BY <1>0, <2>6, OutboxAssumption DEF SweepFails
    <3>2. sweepQueued' \in BOOLEAN
      BY <1>0, <2>6, Zenon DEF SweepFails
    <3>3. UNCHANGED <<rows, wants, scheduled, digest, job>>
      BY <2>6 DEF SweepFails
    <3> QED BY <1>0, <1>1, <1>2, <2>1, <3>1, <3>2, <3>3
  <2> HIDE DEF All
  <2> QED BY <1>5, <2>2, <2>3, <2>4, <2>5, <2>6 DEF SweepStep
<1>6. ASSUME NEW d \in Digester, Complete(d) PROVE Done /\ digest' \in [User -> Holders]
  <2>1. Done
    BY <1>6, OneJob, NothingIsTyped DEF Complete
  <2>2. "none" \in Holders
    BY DEF Holders
  <2> QED BY <1>6, <2>1, <2>2, DigestTyped DEF Complete
<1>7. ASSUME NEW S, NEW x \in {"SENT", "SKIPPED"}, Settle(S, x),
             UNCHANGED <<vehicle, read, mailed>>
      PROVE  Table
  BY <1>0, <1>7 DEF Settle, Statuses
<1>8. ASSUME NEW d \in Digester, DigestStep(d) \/ DigestFails(d) PROVE All
  <2>1. CASE ClaimUnsent(d)
    <3>1. Done
      BY <2>1, ClaimLeaves, OneJob
    <3> QED BY <1>0, <1>1, <2>1, <3>1 DEF ClaimUnsent, redis
  <2>2. CASE NothingToSend(d)
    BY <1>0, <1>1, <1>6, <2>2 DEF NothingToSend
  <2>3. CASE SkipClaimed(d)
    BY <1>0, <1>6, <1>7, <2>3 DEF SkipClaimed
  <2>4. CASE Render(d)
    <3>1. Done
      BY <2>4, MovesOn, OneJob DEF Render, Working
    <3> QED BY <1>0, <1>1, <2>4, <3>1 DEF Render, redis
  <2>5. CASE Send(d)
    <3>1. Done
      BY <2>5, MovesOn, OneJob DEF Send, Working
    <3>2. Table
      BY <1>0, <2>5 DEF Send
    <3> QED BY <1>0, <2>5, <3>1, <3>2 DEF Send, redis
  <2>6. CASE CommitDigest(d)
    <3>1. Table
      BY <1>0, <2>6 DEF CommitDigest, Statuses
    <3> QED BY <1>0, <1>6, <2>6, <3>1 DEF CommitDigest
  <2>7. CASE DigestFails(d)
    <3>1. Done
      BY <2>7, OneJob, NothingIsTyped DEF DigestFails
    <3>2. Table
      BY <1>0, <2>7 DEF DigestFails, RolledBack
    <3>3. "queued" \in Holders /\ "none" \in Holders
      BY DEF Holders
    <3>4. digest' \in [User -> Holders]
      BY <2>7, <3>3, DigestTyped DEF DigestFails
    <3> QED BY <1>0, <2>7, <3>1, <3>2, <3>4, OutboxAssumption DEF DigestFails
  <2> HIDE DEF All
  <2> QED BY <1>8, <2>1, <2>2, <2>3, <2>4, <2>5, <2>6, <2>7 DEF DigestStep
<1>9. ASSUME NEW u \in User, NEW d \in Digester, StartDigest(d, u) PROVE All
  <2>1. Done
    BY <1>9, StartLeaves, OneJob
  <2>2. digest' \in [User -> Holders]
    BY <1>0, <1>9 DEF StartDigest, Holders
  <2> QED BY <1>0, <1>1, <1>9, <2>1, <2>2 DEF StartDigest
<1>10. ASSUME NEW u \in User, Stall(u) PROVE All
  <2>1. digest' \in [User -> Holders]
    BY <1>0, <1>10 DEF Stall, Holders
  <2> QED BY <1>0, <1>1, <1>2, <1>10, <2>1, OutboxAssumption DEF Stall
<1>11. ASSUME NEW u \in User, TurnOff(u) \/ TurnOn(u) PROVE All
  <2>1. Done
    BY <1>2, <1>11, ConsentOnly DEF TurnOff
  <2> QED BY <1>0, <1>1, <1>11, <2>1 DEF TurnOff, TurnOn, redis
<1>12. ASSUME NEW S, S \subseteq {n \in Row : emailStatus[n] # "none"}, MarkRead(S) PROVE All
  BY <1>0, <1>2, <1>12 DEF MarkRead, redis
<1>13. ASSUME NEW u \in User
       PROVE  UnreadRows(u) \subseteq {n \in Row : emailStatus[n] # "none"}
  BY DEF UnreadRows, Row
<1>14. ASSUME NEW u \in User,
              MarkRead(UnreadRows(u)) \/ \E n \in UnreadRows(u) : MarkRead({n})
       PROVE  All
  <2>1. \A n \in UnreadRows(u) : {n} \subseteq {m \in Row : emailStatus[m] # "none"}
    BY <1>13
  <2> HIDE DEF All
  <2> QED BY <1>12, <1>13, <1>14, <2>1
<1>15. ASSUME UNCHANGED vars PROVE All
  BY <1>0, <1>1, <1>2, <1>15 DEF vars, rows
<1>16. ASSUME All PROVE TypeOK' /\ JobsKept'
  BY <1>16 DEF TypeOK, Statuses, Holders, AnySweep, AnyJob
<1> HIDE DEF All
<1> QED
  BY <1>3, <1>4, <1>5, <1>8, <1>9, <1>10, <1>11, <1>14, <1>15, <1>16 DEF Next

-----------------------------------------------------------------------------
\* A digest's step: every other digest holds what it held.
LEMMA OneHolder ==
  ASSUME IInv, NEW d \in Digester,
         \A e \in Digester : e # d => /\ job'[e] = job[e]
                                      /\ Claimed(e)' = Claimed(e) /\ Mailing(e)' = Mailing(e),
         \A e \in Digester : e # d => Claimed(d)' \cap Claimed(e) = {},
         \A n \in Row : n \notin Claimed(d) /\ n \notin Claimed(d)' =>
                          emailStatus'[n] = emailStatus[n] /\ mailed'[n] = mailed[n],
         \A n \in Claimed(d) \ Claimed(d)' : Free(n)',
         \A n \in Claimed(d)' : Sure(d, n)'
  PROVE  Disjoint' /\ Truth'
<1>1. Disjoint'
  BY DEF IInv, Disjoint
<1>2. ASSUME NEW e \in Digester, e # d, NEW n \in Claimed(e)
      PROVE  Sure(e, n)'
  <2>1. n \in Row /\ n \notin Claimed(d) /\ n \notin Claimed(d)'
    BY <1>2, ClaimedAreRows DEF IInv, Disjoint
  <2>2. Sure(e, n)
    BY <1>2 DEF IInv, Truth
  <2> QED BY <1>2, <2>1, <2>2 DEF Sure, Working
<1>3. ASSUME NEW n \in Row, n \notin Locked'
      PROVE  Free(n)'
  <2>1. \A e \in Digester : n \notin Claimed(e)'
    BY <1>3 DEF Locked
  <2>2. CASE n \in Claimed(d)
    BY <2>1, <2>2
  <2>3. CASE n \notin Claimed(d)
    <3>1. \A e \in Digester : n \notin Claimed(e)
      BY <2>1, <2>3
    <3>2. Free(n)
      BY <3>1, LockedIsHeld DEF IInv, Truth
    <3> QED BY <2>1, <2>3, <3>2 DEF Free
  <2> QED BY <2>2, <2>3
<1>4. \A e \in Digester : \A n \in Claimed(e)' : Sure(e, n)'
  BY <1>2
<1> QED BY <1>1, <1>3, <1>4 DEF Truth

\* The job is over and its rows are let go.
LEMMA LetGo ==
  ASSUME IInv, NEW d \in Digester, job' = [job EXCEPT ![d] = NoJob],
         \A n \in Row : n \notin Claimed(d) =>
                          emailStatus'[n] = emailStatus[n] /\ mailed'[n] = mailed[n],
         \A n \in Claimed(d) : Free(n)'
  PROVE  Disjoint' /\ Truth'
<1>1. NoJob.rows = {} /\ NoJob.unread = {}
  BY DEF NoJob
<1>2. Claimed(d)' = {}
  <2>1. Claimed(d)' = {NoJob.user} \X NoJob.rows
    BY OneJob, NothingIsTyped DEF IInv
  <2> QED BY <1>1, <2>1
<1>3. \A e \in Digester : e # d => /\ job'[e] = job[e]
                                   /\ Claimed(e)' = Claimed(e) /\ Mailing(e)' = Mailing(e)
  BY OneJob, NothingIsTyped DEF IInv
<1> QED BY <1>2, <1>3, OneHolder

\* A step that leaves what is held, the statuses and the mails as they were.
LEMMA NothingMoves ==
  ASSUME IInv, UNCHANGED <<emailStatus, mailed>>,
         \A d \in Digester :
           /\ job'[d].pc = job[d].pc /\ job'[d].user = job[d].user
           /\ job'[d].rows = job[d].rows /\ job'[d].unread = job[d].unread
  PROVE  Disjoint' /\ Truth'
<1>1. \A d \in Digester : Claimed(d)' = Claimed(d) /\ Mailing(d)' = Mailing(d)
                          /\ (Working(d, "sent")' <=> Working(d, "sent"))
  BY DEF Claimed, Mailing, Working
<1>2. \A n \in Row : n \in Locked' <=> n \in Locked
  BY <1>1 DEF Locked
<1>3. Disjoint'
  BY <1>1 DEF IInv, Disjoint
<1>4. \A n \in Row : n \notin Locked' => Free(n)'
  BY <1>2 DEF IInv, Truth, Free
<1>5. ASSUME NEW d \in Digester, NEW n \in Claimed(d)' PROVE Sure(d, n)'
  <2>1. Sure(d, n)
    BY <1>1, <1>5 DEF IInv, Truth
  <2> QED BY <1>1, <2>1 DEF Sure
<1> QED BY <1>3, <1>4, <1>5 DEF Truth

-----------------------------------------------------------------------------
LEMMA InsertIsHonest ==
  ASSUME IInv, NEW s \in Sweeper, InsertNew(s)
  PROVE  Disjoint' /\ Truth'
<1>1. UNCHANGED <<mailed, job>>
  BY DEF InsertNew
<1>2. \A d \in Digester : /\ Claimed(d)' = Claimed(d) /\ Mailing(d)' = Mailing(d)
                          /\ (Working(d, "sent")' <=> Working(d, "sent"))
  BY <1>1 DEF Claimed, Mailing, Working
<1>3. \A n \in Row : /\ emailStatus[n] # "none" => emailStatus'[n] = emailStatus[n]
                     /\ emailStatus[n] = "none" => emailStatus'[n] # "SENT"
  BY DEF InsertNew, Inserted, NewStatus
<1>4. ASSUME NEW n \in Row, n \notin Locked' PROVE Free(n)'
  <2>1. Free(n)
    BY <1>2, <1>4 DEF IInv, Truth, Locked
  <2> QED BY <1>1, <1>3, <2>1 DEF Free
<1>5. ASSUME NEW d \in Digester, NEW n \in Claimed(d)' PROVE Sure(d, n)'
  <2>1. Sure(d, n) /\ n \in Row
    BY <1>2, <1>5, ClaimedAreRows DEF IInv, Truth
  <2> QED BY <1>1, <1>2, <1>3, <2>1 DEF Sure
<1> QED BY <1>2, <1>4, <1>5 DEF Truth, IInv, Disjoint

LEMMA DeleteIsHonest ==
  ASSUME IInv, DeleteVehicle
  PROVE  Disjoint' /\ Truth'
<1>1. \A d \in Digester : Claimed(d)' = {}
  BY DEF DeleteVehicle, Locked, Claimed
<1>2. \A n \in Row : mailed'[n] = 0 /\ emailStatus'[n] = "none"
  BY DEF DeleteVehicle
<1> QED BY <1>1, <1>2 DEF Disjoint, Truth, Free

LEMMA DigestIsHonest ==
  ASSUME IInv, NEW d \in Digester, DigestStep(d) \/ DigestFails(d)
  PROVE  Disjoint' /\ Truth'
<1>0. TypeOK /\ JobsKept /\ Claimed(d) \subseteq Row /\ Mailing(d) \subseteq Claimed(d)
      /\ \A n \in Claimed(d) : Sure(d, n)
  BY ClaimedAreRows DEF IInv, Truth
<1>1. mailed \in [Row -> 0..2] /\ emailStatus \in [Row -> Statuses]
  BY <1>0, TypeIsParts
<1>2. ASSUME NEW n \in Claimed(d), ~Working(d, "sent") PROVE mailed[n] = 0
  BY <1>0, <1>2 DEF Sure
<1>3. CASE ClaimUnsent(d)
  <2>1. PICK j \in AnyJob : /\ Kept(j) /\ job' = [job EXCEPT ![d] = j]
                            /\ j.user = job[d].user /\ j.rows = Claimable(d) /\ j.pc = "claimed"
    BY <1>0, <1>3, ClaimLeaves
  <2>2. /\ Claimed(d)' = {job[d].user} \X Claimable(d) /\ job'[d].pc = "claimed"
        /\ \A e \in Digester : e # d => /\ job'[e] = job[e] /\ Claimed(e)' = Claimed(e)
                                        /\ Mailing(e)' = Mailing(e)
    BY <1>0, <2>1, OneJob
  <2>3. ASSUME NEW n \in Claimed(d)'
        PROVE  n \in Row /\ n \notin Locked /\ emailStatus[n] = "PENDING"
    <3>1. job[d].user \in User
      BY <1>0, <1>3 DEF JobsKept, Kept, ClaimUnsent, Working
    <3>2. PICK a \in Claimable(d) : n = <<job[d].user, a>>
      BY <2>2, <2>3
    <3> QED BY <3>1, <3>2 DEF Claimable, Pending, Row
  <2>4. Claimed(d) = {}
    BY <1>0, <1>3 DEF JobsKept, Kept, ClaimUnsent, Working, Claimed
  <2>5. \A e \in Digester : Claimed(d)' \cap Claimed(e) = {}
    BY <2>3, LockedIsHeld
  <2>6. UNCHANGED <<emailStatus, mailed>>
    BY <1>3 DEF ClaimUnsent, rows
  <2>7. ASSUME NEW n \in Claimed(d)' PROVE Sure(d, n)'
    <3>1. Free(n)
      BY <2>3, <2>7 DEF IInv, Truth
    <3>2. mailed[n] = 0
      BY <1>1, <2>3, <2>7, <3>1 DEF Free
    <3> QED BY <2>2, <2>3, <2>6, <2>7, <3>2 DEF Sure, Working
  <2> QED BY <2>2, <2>4, <2>5, <2>6, <2>7, OneHolder
<1>4. CASE NothingToSend(d)
  <2>1. Claimed(d) = {}
    BY <1>0, <1>4 DEF JobsKept, Kept, NothingToSend, Working, Claimed
  <2> QED BY <1>4, <2>1, LetGo DEF NothingToSend, Complete, rows
<1>5. CASE SkipClaimed(d)
  <2>1. \A n \in Claimed(d) : mailed[n] = 0
    BY <1>2, <1>5 DEF SkipClaimed, Working
  <2>2. \A n \in Row : emailStatus'[n] = IF n \in Claimed(d) THEN "SKIPPED" ELSE emailStatus[n]
    BY <1>5 DEF SkipClaimed, Settle
  <2>3. job' = [job EXCEPT ![d] = NoJob] /\ mailed' = mailed
    BY <1>5 DEF SkipClaimed, Complete
  <2>4. \A n \in Claimed(d) : emailStatus'[n] = "SKIPPED" /\ mailed'[n] = 0
    BY <1>0, <2>1, <2>2, <2>3
  <2>5. \A n \in Claimed(d) : Free(n)'
    BY <2>4 DEF Free
  <2> QED BY <2>2, <2>3, <2>5, LetGo
<1>6. ASSUME NEW pc \in {"sending", "sent"}, job[d].pc # "idle", job' = [job EXCEPT ![d].pc = pc]
      PROVE  /\ job'[d].pc = pc /\ Claimed(d)' = Claimed(d) /\ Mailing(d)' = Mailing(d)
             /\ \A e \in Digester : e # d => /\ job'[e] = job[e] /\ Claimed(e)' = Claimed(e)
                                             /\ Mailing(e)' = Mailing(e)
  <2>1. PICK j \in AnyJob : /\ Kept(j) /\ job' = [job EXCEPT ![d] = j] /\ j.pc = pc
                            /\ j.user = job[d].user /\ j.rows = job[d].rows
                            /\ j.unread = job[d].unread
    BY <1>0, <1>6, MovesOn
  <2>2. /\ job'[d] = j
        /\ Claimed(d)' = {j.user} \X j.rows /\ Mailing(d)' = {j.user} \X j.unread
        /\ \A e \in Digester : e # d => /\ job'[e] = job[e] /\ Claimed(e)' = Claimed(e)
                                        /\ Mailing(e)' = Mailing(e)
    BY <1>0, <2>1, OneJob
  <2>3. Claimed(d)' = Claimed(d) /\ Mailing(d)' = Mailing(d)
    BY <2>1, <2>2 DEF Claimed, Mailing
  <2> QED BY <2>1, <2>2, <2>3
<1>7. CASE Render(d)
  <2>1. /\ job'[d].pc = "sending" /\ Claimed(d)' = Claimed(d)
        /\ \A e \in Digester : e # d => /\ job'[e] = job[e] /\ Claimed(e)' = Claimed(e)
                                        /\ Mailing(e)' = Mailing(e)
    BY <1>6, <1>7 DEF Render, Working
  <2>2. UNCHANGED <<emailStatus, mailed>>
    BY <1>7 DEF Render, rows
  <2>3. ASSUME NEW n \in Claimed(d) PROVE Sure(d, n)'
    BY <1>0, <1>2, <1>7, <2>1, <2>2, <2>3 DEF Sure, Working, Render
  <2>4. \A e \in Digester : e # d => Claimed(d)' \cap Claimed(e) = {}
    BY <2>1 DEF IInv, Disjoint
  <2> QED BY <2>1, <2>2, <2>3, <2>4, OneHolder
<1>8. CASE Send(d)
  <2>1. /\ job'[d].pc = "sent" /\ Claimed(d)' = Claimed(d) /\ Mailing(d)' = Mailing(d)
        /\ \A e \in Digester : e # d => /\ job'[e] = job[e] /\ Claimed(e)' = Claimed(e)
                                        /\ Mailing(e)' = Mailing(e)
    BY <1>6, <1>8 DEF Send, Working
  <2>2. /\ UNCHANGED emailStatus
        /\ \A n \in Row : n \notin Mailing(d) => mailed'[n] = mailed[n]
        /\ \A n \in Mailing(d) : mailed[n] = 0 => mailed'[n] = 1
    BY <1>0, <1>1, <1>8 DEF Send
  <2>3. ASSUME NEW n \in Claimed(d) PROVE Sure(d, n)'
    BY <1>0, <1>2, <1>8, <2>1, <2>2, <2>3 DEF Sure, Working, Send
  <2>4. \A e \in Digester : e # d => Claimed(d)' \cap Claimed(e) = {}
    BY <2>1 DEF IInv, Disjoint
  <2> QED BY <1>0, <2>1, <2>2, <2>3, <2>4, OneHolder
<1>9. CASE CommitDigest(d)
  <2>1. Working(d, "sent") /\ job' = [job EXCEPT ![d] = NoJob] /\ mailed' = mailed
    BY <1>9 DEF CommitDigest, Complete
  <2>2. \A n \in Row : emailStatus'[n] = IF n \in Mailing(d) THEN "SENT"
                                         ELSE IF n \in Claimed(d) THEN "SKIPPED"
                                         ELSE emailStatus[n]
    BY <1>9 DEF CommitDigest
  <2>3. \A n \in Claimed(d) : mailed[n] = IF n \in Mailing(d) THEN 1 ELSE 0
    BY <1>0, <2>1 DEF Sure
  <2>4. ASSUME NEW n \in Claimed(d) PROVE Free(n)'
    <3>1. CASE n \in Mailing(d)
      BY <1>0, <2>1, <2>2, <2>3, <3>1 DEF Free
    <3>2. CASE n \notin Mailing(d)
      BY <1>0, <2>1, <2>2, <2>3, <3>2 DEF Free
    <3> QED BY <3>1, <3>2
  <2>5. \A n \in Row : n \notin Claimed(d) => emailStatus'[n] = emailStatus[n]
    BY <1>0, <2>2
  <2> QED BY <2>1, <2>4, <2>5, LetGo
<1>10. CASE DigestFails(d)
  <2>1. job' = [job EXCEPT ![d] = NoJob] /\ emailStatus' = emailStatus
    BY <1>10 DEF DigestFails, RolledBack
  <2>2. \A n \in Row : mailed'[n] = IF Working(d, "sent") /\ n \in Mailing(d) THEN 0 ELSE mailed[n]
    BY <1>10 DEF DigestFails, RolledBack
  <2>3. \A n \in Claimed(d) : mailed'[n] = 0 /\ emailStatus'[n] = "PENDING"
    BY <1>0, <2>1, <2>2 DEF Sure
  <2>4. \A n \in Claimed(d) : Free(n)'
    BY <2>3 DEF Free
  <2>5. \A n \in Row : n \notin Claimed(d) =>
                          emailStatus'[n] = emailStatus[n] /\ mailed'[n] = mailed[n]
    BY <1>0, <2>1, <2>2
  <2> QED BY <2>1, <2>4, <2>5, LetGo
<1> QED BY <1>3, <1>4, <1>5, <1>7, <1>8, <1>9, <1>10 DEF DigestStep

LEMMA StartIsHonest ==
  ASSUME IInv, NEW d \in Digester, NEW u \in User, StartDigest(d, u)
  PROVE  Disjoint' /\ Truth'
<1>1. TypeOK /\ JobsKept
  BY DEF IInv
<1>2. PICK j \in AnyJob : /\ Kept(j) /\ job' = [job EXCEPT ![d] = j] /\ j.rows = {}
  BY <1>1, StartLeaves
<1>3. /\ Claimed(d)' = {j.user} \X j.rows
      /\ \A e \in Digester : e # d => /\ job'[e] = job[e] /\ Claimed(e)' = Claimed(e)
                                      /\ Mailing(e)' = Mailing(e)
  BY <1>1, <1>2, OneJob
<1>6. Claimed(d)' = {}
  BY <1>2, <1>3
<1>4. Claimed(d) = {}
  BY <1>1 DEF JobsKept, Kept, StartDigest, Working, Claimed
<1>5. UNCHANGED <<emailStatus, mailed>>
  BY DEF StartDigest, rows
<1> QED BY <1>3, <1>4, <1>5, <1>6, OneHolder

-----------------------------------------------------------------------------
LEMMA Inductive == IInv /\ [Next]_vars => IInv'
<1> SUFFICES ASSUME IInv, [Next]_vars PROVE IInv'
  OBVIOUS
<1>1. TypeOK' /\ JobsKept'
  BY TypeNext DEF IInv
<1>2. ASSUME UNCHANGED <<emailStatus, mailed, job>> PROVE Disjoint' /\ Truth'
  BY <1>2, NothingMoves
<1>3. ASSUME NEW u \in User, TurnOn(u) PROVE Disjoint' /\ Truth'
  <2>1. UNCHANGED <<emailStatus, mailed>>
    BY <1>3 DEF TurnOn, rows
  <2> QED BY <1>3, <2>1, ConsentOnly, NothingMoves DEF IInv
<1>4. \/ UNCHANGED <<emailStatus, mailed, job>>
      \/ DeleteVehicle
      \/ \E s \in Sweeper : InsertNew(s)
      \/ \E d \in Digester : DigestStep(d) \/ DigestFails(d)
      \/ \E u \in User : TurnOn(u) \/ \E d \in Digester : StartDigest(d, u)
  BY DEF Next, vars, rows, Boot, Tick, RedisRestarts, SweepStep, SweepFails, StartSweep,
         ReadRecipients, SweepVehicleFails, UsersAwaitingEmail, AddDigest, Stall, TurnOff, MarkRead
<1>5. Disjoint' /\ Truth'
  BY <1>2, <1>3, <1>4, InsertIsHonest, DeleteIsHonest, DigestIsHonest, StartIsHonest
<1> QED BY <1>1, <1>5 DEF IInv

LEMMA Initial == Init => IInv
<1> SUFFICES ASSUME Init PROVE IInv
  OBVIOUS
<1>1. NoJob.rows = {}
  BY DEF NoJob
<1>2. \A d \in Digester : Claimed(d) = {}
  BY <1>1 DEF Init, Claimed
<1>3. JobsKept
  BY NothingIsTyped DEF Init, JobsKept
<1>4. Truth
  BY <1>2 DEF Init, Truth, Free
<1> QED BY <1>2, <1>3, <1>4, TypeInit DEF IInv, Disjoint

LEMMA Invariant == Spec => []IInv
BY Initial, Inductive, PTL DEF Spec

\* However many workers run, and whichever digests are retried, handed on or lost.
THEOREM OutboxIsTypeCorrect == Spec => []TypeOK
BY Invariant, PTL DEF IInv

\* No row is mailed twice, except where the first mail's transaction was lost.
THEOREM NoRowIsMailedTwice == Spec => []MailedOnce
<1>1. IInv => MailedOnce
  <2> SUFFICES ASSUME IInv, NEW n \in Row PROVE mailed[n] <= 1
    BY DEF MailedOnce
  <2>1. CASE n \in Locked
    <3>1. PICK d \in Digester : n \in Claimed(d)
      BY <2>1, LockedIsHeld
    <3> QED BY <3>1 DEF IInv, Truth, Sure
  <2>2. CASE n \notin Locked
    BY <2>2 DEF IInv, Truth, Free
  <2> QED BY <2>1, <2>2
<1> QED BY <1>1, Invariant, PTL

\* The table says SENT of the rows that were mailed and of no other.
THEOREM TableTellsTheTruth == Spec => []SentMeansMailed
<1>1. IInv => SentMeansMailed
  BY DEF IInv, Truth, Free, SentMeansMailed
<1> QED BY <1>1, Invariant, PTL

-----------------------------------------------------------------------------
\* A digest under way was wanted when it started, or has been since, if it is
\* wanted now; and what is on its way to the mail server was wanted.
Asked(d) ==
  /\ job[d].pc # "idle" /\ job[d].user \in wants => job[d].consent
  /\ job[d].pc = "sending" => job[d].consent

LEMMA OthersStayAsked ==
  ASSUME TypeOK, NEW d \in Digester, NEW j, job' = [job EXCEPT ![d] = j], UNCHANGED wants,
         \A e \in Digester : Asked(e), Asked(d)'
  PROVE  \A e \in Digester : Asked(e)'
<1>1. \A e \in Digester : e # d => job'[e] = job[e]
  BY TypeIsParts
<1> QED BY <1>1 DEF Asked

\* A step of a digest keeps what it knows of consent, or lets the job go.
LEMMA DigestStaysAsked ==
  ASSUME IInv, NEW d \in Digester, DigestStep(d) \/ DigestFails(d),
         \A e \in Digester : Asked(e)
  PROVE  \A e \in Digester : Asked(e)'
<1>1. TypeOK /\ job \in [Digester -> AnyJob] /\ job[d] \in AnyJob /\ wants' = wants
  BY TypeIsParts DEF IInv, DigestStep, ClaimUnsent, NothingToSend, SkipClaimed, Render, Send,
                     CommitDigest, DigestFails
<1>2. CASE job' = [job EXCEPT ![d] = NoJob]
  <2>1. job'[d] = NoJob /\ NoJob.pc = "idle"
    BY <1>1, <1>2 DEF NoJob
  <2> QED BY <1>1, <1>2, <2>1, OthersStayAsked DEF Asked
<1>3. CASE \E j \in AnyJob : /\ job' = [job EXCEPT ![d] = j] /\ job[d].pc # "idle"
                             /\ j.user = job[d].user /\ j.consent = job[d].consent
                             /\ j.pc = "sending" => job[d].user \in wants
  <2>1. PICK j \in AnyJob : /\ job' = [job EXCEPT ![d] = j] /\ job[d].pc # "idle"
                            /\ j.user = job[d].user /\ j.consent = job[d].consent
                            /\ j.pc = "sending" => job[d].user \in wants
    BY <1>3
  <2>2. job'[d] = j
    BY <1>1, <2>1
  <2> QED BY <1>1, <2>1, <2>2, OthersStayAsked DEF Asked
<1>4. CASE ClaimUnsent(d)
  <2> DEFINE j == [job[d] EXCEPT !.pc = "claimed", !.rows = Claimable(d),
                     !.unread = {a \in Claimable(d) : <<job[d].user, a>> \notin read}]
  <2>1. job' = [job EXCEPT ![d] = j] /\ job[d].pc = "started"
    BY <1>1, <1>4 DEF ClaimUnsent, Working
  <2>2. j \in AnyJob /\ j.user = job[d].user /\ j.consent = job[d].consent /\ j.pc = "claimed"
    BY <1>1 DEF AnyJob, Claimable, Pending
  <2> HIDE DEF j
  <2> QED BY <1>3, <2>1, <2>2
<1>5. CASE Render(d) \/ Send(d)
  <2>1. PICK pc \in {"sending", "sent"} : /\ job' = [job EXCEPT ![d].pc = pc]
                                          /\ job[d].pc # "idle"
                                          /\ pc = "sending" => job[d].user \in wants
    BY <1>5 DEF Render, Send, Working, Unwanted
  <2> DEFINE j == [job[d] EXCEPT !.pc = pc]
  <2>2. job' = [job EXCEPT ![d] = j] /\ j \in AnyJob
        /\ j.user = job[d].user /\ j.consent = job[d].consent /\ j.pc = pc
    BY <1>1, <2>1 DEF AnyJob
  <2> HIDE DEF j
  <2> QED BY <1>3, <2>1, <2>2
<1>6. CASE NothingToSend(d) \/ SkipClaimed(d) \/ CommitDigest(d) \/ DigestFails(d)
  BY <1>2, <1>6 DEF NothingToSend, SkipClaimed, CommitDigest, DigestFails, Complete
<1> QED BY <1>4, <1>5, <1>6 DEF DigestStep

\* Whoever had email off for as long as a digest ran gets nothing from it.
THEOREM UnwantedIsNotMailed == Spec => NoMailWithoutConsent
<1>1. Init => \A d \in Digester : Asked(d)
  BY DEF Init, Asked, NoJob
<1>2. IInv /\ (\A d \in Digester : Asked(d)) /\ [Next]_vars => (\A d \in Digester : Asked(d))'
  <2> SUFFICES ASSUME IInv, \A d \in Digester : Asked(d), [Next]_vars
               PROVE  \A d \in Digester : Asked(d)'
    OBVIOUS
  <2>1. CASE job' = job /\ wants' \subseteq wants
    BY <2>1 DEF Asked
  <2>2. ASSUME NEW d \in Digester, DigestStep(d) \/ DigestFails(d)
        PROVE  \A e \in Digester : Asked(e)'
    BY <2>2, DigestStaysAsked
  <2>3. ASSUME NEW d \in Digester, NEW u \in User, StartDigest(d, u)
        PROVE  \A e \in Digester : Asked(e)'
    <3> DEFINE j == [NoJob EXCEPT !.pc = "started", !.user = u, !.consent = u \in wants]
    <3>1. job' = [job EXCEPT ![d] = j] /\ wants' = wants /\ TypeOK
      BY <2>3 DEF StartDigest, IInv, rows
    <3>2. j.pc = "started" /\ j.user = u /\ j.consent = (u \in wants)
      BY DEF NoJob
    <3> HIDE DEF j
    <3>3. job'[d] = j
      BY <3>1, TypeIsParts
    <3> QED BY <3>1, <3>2, <3>3, OthersStayAsked DEF Asked
  <2>4. ASSUME NEW u \in User, TurnOn(u) PROVE \A e \in Digester : Asked(e)'
    <3> SUFFICES ASSUME NEW e \in Digester PROVE Asked(e)'
      OBVIOUS
    <3>1. /\ job'[e] = IF job[e].user = u THEN [job[e] EXCEPT !.consent = TRUE] ELSE job[e]
          /\ wants' = wants \cup {u} /\ job[e] \in AnyJob
      BY <2>4, TypeIsParts DEF TurnOn, IInv
    <3>2. CASE job[e].user = u
      BY <3>1, <3>2 DEF Asked, AnyJob
    <3>3. CASE job[e].user # u
      BY <3>1, <3>3 DEF Asked
    <3> QED BY <3>2, <3>3
  <2>5. \/ job' = job /\ wants' \subseteq wants
        \/ \E d \in Digester : DigestStep(d) \/ DigestFails(d)
        \/ \E u \in User : TurnOn(u) \/ \E d \in Digester : StartDigest(d, u)
    BY DEF Next, vars, rows, Boot, Tick, RedisRestarts, DeleteVehicle, SweepStep, SweepFails,
           StartSweep, ReadRecipients, InsertNew, SweepVehicleFails, UsersAwaitingEmail,
           AddDigest, Stall, TurnOff, MarkRead
  <2> QED BY <2>1, <2>2, <2>3, <2>4, <2>5
<1>3. (\A d \in Digester : Asked(d)) => SendsWithConsent
  BY DEF Asked, SendsWithConsent, Send, Working
<1> QED BY <1>1, <1>2, <1>3, Invariant, PTL DEF Spec, NoMailWithoutConsent

-----------------------------------------------------------------------------
(* Upkeep. *)

\* Who works on a reminder has locked its row, and has read what is there.
Works(q) ==
  \E r \in Reminder, what \in {"completing", "updating", "removing"} :
    /\ req[q] = [pc |-> what, of |-> r, row |-> reminder[r]]
    /\ There(r)
    /\ held[r] = q

\* A reminder that has a successor is there, and is no longer pending.
Succeeded(m) ==
  reminder[m] # None /\ reminder[m].after # Unset =>
    LET p == reminder[m].after IN reminder[p] # None /\ reminder[p].state # "PENDING"

ReminderInv ==
  /\ reminder \in [Reminder -> {None} \cup ReminderRow]
  /\ \A r \in Reminder : There(r) /\ reminder[r].repeat # Unset => reminder[r].date # Unset
  /\ held \in [Reminder -> Req \cup {NoReq}]
  /\ req = [q \in Req |-> req[q]]
  /\ \A q \in Req : req[q] = IdleReq \/ Works(q)
  /\ \A m \in Reminder : Succeeded(m)
  /\ OneSuccessor

\* What a sweep has read is what is there, as long as nothing has changed.
Fresh ==
  /\ seen.today = today /\ seen.schedule = schedule
  /\ seen.reminders = {[of |-> r, point |-> Point(r)] : r \in PendingReminders}
  /\ "mileage" \notin seen.left => seen.km = Mileage
  /\ "services" \notin seen.left => seen.services = IF schedule = None THEN {} ELSE Services

SweepInv ==
  seen # Unswept =>
    /\ seen = [pc |-> "reading", left |-> seen.left, today |-> seen.today,
               schedule |-> seen.schedule, reminders |-> seen.reminders, km |-> seen.km,
               services |-> seen.services]
    /\ steady => Fresh

\* A row of notifications has the key of what it says.
Keyed ==
  \A n \in notices :
    /\ n.key = DedupeKey(n.says)
    /\ n.says = [of |-> n.says.of, status |-> n.says.status, km |-> n.says.km,
                 date |-> n.says.date]

AnnounceInv == SweepInv /\ Keyed /\ EveryDueIsAnnounced

-----------------------------------------------------------------------------
(* Reminders. *)

LEMMA EarlierIsOneOf == ASSUME NEW a \in Int, NEW b \in Int PROVE AtLeast({a, b}) \in Int
<1>1. \E x \in {a, b} : \A y \in {a, b} : x <= y
  OBVIOUS
<1>2. AtLeast({a, b}) \in {a, b}
  BY <1>1 DEF AtLeast
<1> QED BY <1>2

\* The next date of a reminder that repeats is a date.
LEMMA NextIsDate ==
  ASSUME NEW date \in Calendar, NEW months \in Int
  PROVE  AddMonths(date, months) \in Calendar
<1>1. date.y \in Int /\ date.m \in Int /\ date.d \in Int
  BY DEF Calendar
<1>2. \A y, m : MonthDays(y, m) \in Int
  BY DEF MonthDays
<1> DEFINE index == date.y * 12 + date.m - 1 + months
<1>3. index \in Int /\ index \div 12 \in Int /\ (index % 12) + 1 \in Int
  BY <1>1
<1>4. AtLeast({date.d, MonthDays(index \div 12, (index % 12) + 1)}) \in Int
  BY <1>1, <1>2, EarlierIsOneOf
<1> QED BY <1>3, <1>4 DEF AddMonths, Calendar

\* Who is not idle works on a reminder that is there.
LEMMA Worker ==
  ASSUME ReminderInv, NEW q \in Req, req[q].pc # "idle"
  PROVE  /\ req[q].of \in Reminder /\ req[q].row = reminder[req[q].of]
         /\ There(req[q].of) /\ held[req[q].of] = q
         /\ reminder[req[q].of] \in ReminderRow
BY DEF ReminderInv, Works, IdleReq, There

\* Whoever releases its row leaves the others at work on theirs.
LEMMA OthersWorkOn ==
  ASSUME ReminderInv, NEW q \in Req, Release(q),
         \A r \in Reminder : reminder[r] # None /\ held[r] # q => reminder'[r] = reminder[r]
  PROVE  /\ held' \in [Reminder -> Req \cup {NoReq}]
         /\ req' = [u \in Req |-> req'[u]]
         /\ \A u \in Req : req'[u] = IdleReq \/ Works(u)'
<1>1. /\ held' \in [Reminder -> Req \cup {NoReq}]
      /\ \A r \in Reminder : held[r] # q => held'[r] = held[r]
  BY DEF ReminderInv, Release
<1>2. req' = [u \in Req |-> req'[u]] /\ req'[q] = IdleReq /\ \A u \in Req : u # q => req'[u] = req[u]
  BY DEF ReminderInv, Release
<1>3. ASSUME NEW u \in Req, u # q, req[u] # IdleReq PROVE Works(u)'
  <2>1. PICK r \in Reminder, what \in {"completing", "updating", "removing"} :
          req[u] = [pc |-> what, of |-> r, row |-> reminder[r]] /\ There(r) /\ held[r] = u
    BY <1>3 DEF ReminderInv, Works
  <2>2. reminder'[r] = reminder[r] /\ held'[r] = u /\ req'[u] = req[u]
    BY <1>1, <1>2, <1>3, <2>1 DEF There
  <2> QED BY <2>1, <2>2 DEF Works, There
<1> QED BY <1>1, <1>2, <1>3

LEMMA LockingKeeps ==
  ASSUME ReminderInv, NEW q \in Req, NEW r \in Reminder,
         NEW what \in {"completing", "updating", "removing"}, LockReminder(q, r, what)
  PROVE  ReminderInv'
<1>1. reminder' = reminder /\ There(r) /\ held[r] = NoReq /\ req[q].pc = "idle"
  BY DEF LockReminder, car
<1>2. /\ held' \in [Reminder -> Req \cup {NoReq}] /\ held'[r] = q
      /\ \A p \in Reminder : p # r => held'[p] = held[p]
  BY DEF LockReminder, ReminderInv
<1>3. /\ req' = [u \in Req |-> req'[u]] /\ req'[q] = [pc |-> what, of |-> r, row |-> reminder[r]]
      /\ \A u \in Req : u # q => req'[u] = req[u]
  BY DEF LockReminder, ReminderInv
<1>4. ASSUME NEW u \in Req, req'[u] # IdleReq PROVE Works(u)'
  <2>1. CASE u = q
    BY <1>1, <1>2, <1>3, <2>1 DEF Works, There
  <2>2. CASE u # q
    <3>1. PICK p \in Reminder, does \in {"completing", "updating", "removing"} :
            req[u] = [pc |-> does, of |-> p, row |-> reminder[p]] /\ There(p) /\ held[p] = u
      BY <1>3, <1>4, <2>2 DEF ReminderInv, Works
    <3>2. p # r
      BY <1>1, <3>1, UpkeepAssumption
    <3> QED BY <1>1, <1>2, <1>3, <2>2, <3>1, <3>2 DEF Works, There
  <2> QED BY <2>1, <2>2
<1> QED BY <1>1, <1>2, <1>3, <1>4 DEF ReminderInv, There, Succeeded, OneSuccessor

LEMMA AbandonKeeps ==
  ASSUME ReminderInv, NEW q \in Req, Abandon(q) PROVE ReminderInv'
<1>1. reminder' = reminder /\ Release(q)
  BY DEF Abandon, car
<1> QED BY <1>1, OthersWorkOn DEF ReminderInv, There, Succeeded, OneSuccessor

\* A new reminder that follows none.
LEMMA CreationKeeps ==
  ASSUME ReminderInv, NEW d \in Dues, CreateReminder(d) PROVE ReminderInv'
<1>1. PICK r \in Unused : reminder' = [reminder EXCEPT ![r] = NewReminder(d, Unset)]
  BY DEF CreateReminder
<1> DEFINE row == NewReminder(d, Unset)
<1>2. r \in Reminder /\ reminder[r] = None
  BY DEF Unused
<1>3. row \in ReminderRow /\ row # None /\ row.after = Unset
      /\ (row.repeat # Unset => row.date # Unset)
  BY UpkeepAssumption DEF NewReminder, ReminderRow, CreateReminder, Dueable, States
<1>4. /\ reminder' \in [Reminder -> {None} \cup ReminderRow] /\ reminder'[r] = row
      /\ \A p \in Reminder : p # r => reminder'[p] = reminder[p]
  BY <1>1, <1>2, <1>3 DEF ReminderInv
<1> HIDE DEF row
<1>5. held' = held /\ req' = req
  BY DEF CreateReminder
<1>6. \A u \in Req : req'[u] = IdleReq \/ Works(u)'
  BY <1>2, <1>4, <1>5 DEF ReminderInv, Works, There
<1>7. \A m \in Reminder : Succeeded(m)'
  <2> SUFFICES ASSUME NEW m \in Reminder, reminder'[m] # None, reminder'[m].after # Unset
               PROVE  LET p == reminder'[m].after IN reminder'[p] # None /\ reminder'[p].state # "PENDING"
    BY DEF Succeeded
  <2>1. m # r /\ reminder'[m] = reminder[m] /\ reminder[m].after \in Reminder
    BY <1>2, <1>3, <1>4 DEF ReminderInv, ReminderRow
  <2> QED BY <1>2, <1>4, <2>1 DEF ReminderInv, Succeeded
<1>8. OneSuccessor'
  BY <1>3, <1>4 DEF ReminderInv, OneSuccessor
<1> QED BY <1>3, <1>4, <1>5, <1>6, <1>7, <1>8 DEF ReminderInv, There

\* A row rewritten by who holds it, which stays pending only if it was, and
\* follows whom it followed.
LEMMA RewritingKeeps ==
  ASSUME ReminderInv, NEW q \in Req, req[q].pc # "idle", Release(q), NEW row \in ReminderRow,
         reminder' = [reminder EXCEPT ![req[q].of] = row],
         row.after = reminder[req[q].of].after,
         row.state = "PENDING" => reminder[req[q].of].state = "PENDING",
         row.repeat # Unset /\ row.state # "deleted" => row.date # Unset
  PROVE  ReminderInv'
<1> DEFINE r == req[q].of
<1>1. r \in Reminder /\ There(r) /\ held[r] = q /\ row # None
  BY Worker, UpkeepAssumption
<1>2. /\ reminder' \in [Reminder -> {None} \cup ReminderRow] /\ reminder'[r] = row
      /\ \A p \in Reminder : p # r => reminder'[p] = reminder[p]
  BY <1>1 DEF ReminderInv
<1>3. /\ held' \in [Reminder -> Req \cup {NoReq}] /\ req' = [u \in Req |-> req'[u]]
      /\ \A u \in Req : req'[u] = IdleReq \/ Works(u)'
  BY <1>1, <1>2, OthersWorkOn
<1> HIDE DEF r
<1>4. ASSUME NEW m \in Reminder PROVE Succeeded(m)'
  <2>1. reminder'[m] # None => reminder[m] # None /\ reminder'[m].after = reminder[m].after
    BY <1>1, <1>2 DEF There, r
  <2>2. reminder[m] # None /\ reminder[m].after # Unset => reminder[m].after \in Reminder
    BY DEF ReminderInv, ReminderRow
  <2> QED BY <1>1, <1>2, <2>1, <2>2 DEF ReminderInv, Succeeded, r
<1>5. OneSuccessor'
  BY <1>1, <1>2 DEF ReminderInv, OneSuccessor, There, r
<1>6. \A p \in Reminder : There(p)' /\ reminder'[p].repeat # Unset => reminder'[p].date # Unset
  BY <1>2 DEF ReminderInv, There
<1> QED BY <1>2, <1>3, <1>4, <1>5, <1>6 DEF ReminderInv

LEMMA UpdateKeeps ==
  ASSUME ReminderInv, NEW q \in Req, NEW d \in Dues, UpdateReminder(q, d) PROVE ReminderInv'
<1> DEFINE old == reminder[req[q].of]
           row == [old EXCEPT !.km = d.km, !.date = d.date, !.repeat = d.repeat]
<1>1. req[q].pc # "idle" /\ Release(q) /\ Dueable(d)
  BY DEF UpdateReminder
<1>2. req[q].of \in Reminder /\ old \in ReminderRow
  BY <1>1, Worker
<1>3. /\ row \in ReminderRow /\ row.after = old.after /\ row.state = old.state
      /\ (row.repeat # Unset => row.date # Unset)
  BY <1>1, <1>2, UpkeepAssumption DEF ReminderRow, Dueable
<1>4. reminder' = [reminder EXCEPT ![req[q].of] = row]
  BY <1>2 DEF UpdateReminder, ReminderInv
<1> HIDE DEF row
<1> QED BY <1>1, <1>3, <1>4, RewritingKeeps

LEMMA RemovalKeeps ==
  ASSUME ReminderInv, NEW q \in Req, RemoveReminder(q) PROVE ReminderInv'
<1> DEFINE old == reminder[req[q].of]
           row == [old EXCEPT !.state = "deleted"]
<1>1. req[q].pc # "idle" /\ Release(q)
  BY DEF RemoveReminder
<1>2. req[q].of \in Reminder /\ old \in ReminderRow
  BY <1>1, Worker
<1>3. row \in ReminderRow /\ row.after = old.after /\ row.state = "deleted"
  BY <1>2 DEF ReminderRow, States
<1>4. reminder' = [reminder EXCEPT ![req[q].of] = row]
  BY <1>2 DEF RemoveReminder, ReminderInv
<1> HIDE DEF row
<1> QED BY <1>1, <1>3, <1>4, RewritingKeeps

\* The row is pending, so nothing follows it yet, and its holder is the only
\* one to complete it.
LEMMA CompletionKeeps ==
  ASSUME ReminderInv, NEW q \in Req, CompleteReminder(q) PROVE ReminderInv'
<1> DEFINE r == req[q].of
           row == [reminder[r] EXCEPT !.state = "COMPLETED"]
           next == NewReminder([km |-> Unset, date |-> NextDate(req[q].row),
                                repeat |-> req[q].row.repeat], r)
<1>1. req[q].pc # "idle" /\ Release(q) /\ req[q].row.state = "PENDING"
  BY DEF CompleteReminder
<1>2. /\ r \in Reminder /\ reminder[r] \in ReminderRow /\ reminder[r] = req[q].row
      /\ There(r) /\ held[r] = q
  BY <1>1, Worker
<1>3. /\ row \in ReminderRow /\ row.after = reminder[r].after /\ row.state = "COMPLETED"
      /\ row.date = reminder[r].date /\ row.repeat = reminder[r].repeat
  BY <1>2 DEF ReminderRow, States
<1>4. row.repeat # Unset => row.date # Unset
  BY <1>2, <1>3 DEF ReminderInv
<1>5. [reminder EXCEPT ![r].state = "COMPLETED"] = [reminder EXCEPT ![r] = row]
  BY <1>2 DEF ReminderInv
<1> HIDE DEF row
<1>6. CASE req[q].row.repeat = Unset
  <2>1. reminder' = [reminder EXCEPT ![r] = row]
    BY <1>5, <1>6 DEF CompleteReminder
  <2> QED BY <1>1, <1>3, <1>4, <2>1, RewritingKeeps
<1>7. CASE req[q].row.repeat # Unset
  <2>1. PICK n \in Unused : reminder' = [[reminder EXCEPT ![r] = row] EXCEPT ![n] = next]
    BY <1>5, <1>7 DEF CompleteReminder
  <2>2. n \in Reminder /\ reminder[n] = None /\ n # r
    BY <1>2, <2>1 DEF Unused, There
  <2>3. next \in ReminderRow /\ next # None /\ next.after = r /\ next.date # Unset
    <3>1. req[q].row.date \in Calendar /\ req[q].row.repeat \in Int
      BY <1>2, <1>3, <1>4, <1>7 DEF ReminderRow
    <3>2. NextDate(req[q].row) \in Calendar
      BY <3>1, NextIsDate DEF NextDate
    <3>3. NextDate(req[q].row) # Unset
      BY <3>2, UpkeepAssumption
    <3> QED BY <1>2, <3>1, <3>2, <3>3, UpkeepAssumption DEF NewReminder, ReminderRow, States
  <2> HIDE DEF next
  <2>4. /\ reminder' \in [Reminder -> {None} \cup ReminderRow]
        /\ reminder'[r] = row /\ reminder'[n] = next
        /\ \A p \in Reminder : p \notin {r, n} => reminder'[p] = reminder[p]
    BY <1>2, <1>3, <2>1, <2>2, <2>3 DEF ReminderInv
  <2>5. /\ held' \in [Reminder -> Req \cup {NoReq}] /\ req' = [u \in Req |-> req'[u]]
        /\ \A u \in Req : req'[u] = IdleReq \/ Works(u)'
    BY <1>1, <1>2, <2>2, <2>4, OthersWorkOn
  <2> HIDE DEF r
  <2>6. row # None /\ reminder[r].state = "PENDING" /\ r # Unset
    BY <1>1, <1>2, <1>3, UpkeepAssumption
  <2>7. ASSUME NEW m \in Reminder PROVE Succeeded(m)'
    <3>1. CASE m = n
      BY <1>3, <2>3, <2>4, <2>6, <3>1 DEF Succeeded
    <3>2. CASE m # n
      <4>1. reminder'[m] # None => reminder[m] # None /\ reminder'[m].after = reminder[m].after
        BY <1>2, <1>3, <2>4, <3>2 DEF There
      <4>2. reminder[m] # None /\ reminder[m].after # Unset => reminder[m].after \in Reminder \ {n}
        BY <2>2 DEF ReminderInv, ReminderRow, Succeeded
      <4>3. reminder[m] # None /\ reminder[m].after # Unset =>
              reminder'[reminder[m].after] # None /\ reminder'[reminder[m].after].state # "PENDING"
        BY <1>3, <2>4, <2>6, <4>2 DEF ReminderInv, Succeeded
      <4> QED BY <4>1, <4>3 DEF Succeeded
    <3> QED BY <3>1, <3>2
  <2>8. OneSuccessor'
    <3>1. \A m \in Reminder \ {n} : reminder'[m] # None =>
            reminder[m] # None /\ reminder'[m].after = reminder[m].after
      BY <1>2, <1>3, <2>4 DEF There
    <3>2. \A m \in Reminder : reminder[m] # None => reminder[m].after # r
      BY <2>6 DEF ReminderInv, Succeeded
    <3> QED BY <2>3, <2>4, <3>1, <3>2 DEF ReminderInv, OneSuccessor
  <2>9. \A p \in Reminder : There(p)' /\ reminder'[p].repeat # Unset => reminder'[p].date # Unset
    BY <1>4, <2>3, <2>4 DEF ReminderInv, There
  <2> QED BY <2>4, <2>5, <2>7, <2>8, <2>9 DEF ReminderInv
<1> QED BY <1>6, <1>7

LEMMA ReminderInvInductive == ReminderInv /\ [UpkeepNext]_upkeep => ReminderInv'
<1> SUFFICES ASSUME ReminderInv, [UpkeepNext]_upkeep PROVE ReminderInv'
  OBVIOUS
<1>1. CASE UNCHANGED <<reminder, held, req>>
  BY <1>1 DEF ReminderInv, There, Succeeded, OneSuccessor, Works
<1>2. ASSUME NEW d \in Dues, CreateReminder(d) PROVE ReminderInv'
  BY <1>2, CreationKeeps
<1>3. ASSUME NEW d \in Dues, NEW q \in Req, UpdateReminder(q, d) PROVE ReminderInv'
  BY <1>3, UpdateKeeps
<1>4. ASSUME NEW q \in Req, NEW r \in Reminder, NEW what \in {"completing", "updating", "removing"},
             LockReminder(q, r, what)
      PROVE  ReminderInv'
  BY <1>4, LockingKeeps
<1>5. ASSUME NEW q \in Req, CompleteReminder(q) \/ RemoveReminder(q) \/ Abandon(q)
      PROVE  ReminderInv'
  BY <1>5, CompletionKeeps, RemovalKeeps, AbandonKeeps
<1>6. (\E d \in Date : Pass(d)) \/ (\E k \in Km : Drive(k))
        \/ (\E s \in Service : LogService(s) \/ DeleteService(s)) => UNCHANGED <<reminder, held, req>>
  BY DEF Pass, Drive, LogService, DeleteService
<1>7. (\E t \in Terms, k \in Bases :
         CreateSchedule(t, k) \/ \E a \in BOOLEAN : UpdateSchedule(t, k, a)) \/ DeleteSchedule
        => UNCHANGED <<reminder, held, req>>
  BY DEF CreateSchedule, UpdateSchedule, DeleteSchedule
<1>8. SweepCar \/ ReadMileage \/ ReadServices \/ Deliver \/ UNCHANGED upkeep
        => UNCHANGED <<reminder, held, req>>
  BY DEF SweepCar, ReadMileage, ReadServices, Deliver, upkeep, car
<1> QED BY <1>1, <1>2, <1>3, <1>4, <1>5, <1>6, <1>7, <1>8 DEF UpkeepNext

LEMMA ReminderInvariant == UpkeepSpec => []ReminderInv
<1>1. UpkeepInit => ReminderInv
  BY DEF UpkeepInit, ReminderInv, There, Succeeded, OneSuccessor
<1> QED BY <1>1, ReminderInvInductive, PTL DEF UpkeepSpec

\* However many requests complete, change or delete a reminder at once, it is
\* succeeded once.
THEOREM SucceededOnce == UpkeepSpec => []OneSuccessor
<1>1. ReminderInv => OneSuccessor
  BY DEF ReminderInv
<1> QED BY <1>1, ReminderInvariant, PTL

-----------------------------------------------------------------------------
(* The sweep. *)

\* Whoever changes something owns up to it.
LEMMA ChangesTell ==
  [UpkeepNext]_upkeep =>
    \/ UNCHANGED <<seen, notices>> /\ steady' = FALSE /\ swept' = FALSE
    \/ UNCHANGED <<car, seen, notices, steady, swept>>
    \/ SweepCar \/ ReadMileage \/ ReadServices \/ Deliver
<1> DEFINE Tells == UNCHANGED <<seen, notices>> /\ steady' = FALSE /\ swept' = FALSE
           Quiet == UNCHANGED <<car, seen, notices, steady, swept>>
<1> SUFFICES ASSUME [UpkeepNext]_upkeep
             PROVE  Tells \/ Quiet \/ SweepCar \/ ReadMileage \/ ReadServices \/ Deliver
  OBVIOUS
<1>1. \A d \in Date, k \in Km : Pass(d) \/ Drive(k) => Tells
  BY DEF Pass, Drive, Change
<1>2. \A s \in Service : LogService(s) \/ DeleteService(s) => Tells
  BY DEF LogService, DeleteService, Change
<1>3. \A t \in Terms, k \in Bases : CreateSchedule(t, k) => Tells
  BY DEF CreateSchedule, Change
<1>4. \A t \in Terms, k \in Bases, a \in BOOLEAN : UpdateSchedule(t, k, a) => Tells
  BY DEF UpdateSchedule, Change
<1>5. DeleteSchedule => Tells
  BY DEF DeleteSchedule, Change
<1>6. \A d \in Dues : CreateReminder(d) => Tells
  BY DEF CreateReminder, Change
<1>7. \A d \in Dues, q \in Req : UpdateReminder(q, d) => Tells
  BY DEF UpdateReminder, Change
<1>8. \A q \in Req : CompleteReminder(q) \/ RemoveReminder(q) => Tells
  BY DEF CompleteReminder, RemoveReminder, Change
<1>9. \A q \in Req : Abandon(q) => Quiet
  BY DEF Abandon
<1>10. \A q \in Req, r \in Reminder, what \in {"completing", "updating", "removing"} :
         LockReminder(q, r, what) => Quiet
  BY DEF LockReminder
<1>11. UNCHANGED upkeep => Quiet
  BY DEF upkeep
<1> HIDE DEF Tells, Quiet
<1>12. CASE UpkeepNext
  <2>1. CASE \E d \in Date : Pass(d)
    BY <1>1, <2>1 DEF Tells, Pass
  <2>2. CASE \E k \in Km : Drive(k)
    BY <2>2 DEF Tells, Drive, Change
  <2> QED BY <1>2, <1>3, <1>4, <1>5, <1>6, <1>7, <1>8, <1>9, <1>10, <1>12, <2>1, <2>2
          DEF UpkeepNext
<1> QED BY <1>11, <1>12

LEMMA SweepKeeps ==
  ASSUME AnnounceInv, SweepCar \/ ReadMileage \/ ReadServices PROVE AnnounceInv'
<1>1. UNCHANGED <<car, notices, swept>>
  BY DEF SweepCar, ReadMileage, ReadServices
<1>2. Keyed' /\ EveryDueIsAnnounced'
  <2>1. Standing' = Standing
    BY <1>1 DEF Standing, Mileage, Services, PendingReminders, Point, car
  <2> QED BY <1>1, <2>1 DEF AnnounceInv, Keyed, EveryDueIsAnnounced
<1>3. /\ Mileage' = Mileage /\ Services' = Services /\ PendingReminders' = PendingReminders
      /\ \A r : Point(r)' = Point(r)
  BY <1>1 DEF Mileage, Services, PendingReminders, Point, car
<1>4. SweepInv'
  <2>1. CASE SweepCar
    BY <1>1, <1>3, <2>1 DEF SweepCar, SweepInv, Fresh, car, Reads
  <2>2. CASE ReadMileage
    <3>1. seen # Unswept /\ steady' = steady
      BY <2>2 DEF ReadMileage, Unswept
    <3>2. seen' = [pc |-> "reading", left |-> seen.left \ {"mileage"}, today |-> seen.today,
                   schedule |-> seen.schedule, reminders |-> seen.reminders, km |-> Mileage,
                   services |-> seen.services]
      BY <2>2, <3>1 DEF AnnounceInv, SweepInv, ReadMileage
    <3> QED BY <1>1, <1>3, <3>1, <3>2 DEF AnnounceInv, SweepInv, Fresh, car
  <2>3. CASE ReadServices
    <3> DEFINE found == IF seen.schedule = None THEN {} ELSE Services
    <3>1. seen # Unswept /\ steady' = steady
      BY <2>3 DEF ReadServices, Unswept
    <3>2. seen' = [pc |-> "reading", left |-> seen.left \ {"services"}, today |-> seen.today,
                   schedule |-> seen.schedule, reminders |-> seen.reminders, km |-> seen.km,
                   services |-> found]
      BY <2>3, <3>1 DEF AnnounceInv, SweepInv, ReadServices
    <3> QED BY <1>1, <1>3, <3>1, <3>2 DEF AnnounceInv, SweepInv, Fresh, car
  <2> QED BY <2>1, <2>2, <2>3
<1> QED BY <1>2, <1>4 DEF AnnounceInv

\* The key tells apart what an alert says, so an earlier one in its place says
\* the same.
LEMMA DeliveryAnnounces ==
  ASSUME AnnounceInv, Deliver PROVE AnnounceInv'
<1>1. /\ UNCHANGED car /\ seen' = Unswept /\ swept' = steady /\ seen.left = {}
      /\ notices' = notices \cup
           {[key |-> DedupeKey(a), says |-> a] : a \in {x \in Alerts :
              Alerting(x.status) /\ \A n \in notices : n.key # DedupeKey(x)}}
  BY DEF Deliver
<1>2. seen # Unswept
  BY DEF Deliver, Unswept
<1>3. \A a \in Alerts : a = [of |-> a.of, status |-> a.status, km |-> a.km, date |-> a.date]
  BY DEF Alerts, Says
<1>4. Keyed'
  <2> SUFFICES ASSUME NEW n \in notices'
               PROVE  /\ n.key = DedupeKey(n.says)
                      /\ n.says = [of |-> n.says.of, status |-> n.says.status, km |-> n.says.km,
                                   date |-> n.says.date]
    BY DEF Keyed
  <2>1. CASE n \in notices
    BY <2>1 DEF AnnounceInv, Keyed
  <2>2. CASE n \notin notices
    <3>1. PICK a \in Alerts : n = [key |-> DedupeKey(a), says |-> a]
      BY <1>1, <2>2
    <3>2. n.key = DedupeKey(a) /\ n.says = a
      BY <3>1
    <3> QED BY <1>3, <3>2
  <2> QED BY <2>1, <2>2
<1>5. EveryDueIsAnnounced'
  <2> SUFFICES ASSUME steady, NEW a \in Standing, Alerting(a.status)
               PROVE  \E n \in notices' : n.says = a
    <3>1. Standing' = Standing
      BY <1>1 DEF Standing, Mileage, Services, PendingReminders, Point, car
    <3> QED BY <1>1, <3>1 DEF EveryDueIsAnnounced
  <2>1. Fresh
    BY <1>2 DEF AnnounceInv, SweepInv
  <2>2. a \in Alerts
    <3>1. CASE \E r \in PendingReminders : a = Says(r, DueAt(Point(r), Notify, Mileage, today))
      <4>1. PICK r \in PendingReminders : a = Says(r, DueAt(Point(r), Notify, Mileage, today))
        BY <3>1
      <4> DEFINE x == [of |-> r, point |-> Point(r)]
      <4>2. x \in seen.reminders
        BY <2>1 DEF Fresh
      <4>3. a = Says(x.of, DueAt(x.point, Notify, seen.km, seen.today))
        BY <1>1, <2>1, <4>1 DEF Fresh
      <4> QED BY <4>2, <4>3 DEF Alerts
    <3>2. CASE /\ schedule # None /\ schedule.active
               /\ a = Says(Schedule, DueState(schedule.terms, Notify, Services, Mileage, today))
      <4>1. a = Says(Schedule, DueState(seen.schedule.terms, Notify, seen.services, seen.km,
                                        seen.today))
        BY <1>1, <2>1, <3>2 DEF Fresh
      <4> QED BY <2>1, <3>2, <4>1 DEF Alerts, Fresh
    <3> QED BY <3>1, <3>2 DEF Standing
  <2>3. CASE \A n \in notices : n.key # DedupeKey(a)
    <3>1. [key |-> DedupeKey(a), says |-> a] \in notices'
      BY <1>1, <2>2, <2>3
    <3> QED BY <3>1
  <2>4. CASE \E n \in notices : n.key = DedupeKey(a)
    <3>1. PICK n \in notices : n.key = DedupeKey(a)
      BY <2>4
    <3>2. /\ n.key = DedupeKey(n.says)
          /\ n.says = [of |-> n.says.of, status |-> n.says.status, km |-> n.says.km,
                       date |-> n.says.date]
      BY DEF AnnounceInv, Keyed
    <3>3. /\ n.says.of = a.of /\ n.says.status = a.status /\ n.says.km = a.km
          /\ n.says.date = a.date
      BY <3>1, <3>2 DEF DedupeKey
    <3>4. n.says = a
      BY <1>3, <2>2, <3>2, <3>3
    <3> QED BY <1>1, <3>4
  <2> QED BY <2>3, <2>4
<1> QED BY <1>1, <1>4, <1>5 DEF AnnounceInv, SweepInv

LEMMA AnnounceInvInductive == AnnounceInv /\ [UpkeepNext]_upkeep => AnnounceInv'
<1> SUFFICES ASSUME AnnounceInv, [UpkeepNext]_upkeep PROVE AnnounceInv'
  OBVIOUS
<1>1. CASE UNCHANGED <<seen, notices>> /\ steady' = FALSE /\ swept' = FALSE
  BY <1>1 DEF AnnounceInv, SweepInv, Keyed, EveryDueIsAnnounced
<1>2. CASE UNCHANGED <<car, seen, notices, steady, swept>>
  <2>1. /\ Mileage' = Mileage /\ Services' = Services /\ PendingReminders' = PendingReminders
        /\ \A r : Point(r)' = Point(r)
    BY <1>2 DEF Mileage, Services, PendingReminders, Point, car
  <2>2. Standing' = Standing
    BY <1>2 DEF Standing, Mileage, Services, PendingReminders, Point, car
  <2> QED BY <1>2, <2>1, <2>2 DEF AnnounceInv, SweepInv, Fresh, Keyed, EveryDueIsAnnounced, car
<1> QED BY <1>1, <1>2, ChangesTell, SweepKeeps, DeliveryAnnounces

\* After a sweep over which nothing changed, nothing that is due is unsaid.
THEOREM DueIsAnnounced == UpkeepSpec => []EveryDueIsAnnounced
<1>1. UpkeepInit => AnnounceInv
  BY DEF UpkeepInit, AnnounceInv, SweepInv, Keyed, EveryDueIsAnnounced
<1>2. AnnounceInv => EveryDueIsAnnounced
  BY DEF AnnounceInv
<1> QED BY <1>1, <1>2, AnnounceInvInductive, PTL DEF UpkeepSpec
=============================================================================
