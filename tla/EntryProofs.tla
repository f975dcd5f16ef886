----------------------------- MODULE EntryProofs -----------------------------
(***************************************************************************)
(* What a person enters and sends.  For any number of entries, keys and    *)
(* requests: what goes by one key is one payload, so no retry is taken for *)
(* a different request; and a form that fills in nothing by itself files   *)
(* one record for one entry.  For any figures: what the fill-up form and   *)
(* the service form work out themselves, the API takes.  For any timeline: *)
(* the mileage box says of a reading what the odometer will make of it.    *)
(* For any boxes and requests: a form, the API and the table say the same  *)
(* of a record, but for the differences named.                             *)
(***************************************************************************)
EXTENDS Submission, FuelForm, ServiceForm, Mileage, Forms, FiniteSetTheorems, TLAPS

AnyRequest ==
  [pc : Pc, key : Key, payload : Payload, episode : 0..MaxEpisodes, outcome : Outcome]
AnyRow == [payload : Payload, episode : 0..MaxEpisodes, live : BOOLEAN]
AnyForm ==
  [open : {TRUE}, entered : Entry, filled : BOOLEAN, waits : Attempt \cup {NoAttempt},
   current : {Nothing} \cup [of : Identity, key : Key, payload : Payload]]
AnySubmission == [of : Identity, key : Key, payload : Payload]

Busy(a) == request[a] # Idle
Submitted == form.open /\ form.current # Nothing

\* Payload p goes by key k: in the table, with a request, or in the form.
Carries(k, p) ==
  \/ stored[k] # Nothing /\ stored[k].payload = p
  \/ \E a \in Attempt : Busy(a) /\ request[a].key = k /\ request[a].payload = p
  \/ Submitted /\ form.current.key = k /\ form.current.payload = p

OnePayload == \A k \in Key : \A p, q \in Payload : Carries(k, p) /\ Carries(k, q) => p = q
WinnerIsThere == \A a \in Attempt : Is(a, "conflict") => stored[request[a].key] # Nothing
NoneDiffers == \A a \in Attempt : Busy(a) => request[a].outcome # "different"

\* What RetryIsUnderstood rests on.
Understood == TypeOK /\ OnePayload /\ WinnerIsThere /\ NoneDiffers

-----------------------------------------------------------------------------
\* A request that is out is a record of the type; so is a row.
LEMMA BusyIsRequest ==
  ASSUME TypeOK, NEW a \in Attempt, request[a] # Idle
  PROVE  request[a] \in AnyRequest
BY DEF TypeOK, AnyRequest

LEMMA PcIsBusy ==
  ASSUME TypeOK, NEW a \in Attempt, request[a].pc # "idle"
  PROVE  request[a] \in AnyRequest
BY DEF TypeOK, AnyRequest, Idle

LEMMA RowIsRow ==
  ASSUME TypeOK, NEW k \in Key, stored[k] # Nothing
  PROVE  stored[k] \in AnyRow
BY DEF TypeOK, AnyRow

LEMMA OpenIsForm ==
  ASSUME TypeOK, form.open
  PROVE  form \in AnyForm
<1>1. Closed.open = FALSE
  BY DEF Closed
<1>2. form # Closed
  BY <1>1, Zenon
<1>3. form \in {Closed} \cup AnyForm
  BY DEF TypeOK, AnyForm
<1> QED BY <1>2, <1>3

\* TypeOK, variable by variable.
LEMMA TypeIsParts ==
  TypeOK <=> /\ now \in 0..MaxNow
             /\ episode \in 0..MaxEpisodes
             /\ form \in {Closed} \cup AnyForm
             /\ request \in [Attempt -> {Idle} \cup AnyRequest]
             /\ stored \in [Key -> {Nothing} \cup AnyRow]
BY DEF TypeOK, AnyForm, AnyRequest, AnyRow

LEMMA RequestIsBusy ==
  ASSUME NEW r \in AnyRequest
  PROVE  r # Idle
<1>1. r.pc # "idle"
  BY DEF AnyRequest, Pc
<1> QED BY <1>1 DEF Idle

-----------------------------------------------------------------------------
\* What the form sends is typed, and goes by a key that carries nothing else.
LEMMA SubmissionIsTyped ==
  ASSUME TypeOK, form.open, NEW s \in Submissions
  PROVE  s \in AnySubmission
<1>1. form \in AnyForm
  BY OpenIsForm
<1>2. CASE SameEntry
  <2>1. s = form.current /\ form.current # Nothing
    BY <1>2 DEF Submissions, SameEntry, Kept
  <2> QED BY <1>1, <2>1 DEF AnyForm, AnySubmission
<1>3. CASE ~SameEntry
  <2>1. form.entered \in Entry /\ form.filled \in BOOLEAN
    BY <1>1 DEF AnyForm
  <2>2. Entered \in Identity
    BY <2>1, SubmissionAssumption DEF Entered, Identity
  <2>3. now \in 0..MaxNow
    BY DEF TypeOK
  <2> QED BY <1>3, <2>2, <2>3 DEF Submissions, Fresh, AnySubmission, Payload
<1> QED BY <1>2, <1>3

LEMMA SubmissionIsAlone ==
  ASSUME TypeOK, OnePayload, form.open, NEW s \in Submissions, NEW p \in Payload,
         Carries(s.key, p)
  PROVE  s.payload = p
<1>1. s \in AnySubmission
  BY SubmissionIsTyped
<1>2. CASE SameEntry
  <2>1. s = form.current /\ Submitted
    BY <1>2 DEF Submissions, SameEntry, Kept, Submitted
  <2>2. Carries(s.key, s.payload)
    BY <2>1 DEF Carries
  <2> QED BY <1>1, <2>2 DEF OnePayload, AnySubmission
<1>3. CASE ~SameEntry
  <2>1. s.key \in Fresh
    BY <1>3 DEF Submissions
  <2>2. ~InUse(s.key)
    BY <2>1 DEF Fresh
  <2> QED BY <2>2 DEF InUse, Carries, Busy, Submitted
<1> QED BY <1>2, <1>3

-----------------------------------------------------------------------------
\* How the steps of a request change it.
LEMMA Moves ==
  ASSUME TypeOK, NEW a \in Attempt, request[a] \in AnyRequest, NEW pc \in Pc,
         request' = [request EXCEPT ![a].pc = pc]
  PROVE  /\ request' \in [Attempt -> {Idle} \cup AnyRequest]
         /\ \A b \in Attempt : b # a => request'[b] = request[b]
         /\ request'[a] # Idle
         /\ request'[a].key = request[a].key /\ request'[a].payload = request[a].payload
         /\ request'[a].episode = request[a].episode
         /\ request'[a].outcome = request[a].outcome /\ request'[a].pc = pc
<1> DEFINE r == [request[a] EXCEPT !.pc = pc]
<1>1. r \in AnyRequest /\ r.key = request[a].key /\ r.payload = request[a].payload
      /\ r.episode = request[a].episode /\ r.outcome = request[a].outcome /\ r.pc = pc
  BY DEF AnyRequest
<1>2. request \in [Attempt -> {Idle} \cup AnyRequest]
  BY TypeIsParts
<1>3. request' = [request EXCEPT ![a] = r]
  OBVIOUS
<1>4. r # Idle
  BY <1>1, RequestIsBusy
<1> HIDE DEF r
<1> QED BY <1>1, <1>2, <1>3, <1>4

LEMMA AnswerMoves ==
  ASSUME TypeOK, NEW a \in Attempt, request[a] \in AnyRequest, NEW o \in Outcome, Answer(a, o)
  PROVE  /\ request' \in [Attempt -> {Idle} \cup AnyRequest]
         /\ \A b \in Attempt : b # a => request'[b] = request[b]
         /\ request'[a] # Idle
         /\ request'[a].key = request[a].key /\ request'[a].payload = request[a].payload
         /\ request'[a].episode = request[a].episode
         /\ request'[a].outcome = o /\ request'[a].pc = "answered"
<1> DEFINE r == [request[a] EXCEPT !.pc = "answered", !.outcome = o]
<1>1. r \in AnyRequest /\ r.key = request[a].key /\ r.payload = request[a].payload
      /\ r.episode = request[a].episode /\ r.outcome = o /\ r.pc = "answered"
  BY DEF AnyRequest, Pc
<1>2. request \in [Attempt -> {Idle} \cup AnyRequest]
  BY TypeIsParts
<1>3. request' = [request EXCEPT ![a] = r]
  BY DEF Answer
<1>4. r # Idle
  BY <1>1, RequestIsBusy
<1> HIDE DEF r
<1> QED BY <1>1, <1>2, <1>3, <1>4

-----------------------------------------------------------------------------
LEMMA TypeInit == Init => TypeOK
BY SubmissionAssumption DEF Init, TypeOK

LEMMA TypeNext == TypeOK /\ [Next]_vars => TypeOK'
<1> SUFFICES ASSUME TypeOK, [Next]_vars PROVE TypeOK'
  OBVIOUS
<1> DEFINE Parts == /\ now \in 0..MaxNow
                    /\ episode \in 0..MaxEpisodes
                    /\ form \in {Closed} \cup AnyForm
                    /\ request \in [Attempt -> {Idle} \cup AnyRequest]
                    /\ stored \in [Key -> {Nothing} \cup AnyRow]
<1>0. Parts
  BY TypeIsParts
<1> SUFFICES Parts'
  BY DEF TypeOK, AnyForm, AnyRequest, AnyRow
<1>1. ASSUME NEW e \in Entry, Open(e) PROVE Parts'
  BY <1>0, <1>1, SubmissionAssumption DEF Open, AnyForm
<1>2. ASSUME NEW e \in Entry, Change(e) PROVE Parts'
  <2>1. form \in AnyForm
    BY <1>2, OpenIsForm DEF Change
  <2>2. form' \in AnyForm
    BY <1>2, <2>1 DEF Change, AnyForm
  <2> QED BY <1>0, <1>2, <2>2, SubmissionAssumption DEF Change
<1>3. CASE FillIn
  <2>1. form \in AnyForm
    BY <1>3, OpenIsForm DEF FillIn
  <2>2. form' \in AnyForm
    BY <1>3, <2>1 DEF FillIn, AnyForm
  <2> QED BY <1>0, <1>3, <2>2 DEF FillIn
<1>4. CASE Cancel
  BY <1>0, <1>4 DEF Cancel
<1>5. CASE Tick
  BY <1>0, <1>5, SubmissionAssumption DEF Tick
<1>6. ASSUME NEW a \in Attempt, Submit(a) PROVE Parts'
  <2>1. PICK s \in Submissions :
          /\ form' = [form EXCEPT !.waits = a, !.current = s]
          /\ request' = [request EXCEPT ![a] =
               [pc |-> "received", key |-> s.key, payload |-> s.payload,
                episode |-> episode, outcome |-> "none"]]
    BY <1>6 DEF Submit
  <2>2. s \in AnySubmission /\ form \in AnyForm
    BY <1>6, SubmissionIsTyped, OpenIsForm DEF Submit
  <2>3. form' \in AnyForm
    BY <2>1, <2>2 DEF AnyForm, AnySubmission
  <2>4. [pc |-> "received", key |-> s.key, payload |-> s.payload,
         episode |-> episode, outcome |-> "none"] \in AnyRequest
    BY <1>0, <2>2 DEF AnyRequest, AnySubmission, Pc, Outcome
  <2>5. request' \in [Attempt -> {Idle} \cup AnyRequest]
    BY <1>0, <2>1, <2>4
  <2> QED BY <1>0, <1>6, <2>3, <2>5 DEF Submit
<1>7. ASSUME NEW a \in Attempt, Receive(a) PROVE Parts'
  <2>1. request' \in [Attempt -> {Idle} \cup AnyRequest]
    BY <1>0, <1>7 DEF Receive
  <2>2. ASSUME form.waits = a, form' = [form EXCEPT !.waits = NoAttempt]
        PROVE  form' \in AnyForm
    <3>1. form # Closed
      BY <2>2, SubmissionAssumption DEF Closed
    <3> QED BY <1>0, <2>2, <3>1 DEF AnyForm
  <2>3. form' \in {Closed} \cup AnyForm
    BY <1>0, <1>7, <2>2 DEF Receive
  <2> QED BY <1>0, <1>7, <2>1, <2>3 DEF Receive
<1>8. ASSUME NEW a \in Attempt, Drop(a) PROVE Parts'
  <2>1. form # Closed
    BY <1>8, SubmissionAssumption DEF Drop, Closed
  <2>2. form' \in AnyForm
    BY <1>0, <1>8, <2>1 DEF Drop, AnyForm
  <2> QED BY <1>0, <1>8, <2>2 DEF Drop
<1>9. ASSUME NEW a \in Attempt, Vanish(a) PROVE Parts'
  BY <1>0, <1>9 DEF Vanish
<1>10. ASSUME NEW a \in Attempt PROVE Replayed(a) \in Outcome
  BY DEF Replayed, Outcome
<1>11. ASSUME NEW a \in Attempt, Look(a) PROVE Parts'
  <2>1. request[a] \in AnyRequest
    BY <1>11, PcIsBusy DEF Look, Is
  <2>2. request' \in [Attempt -> {Idle} \cup AnyRequest]
    BY <1>10, <1>11, <2>1, Moves, AnswerMoves DEF Look, Pc
  <2> QED BY <1>0, <1>11, <2>2 DEF Look
<1>12. ASSUME NEW a \in Attempt, Insert(a) PROVE Parts'
  <2>1. request[a] \in AnyRequest
    BY <1>12, PcIsBusy DEF Insert, Is
  <2>2. request' \in [Attempt -> {Idle} \cup AnyRequest]
    BY <1>12, <2>1, Moves DEF Insert, Pc
  <2> QED BY <1>0, <1>12, <2>2 DEF Insert
<1>13. ASSUME NEW a \in Attempt, Commit(a) PROVE Parts'
  <2>1. request[a] \in AnyRequest
    BY <1>13, PcIsBusy DEF Commit, Is
  <2>2. request' \in [Attempt -> {Idle} \cup AnyRequest]
    BY <1>13, <2>1, AnswerMoves DEF Commit, Outcome
  <2>3. [payload |-> request[a].payload, episode |-> request[a].episode, live |-> TRUE]
          \in AnyRow
    BY <2>1 DEF AnyRequest, AnyRow
  <2>4. stored' \in [Key -> {Nothing} \cup AnyRow]
    BY <1>0, <1>13, <2>3 DEF Commit
  <2> QED BY <1>0, <1>13, <2>2, <2>4 DEF Commit
<1>14. ASSUME NEW a \in Attempt, Rollback(a) PROVE Parts'
  <2>1. request[a] \in AnyRequest
    BY <1>14, PcIsBusy DEF Rollback, Is
  <2>2. request' \in [Attempt -> {Idle} \cup AnyRequest]
    BY <1>14, <2>1, AnswerMoves DEF Rollback, Outcome
  <2> QED BY <1>0, <1>14, <2>2 DEF Rollback
<1>15. ASSUME NEW a \in Attempt, ReplayWinner(a) PROVE Parts'
  <2>1. request[a] \in AnyRequest
    BY <1>15, PcIsBusy DEF ReplayWinner, Is
  <2>2. request' \in [Attempt -> {Idle} \cup AnyRequest]
    BY <1>10, <1>15, <2>1, AnswerMoves DEF ReplayWinner
  <2> QED BY <1>0, <1>15, <2>2 DEF ReplayWinner
<1>16. ASSUME NEW k \in Key, Delete(k) PROVE Parts'
  <2>1. stored[k] \in AnyRow
    BY <1>16, RowIsRow DEF Delete
  <2>2. [stored[k] EXCEPT !.live = FALSE] \in AnyRow
    BY <2>1 DEF AnyRow
  <2>3. stored' \in [Key -> {Nothing} \cup AnyRow]
    BY <1>0, <1>16, <2>2 DEF Delete
  <2> QED BY <1>0, <1>16, <2>3 DEF Delete
<1>17. CASE UNCHANGED vars
  BY <1>0, <1>17 DEF vars
<1> HIDE DEF Parts
<1> QED
  BY <1>1, <1>2, <1>3, <1>4, <1>5, <1>6, <1>7, <1>8, <1>9, <1>11, <1>12, <1>13, <1>14,
     <1>15, <1>16, <1>17 DEF Next

-----------------------------------------------------------------------------
\* Only a submission gives a key a payload.
LEMMA CarriesFromSubmit ==
  ASSUME TypeOK, NEW a \in Attempt, Submit(a)
  PROVE  \E s \in Submissions :
           \A k \in Key, p \in Payload :
             Carries(k, p)' => Carries(k, p) \/ (k = s.key /\ p = s.payload)
<1>1. PICK s \in Submissions :
        /\ form' = [form EXCEPT !.waits = a, !.current = s]
        /\ request' = [request EXCEPT ![a] =
             [pc |-> "received", key |-> s.key, payload |-> s.payload,
              episode |-> episode, outcome |-> "none"]]
  BY DEF Submit
<1>2. form \in AnyForm
  BY OpenIsForm DEF Submit
<1>3. form'.current = s
  BY <1>1, <1>2 DEF AnyForm
<1>4. request'[a].key = s.key /\ request'[a].payload = s.payload
      /\ \A b \in Attempt : b # a => request'[b] = request[b]
  BY <1>1 DEF TypeOK
<1>5. stored' = stored
  BY DEF Submit
<1>6. \A k \in Key, p \in Payload :
        Carries(k, p)' => Carries(k, p) \/ (k = s.key /\ p = s.payload)
  BY <1>3, <1>4, <1>5 DEF Carries, Busy, Submitted
<1> QED BY <1>6

LEMMA CarriesOtherwise ==
  ASSUME TypeOK, [Next]_vars, \A a \in Attempt : ~Submit(a),
         NEW k \in Key, NEW p \in Payload, Carries(k, p)'
  PROVE  Carries(k, p)
<1>0. request \in [Attempt -> {Idle} \cup AnyRequest] /\ stored \in [Key -> {Nothing} \cup AnyRow]
  BY TypeIsParts
<1>1. ASSUME NEW e \in Entry, Open(e) PROVE Carries(k, p)
  BY <1>1 DEF Open, Carries, Busy, Submitted
<1>2. ASSUME NEW e \in Entry, Change(e) PROVE Carries(k, p)
  <2>1. form \in AnyForm
    BY <1>2, OpenIsForm DEF Change
  <2>2. form'.open = form.open /\ form'.current = form.current
    BY <1>2, <2>1 DEF Change, AnyForm
  <2> QED BY <1>2, <2>2 DEF Change, Carries, Busy, Submitted
<1>3. CASE FillIn
  <2>1. form \in AnyForm
    BY <1>3, OpenIsForm DEF FillIn
  <2>2. form'.open = form.open /\ form'.current = form.current
    BY <1>3, <2>1 DEF FillIn, AnyForm
  <2> QED BY <1>3, <2>2 DEF FillIn, Carries, Busy, Submitted
<1>4. ~Closed.open
  BY DEF Closed
<1>5. CASE Cancel
  BY <1>4, <1>5 DEF Cancel, Carries, Busy, Submitted
<1>6. CASE Tick
  BY <1>6 DEF Tick, Carries, Busy, Submitted
<1>7. ASSUME form \in AnyForm, form' = [form EXCEPT !.waits = NoAttempt]
      PROVE  form'.open = form.open /\ form'.current = form.current
  BY <1>7 DEF AnyForm
<1>8. ASSUME NEW a \in Attempt, form.waits = a PROVE form \in AnyForm
  <2>1. form # Closed
    BY <1>8, SubmissionAssumption DEF Closed
  <2> QED BY <2>1, TypeIsParts
<1>9. ASSUME NEW a \in Attempt, Receive(a) PROVE Carries(k, p)
  <2>1. \A b \in Attempt : request'[b] = IF b = a THEN Idle ELSE request[b]
    BY <1>0, <1>9 DEF Receive
  <2>2. \/ form' = form
        \/ form' = Closed
        \/ form'.open = form.open /\ form'.current = form.current
    BY <1>7, <1>8, <1>9 DEF Receive
  <2> QED BY <1>4, <1>9, <2>1, <2>2 DEF Receive, Carries, Busy, Submitted
<1>10. ASSUME NEW a \in Attempt, Drop(a) PROVE Carries(k, p)
  <2>1. form'.open = form.open /\ form'.current = form.current
    BY <1>7, <1>8, <1>10 DEF Drop
  <2> QED BY <1>10, <2>1 DEF Drop, Carries, Busy, Submitted
<1>11. ASSUME NEW a \in Attempt, Vanish(a) PROVE Carries(k, p)
  <2>1. \A b \in Attempt : request'[b] = IF b = a THEN Idle ELSE request[b]
    BY <1>0, <1>11 DEF Vanish
  <2> QED BY <1>11, <2>1 DEF Vanish, Carries, Busy, Submitted
<1>12. ASSUME NEW a \in Attempt, UNCHANGED form, request[a] \in AnyRequest,
              \A b \in Attempt : b # a => request'[b] = request[b],
              request'[a].key = request[a].key, request'[a].payload = request[a].payload,
              \/ UNCHANGED stored
              \/ stored' = [stored EXCEPT ![request[a].key] =
                   [payload |-> request[a].payload, episode |-> request[a].episode, live |-> TRUE]]
       PROVE  Carries(k, p)
  <2>1. Busy(a)
    BY <1>12, RequestIsBusy DEF Busy
  <2>2. \A j \in Key : \/ stored'[j] = stored[j]
                       \/ j = request[a].key /\ stored'[j].payload = request[a].payload
    BY <1>0, <1>12
  <2> QED BY <1>12, <2>1, <2>2 DEF Carries, Busy, Submitted
<1>13. ASSUME NEW a \in Attempt, Look(a) PROVE Carries(k, p)
  <2>1. request[a] \in AnyRequest
    BY <1>13, PcIsBusy DEF Look, Is
  <2>2. Replayed(a) \in Outcome
    BY DEF Replayed, Outcome
  <2> QED BY <1>12, <1>13, <2>1, <2>2, Moves, AnswerMoves DEF Look, Pc
<1>14. ASSUME NEW a \in Attempt, Insert(a) PROVE Carries(k, p)
  <2>1. request[a] \in AnyRequest
    BY <1>14, PcIsBusy DEF Insert, Is
  <2> QED BY <1>12, <1>14, <2>1, Moves DEF Insert, Pc
<1>15. ASSUME NEW a \in Attempt, Commit(a) PROVE Carries(k, p)
  <2>1. request[a] \in AnyRequest
    BY <1>15, PcIsBusy DEF Commit, Is
  <2> QED BY <1>12, <1>15, <2>1, AnswerMoves DEF Commit, Outcome
<1>16. ASSUME NEW a \in Attempt, Rollback(a) PROVE Carries(k, p)
  <2>1. request[a] \in AnyRequest
    BY <1>16, PcIsBusy DEF Rollback, Is
  <2> QED BY <1>12, <1>16, <2>1, AnswerMoves DEF Rollback, Outcome
<1>17. ASSUME NEW a \in Attempt, ReplayWinner(a) PROVE Carries(k, p)
  <2>1. request[a] \in AnyRequest
    BY <1>17, PcIsBusy DEF ReplayWinner, Is
  <2>2. Replayed(a) \in Outcome
    BY DEF Replayed, Outcome
  <2> QED BY <1>12, <1>17, <2>1, <2>2, AnswerMoves DEF ReplayWinner
<1>18. ASSUME NEW j \in Key, Delete(j) PROVE Carries(k, p)
  <2>1. stored[j] \in AnyRow
    BY <1>18, RowIsRow DEF Delete
  <2>2. [stored[j] EXCEPT !.live = FALSE].payload = stored[j].payload
    BY <2>1 DEF AnyRow
  <2>3. \A i \in Key : \/ stored'[i] = stored[i]
                       \/ i = j /\ stored'[i].payload = stored[i].payload
    BY <1>0, <1>18, <2>2 DEF Delete
  <2> QED BY <1>18, <2>3 DEF Delete, Carries, Busy, Submitted
<1>19. CASE UNCHANGED vars
  BY <1>19 DEF vars, Carries, Busy, Submitted
<1> QED
  BY <1>1, <1>2, <1>3, <1>5, <1>6, <1>9, <1>10, <1>11, <1>13, <1>14, <1>15, <1>16, <1>17,
     <1>18, <1>19 DEF Next

-----------------------------------------------------------------------------
LEMMA OnePayloadKept ==
  ASSUME Understood, [Next]_vars
  PROVE  OnePayload'
<1>0. TypeOK /\ OnePayload
  BY DEF Understood
<1>1. ASSUME NEW a \in Attempt, Submit(a) PROVE OnePayload'
  <2>1. form.open
    BY <1>1 DEF Submit
  <2>2. PICK s \in Submissions :
          \A k \in Key, p \in Payload :
            Carries(k, p)' => Carries(k, p) \/ (k = s.key /\ p = s.payload)
    BY <1>0, <1>1, CarriesFromSubmit
  <2>3. ASSUME NEW k \in Key, NEW p \in Payload, NEW q \in Payload, Carries(k, p)', Carries(k, q)'
        PROVE  p = q
    <3>1. CASE k = s.key
      BY <1>0, <2>1, <2>2, <2>3, <3>1, SubmissionIsAlone
    <3>2. CASE k # s.key
      BY <1>0, <2>2, <2>3, <3>2 DEF OnePayload
    <3> QED BY <3>1, <3>2
  <2> QED BY <2>3 DEF OnePayload
<1>2. CASE \A a \in Attempt : ~Submit(a)
  BY <1>0, <1>2, CarriesOtherwise DEF OnePayload
<1> QED BY <1>1, <1>2

\* A request that finds its key stored finds its own payload.
LEMMA ReplayIsOwn ==
  ASSUME Understood, NEW a \in Attempt, request[a] \in AnyRequest,
         stored[request[a].key] # Nothing
  PROVE  /\ stored[request[a].key].payload = request[a].payload
         /\ Replayed(a) \in {"replayed", "deleted"}
<1>1. request[a].key \in Key /\ request[a].payload \in Payload /\ Busy(a)
  BY RequestIsBusy DEF AnyRequest, Busy
<1>2. stored[request[a].key] \in AnyRow
  BY <1>1, RowIsRow DEF Understood
<1>3. stored[request[a].key].payload \in Payload
  BY <1>2 DEF AnyRow
<1>4. /\ Carries(request[a].key, request[a].payload)
      /\ Carries(request[a].key, stored[request[a].key].payload)
  BY <1>1 DEF Carries
<1>5. stored[request[a].key].payload = request[a].payload
  BY <1>1, <1>3, <1>4 DEF Understood, OnePayload
<1> QED BY <1>5 DEF Replayed

\* A row is never taken away.
LEMMA RowsStay ==
  ASSUME TypeOK, [Next]_vars, NEW k \in Key, stored[k] # Nothing
  PROVE  stored'[k] # Nothing
<1>1. stored \in [Key -> {Nothing} \cup AnyRow] /\ Nothing \notin AnyRow
  BY TypeIsParts, NothingAssumption DEF AnyRow
<1>2. ASSUME NEW a \in Attempt, Commit(a) PROVE stored'[k] # Nothing
  <2>1. request[a] \in AnyRequest
    BY <1>2, PcIsBusy DEF Commit, Is
  <2>2. [payload |-> request[a].payload, episode |-> request[a].episode, live |-> TRUE] \in AnyRow
    BY <2>1 DEF AnyRequest, AnyRow
  <2> QED BY <1>1, <1>2, <2>2 DEF Commit
<1>3. ASSUME NEW j \in Key, Delete(j) PROVE stored'[k] # Nothing
  <2>1. [stored[j] EXCEPT !.live = FALSE] \in AnyRow
    BY <1>1, <1>3 DEF Delete, AnyRow
  <2> QED BY <1>1, <1>3, <2>1 DEF Delete
<1>4. CASE UNCHANGED stored
  BY <1>4
<1> QED
  BY <1>2, <1>3, <1>4
     DEF Next, vars, Open, Change, FillIn, Cancel, Tick, Submit, Receive, Drop, Vanish, Look,
         Insert, Rollback, ReplayWinner

LEMMA WinnerKept ==
  ASSUME Understood, [Next]_vars
  PROVE  WinnerIsThere' /\ NoneDiffers'
<1> DEFINE Fine(b) == /\ Is(b, "conflict") => stored[request[b].key] # Nothing
                      /\ Busy(b) => request[b].outcome # "different"
<1>0. TypeOK /\ \A b \in Attempt : Fine(b)
  BY DEF Understood, WinnerIsThere, NoneDiffers
<1>1. request \in [Attempt -> {Idle} \cup AnyRequest]
  BY <1>0, TypeIsParts
<1>2. ASSUME NEW b \in Attempt, UNCHANGED request[b] PROVE Fine(b)'
  <2>1. Is(b, "conflict") => request[b] \in AnyRequest
    BY <1>0, PcIsBusy DEF Is
  <2>2. request[b] \in AnyRequest => request[b].key \in Key
    BY DEF AnyRequest
  <2>3. Is(b, "conflict") => stored'[request[b].key] # Nothing
    BY <1>0, <2>1, <2>2, RowsStay
  <2> QED BY <1>0, <1>2, <2>3 DEF Is, Busy
<1>3. ASSUME NEW b \in Attempt, request'[b] = Idle PROVE Fine(b)'
  BY <1>3 DEF Is, Busy, Idle
<1>4. ASSUME NEW a \in Attempt, request'[a].pc # "conflict", request'[a].outcome # "different"
      PROVE  Fine(a)'
  BY <1>4 DEF Is, Busy
<1>5. ASSUME NEW a \in Attempt, Fine(a)',
             \A b \in Attempt : b # a => request'[b] = request[b]
      PROVE  \A b \in Attempt : Fine(b)'
  BY <1>2, <1>5
<1>6. ASSUME NEW a \in Attempt, request[a] \in AnyRequest PROVE request[a].outcome # "different"
  BY <1>0, <1>6, RequestIsBusy DEF Busy
<1>7. ASSUME NEW a \in Attempt, Submit(a) PROVE \A b \in Attempt : Fine(b)'
  <2>1. request'[a].pc = "received" /\ request'[a].outcome = "none"
        /\ \A b \in Attempt : b # a => request'[b] = request[b]
    BY <1>1, <1>7 DEF Submit
  <2> QED BY <1>4, <1>5, <2>1
<1>8. ASSUME NEW a \in Attempt, Receive(a) \/ Vanish(a) PROVE \A b \in Attempt : Fine(b)'
  <2>1. request'[a] = Idle /\ \A b \in Attempt : b # a => request'[b] = request[b]
    BY <1>1, <1>8 DEF Receive, Vanish
  <2> QED BY <1>3, <1>5, <2>1
<1>9. ASSUME NEW a \in Attempt, request[a] \in AnyRequest, NEW o \in Outcome, o # "different",
             Answer(a, o)
      PROVE  \A b \in Attempt : Fine(b)'
  <2>1. request'[a].pc # "conflict" /\ request'[a].outcome # "different"
        /\ \A b \in Attempt : b # a => request'[b] = request[b]
    BY <1>0, <1>9, AnswerMoves
  <2> QED BY <1>4, <1>5, <2>1
<1>10. ASSUME NEW a \in Attempt, Look(a) PROVE \A b \in Attempt : Fine(b)'
  <2>1. request[a] \in AnyRequest
    BY <1>0, <1>10, PcIsBusy DEF Look, Is
  <2>2. CASE stored[request[a].key] = Nothing
    <3>1. request'[a].pc = "creating" /\ request'[a].outcome = request[a].outcome
          /\ \A b \in Attempt : b # a => request'[b] = request[b]
      BY <1>0, <1>10, <2>1, <2>2, Moves DEF Look, Pc
    <3> QED BY <1>4, <1>5, <1>6, <2>1, <3>1
  <2>3. CASE stored[request[a].key] # Nothing
    <3>1. Replayed(a) \in {"replayed", "deleted"}
      BY <2>1, <2>3, ReplayIsOwn
    <3> QED BY <1>9, <1>10, <2>1, <2>3, <3>1 DEF Look, Outcome
  <2> QED BY <2>2, <2>3
<1>11. ASSUME NEW a \in Attempt, Insert(a) PROVE \A b \in Attempt : Fine(b)'
  <2>1. request[a] \in AnyRequest
    BY <1>0, <1>11, PcIsBusy DEF Insert, Is
  <2>2. CASE stored[request[a].key] = Nothing
    <3>1. request'[a].pc = "inserted" /\ request'[a].outcome = request[a].outcome
          /\ \A b \in Attempt : b # a => request'[b] = request[b]
      BY <1>0, <1>11, <2>1, <2>2, Moves DEF Insert, Pc
    <3> QED BY <1>4, <1>5, <1>6, <2>1, <3>1
  <2>3. CASE stored[request[a].key] # Nothing
    <3>1. request'[a].key = request[a].key /\ request'[a].outcome = request[a].outcome
          /\ \A b \in Attempt : b # a => request'[b] = request[b]
      BY <1>0, <1>11, <2>1, <2>3, Moves DEF Insert, Pc
    <3>2. Fine(a)'
      BY <1>6, <1>11, <2>1, <2>3, <3>1 DEF Insert, Is, Busy
    <3> QED BY <1>5, <3>1, <3>2
  <2> QED BY <2>2, <2>3
<1>12. ASSUME NEW a \in Attempt, Commit(a) PROVE \A b \in Attempt : Fine(b)'
  <2>1. request[a] \in AnyRequest
    BY <1>0, <1>12, PcIsBusy DEF Commit, Is
  <2> QED BY <1>9, <1>12, <2>1 DEF Commit, Outcome
<1>13. ASSUME NEW a \in Attempt, Rollback(a) PROVE \A b \in Attempt : Fine(b)'
  <2>1. request[a] \in AnyRequest
    BY <1>0, <1>13, PcIsBusy DEF Rollback, Is
  <2> QED BY <1>9, <1>13, <2>1 DEF Rollback, Outcome
<1>14. ASSUME NEW a \in Attempt, ReplayWinner(a) PROVE \A b \in Attempt : Fine(b)'
  <2>1. request[a] \in AnyRequest /\ stored[request[a].key] # Nothing
    BY <1>0, <1>14, PcIsBusy DEF ReplayWinner, Is
  <2>2. Replayed(a) \in {"replayed", "deleted"}
    BY <2>1, ReplayIsOwn
  <2> QED BY <1>9, <1>14, <2>1, <2>2 DEF ReplayWinner, Outcome
<1>15. ASSUME UNCHANGED request PROVE \A b \in Attempt : Fine(b)'
  BY <1>2, <1>15
<1>16. \A b \in Attempt : Fine(b)'
  <2>1. \/ UNCHANGED request
        \/ \E a \in Attempt :
             \/ Submit(a) \/ Receive(a) \/ Vanish(a)
             \/ Look(a) \/ Insert(a) \/ Commit(a) \/ Rollback(a) \/ ReplayWinner(a)
    BY DEF Next, vars, Open, Change, FillIn, Cancel, Tick, Drop, Delete
  <2> QED BY <2>1, <1>7, <1>8, <1>10, <1>11, <1>12, <1>13, <1>14, <1>15
<1> QED BY <1>16 DEF WinnerIsThere, NoneDiffers

-----------------------------------------------------------------------------
LEMMA UnderstoodInductive == Spec => []Understood
<1>1. Init => Understood
  BY TypeInit DEF Init, Understood, OnePayload, WinnerIsThere, NoneDiffers, Carries, Busy,
     Submitted, Closed, Idle, Is
<1>2. Understood /\ [Next]_vars => Understood'
  BY TypeNext, OnePayloadKept, WinnerKept DEF Understood
<1> QED BY <1>1, <1>2, PTL DEF Spec

\* Whatever the number of keys, requests and entries, the state is typed.
THEOREM SubmissionIsTypeCorrect == Spec => []TypeOK
BY UnderstoodInductive, PTL DEF Understood

\* A form never meets the refusal meant for a key on two different requests, and a
\* twin that lost the race finds the row of its own payload.
THEOREM RetriesAreUnderstood == Spec => []RetryIsUnderstood
<1>1. Understood => RetryIsUnderstood
  <2> SUFFICES ASSUME Understood, NEW a \in Attempt, request[a] # Idle
               PROVE  /\ request[a].outcome # "different"
                      /\ Is(a, "conflict") => stored[request[a].key].payload = request[a].payload
    BY DEF RetryIsUnderstood
  <2>1. request[a] \in AnyRequest
    BY BusyIsRequest DEF Understood
  <2>2. Is(a, "conflict") => stored[request[a].key] # Nothing
    BY DEF Understood, WinnerIsThere
  <2> QED BY <2>1, <2>2, ReplayIsOwn DEF Understood, NoneDiffers, Busy
<1> QED BY <1>1, UnderstoodInductive, PTL

-----------------------------------------------------------------------------
\* Key k has gone out for the entry of episode n: in the table or with a request.
Has(k, n) ==
  \/ stored[k] # Nothing /\ stored[k].episode = n
  \/ \E a \in Attempt : Busy(a) /\ request[a].key = k /\ request[a].episode = n

OneKey == \A j, k \in Key : \A n \in 0..MaxEpisodes : Has(j, n) /\ Has(k, n) => j = k
NotAhead == \A k \in Key : \A n \in 0..MaxEpisodes : Has(k, n) => n <= episode

\* The key of the entry on the screen is the form's own, and the form knows it
\* for this entry's.
OwnKey ==
  form.open =>
    \A k \in Key :
      Has(k, episode) => Submitted /\ form.current.of = Entered /\ form.current.key = k

\* What OneRecordPerEntry rests on.
Filed == TypeOK /\ OneKey /\ NotAhead /\ OwnKey

\* The form a step other than Open, Change and Submit leaves is the one it found.
Steady ==
  /\ episode' = episode
  /\ form'.open =>
       form.open /\ form'.current = form.current /\ form'.entered = form.entered

LEMMA HasFromSubmit ==
  ASSUME TypeOK, NEW a \in Attempt, Submit(a)
  PROVE  \E s \in Submissions :
           /\ form'.open /\ form'.current = s /\ form'.entered = form.entered
           /\ \A k \in Key, n \in 0..MaxEpisodes :
                Has(k, n)' => Has(k, n) \/ (k = s.key /\ n = episode)
<1>1. PICK s \in Submissions :
        /\ form' = [form EXCEPT !.waits = a, !.current = s]
        /\ request' = [request EXCEPT ![a] =
             [pc |-> "received", key |-> s.key, payload |-> s.payload,
              episode |-> episode, outcome |-> "none"]]
  BY DEF Submit
<1>2. form \in AnyForm
  BY OpenIsForm DEF Submit
<1>3. form'.open /\ form'.current = s /\ form'.entered = form.entered
  BY <1>1, <1>2 DEF AnyForm
<1>4. request'[a].key = s.key /\ request'[a].episode = episode
      /\ \A b \in Attempt : b # a => request'[b] = request[b]
  BY <1>1 DEF TypeOK
<1>5. stored' = stored
  BY DEF Submit
<1>6. \A k \in Key, n \in 0..MaxEpisodes :
        Has(k, n)' => Has(k, n) \/ (k = s.key /\ n = episode)
  BY <1>4, <1>5 DEF Has, Busy
<1> QED BY <1>3, <1>6

\* No step but a submission gives an entry a key.
LEMMA HasOtherwise ==
  ASSUME TypeOK, [Next]_vars, \A a \in Attempt : ~Submit(a),
         NEW k \in Key, NEW n \in 0..MaxEpisodes, Has(k, n)'
  PROVE  Has(k, n)
<1>0. request \in [Attempt -> {Idle} \cup AnyRequest] /\ stored \in [Key -> {Nothing} \cup AnyRow]
  BY TypeIsParts
<1>1. CASE UNCHANGED <<request, stored>>
  BY <1>1 DEF Has, Busy
<1>2. ASSUME NEW a \in Attempt, Receive(a) \/ Vanish(a) PROVE Has(k, n)
  <2>1. \A b \in Attempt : request'[b] = IF b = a THEN Idle ELSE request[b]
    BY <1>0, <1>2 DEF Receive, Vanish
  <2> QED BY <1>2, <2>1 DEF Receive, Vanish, Has, Busy
<1>3. ASSUME NEW a \in Attempt, request[a] \in AnyRequest,
             \A b \in Attempt : b # a => request'[b] = request[b],
             request'[a].key = request[a].key, request'[a].episode = request[a].episode,
             \/ UNCHANGED stored
             \/ stored' = [stored EXCEPT ![request[a].key] =
                  [payload |-> request[a].payload, episode |-> request[a].episode, live |-> TRUE]]
      PROVE  Has(k, n)
  <2>1. Busy(a)
    BY <1>3, RequestIsBusy DEF Busy
  <2>2. \A j \in Key : \/ stored'[j] = stored[j]
                       \/ j = request[a].key /\ stored'[j].episode = request[a].episode
    BY <1>0, <1>3
  <2> QED BY <1>3, <2>1, <2>2 DEF Has, Busy
<1>4. ASSUME NEW a \in Attempt, Look(a) PROVE Has(k, n)
  <2>1. request[a] \in AnyRequest
    BY <1>4, PcIsBusy DEF Look, Is
  <2>2. Replayed(a) \in Outcome
    BY DEF Replayed, Outcome
  <2> QED BY <1>3, <1>4, <2>1, <2>2, Moves, AnswerMoves DEF Look, Pc
<1>5. ASSUME NEW a \in Attempt, Insert(a) PROVE Has(k, n)
  <2>1. request[a] \in AnyRequest
    BY <1>5, PcIsBusy DEF Insert, Is
  <2> QED BY <1>3, <1>5, <2>1, Moves DEF Insert, Pc
<1>6. ASSUME NEW a \in Attempt, Commit(a) PROVE Has(k, n)
  <2>1. request[a] \in AnyRequest
    BY <1>6, PcIsBusy DEF Commit, Is
  <2> QED BY <1>3, <1>6, <2>1, AnswerMoves DEF Commit, Outcome
<1>7. ASSUME NEW a \in Attempt, Rollback(a) PROVE Has(k, n)
  <2>1. request[a] \in AnyRequest
    BY <1>7, PcIsBusy DEF Rollback, Is
  <2> QED BY <1>3, <1>7, <2>1, AnswerMoves DEF Rollback, Outcome
<1>8. ASSUME NEW a \in Attempt, ReplayWinner(a) PROVE Has(k, n)
  <2>1. request[a] \in AnyRequest
    BY <1>8, PcIsBusy DEF ReplayWinner, Is
  <2>2. Replayed(a) \in Outcome
    BY DEF Replayed, Outcome
  <2> QED BY <1>3, <1>8, <2>1, <2>2, AnswerMoves DEF ReplayWinner
<1>9. ASSUME NEW j \in Key, Delete(j) PROVE Has(k, n)
  <2>1. stored[j] \in AnyRow
    BY <1>9, RowIsRow DEF Delete
  <2>2. [stored[j] EXCEPT !.live = FALSE].episode = stored[j].episode
    BY <2>1 DEF AnyRow
  <2>3. \A i \in Key : \/ stored'[i] = stored[i]
                       \/ i = j /\ stored'[i].episode = stored[i].episode
    BY <1>0, <1>9, <2>2 DEF Delete
  <2> QED BY <1>9, <2>3 DEF Delete, Has, Busy
<1>10. \/ UNCHANGED <<request, stored>>
       \/ \E a \in Attempt :
            \/ Receive(a) \/ Vanish(a)
            \/ Look(a) \/ Insert(a) \/ Commit(a) \/ Rollback(a) \/ ReplayWinner(a)
       \/ \E j \in Key : Delete(j)
  BY DEF Next, vars, Open, Change, FillIn, Cancel, Tick, Drop
<1> QED BY <1>1, <1>2, <1>4, <1>5, <1>6, <1>7, <1>8, <1>9, <1>10

LEMMA FormIsSteady ==
  ASSUME TypeOK, [Next]_vars, \A a \in Attempt : ~Submit(a),
         \A e \in Entry : ~Open(e) /\ ~Change(e)
  PROVE  Steady
<1>1. ~Closed.open
  BY DEF Closed
<1>2. CASE FillIn
  <2>1. form \in AnyForm
    BY <1>2, OpenIsForm DEF FillIn
  <2> QED BY <1>2, <2>1 DEF FillIn, Steady, AnyForm
<1>3. CASE form' = Closed /\ UNCHANGED episode
  BY <1>1, <1>3 DEF Steady
<1>4. CASE UNCHANGED <<form, episode>>
  BY <1>4 DEF Steady
<1>5. ASSUME NEW a \in Attempt, form.waits = a, UNCHANGED episode,
             form' = [form EXCEPT !.waits = NoAttempt]
      PROVE  Steady
  <2>1. form # Closed
    BY <1>5, SubmissionAssumption DEF Closed
  <2>2. form \in AnyForm
    BY <2>1, TypeIsParts
  <2> QED BY <1>5, <2>2 DEF Steady, AnyForm
<1>6. ASSUME NEW a \in Attempt, Receive(a) \/ Drop(a) PROVE Steady
  BY <1>3, <1>4, <1>5, <1>6 DEF Receive, Drop
<1>7. \/ FillIn
      \/ form' = Closed /\ UNCHANGED episode
      \/ UNCHANGED <<form, episode>>
      \/ \E a \in Attempt : Receive(a) \/ Drop(a)
  BY DEF Next, vars, Cancel, Tick, Vanish, Look, Insert, Commit, Rollback, ReplayWinner, Delete
<1> QED BY <1>2, <1>3, <1>4, <1>6, <1>7

-----------------------------------------------------------------------------
LEMMA FiledNext ==
  ASSUME FillsIn = FALSE, Filed, [Next]_vars
  PROVE  Filed'
<1>0. TypeOK /\ OneKey /\ NotAhead /\ OwnKey
  BY DEF Filed
<1>1. TypeOK' /\ episode \in 0..MaxEpisodes /\ MaxEpisodes \in Nat
  BY <1>0, TypeNext, SubmissionAssumption DEF TypeOK
<1>2. episode' \in 0..MaxEpisodes
  BY <1>1 DEF TypeOK
<1>3. Entered.entered = form.entered /\ Entered.filled = FALSE
      /\ Entered = [entered |-> form.entered, filled |-> FALSE]
      /\ Entered' = [entered |-> form'.entered, filled |-> FALSE]
  BY DEF Entered
<1>4. ASSUME NEW a \in Attempt, Submit(a) PROVE OneKey' /\ NotAhead' /\ OwnKey'
  <2>1. form.open /\ episode' = episode
    BY <1>4 DEF Submit
  <2>2. PICK s \in Submissions :
          /\ form'.open /\ form'.current = s /\ form'.entered = form.entered
          /\ \A k \in Key, n \in 0..MaxEpisodes :
               Has(k, n)' => Has(k, n) \/ (k = s.key /\ n = episode)
    BY <1>0, <1>4, HasFromSubmit
  <2>3. s \in AnySubmission /\ s # Nothing
    BY <1>0, <2>1, SubmissionIsTyped, NothingAssumption DEF AnySubmission
  <2>4. s.of = Entered
    <3>1. CASE SameEntry
      BY <3>1 DEF Submissions, SameEntry, Kept
    <3>2. CASE ~SameEntry
      BY <3>2 DEF Submissions
    <3> QED BY <3>1, <3>2
  <2>5. ASSUME NEW k \in Key, Has(k, episode) PROVE k = s.key
    <3>1. Submitted /\ form.current.of = Entered /\ form.current.key = k
      BY <1>0, <2>1, <2>5 DEF OwnKey
    <3>2. SameEntry
      BY <3>1 DEF SameEntry, Submitted
    <3> QED BY <3>1, <3>2 DEF Submissions, Kept
  <2>6. OneKey'
    BY <1>0, <2>2, <2>5 DEF OneKey
  <2>7. NotAhead'
    BY <1>0, <1>1, <2>1, <2>2 DEF NotAhead
  <2>8. ASSUME NEW k \in Key, Has(k, episode)' PROVE k = s.key
    BY <1>1, <2>1, <2>2, <2>5, <2>8
  <2>9. Entered' = Entered
    BY <1>3, <2>2
  <2> QED BY <2>1, <2>2, <2>3, <2>4, <2>6, <2>7, <2>8, <2>9 DEF OwnKey, Submitted
<1>5. ASSUME \A a \in Attempt : ~Submit(a) PROVE OneKey'
  BY <1>0, <1>5, HasOtherwise DEF OneKey
<1>6. ASSUME \A a \in Attempt : ~Submit(a), episode' >= episode PROVE NotAhead'
  BY <1>0, <1>1, <1>2, <1>5, <1>6, HasOtherwise DEF NotAhead
<1>7. ASSUME NEW e \in Entry, Open(e) \/ Change(e), \A a \in Attempt : ~Submit(a)
      PROVE  OneKey' /\ NotAhead' /\ OwnKey'
  <2>1. episode' = episode + 1
    BY <1>7 DEF Open, Change
  <2>2. \A k \in Key : ~Has(k, episode')
    BY <1>0, <1>1, <1>2, <2>1 DEF NotAhead
  <2>3. \A k \in Key : ~Has(k, episode)'
    BY <1>0, <1>2, <1>7, <2>2, HasOtherwise
  <2> QED BY <1>1, <1>5, <1>6, <1>7, <2>1, <2>3 DEF OwnKey
<1>8. ASSUME \A a \in Attempt : ~Submit(a), \A e \in Entry : ~Open(e) /\ ~Change(e)
      PROVE  OneKey' /\ NotAhead' /\ OwnKey'
  <2>1. Steady
    BY <1>0, <1>8, FormIsSteady
  <2>2. OneKey' /\ NotAhead'
    BY <1>1, <1>5, <1>6, <1>8, <2>1 DEF Steady
  <2>3. ASSUME form'.open, NEW k \in Key, Has(k, episode)'
        PROVE  Submitted' /\ form'.current.of = Entered' /\ form'.current.key = k
    <3>1. Has(k, episode)
      BY <1>0, <1>1, <1>8, <2>1, <2>3, HasOtherwise DEF Steady
    <3>2. form.open /\ form'.current = form.current /\ form'.entered = form.entered
      BY <2>1, <2>3 DEF Steady
    <3>3. Submitted /\ form.current.of = Entered /\ form.current.key = k
      BY <1>0, <3>1, <3>2 DEF OwnKey
    <3>4. Entered' = Entered
      BY <1>3, <3>2
    <3> QED BY <2>3, <3>2, <3>3, <3>4 DEF Submitted
  <2> QED BY <2>2, <2>3 DEF OwnKey
<1> QED BY <1>1, <1>4, <1>7, <1>8 DEF Filed

\* A form that fills in nothing by itself files one record for one entry, however
\* often its button is pressed and whatever is lost on the way.
THEOREM EntryIsFiledOnce ==
  ASSUME FillsIn = FALSE
  PROVE  Spec => []OneRecordPerEntry
<1>1. Init => Filed
  BY TypeInit DEF Init, Filed, OneKey, NotAhead, OwnKey, Has, Busy, Closed
<1>2. Filed /\ [Next]_vars => Filed'
  BY FiledNext
<1>3. Filed => OneRecordPerEntry
  <2> SUFFICES ASSUME Filed, NEW j \in Key, NEW k \in Key, stored[j] # Nothing, stored[k] # Nothing,
                      stored[j].episode = stored[k].episode
               PROVE  j = k
    BY DEF OneRecordPerEntry
  <2>1. stored[k] \in AnyRow
    BY RowIsRow DEF Filed
  <2> QED BY <2>1 DEF AnyRow, Filed, OneKey, Has
<1> QED BY <1>1, <1>2, <1>3, PTL DEF Spec

-----------------------------------------------------------------------------
(* FuelForm: the figure worked out fits the other two. *)

Fill == [litres : Nat, total : Nat, price : Nat]

\* The form, whose worked-out figure is the product or the quotient of the
\* other two for as long as all three boxes hold something.
FuelForms ==
  [kind : {"fuel"}, stored : Fill \cup {NoFill}, saves : Nat, open : {TRUE},
   says : {"nothing", "refused"}, edits : BOOLEAN, litres : Nat, total : Nat, price : Nat,
   typedLitres : BOOLEAN, typedTotal : BOOLEAN, touched : BOOLEAN,
   grade : {Blank} \cup DOMAIN Official]

FuelTables ==
  [kind : {"fuel"}, stored : Fill \cup {NoFill}, saves : Nat, open : {FALSE}, says : {"saved"}]

Filled(d) == d.litres # Blank /\ d.total # Blank /\ d.price # Blank

WorkedOut(d) ==
  /\ d.typedLitres /\ ~d.typedTotal => d.total = Rounded(d.litres * d.price, 100)
  /\ d.typedTotal /\ ~d.typedLitres => d.litres = Rounded(d.total * 100, d.price)
  /\ d.typedLitres \/ d.typedTotal

FuelOk(d) ==
  \/ d \in FuelTables
  \/ /\ d \in FuelForms
     /\ Filled(d) => WorkedOut(d)
     /\ ~d.typedLitres /\ ~d.typedTotal => d.litres = Blank \/ d.total = Blank
     /\ d.says = "refused" => d.total < 25 \/ 4 * d.total < d.price

FuelInv == FuelOk(desk)

-----------------------------------------------------------------------------
\* Rounding to the nearest: off by half of the divisor at the most.
LEMMA RoundedBounds ==
  ASSUME NEW a \in Nat, NEW b \in Nat \ {0}
  PROVE  /\ Rounded(a, b) \in Nat
         /\ 2 * (b * Rounded(a, b)) <= 2 * a + b
         /\ 2 * a <= 2 * (b * Rounded(a, b)) + b
<1> DEFINE h == b \div 2
           q == (a + h) \div b
<1>1. h \in Nat /\ 2 * h <= b /\ b <= 2 * h + 1
  OBVIOUS
<1>2. \A x \in Nat : x \div b \in Nat /\ b * (x \div b) <= x /\ x < b * (x \div b) + b
  OBVIOUS
<1> HIDE DEF h
<1>3. q \in Nat /\ b * q <= a + h /\ a + h < b * q + b
  BY <1>1, <1>2
<1>4. Rounded(a, b) = q
  BY DEF Rounded, h
<1> DEFINE bq == b * q
<1>5. bq \in Nat
  BY <1>3
<1> HIDE DEF q
<1> HIDE DEF bq
<1>6. bq <= a + h /\ a + h < bq + b
  BY <1>3 DEF bq
<1>7. 2 * bq <= 2 * a + b /\ 2 * a <= 2 * bq + b
  BY <1>1, <1>5, <1>6
<1> QED BY <1>3, <1>4, <1>7 DEF bq

\* What the form worked out the API takes, but for the smallest fills.
LEMMA TotalIsConsistent ==
  ASSUME NEW litres \in Nat, NEW price \in Nat, NEW total, total = Rounded(litres * price, 100),
         total >= 25
  PROVE  PriceIsConsistent(price, total, litres)
<1> DEFINE x == price * litres
<1>1. x \in Nat /\ litres * price = x
  OBVIOUS
<1> HIDE DEF x
<1>2. total \in Nat /\ 2 * (100 * total) <= 2 * x + 100 /\ 2 * x <= 2 * (100 * total) + 100
  <2>1. total = Rounded(x, 100)
    BY <1>1
  <2> QED BY <1>1, <2>1, RoundedBounds
<1>3. (IF x - 100 * total < 0 THEN -(x - 100 * total) ELSE x - 100 * total) * 100 <= 2 * 100 * total
  BY <1>1, <1>2
<1> QED BY <1>3 DEF PriceIsConsistent, x

LEMMA LitresAreConsistent ==
  ASSUME NEW total \in Nat, NEW price \in Nat \ {0}, NEW litres, litres = Rounded(total * 100, price),
         4 * total >= price
  PROVE  PriceIsConsistent(price, total, litres)
<1> DEFINE x == price * litres
<1>0. total * 100 \in Nat
  OBVIOUS
<1>1. /\ litres \in Nat /\ 2 * (price * litres) <= 2 * (total * 100) + price
      /\ 2 * (total * 100) <= 2 * (price * litres) + price
  BY <1>0, RoundedBounds
<1>2. x \in Nat /\ 2 * x <= 2 * (total * 100) + price /\ 2 * (total * 100) <= 2 * x + price
  BY <1>1
<1> HIDE DEF x
<1>3. (IF x - 100 * total < 0 THEN -(x - 100 * total) ELSE x - 100 * total) * 100 <= 2 * 100 * total
  BY <1>2
<1> QED BY <1>3 DEF PriceIsConsistent, x

LEMMA DefaultIsPrice ==
  ASSUME FuelInv, desk.open, NEW grade \in {Blank} \cup DOMAIN Official
  PROVE  DefaultPrice(grade) \in Nat
<1>1. desk.stored \in Fill \cup {NoFill}
  BY DEF FuelInv, FuelOk, FuelForms, FuelTables
<1>2. LastPrice \in Nat
  BY <1>1 DEF LastPrice, Fill, Blank
<1>3. Official # <<>> => 1 \in DOMAIN Official
  BY FuelFormAssumption
<1>4. \A g \in DOMAIN Official : Official[g] \in Nat
  BY FuelFormAssumption
<1> QED BY <1>2, <1>3, <1>4 DEF DefaultPrice

-----------------------------------------------------------------------------
\* A box that moved, before the third figure follows.
LEMMA DeriveIsSound ==
  ASSUME NEW d \in FuelForms, d.says = "nothing",
         d.typedLitres \/ d.typedTotal \/ d.litres = Blank \/ d.total = Blank
  PROVE  FuelOk(Derive(d))
<1>0. /\ d.litres \in Nat /\ d.total \in Nat /\ d.price \in Nat
      /\ d.typedLitres \in BOOLEAN /\ d.typedTotal \in BOOLEAN
  BY DEF FuelForms
<1>1. CASE d.typedLitres /\ ~d.typedTotal
  <2> DEFINE total == TotalFor(d.litres, d.price, d.total)
             e == [d EXCEPT !.total = total]
  <2>1. Derive(d) = e
    BY <1>1 DEF Derive
  <2>2. total \in Nat
    <3>1. d.litres * d.price \in Nat
      BY <1>0
    <3>2. Rounded(d.litres * d.price, 100) \in Nat
      BY <3>1, RoundedBounds
    <3> QED BY <1>0, <3>2 DEF TotalFor
  <2>3. d.litres # Blank /\ d.price # Blank => total = Rounded(d.litres * d.price, 100)
    BY DEF TotalFor
  <2> HIDE DEF total
  <2>4. /\ e \in FuelForms /\ e.says = "nothing" /\ e.litres = d.litres /\ e.price = d.price
        /\ e.total = total /\ e.typedLitres = d.typedLitres /\ e.typedTotal = d.typedTotal
    BY <2>2 DEF FuelForms
  <2> HIDE DEF e
  <2>5. Filled(e) => WorkedOut(e)
    BY <1>1, <2>3, <2>4 DEF Filled, WorkedOut
  <2>6. FuelOk(e)
    BY <1>1, <2>4, <2>5 DEF FuelOk
  <2> QED BY <2>1, <2>6
<1>2. CASE d.typedTotal /\ ~d.typedLitres
  <2> DEFINE litres == LitresFor(d.total, d.price, d.litres)
             e == [d EXCEPT !.litres = litres]
  <2>1. Derive(d) = e
    BY <1>2 DEF Derive
  <2>2. litres \in Nat
    <3>1. d.total * 100 \in Nat
      BY <1>0
    <3>2. d.price # Blank => Rounded(d.total * 100, d.price) \in Nat
      BY <1>0, <3>1, RoundedBounds DEF Blank
    <3> QED BY <1>0, <3>2 DEF LitresFor
  <2>3. d.total # Blank /\ d.price # Blank => litres = Rounded(d.total * 100, d.price)
    BY DEF LitresFor
  <2> HIDE DEF litres
  <2>4. /\ e \in FuelForms /\ e.says = "nothing" /\ e.litres = litres /\ e.price = d.price
        /\ e.total = d.total /\ e.typedLitres = d.typedLitres /\ e.typedTotal = d.typedTotal
    BY <2>2 DEF FuelForms
  <2> HIDE DEF e
  <2>5. Filled(e) => WorkedOut(e)
    BY <1>2, <2>3, <2>4 DEF Filled, WorkedOut
  <2>6. FuelOk(e)
    BY <1>2, <2>4, <2>5 DEF FuelOk
  <2> QED BY <2>1, <2>6
<1>3. CASE (d.typedLitres /\ d.typedTotal) \/ (~d.typedLitres /\ ~d.typedTotal)
  <2>1. Derive(d) = d
    BY <1>3 DEF Derive
  <2>2. FuelOk(d)
    BY <1>0, <1>3 DEF FuelOk, Filled, WorkedOut
  <2> QED BY <2>1, <2>2
<1> QED BY <1>0, <1>1, <1>2, <1>3

\* The boxes that a step fills, or clears.
LEMMA TypedLitres ==
  ASSUME NEW d \in FuelForms, NEW v \in Nat
  PROVE  LET e == [d EXCEPT !.says = "nothing", !.litres = v, !.typedLitres = v # Blank]
         IN /\ e \in FuelForms /\ e.says = "nothing" /\ e.litres = v /\ e.total = d.total
            /\ e.typedLitres = (v # Blank) /\ e.typedTotal = d.typedTotal
BY DEF FuelForms

LEMMA TypedTotal ==
  ASSUME NEW d \in FuelForms, NEW v \in Nat
  PROVE  LET e == [d EXCEPT !.says = "nothing", !.total = v, !.typedTotal = v # Blank]
         IN /\ e \in FuelForms /\ e.says = "nothing" /\ e.total = v /\ e.litres = d.litres
            /\ e.typedTotal = (v # Blank) /\ e.typedLitres = d.typedLitres
BY DEF FuelForms

LEMMA ChosenAmount ==
  ASSUME NEW d \in FuelForms, NEW v \in Nat
  PROVE  LET e == [d EXCEPT !.says = "nothing", !.total = v, !.typedLitres = FALSE, !.typedTotal = TRUE]
         IN e \in FuelForms /\ e.says = "nothing" /\ e.typedTotal
BY DEF FuelForms

LEMMA PricedForm ==
  ASSUME NEW d \in FuelForms, NEW v \in Nat, NEW touched \in BOOLEAN
  PROVE  LET e == [d EXCEPT !.says = "nothing", !.price = v, !.touched = touched]
         IN /\ e \in FuelForms /\ e.says = "nothing" /\ e.litres = d.litres /\ e.total = d.total
            /\ e.typedLitres = d.typedLitres /\ e.typedTotal = d.typedTotal
BY DEF FuelForms

LEMMA OpenIsFuel ==
  ASSUME FuelInv, desk.open
  PROVE  /\ desk \in FuelForms /\ (Filled(desk) => WorkedOut(desk))
         /\ ~desk.typedLitres /\ ~desk.typedTotal => desk.litres = Blank \/ desk.total = Blank
BY DEF FuelInv, FuelOk, FuelTables

LEMMA TypingIsSound ==
  ASSUME FuelInv,
         \/ \E v \in Litres : TypeLitres(v)
         \/ \E v \in Totals : TypeTotal(v) \/ ChooseAmount(v)
         \/ \E v \in Prices : SetPrice(v)
         \/ PriceArrives
  PROVE  FuelInv'
<1>1. ASSUME NEW v \in Litres, TypeLitres(v) PROVE FuelOk(desk')
  <2> DEFINE e == [desk EXCEPT !.says = "nothing", !.litres = v, !.typedLitres = v # Blank]
  <2>1. desk \in FuelForms /\ v \in Nat /\ desk' = Derive(e)
    BY <1>1, OpenIsFuel, FuelFormAssumption DEF TypeLitres
  <2>2. /\ e \in FuelForms /\ e.says = "nothing" /\ e.litres = v /\ e.typedLitres = (v # Blank)
    BY <2>1, TypedLitres
  <2> HIDE DEF e
  <2> QED BY <2>1, <2>2, DeriveIsSound
<1>2. ASSUME NEW v \in Totals, TypeTotal(v) PROVE FuelOk(desk')
  <2> DEFINE e == [desk EXCEPT !.says = "nothing", !.total = v, !.typedTotal = v # Blank]
  <2>1. desk \in FuelForms /\ v \in Nat /\ desk' = Derive(e)
    BY <1>2, OpenIsFuel, FuelFormAssumption DEF TypeTotal
  <2>2. /\ e \in FuelForms /\ e.says = "nothing" /\ e.total = v /\ e.typedTotal = (v # Blank)
    BY <2>1, TypedTotal
  <2> HIDE DEF e
  <2> QED BY <2>1, <2>2, DeriveIsSound
<1>3. ASSUME NEW v \in Totals, ChooseAmount(v) PROVE FuelOk(desk')
  <2> DEFINE e == [desk EXCEPT !.says = "nothing", !.total = v, !.typedLitres = FALSE, !.typedTotal = TRUE]
  <2>1. desk \in FuelForms /\ v \in Nat /\ desk' = Derive(e)
    BY <1>3, OpenIsFuel, FuelFormAssumption DEF ChooseAmount
  <2>2. e \in FuelForms /\ e.says = "nothing" /\ e.typedTotal
    BY <2>1, ChosenAmount
  <2> HIDE DEF e
  <2> QED BY <2>1, <2>2, DeriveIsSound
<1>4. ASSUME NEW v \in Nat, NEW touched \in BOOLEAN, desk.open,
             desk' = Derive([desk EXCEPT !.says = "nothing", !.price = v, !.touched = touched])
      PROVE  FuelOk(desk')
  <2> DEFINE e == [desk EXCEPT !.says = "nothing", !.price = v, !.touched = touched]
  <2>1. /\ desk \in FuelForms /\ desk' = Derive(e)
        /\ ~desk.typedLitres /\ ~desk.typedTotal => desk.litres = Blank \/ desk.total = Blank
    BY <1>4, OpenIsFuel
  <2>2. /\ e \in FuelForms /\ e.says = "nothing" /\ e.litres = desk.litres /\ e.total = desk.total
        /\ e.typedLitres = desk.typedLitres /\ e.typedTotal = desk.typedTotal
    BY <2>1, PricedForm
  <2> HIDE DEF e
  <2> QED BY <2>1, <2>2, DeriveIsSound
<1>5. ASSUME NEW v \in Prices, SetPrice(v) PROVE FuelOk(desk')
  <2>1. v \in Nat /\ TRUE \in BOOLEAN
    BY FuelFormAssumption
  <2> QED BY <1>4, <1>5, <2>1 DEF SetPrice
<1>6. ASSUME PriceArrives PROVE FuelOk(desk')
  <2> DEFINE v == DefaultPrice(desk.grade)
  <2>1. desk.open /\ desk \in FuelForms /\ desk' = Derive([desk EXCEPT !.says = "nothing", !.price = v])
    BY <1>6, OpenIsFuel DEF PriceArrives
  <2>2. v \in Nat /\ desk.touched \in BOOLEAN
    BY <2>1, DefaultIsPrice DEF FuelForms
  <2> HIDE DEF v
  <2>3. [desk EXCEPT !.says = "nothing", !.price = v]
          = [desk EXCEPT !.says = "nothing", !.price = v, !.touched = desk.touched]
    BY <2>1 DEF FuelForms
  <2> QED BY <1>4, <2>1, <2>2, <2>3
<1> QED BY <1>1, <1>2, <1>3, <1>5, <1>6 DEF FuelInv

LEMMA OpeningIsSound ==
  ASSUME FuelInv, OpenFuel \/ EditFuel PROVE FuelInv'
<1>1. /\ desk.stored \in Fill \cup {NoFill} /\ desk.saves \in Nat
  BY DEF FuelInv, FuelOk, FuelForms, FuelTables
<1>2. ASSUME NEW edits \in BOOLEAN, NEW figures \in Fill, desk' = FuelBoxes(edits, figures),
             ~edits => figures.litres = Blank
      PROVE  FuelOk(desk')
  <2>1. desk' = [kind |-> "fuel", stored |-> desk.stored, saves |-> desk.saves, open |-> TRUE,
                 says |-> "nothing", edits |-> edits, litres |-> figures.litres,
                 total |-> figures.total, price |-> figures.price, typedLitres |-> edits,
                 typedTotal |-> edits, touched |-> edits, grade |-> Blank]
    BY <1>2 DEF FuelBoxes
  <2>2. figures.litres \in Nat /\ figures.total \in Nat /\ figures.price \in Nat
    BY DEF Fill
  <2>3. desk' \in FuelForms
    BY <1>1, <2>1, <2>2 DEF FuelForms
  <2>4. /\ desk'.litres = figures.litres /\ desk'.typedLitres = edits /\ desk'.typedTotal = edits
        /\ desk'.says = "nothing"
    BY <2>1
  <2> QED BY <1>2, <2>3, <2>4 DEF FuelOk, Filled, WorkedOut
<1>3. CASE OpenFuel
  <2> DEFINE none == [litres |-> Blank, total |-> Blank, price |-> Blank]
  <2>1. none \in Fill /\ none.litres = Blank /\ FALSE \in BOOLEAN
    BY DEF Fill, Blank
  <2>2. desk' = FuelBoxes(FALSE, none)
    BY <1>3 DEF OpenFuel
  <2> HIDE DEF none
  <2> QED BY <1>2, <2>1, <2>2 DEF FuelInv
<1>4. CASE EditFuel
  <2>1. desk.stored \in Fill /\ TRUE \in BOOLEAN /\ desk' = FuelBoxes(TRUE, desk.stored)
    BY <1>1, <1>4 DEF EditFuel
  <2> QED BY <1>2, <2>1 DEF FuelInv
<1> QED BY <1>3, <1>4

LEMMA GradeIsSound ==
  ASSUME FuelInv, NEW g \in DOMAIN Official, ChooseGrade(g) PROVE FuelInv'
<1> DEFINE e == [desk EXCEPT !.says = "nothing", !.grade = g, !.touched = FALSE]
<1>1. /\ desk \in FuelForms /\ desk' = e /\ (Filled(desk) => WorkedOut(desk))
      /\ ~desk.typedLitres /\ ~desk.typedTotal => desk.litres = Blank \/ desk.total = Blank
  BY OpenIsFuel DEF ChooseGrade
<1>2. /\ e \in FuelForms /\ e.says = "nothing" /\ e.litres = desk.litres /\ e.total = desk.total
      /\ e.price = desk.price /\ e.typedLitres = desk.typedLitres
      /\ e.typedTotal = desk.typedTotal
  BY <1>1 DEF FuelForms
<1> HIDE DEF e
<1>3. FuelOk(e)
  BY <1>1, <1>2 DEF FuelOk, Filled, WorkedOut
<1> QED BY <1>1, <1>3 DEF FuelInv

\* What is refused holds figures the form worked out, and too small ones.
LEMMA SubmissionIsSound ==
  ASSUME FuelInv, SubmitFuel PROVE FuelInv'
<1> DEFINE price == PriceTaken(IF desk.edits THEN UpdatesFuel ELSE CreatesFuel)
<1>1. /\ desk \in FuelForms /\ desk' = Resolve(price) /\ (Filled(desk) => WorkedOut(desk))
      /\ ~desk.typedLitres /\ ~desk.typedTotal => desk.litres = Blank \/ desk.total = Blank
  BY OpenIsFuel DEF SubmitFuel
<1>2. /\ desk.litres \in Nat \ {0} /\ desk.total \in Nat \ {0} /\ desk.price \in Nat
      /\ desk.stored \in Fill \cup {NoFill} /\ desk.saves \in Nat
  BY <1>1 DEF SubmitFuel, FuelValid, FuelForms, Blank
<1>3. price = Blank \/ (price = desk.price /\ ~BothTyped)
  BY DEF PriceTaken, UpdatesFuel, CreatesFuel, Sends
<1> HIDE DEF price
<1>4. CASE price # Blank /\ ~PriceIsConsistent(price, desk.total, desk.litres)
  <2> DEFINE e == [desk EXCEPT !.says = "refused"]
  <2>1. desk' = e
    BY <1>1, <1>4 DEF Resolve
  <2>2. /\ e \in FuelForms /\ e.litres = desk.litres /\ e.total = desk.total
        /\ e.price = desk.price /\ e.typedLitres = desk.typedLitres
        /\ e.typedTotal = desk.typedTotal
    BY <1>1 DEF FuelForms
  <2>3. price = desk.price /\ ~BothTyped /\ desk.price \in Nat \ {0}
    BY <1>2, <1>3, <1>4 DEF Blank
  <2>4. WorkedOut(desk)
    BY <1>1, <1>2, <2>3 DEF Filled, Blank
  <2>5. desk.total < 25 \/ 4 * desk.total < desk.price
    <3>1. CASE desk.typedLitres /\ ~desk.typedTotal
      <4>1. desk.total = Rounded(desk.litres * desk.price, 100)
        BY <2>4, <3>1 DEF WorkedOut
      <4>2. ~(desk.total >= 25)
        BY <1>2, <1>4, <2>3, <4>1, TotalIsConsistent
      <4> QED BY <1>2, <4>2
    <3>2. CASE desk.typedTotal /\ ~desk.typedLitres
      <4>1. desk.litres = Rounded(desk.total * 100, desk.price)
        BY <2>4, <3>2 DEF WorkedOut
      <4>2. ~(4 * desk.total >= desk.price)
        BY <1>2, <1>4, <2>3, <4>1, LitresAreConsistent
      <4> QED BY <1>2, <4>2
    <3> QED BY <2>3, <2>4, <3>1, <3>2 DEF WorkedOut, BothTyped
  <2> HIDE DEF e
  <2>6. FuelOk(e)
    BY <1>1, <2>2, <2>4, <2>5 DEF FuelOk, WorkedOut
  <2> QED BY <2>1, <2>6 DEF FuelInv
<1>5. CASE ~(price # Blank /\ ~PriceIsConsistent(price, desk.total, desk.litres))
  <2> DEFINE taken == IF price = Blank THEN DerivedPrice(desk.total, desk.litres) ELSE price
             fill == [litres |-> desk.litres, total |-> desk.total, price |-> taken]
  <2>1. desk' = FuelDesk(fill, desk.saves + 1)
    BY <1>1, <1>5 DEF Resolve
  <2>2. taken \in Nat
    <3>1. desk.total * 100 \in Nat
      BY <1>2
    <3>2. DerivedPrice(desk.total, desk.litres) \in Nat
      BY <1>2, <3>1, RoundedBounds DEF DerivedPrice
    <3> QED BY <1>2, <1>3, <3>2
  <2> HIDE DEF taken
  <2>3. fill \in Fill /\ desk.saves + 1 \in Nat
    BY <1>2, <2>2 DEF Fill
  <2> HIDE DEF fill
  <2>4. desk' \in FuelTables
    BY <2>1, <2>3 DEF FuelTables, FuelDesk
  <2>5. FuelOk(desk')
    BY <2>4 DEF FuelOk
  <2> QED BY <2>5 DEF FuelInv
<1> QED BY <1>4, <1>5

LEMMA FuelInvInductive == FuelInv /\ [FuelNext]_desk => FuelInv'
<1> SUFFICES ASSUME FuelInv, [FuelNext]_desk PROVE FuelInv'
  OBVIOUS
<1>1. CASE UNCHANGED desk
  BY <1>1 DEF FuelInv
<1> QED BY <1>1, TypingIsSound, OpeningIsSound, GradeIsSound, SubmissionIsSound DEF FuelNext

\* A figure the form worked out comes back only from a fill so small that
\* rounding outweighs the tolerance.
THEOREM WorkedOutFits == FuelSpec => []WorkedOutIsAccepted
<1>1. FuelInit => FuelInv
  BY DEF FuelInit, FuelInv, FuelOk, FuelTables, FuelDesk
<1>2. FuelInv => WorkedOutIsAccepted
  BY DEF FuelInv, FuelOk, FuelTables, WorkedOutIsAccepted
<1> QED BY <1>1, <1>2, FuelInvInductive, PTL DEF FuelSpec

-----------------------------------------------------------------------------
(* ServiceForm: a total nobody typed is the sum of the split. *)

Sums == Nat \cup {Empty}

\* A stored service adds up.
Services ==
  {r \in [parts : Sums, labor : Sums, total : Nat] : AddsUp(r.parts, r.labor, r.total)}

ServiceForms ==
  [kind : {"service"}, record : Services \cup {NoService}, saves : Nat, open : {TRUE},
   says : {"nothing", "malformed", "contradicts"}, edits : BOOLEAN, total : Sums, parts : Sums,
   labor : Sums, split : BOOLEAN, totalTyped : BOOLEAN]

ServiceTables ==
  [kind : {"service"}, record : Services \cup {NoService}, saves : Nat, open : {FALSE},
   says : {"saved"}]

HasSplit(d) == Known(d.parts) \/ Known(d.labor)

\* A total nobody typed was added up from the split, or cleared.
Follows(d) ==
  /\ d.edits => d.record \in Services
  /\ d.totalTyped => Known(d.total)
  /\ HasSplit(d) => d.split
  /\ ~d.totalTyped /\ HasSplit(d) => d.total \in {Empty, Sum(d.parts, d.labor)}

ServiceOk(d) ==
  \/ d \in ServiceTables
  \/ /\ d \in ServiceForms /\ Follows(d)
     /\ d.says = "malformed" => d.edits
     /\ d.says = "contradicts" => d.totalTyped

ServiceInv == ServiceOk(desk)

-----------------------------------------------------------------------------
\* A split and its own sum never contradict each other.
LEMMA SumAddsUp ==
  ASSUME NEW parts \in Sums, NEW labor \in Sums
  PROVE  Sum(parts, labor) \in Nat /\ AddsUp(parts, labor, Sum(parts, labor))
BY ServiceFormAssumption DEF Sums, Sum, AddsUp, Known

\* Where the split names nothing, any total will do.
LEMMA NothingContradicts ==
  ASSUME NEW total PROVE AddsUp(Empty, Empty, total)
BY DEF AddsUp, Known

LEMMA OpenIsService ==
  ASSUME ServiceInv, desk.open PROVE desk \in ServiceForms /\ Follows(desk)
BY DEF ServiceInv, ServiceOk, ServiceTables

LEMMA AmountsAreSums == Amount \subseteq Sums
BY ServiceFormAssumption DEF Amount, Sums

LEMMA ServiceOpeningIsSound ==
  ASSUME ServiceInv, OpenService \/ EditService PROVE ServiceInv'
<1>1. desk.record \in Services \cup {NoService} /\ desk.saves \in Nat
  BY DEF ServiceInv, ServiceOk, ServiceForms, ServiceTables
<1>2. ASSUME NEW edits \in BOOLEAN, NEW costs, NEW d, d = ServiceBoxes(edits, costs),
             costs.parts \in Sums, costs.labor \in Sums, costs.total \in Sums,
             edits => costs.total \in Nat /\ AddsUp(costs.parts, costs.labor, costs.total),
             edits => desk.record \in Services,
             ~edits => ~Known(costs.parts) /\ ~Known(costs.labor)
      PROVE  ServiceOk(d)
  <2> DEFINE split == Known(costs.parts) \/ Known(costs.labor)
             typed == edits /\ ~(Known(costs.parts) /\ Known(costs.labor))
  <2>1. d = [kind |-> "service", record |-> desk.record, saves |-> desk.saves, open |-> TRUE,
             says |-> "nothing", edits |-> edits, total |-> costs.total, parts |-> costs.parts,
             labor |-> costs.labor, split |-> split, totalTyped |-> typed]
    BY <1>2 DEF ServiceBoxes
  <2>2. split \in BOOLEAN /\ typed \in BOOLEAN
    OBVIOUS
  <2>3. typed => Known(costs.total)
    BY <1>2, ServiceFormAssumption DEF Known
  <2>4. ~typed /\ split => costs.total \in {Empty, Sum(costs.parts, costs.labor)}
    BY <1>2, ServiceFormAssumption DEF AddsUp, Sum, Known, Sums
  <2> HIDE DEF typed
  <2>5. split <=> Known(costs.parts) \/ Known(costs.labor)
    OBVIOUS
  <2> HIDE DEF split
  <2>6. d \in ServiceForms
    BY <1>1, <1>2, <2>1, <2>2 DEF ServiceForms
  <2>7. /\ d.says = "nothing" /\ d.edits = edits /\ d.total = costs.total /\ d.parts = costs.parts
        /\ d.labor = costs.labor /\ d.split = split /\ d.totalTyped = typed
        /\ d.record = desk.record
    BY <2>1
  <2> QED BY <1>2, <2>3, <2>4, <2>5, <2>6, <2>7 DEF ServiceOk, Follows, HasSplit
<1>3. CASE OpenService
  <2> DEFINE none == [total |-> Empty, parts |-> Empty, labor |-> Empty]
  <2>1. desk' = ServiceBoxes(FALSE, none)
    BY <1>3 DEF OpenService
  <2>2. /\ none.parts \in Sums /\ none.labor \in Sums /\ none.total \in Sums
        /\ ~Known(none.parts) /\ ~Known(none.labor) /\ FALSE \in BOOLEAN
    BY DEF Sums, Known
  <2> HIDE DEF none
  <2> QED BY <1>2, <2>1, <2>2 DEF ServiceInv
<1>4. CASE EditService
  <2>1. desk' = ServiceBoxes(TRUE, desk.record) /\ desk.record \in Services /\ TRUE \in BOOLEAN
    BY <1>1, <1>4 DEF EditService
  <2>2. /\ desk.record.parts \in Sums /\ desk.record.labor \in Sums
        /\ desk.record.total \in Nat /\ desk.record.total \in Sums
        /\ AddsUp(desk.record.parts, desk.record.labor, desk.record.total)
    BY <2>1 DEF Services, Sums
  <2> QED BY <1>2, <2>1, <2>2 DEF ServiceInv
<1> QED BY <1>3, <1>4

LEMMA TotalTypingIsSound ==
  ASSUME ServiceInv, NEW v \in Amount, TypeServiceTotal(v) PROVE ServiceInv'
<1> DEFINE typed == Known(v)
           e == [desk EXCEPT !.says = "nothing", !.total = v, !.totalTyped = typed]
<1>1. desk \in ServiceForms /\ Follows(desk) /\ desk' = e
  BY OpenIsService DEF TypeServiceTotal
<1>2. v \in Sums /\ typed \in BOOLEAN /\ (~typed => v = Empty) /\ (typed => Known(v))
  BY AmountsAreSums DEF Known
<1> HIDE DEF typed
<1>3. /\ e \in ServiceForms /\ e.says = "nothing" /\ e.total = v /\ e.totalTyped = typed
      /\ e.edits = desk.edits /\ e.record = desk.record /\ e.parts = desk.parts
      /\ e.labor = desk.labor /\ e.split = desk.split
  BY <1>1, <1>2 DEF ServiceForms
<1> HIDE DEF e
<1>4. ServiceOk(e)
  BY <1>1, <1>2, <1>3 DEF ServiceOk, Follows, HasSplit
<1> QED BY <1>1, <1>4 DEF ServiceInv

LEMMA SplitTypingIsSound ==
  ASSUME ServiceInv, NEW p \in Amount, NEW l \in Amount, TypeSplit(p, l) PROVE ServiceInv'
<1> DEFINE e == [desk EXCEPT !.says = "nothing", !.parts = p, !.labor = l]
           f == [e EXCEPT !.total = Sum(e.parts, e.labor)]
<1>1. desk \in ServiceForms /\ Follows(desk) /\ desk.split /\ desk' = Summed(e)
  BY OpenIsService DEF TypeSplit
<1>2. p \in Sums /\ l \in Sums
  BY AmountsAreSums
<1>3. /\ e \in ServiceForms /\ e.says = "nothing" /\ e.parts = p /\ e.labor = l
      /\ e.edits = desk.edits /\ e.record = desk.record /\ e.total = desk.total
      /\ e.totalTyped = desk.totalTyped /\ e.split = desk.split
  BY <1>1, <1>2 DEF ServiceForms
<1>4. desk' = IF e.totalTyped \/ ~HasSplit(e) THEN e ELSE f
  BY <1>1 DEF Summed, HasSplit
<1> HIDE DEF e
<1>5. CASE e.totalTyped \/ ~HasSplit(e)
  <2>1. ServiceOk(e)
    BY <1>1, <1>3, <1>5 DEF ServiceOk, Follows
  <2> QED BY <1>4, <1>5, <2>1 DEF ServiceInv
<1>6. CASE ~e.totalTyped /\ HasSplit(e)
  <2> DEFINE total == Sum(e.parts, e.labor)
  <2>1. total \in Nat /\ total \in Sums
    BY <1>2, <1>3, SumAddsUp DEF Sums
  <2>2. f = [e EXCEPT !.total = total] /\ total = Sum(p, l)
    BY <1>3
  <2> HIDE DEF total, f
  <2>3. /\ f \in ServiceForms /\ f.says = "nothing" /\ f.parts = p /\ f.labor = l
        /\ f.edits = desk.edits /\ f.record = desk.record /\ f.total = total
        /\ f.totalTyped = desk.totalTyped /\ f.split = desk.split
    BY <1>3, <2>1, <2>2 DEF ServiceForms
  <2>4. ServiceOk(f)
    BY <1>1, <1>3, <1>6, <2>2, <2>3 DEF ServiceOk, Follows, HasSplit
  <2> QED BY <1>4, <1>6, <2>4 DEF ServiceInv
<1> QED BY <1>5, <1>6

LEMMA SplitOpeningIsSound ==
  ASSUME ServiceInv, OpenSplit PROVE ServiceInv'
<1> DEFINE e == [desk EXCEPT !.says = "nothing", !.split = TRUE]
<1>1. desk \in ServiceForms /\ Follows(desk) /\ desk' = e
  BY OpenIsService DEF OpenSplit
<1>2. /\ e \in ServiceForms /\ e.says = "nothing" /\ e.parts = desk.parts /\ e.labor = desk.labor
      /\ e.edits = desk.edits /\ e.record = desk.record /\ e.total = desk.total
      /\ e.totalTyped = desk.totalTyped /\ e.split
  BY <1>1 DEF ServiceForms
<1> HIDE DEF e
<1>3. ServiceOk(e)
  BY <1>1, <1>2 DEF ServiceOk, Follows, HasSplit
<1> QED BY <1>1, <1>3 DEF ServiceInv

LEMMA FreeIsSound ==
  ASSUME ServiceInv, ChooseFree PROVE ServiceInv'
<1> DEFINE e == [desk EXCEPT !.says = "nothing", !.totalTyped = TRUE, !.split = FALSE, !.total = 0,
                             !.parts = Empty, !.labor = Empty]
<1>1. desk \in ServiceForms /\ Follows(desk) /\ desk' = e
  BY OpenIsService DEF ChooseFree
<1>2. /\ e \in ServiceForms /\ e.says = "nothing" /\ e.parts = Empty /\ e.labor = Empty
      /\ e.edits = desk.edits /\ e.record = desk.record /\ e.total = 0 /\ e.totalTyped
  BY <1>1 DEF ServiceForms, Sums
<1>3. Known(0) /\ ~Known(Empty)
  BY ServiceFormAssumption DEF Known
<1> HIDE DEF e
<1>4. ServiceOk(e)
  BY <1>1, <1>2, <1>3 DEF ServiceOk, Follows, HasSplit
<1> QED BY <1>1, <1>4 DEF ServiceInv

\* What the API turns down has a total that was typed, or, in an edit, cleared.
LEMMA ServiceSubmissionIsSound ==
  ASSUME ServiceInv, SubmitService PROVE ServiceInv'
<1> DEFINE parts == Part(desk.parts)
           labor == Part(desk.labor)
           sends == IF desk.edits THEN UpdateSendsTotal ELSE CreateSendsTotal
<1>1. desk \in ServiceForms /\ Follows(desk) /\ ServiceValid
  BY OpenIsService DEF SubmitService
<1>2. /\ desk.record \in Services \cup {NoService} /\ desk.saves \in Nat /\ desk.edits \in BOOLEAN
      /\ desk.total \in Sums /\ desk.parts \in Sums /\ desk.labor \in Sums
      /\ desk.totalTyped \in BOOLEAN
  BY <1>1 DEF ServiceForms
<1>3. parts = desk.parts /\ labor = desk.labor
  BY <1>1, <1>2 DEF Part, Follows, HasSplit, Known
<1>4. \/ sends /\ Known(desk.total) /\ Store(parts, labor, desk.total)
      \/ sends /\ ~Known(desk.total) /\ desk' = [desk EXCEPT !.says = "malformed"]
      \/ ~sends /\ Store(parts, labor, TotalTaken(parts, labor))
  BY DEF SubmitService
<1>5. /\ desk.edits => (sends <=> desk.totalTyped \/ ~(Known(desk.parts) /\ Known(desk.labor)))
      /\ ~desk.edits => (sends <=> desk.totalTyped \/ ~HasSplit(desk))
  BY <1>3 DEF UpdateSendsTotal, CreateSendsTotal, HasSplit
<1> HIDE DEF parts, labor, sends
<1>6. ASSUME NEW says \in {"malformed", "contradicts"}, desk' = [desk EXCEPT !.says = says],
             says = "malformed" => desk.edits, says = "contradicts" => desk.totalTyped
      PROVE  ServiceInv'
  <2> DEFINE e == [desk EXCEPT !.says = says]
  <2>1. /\ e \in ServiceForms /\ e.says = says /\ e.parts = desk.parts /\ e.labor = desk.labor
        /\ e.edits = desk.edits /\ e.record = desk.record /\ e.total = desk.total
        /\ e.totalTyped = desk.totalTyped /\ e.split = desk.split
    BY <1>1 DEF ServiceForms
  <2> HIDE DEF e
  <2>2. ServiceOk(e)
    BY <1>1, <1>6, <2>1 DEF ServiceOk, Follows, HasSplit
  <2> QED BY <1>6, <2>2 DEF ServiceInv, e
<1>7. ASSUME NEW total \in Nat, Store(parts, labor, total),
             ~desk.totalTyped => AddsUp(parts, labor, total)
      PROVE  ServiceInv'
  <2> DEFINE r == [parts |-> parts, labor |-> labor, total |-> total]
  <2>1. CASE AddsUp(parts, labor, total)
    <3>1. desk' = ServiceDesk(r, desk.saves + 1)
      BY <1>7, <2>1 DEF Store
    <3>2. r \in Services /\ desk.saves + 1 \in Nat
      BY <1>2, <1>3, <2>1 DEF Services
    <3> HIDE DEF r
    <3>3. desk' \in ServiceTables
      BY <3>1, <3>2 DEF ServiceTables, ServiceDesk
    <3>4. ServiceOk(desk')
      BY <3>3 DEF ServiceOk
    <3> QED BY <3>4 DEF ServiceInv
  <2>2. CASE ~AddsUp(parts, labor, total)
    <3>1. desk' = [desk EXCEPT !.says = "contradicts"]
      BY <1>7, <2>2 DEF Store
    <3> QED BY <1>6, <1>7, <2>2, <3>1
  <2> QED BY <2>1, <2>2
<1>8. CASE sends /\ Known(desk.total) /\ Store(parts, labor, desk.total)
  <2>1. desk.total \in Nat
    BY <1>2, <1>8 DEF Sums, Known
  <2>2. ASSUME ~desk.totalTyped PROVE AddsUp(parts, labor, desk.total)
    <3>1. CASE HasSplit(desk)
      <4>1. desk.total = Sum(parts, labor)
        BY <1>1, <1>3, <1>8, <2>2, <3>1 DEF Follows, Known
      <4> QED BY <1>2, <1>3, <4>1, SumAddsUp
    <3>2. CASE ~HasSplit(desk)
      <4>1. parts = Empty /\ labor = Empty
        BY <1>3, <3>2 DEF HasSplit, Known
      <4> QED BY <4>1, NothingContradicts
    <3> QED BY <3>1, <3>2
  <2> QED BY <1>7, <1>8, <2>1, <2>2
<1>9. CASE sends /\ ~Known(desk.total) /\ desk' = [desk EXCEPT !.says = "malformed"]
  <2>1. desk.edits
    <3> SUFFICES ASSUME ~desk.edits PROVE FALSE
      OBVIOUS
    <3>1. desk.totalTyped \/ ~HasSplit(desk)
      BY <1>5, <1>9
    <3>2. ~desk.totalTyped
      BY <1>1, <1>9 DEF Follows
    <3> QED BY <1>1, <1>9, <3>1, <3>2 DEF ServiceValid, SplitGiven, HasSplit
  <2> QED BY <1>6, <1>9, <2>1
<1>10. CASE ~sends /\ Store(parts, labor, TotalTaken(parts, labor))
  <2>1. ~desk.totalTyped /\ (desk.edits => Known(parts) /\ Known(labor))
    BY <1>2, <1>3, <1>5, <1>10
  <2>2. TotalTaken(parts, labor) = Sum(parts, labor)
    BY <2>1 DEF TotalTaken
  <2>3. Sum(parts, labor) \in Nat /\ AddsUp(parts, labor, Sum(parts, labor))
    BY <1>2, <1>3, SumAddsUp
  <2> QED BY <1>7, <1>10, <2>2, <2>3
<1> QED BY <1>4, <1>8, <1>9, <1>10

LEMMA ServiceInvInductive == ServiceInv /\ [ServiceNext]_desk => ServiceInv'
<1> SUFFICES ASSUME ServiceInv, [ServiceNext]_desk PROVE ServiceInv'
  OBVIOUS
<1>1. CASE UNCHANGED desk
  BY <1>1 DEF ServiceInv
<1> QED BY <1>1, ServiceOpeningIsSound, TotalTypingIsSound, SplitTypingIsSound, SplitOpeningIsSound,
           FreeIsSound, ServiceSubmissionIsSound DEF ServiceNext

\* A new service is turned down only for a total somebody typed.
THEOREM CostsAreUnderstood == ServiceSpec => []NewCostsAreUnderstood
<1>1. ServiceInit => ServiceInv
  BY DEF ServiceInit, ServiceInv, ServiceOk, ServiceTables, ServiceDesk
<1>2. ServiceInv => NewCostsAreUnderstood
  BY DEF ServiceInv, ServiceOk, ServiceTables, NewCostsAreUnderstood
<1> QED BY <1>1, <1>2, ServiceInvInductive, PTL DEF ServiceSpec

-----------------------------------------------------------------------------
(* Mileage: the box foresees what the odometer says. *)

\* The readings are numbered as they come, and each belongs to one record.
Distinct(R) == R \subseteq Readings /\ \A p, q \in R : p.seq = q.seq => p = q
Numbered(R) ==
  /\ Distinct(R) /\ IsFiniteSet(R)
  /\ \A r \in R : r.src = r.seq /\ r.seq <= Cardinality(R)

RawOk(raw) == raw \in Runs \cup {Absent}

ContextOk(context) == context # Absent => context.previous \in Readings \cup {Absent}

BoxOk(box) ==
  /\ box = [day |-> box.day, src |-> box.src, raw |-> box.raw, trip |-> box.trip,
            context |-> box.context]
  /\ box.day \in Nat /\ box.src \in Nat \cup {Absent}
  /\ RawOk(box.raw) /\ ContextOk(box.context)

MileageOk(d) ==
  /\ d = [kind |-> "mileage", readings |-> d.readings, box |-> d.box, says |-> d.says]
  /\ Numbered(d.readings)
  /\ d.box # Absent => BoxOk(d.box)
  /\ d.says = "nothing"

MileageInv == MileageOk(desk)

-----------------------------------------------------------------------------
\* Of the readings either side there is one at the most.
LEMMA NeighbourIsOne ==
  ASSUME NEW R, Distinct(R), NEW at
  PROVE  /\ \A p, q \in PreviousReading(R, at) : p = q
         /\ \A p, q \in NextReading(R, at) : p = q
         /\ PreviousReading(R, at) \subseteq Readings /\ NextReading(R, at) \subseteq Readings
<1>1. \A p, q \in R : ~Before(p, q) /\ ~Before(q, p) => p = q
  BY DEF Distinct, Readings, Before
<1>2. \A p, q \in PreviousReading(R, at) : p \in R /\ q \in R /\ ~Before(p, q) /\ ~Before(q, p)
  BY DEF PreviousReading
<1>3. \A p, q \in NextReading(R, at) : p \in R /\ q \in R /\ ~Before(p, q) /\ ~Before(q, p)
  BY DEF NextReading
<1> QED BY <1>1, <1>2, <1>3 DEF PreviousReading, NextReading, Distinct

LEMMA TheOneIsIt ==
  ASSUME NEW S, S \subseteq Readings, \A p, q \in S : p = q
  PROVE  /\ S = {} => TheOne(S) = Absent
         /\ \A r \in S : TheOne(S) = r /\ r # Absent
         /\ TheOne(S) \in Readings \cup {Absent}
<1>1. ASSUME NEW r \in S PROVE TheOne(S) = r
  BY <1>1, Zenon DEF TheOne
<1> QED BY <1>1, MileageAssumption DEF TheOne

LEMMA OthersAreDistinct ==
  ASSUME NEW R, Distinct(R), NEW src PROVE Distinct({r \in R : r.src # src})
BY DEF Distinct

\* The box and the odometer weigh a reading alike.
LEMMA WeighedAlike ==
  ASSUME Distinct(desk.readings), NEW src, NEW at, NEW km
  PROVE  AssessReading(km, Context(at, src)) = "error" <=> TimelineConflict(Others(src), at, km)
<1> DEFINE R == Others(src)
           P == PreviousReading(R, at)
           N == NextReading(R, at)
           c == Context(at, src)
<1>1. Distinct(R)
  BY OthersAreDistinct DEF Others
<1> HIDE DEF R
<1>2. /\ P \subseteq Readings /\ N \subseteq Readings
      /\ \A p, q \in P : p = q
      /\ \A p, q \in N : p = q
  BY <1>1, NeighbourIsOne
<1> HIDE DEF P, N
<1>3. /\ P = {} => TheOne(P) = Absent
      /\ \A r \in P : TheOne(P) = r /\ r # Absent
  BY <1>2, TheOneIsIt
<1>4. /\ N = {} => TheOne(N) = Absent
      /\ \A r \in N : TheOne(N) = r /\ r # Absent
  BY <1>2, TheOneIsIt
<1>5. c.previous = TheOne(P) /\ c.next = TheOne(N)
  BY DEF Context, R, P, N
<1> HIDE DEF c
<1>6. (c.previous # Absent /\ km < c.previous.km) <=> \E p \in P : km < p.km
  BY <1>3, <1>5
<1>7. (c.next # Absent /\ km > c.next.km) <=> \E n \in N : km > n.km
  BY <1>4, <1>5
<1>8. TimelineConflict(R, at, km) <=> (\E p \in P : km < p.km) \/ (\E n \in N : km > n.km)
  BY DEF TimelineConflict, P, N
<1>9. AssessReading(km, c) = "error" <=>
        (c.previous # Absent /\ km < c.previous.km) \/ (c.next # Absent /\ km > c.next.km)
  BY DEF AssessReading
<1> QED BY <1>6, <1>7, <1>8, <1>9 DEF R, c

LEMMA DivMod ==
  ASSUME NEW s \in Nat \ {0}, NEW x \in Nat
  PROVE  /\ x \div s \in Nat /\ x % s \in 0..(s - 1)
         /\ x = s * (x \div s) + (x % s)
OBVIOUS

\* Two multiples of s that are not the same are s apart.
LEMMA MultiplesApart ==
  ASSUME NEW s \in Nat \ {0}, NEW y \in Nat, NEW z \in Nat, y < z
  PROVE  s * y + s <= s * z
<1>1. PICK d \in Nat : z = y + 1 + d
  <2>1. z - y - 1 \in Nat /\ z = y + 1 + (z - y - 1)
    OBVIOUS
  <2> QED BY <2>1
<1>2. s * z = s * y + s + s * d
  BY <1>1
<1>3. s * d \in Nat /\ s * y \in Nat
  OBVIOUS
<1> QED BY <1>2, <1>3

LEMMA ModIs ==
  ASSUME NEW s \in Nat \ {0}, NEW x \in Nat, NEW y \in Nat, NEW w \in 0..(s - 1), x = s * y + w
  PROVE  x % s = w
<1> DEFINE z == x \div s
           a == s * y
           b == s * z
<1>1. z \in Nat /\ x % s \in 0..(s - 1) /\ x = b + (x % s)
  BY DivMod
<1>2. a \in Nat /\ b \in Nat /\ x = a + w
  BY <1>1
<1>3. y < z => a + s <= b
  BY <1>1, MultiplesApart
<1>4. z < y => b + s <= a
  BY <1>1, MultiplesApart
<1>5. y = z => a = b
  OBVIOUS
<1> HIDE DEF a, b, z
<1> QED BY <1>1, <1>2, <1>3, <1>4, <1>5

\* Running up from p, the first number that ends as v does in s.
NextWith(p, s, v) == IF p - (p % s) + v < p THEN p - (p % s) + v + s ELSE p - (p % s) + v

LEMMA NextWithEnd ==
  ASSUME NEW p \in Nat, NEW s \in Nat \ {0}, NEW v \in Nat, v < s, NEW km,
         km = NextWith(p, s, v)
  PROVE  /\ km >= p /\ km % s = v
         /\ \A k \in p..km : k % s = v => k = km
<1> DEFINE q == p \div s
           r == p % s
           u == s * q
<1>1. q \in Nat /\ r \in 0..(s - 1) /\ u \in Nat /\ p = u + r
  BY DivMod
<1>2. km = IF p - r + v < p THEN p - r + v + s ELSE p - r + v
  BY DEF NextWith
<1>3. u + s = s * (q + 1) /\ q + 1 \in Nat
  BY <1>1
<1>4. v \in 0..(s - 1)
  OBVIOUS
<1>5. PICK y \in Nat : km \in Nat /\ km = s * y + v /\ p <= km /\ km < p + s
  <2>1. CASE v < r
    <3>1. km = u + s + v /\ km \in Nat /\ p <= km /\ km < p + s
      <4> HIDE DEF u, r, q
      <4>1. p - r + v = u + v /\ u + v < p /\ r < s
        BY <1>1, <1>4, <2>1
      <4>2. km = u + v + s
        BY <1>2, <4>1
      <4> QED BY <1>1, <1>4, <2>1, <4>1, <4>2
    <3>2. km = s * (q + 1) + v
      BY <1>3, <3>1
    <3> QED BY <1>3, <3>1, <3>2
  <2>2. CASE r <= v
    <3>1. km = u + v /\ km \in Nat /\ p <= km /\ km < p + s
      <4> HIDE DEF u, r, q
      <4> QED BY <1>1, <1>2, <1>4, <2>2
    <3> QED BY <1>1, <3>1
  <2> HIDE DEF u, r, q
  <2> QED BY <1>1, <1>4, <2>1, <2>2
<1>6. ASSUME NEW k \in p..km, k % s = v PROVE k = km
  <2> DEFINE z == k \div s
             a == s * y
             b == s * z
  <2>1. k \in Nat /\ k <= km /\ p <= k
    BY <1>5
  <2>2. z \in Nat /\ k = b + v
    BY <1>6, <2>1, DivMod
  <2>3. a \in Nat /\ b \in Nat /\ km = a + v
    BY <1>5, <2>2
  <2>4. z < y => b + s <= a
    BY <2>2, MultiplesApart
  <2>5. y < z => a + s <= b
    BY <2>2, MultiplesApart
  <2>6. y = z => a = b
    OBVIOUS
  <2> HIDE DEF a, b, z
  <2> QED BY <1>5, <2>1, <2>2, <2>3, <2>4, <2>5, <2>6
<1>7. km % s = v
  BY <1>4, <1>5, ModIs
<1> QED BY <1>5, <1>6, <1>7

LEMMA PowerIsPositive == \A n \in 1..7 : Power[n] \in Nat \ {0}
BY SMT DEF Power

\* A number of seven digits at the most is a run of digits.
LEMMA InFullIsRun ==
  ASSUME NEW km \in InSeven PROVE InFull(km) \in Runs
<1> DEFINE Takes(n) == km < Power[n] /\ (n = 1 \/ km >= Power[n - 1])
<1>0. km \in Nat /\ km < Power[7]
  BY SMT, PowerIsPositive DEF InSeven
<1>1. \E n \in 1..7 : Takes(n)
  <2>1. \A n \in 1..7 : Power[n] \in Nat
    BY PowerIsPositive
  <2>2. \/ km < Power[1]
        \/ km >= Power[1] /\ km < Power[2]
        \/ km >= Power[2] /\ km < Power[3]
        \/ km >= Power[3] /\ km < Power[4]
        \/ km >= Power[4] /\ km < Power[5]
        \/ km >= Power[5] /\ km < Power[6]
        \/ km >= Power[6] /\ km < Power[7]
    BY <1>0, <2>1, SMT
  <2> QED BY <2>2, SMT
<1> HIDE DEF Takes
<1>2. Digits(km) \in 1..7 /\ Takes(Digits(km))
  <2>1. Digits(km) = CHOOSE n \in 1..7 : Takes(n)
    BY DEF Digits, Takes
  <2> QED BY <1>1, <2>1, Zenon
<1>3. km < Power[Digits(km)]
  BY <1>2 DEF Takes
<1> QED BY <1>2, <1>3, SMT DEF InFull, Runs

-----------------------------------------------------------------------------
\* What is shown in full is a run of digits.
LEMMA ShownIsRaw ==
  ASSUME NEW x, NEW raw, raw = InFull(x), raw # Absent => raw.value \in Boxed
  PROVE  RawOk(raw)
<1>1. raw # Absent => x \in Boxed
  BY DEF InFull
<1>2. raw # Absent => x \in InSeven
  BY <1>1, MileageAssumption
<1> QED BY <1>2, InFullIsRun DEF RawOk

\* The desk with another box.
LEMMA BoxStep ==
  ASSUME MileageInv, NEW b, BoxOk(b) \/ b = Absent,
         \/ desk' = [desk EXCEPT !.box = b]
         \/ desk' = [desk EXCEPT !.box = b, !.says = "nothing"]
  PROVE  MileageInv'
<1>1. desk = [kind |-> "mileage", readings |-> desk.readings, box |-> desk.box, says |-> "nothing"]
  BY DEF MileageInv, MileageOk
<1> DEFINE e == [desk EXCEPT !.box = b]
<1>e. e = [kind |-> "mileage", readings |-> desk.readings, box |-> b, says |-> "nothing"]
  BY <1>1
<1>2. desk' = [kind |-> "mileage", readings |-> desk.readings, box |-> b, says |-> "nothing"]
  <2>1. desk' = e \/ desk' = [e EXCEPT !.says = "nothing"]
    OBVIOUS
  <2> HIDE DEF e
  <2> QED BY <1>e, <2>1
<1>3. MileageOk(desk')
  BY <1>2 DEF MileageInv, MileageOk
<1> QED BY <1>3 DEF MileageInv

LEMMA OpeningIsBox ==
  ASSUME NEW day \in Nat, NEW src \in Nat \cup {Absent}, NEW raw, RawOk(raw)
  PROVE  BoxOk(BoxOpened(day, src, raw))
BY DEF BoxOk, BoxOpened, ContextOk

LEMMA ContextIsSound ==
  ASSUME Distinct(desk.readings), NEW at, NEW src PROVE ContextOk(Context(at, src))
<1> DEFINE P == PreviousReading(Others(src), at)
<1>1. Distinct(Others(src))
  BY OthersAreDistinct DEF Others
<1>2. P \subseteq Readings /\ \A p, q \in P : p = q
  BY <1>1, NeighbourIsOne
<1> HIDE DEF P
<1>3. TheOne(P) \in Readings \cup {Absent}
  BY <1>2, TheOneIsIt
<1>4. Context(at, src).previous = TheOne(P)
  BY DEF Context, P
<1> QED BY <1>3, <1>4 DEF ContextOk

LEMMA BoxOpeningIsSound ==
  ASSUME MileageInv,
         \/ \E day \in Days : OpenBox(day) \/ PickDay(day)
         \/ \E r \in desk.readings : EditReading(r)
         \/ ContextArrives
  PROVE  MileageInv'
<1>1. Days \subseteq Nat
  BY MileageAssumption
<1>2. Box # Absent => BoxOk(Box)
  BY DEF MileageInv, MileageOk, Box
<1>3. ASSUME NEW day \in Days, OpenBox(day) PROVE MileageInv'
  <2>1. BoxOk(BoxOpened(day, Absent, Absent))
    BY <1>1, OpeningIsBox DEF RawOk
  <2> QED BY <1>3, <2>1, BoxStep DEF OpenBox
<1>4. ASSUME NEW day \in Days, PickDay(day) PROVE MileageInv'
  <2> DEFINE b == [Box EXCEPT !.day = day, !.context = Absent]
  <2>1. desk' = [desk EXCEPT !.box = b]
    BY <1>4 DEF PickDay, Box
  <2>2. Box = [day |-> Box.day, src |-> Box.src, raw |-> Box.raw, trip |-> Box.trip,
               context |-> Box.context]
    BY <1>2, <1>4 DEF PickDay, BoxOk
  <2> DEFINE e == [Box EXCEPT !.day = day]
  <2>e. e = [day |-> day, src |-> Box.src, raw |-> Box.raw, trip |-> Box.trip,
             context |-> Box.context]
    BY <2>2
  <2>3. b = [day |-> day, src |-> Box.src, raw |-> Box.raw, trip |-> Box.trip, context |-> Absent]
    <3>1. b = [e EXCEPT !.context = Absent]
      OBVIOUS
    <3> HIDE DEF b, e
    <3> QED BY <2>e, <3>1
  <2>4. BoxOk(b)
    <3> HIDE DEF b
    <3> QED BY <1>1, <1>2, <1>4, <2>3 DEF PickDay, BoxOk, ContextOk
  <2> HIDE DEF b
  <2> QED BY <2>1, <2>4, BoxStep
<1>5. ASSUME NEW r \in desk.readings, EditReading(r) PROVE MileageInv'
  <2>1. r \in Readings
    BY DEF MileageInv, MileageOk, Numbered, Distinct
  <2>2. DayOf(r.at) \in Nat /\ r.src \in Nat /\ r.km \in InSeven
    BY <2>1, MileageAssumption DEF DayOf, Readings
  <2>3. RawOk(InFull(r.km))
    BY <2>2, InFullIsRun DEF RawOk
  <2>4. BoxOk(BoxOpened(DayOf(r.at), r.src, InFull(r.km)))
    BY <2>2, <2>3, OpeningIsBox
  <2> QED BY <1>5, <2>4, BoxStep DEF EditReading
<1>6. ASSUME ContextArrives PROVE MileageInv'
  <2> DEFINE c == Context(MomentFor(Box.day), Box.src)
             b == [Box EXCEPT !.context = c]
  <2>1. desk' = [desk EXCEPT !.box = b]
    BY <1>6 DEF ContextArrives, Box
  <2>2. ContextOk(c)
    BY ContextIsSound DEF MileageInv, MileageOk, Numbered
  <2> HIDE DEF c
  <2>3. Box = [day |-> Box.day, src |-> Box.src, raw |-> Box.raw, trip |-> Box.trip,
               context |-> Box.context]
    BY <1>2, <1>6 DEF ContextArrives, BoxOk
  <2>4. b = [day |-> Box.day, src |-> Box.src, raw |-> Box.raw, trip |-> Box.trip, context |-> c]
    BY <2>3
  <2>5. BoxOk(b)
    <3> HIDE DEF b
    <3> QED BY <1>2, <1>6, <2>2, <2>4 DEF ContextArrives, BoxOk
  <2> HIDE DEF b
  <2> QED BY <2>1, <2>5, BoxStep
<1> QED BY <1>3, <1>4, <1>5, <1>6

LEMMA ShowingIsSound ==
  ASSUME MileageInv, Box # Absent, NEW raw, RawOk(raw), NEW trip, Shows(raw, trip)
  PROVE  MileageInv'
<1> DEFINE b == [Box EXCEPT !.raw = raw, !.trip = trip]
<1>1. desk' = [desk EXCEPT !.box = b]
  BY DEF Shows, Box
<1>2. BoxOk(Box)
  BY DEF MileageInv, MileageOk, Box
<1>3. Box = [day |-> Box.day, src |-> Box.src, raw |-> Box.raw, trip |-> Box.trip,
             context |-> Box.context]
  BY <1>2 DEF BoxOk
<1> DEFINE e == [Box EXCEPT !.raw = raw]
<1>e. e = [day |-> Box.day, src |-> Box.src, raw |-> raw, trip |-> Box.trip,
           context |-> Box.context]
  BY <1>3
<1>4. b = [day |-> Box.day, src |-> Box.src, raw |-> raw, trip |-> trip, context |-> Box.context]
  <2>1. b = [e EXCEPT !.trip = trip]
    OBVIOUS
  <2> HIDE DEF b, e
  <2> QED BY <1>e, <2>1
<1>5. BoxOk(b)
  <2> HIDE DEF b
  <2> QED BY <1>2, <1>4 DEF BoxOk
<1> HIDE DEF b
<1> QED BY <1>1, <1>5, BoxStep

LEMMA BoxTypingIsSound ==
  ASSUME MileageInv,
         \/ \E typed \in TypedRuns \cup {Absent} : TypeDigits(typed)
         \/ TakeEstimate
         \/ \E numbers \in Photos : TakeFromPhoto(numbers)
         \/ \E km \in Nudges : Nudge(km)
         \/ ReadTrip
         \/ ReadOdometer
  PROVE  MileageInv'
<1>1. ASSUME NEW x, NEW trip, Box # Absent, Shows(InFull(x), trip) PROVE MileageInv'
  <2>1. RawOk(InFull(x))
    BY <1>1, ShownIsRaw DEF Shows
  <2> QED BY <1>1, <2>1, ShowingIsSound
<1>2. ASSUME NEW typed \in TypedRuns \cup {Absent}, TypeDigits(typed) PROVE MileageInv'
  <2>1. RawOk(typed)
    BY MileageAssumption DEF RawOk
  <2> QED BY <1>2, <2>1, ShowingIsSound DEF TypeDigits
<1>3. ASSUME TakeEstimate PROVE MileageInv'
  BY <1>1, <1>3 DEF TakeEstimate
<1>4. ASSUME NEW numbers \in Photos, TakeFromPhoto(numbers) PROVE MileageInv'
  BY <1>1, <1>4 DEF TakeFromPhoto
<1>5. ASSUME NEW km \in Nudges, Nudge(km) PROVE MileageInv'
  BY <1>1, <1>5 DEF Nudge
<1>6. ASSUME ReadTrip PROVE MileageInv'
  <2>1. CASE Resolved = Absent
    <3>1. Shows(Absent, TRUE) /\ Box # Absent
      BY <1>6, <2>1 DEF ReadTrip
    <3> QED BY <3>1, ShowingIsSound DEF RawOk
  <2>2. CASE Resolved # Absent
    BY <1>1, <1>6, <2>2 DEF ReadTrip
  <2> QED BY <2>1, <2>2
<1>7. ASSUME ReadOdometer PROVE MileageInv'
  <2>1. CASE Resolved = Absent
    <3>1. Shows(Box.raw, FALSE) /\ Box # Absent
      BY <1>7, <2>1 DEF ReadOdometer
    <3>2. RawOk(Box.raw)
      BY <3>1 DEF MileageInv, MileageOk, BoxOk, Box
    <3> QED BY <3>1, <3>2, ShowingIsSound
  <2>2. CASE Resolved # Absent
    BY <1>1, <1>7, <2>2 DEF ReadOdometer
  <2> QED BY <2>1, <2>2
<1> QED BY <1>2, <1>3, <1>4, <1>5, <1>6, <1>7

-----------------------------------------------------------------------------
\* One more reading, and one of them moved.
LEMMA OneMoreIsNumbered ==
  ASSUME MileageInv, NEW at \in Nat, NEW km \in Km, NEW fuel \in BOOLEAN
  PROVE  Numbered(desk.readings \cup {Reading(at, km, fuel)})
<1> DEFINE R == desk.readings
           n == Cardinality(R) + 1
           x == Reading(at, km, fuel)
<1>1. Numbered(R)
  BY DEF MileageInv, MileageOk
<1>2. Cardinality(R) \in Nat
  BY <1>1, FS_CardinalityType DEF Numbered
<1>3. x = [at |-> at, km |-> km, seq |-> n, src |-> n, fuel |-> fuel] /\ n \in Nat
  BY <1>2 DEF Reading
<1>4. x \in Readings /\ x.seq = n /\ x.src = n
  BY <1>3 DEF Readings
<1> HIDE DEF R, x
<1>5. \A r \in R : r.seq \in Nat /\ r.src = r.seq /\ r.seq < n
  BY <1>1, <1>2 DEF Numbered, Distinct, Readings
<1>6. x \notin R
  BY <1>4, <1>5
<1>7. IsFiniteSet(R \cup {x}) /\ Cardinality(R \cup {x}) = n
  BY <1>1, <1>6, FS_AddElement DEF Numbered
<1>8. Distinct(R \cup {x})
  BY <1>1, <1>4, <1>5 DEF Numbered, Distinct
<1>9. \A r \in R \cup {x} : r.src = r.seq /\ r.seq <= Cardinality(R \cup {x})
  BY <1>2, <1>4, <1>5, <1>7
<1> QED BY <1>7, <1>8, <1>9 DEF Numbered, R, x

LEMMA MovedIsNumbered ==
  ASSUME MileageInv, NEW src, NEW at \in Nat, NEW km \in Km
  PROVE  Numbered(Moved(src, at, km))
<1> DEFINE R == desk.readings
           m(r) == IF r.src = src THEN [r EXCEPT !.at = at, !.km = km] ELSE r
           M == Moved(src, at, km)
           f == [r \in R |-> m(r)]
<1>1. Numbered(R)
  BY DEF MileageInv, MileageOk
<1>2. ASSUME NEW r \in R PROVE m(r) \in Readings /\ m(r).seq = r.seq /\ m(r).src = r.src
  <2>1. r \in Readings
    BY <1>1 DEF Numbered, Distinct
  <2> DEFINE e == [r EXCEPT !.at = at]
  <2>2. e \in Readings /\ e.seq = r.seq /\ e.src = r.src
    BY <2>1 DEF Readings
  <2>3. m(r) = IF r.src = src THEN [e EXCEPT !.km = km] ELSE r
    OBVIOUS
  <2> HIDE DEF m, e
  <2>4. [e EXCEPT !.km = km] \in Readings /\ [e EXCEPT !.km = km].seq = r.seq
          /\ [e EXCEPT !.km = km].src = r.src
    BY <2>2 DEF Readings
  <2> QED BY <2>1, <2>3, <2>4
<1>3. M = {m(r) : r \in R}
  BY DEF Moved
<1> HIDE DEF m, R, M
<1>4. \A p, q \in R : m(p).seq = m(q).seq => p = q
  BY <1>1, <1>2 DEF Numbered, Distinct
<1>5. f \in Bijection(R, M)
  <2>1. f \in [R -> M]
    BY <1>3
  <2>2. \A p, q \in R : f[p] = f[q] => p = q
    BY <1>4
  <2>3. \A y \in M : \E r \in R : f[r] = y
    BY <1>3
  <2> QED BY <2>1, <2>2, <2>3 DEF Bijection, Injection, Surjection, IsInjective
<1>6. IsFiniteSet(M) /\ Cardinality(M) = Cardinality(R)
  BY <1>1, <1>5, FS_Bijection DEF Numbered, ExistsBijection
<1>7. Distinct(M)
  BY <1>1, <1>2, <1>3 DEF Numbered, Distinct
<1>8. \A x \in M : x.src = x.seq /\ x.seq <= Cardinality(M)
  BY <1>1, <1>2, <1>3, <1>6 DEF Numbered
<1> QED BY <1>6, <1>7, <1>8 DEF Numbered, M

\* The desk with another timeline.
LEMMA TimelineStep ==
  ASSUME MileageInv, NEW b, b = Box \/ b = Absent, NEW R, Numbered(R), NEW says, says = "nothing",
         desk' = [desk EXCEPT !.box = b, !.readings = R, !.says = says]
  PROVE  MileageInv'
<1> DEFINE e == [desk EXCEPT !.box = b]
           g == [e EXCEPT !.readings = R]
<1>1. desk = [kind |-> "mileage", readings |-> desk.readings, box |-> desk.box, says |-> "nothing"]
  BY DEF MileageInv, MileageOk
<1>2. e = [kind |-> "mileage", readings |-> desk.readings, box |-> b, says |-> "nothing"]
  BY <1>1
<1>3. desk' = [g EXCEPT !.says = says]
  OBVIOUS
<1> HIDE DEF e
<1>4. g = [kind |-> "mileage", readings |-> R, box |-> b, says |-> "nothing"]
  BY <1>2
<1> HIDE DEF g
<1>5. desk' = [kind |-> "mileage", readings |-> R, box |-> b, says |-> "nothing"]
  BY <1>3, <1>4
<1>6. b # Absent => BoxOk(b)
  BY DEF MileageInv, MileageOk, Box
<1>7. MileageOk(desk')
  BY <1>5, <1>6 DEF MileageOk
<1> QED BY <1>7 DEF MileageInv

LEMMA OtherReadingIsSound ==
  ASSUME MileageInv, NEW at \in Nat, NEW km \in Km, NEW fuel \in BOOLEAN,
         OtherReading(at, km, fuel)
  PROVE  MileageInv'
<1> DEFINE R == desk.readings \cup {Reading(at, km, fuel)}
<1>1. Numbered(R)
  BY OneMoreIsNumbered
<1>2. desk' = [desk EXCEPT !.readings = R]
  BY DEF OtherReading
<1> HIDE DEF R
<1>3. desk = [kind |-> "mileage", readings |-> desk.readings, box |-> desk.box, says |-> "nothing"]
  BY DEF MileageInv, MileageOk
<1>4. desk' = [kind |-> "mileage", readings |-> R, box |-> desk.box, says |-> "nothing"]
  BY <1>2, <1>3
<1>5. MileageOk(desk')
  BY <1>1, <1>4 DEF MileageInv, MileageOk
<1> QED BY <1>5 DEF MileageInv

LEMMA SavingIsSound ==
  ASSUME MileageInv, NEW fuel \in BOOLEAN, SaveReading(fuel) PROVE MileageInv'
<1> DEFINE refused == TimelineConflict(Others(Box.src), SavedAt, Resolved.km)
           weighed == Told /\ Box.context.at = SavedAt /\ Box.context = Context(SavedAt, Box.src)
           judged == IF Told THEN AssessReading(Resolved.km, Box.context) ELSE "ok"
           b == IF refused THEN Box ELSE Absent
           R == IF refused THEN desk.readings
                ELSE IF Box.src = Absent
                THEN desk.readings \cup {Reading(SavedAt, Resolved.km, fuel)}
                ELSE Moved(Box.src, SavedAt, Resolved.km)
           says == IF weighed /\ refused # (judged = "error") THEN "unforeseen" ELSE "nothing"
<1>1. desk' = [desk EXCEPT !.box = b, !.readings = R, !.says = says]
  BY DEF SaveReading
<1>2. Resolved.km \in Km /\ Box # Absent
  BY DEF SaveReading
<1>3. SavedAt \in Nat
  <2> DEFINE mine == {r \in desk.readings : r.src = Box.src /\ DayOf(r.at) = Box.day}
  <2>1. \A r \in mine : r.at \in Nat
    BY DEF MileageInv, MileageOk, Numbered, Distinct, Readings
  <2>2. MomentFor(Box.day) \in Nat
    BY <1>2 DEF MileageInv, MileageOk, BoxOk, Box, MomentFor
  <2>3. SavedAt = IF mine = {} THEN MomentFor(Box.day) ELSE (CHOOSE r \in mine : TRUE).at
    BY DEF SavedAt
  <2> HIDE DEF mine
  <2>4. mine # {} => (CHOOSE r \in mine : TRUE) \in mine
    BY Zenon
  <2> QED BY <2>1, <2>2, <2>3, <2>4
<1>4. Numbered(R)
  <2>1. Numbered(desk.readings)
    BY DEF MileageInv, MileageOk
  <2>2. Numbered(desk.readings \cup {Reading(SavedAt, Resolved.km, fuel)})
    BY <1>2, <1>3, OneMoreIsNumbered
  <2>3. Numbered(Moved(Box.src, SavedAt, Resolved.km))
    BY <1>2, <1>3, MovedIsNumbered
  <2> QED BY <2>1, <2>2, <2>3
<1>5. weighed => (refused <=> judged = "error")
  <2>1. Distinct(desk.readings)
    BY DEF MileageInv, MileageOk, Numbered
  <2>2. AssessReading(Resolved.km, Context(SavedAt, Box.src)) = "error" <=> refused
    BY <2>1, WeighedAlike
  <2>3. weighed => judged = AssessReading(Resolved.km, Context(SavedAt, Box.src))
    OBVIOUS
  <2> HIDE DEF weighed, refused, judged
  <2> QED BY <2>2, <2>3
<1>6. says = "nothing"
  <2>1. refused \in BOOLEAN
    BY DEF TimelineConflict
  <2> HIDE DEF weighed, refused, judged
  <2> QED BY <1>5, <2>1
<1>7. b = Box \/ b = Absent
  OBVIOUS
<1> HIDE DEF b, R, says
<1> QED BY <1>1, <1>4, <1>6, <1>7, TimelineStep

-----------------------------------------------------------------------------
LEMMA MileageInvInductive == MileageInv /\ [MileageNext]_desk => MileageInv'
<1> SUFFICES ASSUME MileageInv, [MileageNext]_desk PROVE MileageInv'
  OBVIOUS
<1>1. CASE UNCHANGED desk
  BY <1>1 DEF MileageInv
<1>2. CASE \E fuel \in BOOLEAN : SaveReading(fuel)
  BY <1>2, SavingIsSound
<1>3. CASE \E day \in Days, km \in Km, fuel \in BOOLEAN :
             OtherReading(Morning(day), km, fuel) \/ OtherReading(MomentFor(day), km, fuel)
  <2>1. \A day \in Days : Morning(day) \in Nat /\ MomentFor(day) \in Nat
    BY MileageAssumption DEF Morning, MomentFor
  <2> QED BY <1>3, <2>1, OtherReadingIsSound
<1> QED BY <1>1, <1>2, <1>3, BoxOpeningIsSound, BoxTypingIsSound DEF MileageNext

\* A number completed from its end is the next one with that end.
LEMMA CompletionIsNext ==
  ASSUME MileageInv, Box # Absent PROVE CompletedIsNext
<1> SUFFICES ASSUME Resolved # Absent, ~Box.trip, Resolved.completed PROVE
      LET p == Box.context.previous.km IN
      /\ Resolved.km >= p /\ EndsIn(Resolved.km, Box.raw)
      /\ \A km \in p..Resolved.km : EndsIn(km, Box.raw) => km = Resolved.km
  BY DEF CompletedIsNext
<1> DEFINE prev == IF Told THEN Box.context.previous ELSE Absent
           raw == Box.raw
           p == prev.km
           s == Power[raw.len]
           v == raw.value
<1>1. BoxOk(Box)
  BY DEF MileageInv, MileageOk, Box
<1>2. Resolved = CompleteReading(raw, prev) /\ raw # Absent
  BY DEF Resolved
<1>3. ~(prev = Absent \/ raw.len >= Digits(prev.km))
  BY <1>2 DEF CompleteReading
<1>4. Told /\ prev = Box.context.previous /\ prev \in Readings
  BY <1>1, <1>3 DEF BoxOk, ContextOk, Told
<1>5. p \in Nat
  BY <1>4, MileageAssumption, SMT DEF Readings, InSeven
<1>6. raw \in Runs
  BY <1>1, <1>2 DEF BoxOk, RawOk
<1>7. s \in Nat \ {0} /\ v \in Nat /\ v < s
  BY <1>6, PowerIsPositive, SMT DEF Runs, InSeven
<1>8. Resolved.km = IF p - (p % s) + v < p THEN p - (p % s) + v + s ELSE p - (p % s) + v
  BY <1>2, <1>3 DEF CompleteReading
<1> DEFINE km == Resolved.km
<1> HIDE DEF prev, p, s, v, km
<1>9. km >= p /\ km % s = v /\ \A k \in p..km : k % s = v => k = km
  <2>1. km = NextWith(p, s, v)
    BY <1>8 DEF km, NextWith
  <2> QED BY <1>5, <1>7, <2>1, NextWithEnd
<1> QED BY <1>4, <1>9 DEF EndsIn, prev, p, s, v, km

\* The box and the odometer agree about every reading weighed at the moment
\* sent, and a number completed from its end is the next with that end.
THEOREM BoxAndOdometerAgree == MileageSpec => []MileageAgrees
<1>1. MileageInit => MileageInv
  <2> SUFFICES ASSUME MileageInit PROVE MileageInv
    OBVIOUS
  <2>1. Numbered({})
    BY FS_EmptySet DEF Numbered, Distinct
  <2> QED BY <2>1 DEF MileageInit, MileageInv, MileageOk
<1>2. MileageInv => MileageAgrees
  BY CompletionIsNext DEF MileageInv, MileageOk, MileageAgrees
<1> QED BY <1>1, <1>2, MileageInvInductive, PTL DEF MileageSpec

-----------------------------------------------------------------------------
(* Forms: a form, the API and the table say the same of a record. *)

\* The fields a table of exceptions names for one form.
Of(table, which) == IF which \in DOMAIN table THEN table[which] ELSE {}

IsRule(r) == /\ r.least \in Int /\ r.most \in Int /\ r.places \in Int
             /\ r.is \notin {"nothing", "zeros"}

\* What a box, a payload or a row may hold of a field.
IsContent(v) == v.places \in Int /\ v = Content(v, v.value, v.places)

\* What one rule takes another does.
Tighter(a, b) ==
  /\ IsRule(a) /\ IsRule(b)
  /\ a.is = b.is /\ b.least <= a.least /\ a.most <= b.most /\ a.places <= b.places
  /\ a.zero => b.zero

\* A rule for a day, as a picker keeps it, and one for a moment.
IsDay(r) == r.is = "day" /\ r.least = 1 /\ r.most = 2 /\ r.places = 0 /\ r.zero
IsMoment(r) == r.is = "instant" /\ r.least = 1 /\ r.most = 2 /\ r.places = Unlimited /\ r.zero

Warnings == {"notifyBeforeKm", "notifyBeforeDays"}
Last == {"lastServiceOdometerKm", "lastServiceAt"}
Zero == Content(KmRule, 0, 0)

\* A field of a form for a new record, against what the API takes.
NewField(f, n, c, apart) ==
  /\ f \in DOMAIN c /\ IsRule(n[f]) /\ IsRule(c[f])
  /\ f \in Moments => IsDay(n[f]) /\ IsMoment(c[f])
  /\ f \in Moments \/ f \in apart \/ Tighter(n[f], c[f])
  /\ f \in Warnings => Fits(c[f], Zero)

NewIsSent(n, c, apart) ==
  /\ \A f \in DOMAIN n : NewField(f, n, c, apart)
  /\ \A f \in DOMAIN c : /\ IsRule(c[f])
                         /\ c[f].may = "need" => f \in DOMAIN n /\ n[f].may # "null"

\* An update's rule for a field is that of a creation, but for what may be left out.
UpdateField(f, c, u) ==
  /\ f \in DOMAIN c /\ Tighter(u[f], c[f]) /\ Tighter(c[f], u[f]) /\ u[f].may # "need"

Updates(c, u) == \A f \in DOMAIN u : UpdateField(f, c, u)

EditField(f, n, e, u, apart) ==
  /\ f \in DOMAIN u /\ f \in DOMAIN n
  /\ f \in Moments => IsDay(e[f])
  /\ f \in Moments \/ f \in apart \/ Tighter(e[f], u[f])
  /\ e[f].may = "null" => u[f].may = "null" \/ f \in Warnings

EditIsSent(n, e, u, apart) == \A f \in DOMAIN e : EditField(f, n, e, u, apart)

\* A column, against what the API takes.
Column(f, c, u, s, apart) ==
    /\ f \in DOMAIN c /\ Tighter(c[f], s[f])
    /\ c[f].may = "null" => s[f].may = "null" \/ f \in apart \/ f \in FilledIn
    /\ c[f].may # "need" => \/ s[f].may = "null" \/ f \in apart
                            \/ s[f].may = "absent" /\ f \in DOMAIN Default
    /\ f \in Happened => IsMoment(c[f])
    /\ s[f].may = "absent" /\ f \in DOMAIN Default \ Happened => Fits(c[f], Default[f])
    /\ f \in Warnings \cup FilledIn => s[f].may = "absent"
    /\ f \in DOMAIN u /\ u[f].may = "null" => s[f].may = "null" \/ f \in apart

IsStored(c, u, s, apart) == \A f \in DOMAIN s : Column(f, c, u, s, apart)

Reopened(f, e, c, s) ==
    /\ f \in DOMAIN s \ {"pricePerLiter"}
    /\ f \in Moments => IsDay(e[f]) /\ IsMoment(c[f])
    /\ f \in Moments \/ Tighter(c[f], e[f])
    /\ s[f].may = "null" => e[f].may = "null"
    /\ f \in Last => e[f].may = "null"

Reopens(e, c, s) == \A f \in DOMAIN e : Reopened(f, e, c, s)

\* The three statements of a record: the form's, the API's and the table's.
Agree(n, e, c, u, s, looser, unguarded) ==
  /\ NewIsSent(n, c, looser)
  /\ Updates(c, u)
  /\ EditIsSent(n, e, u, looser)
  /\ IsStored(c, u, s, unguarded)
  /\ Reopens(e, c, s)

LooserIn(which) == Of(Looser, which) \cup (IF which = "reminder" THEN DOMAIN Chips ELSE {})
UnguardedIn(which) == Of(Unguarded, which) \cup (IF which = "service" THEN {"totalCost"} ELSE {})

AgreeOn(which) ==
  Agree(Form[which].new, Form[which].edit, Form[which].create, Form[which].update, Columns[which],
        LooserIn(which), UnguardedIn(which))

\* What the records' own checks look at.
Looked == {"intervalKm", "intervalMonths", "dueDate", "dueOdometerKm", "repeatEveryMonths", "totalCost"}

LEMMA TighterFits ==
  ASSUME NEW a, NEW b, Tighter(a, b), NEW content, IsContent(content), Fits(a, content)
  PROVE  Fits(b, content)
BY SMT DEF Tighter, IsRule, Fits, IsContent

\* A day's rule and a moment's, written out.
LEMMA DayIs == Day = [is |-> "day", least |-> 1, most |-> 2, places |-> 0, zero |-> TRUE, may |-> "need"]
<1>1. PICK z : z = TRUE
  OBVIOUS
<1>2. [[is |-> "text", least |-> 1, most |-> 2, places |-> 0, zero |-> z, may |-> "need"]
         EXCEPT !.is = "day"]
        = [is |-> "day", least |-> 1, most |-> 2, places |-> 0, zero |-> z, may |-> "need"]
  OBVIOUS
<1>3. [[is |-> "text", least |-> 1, most |-> 2, places |-> 0, zero |-> TRUE, may |-> "need"]
         EXCEPT !.is = "day"]
        = [is |-> "day", least |-> 1, most |-> 2, places |-> 0, zero |-> TRUE, may |-> "need"]
  BY <1>1, <1>2, Zenon
<1> QED BY <1>3, Zenon DEF Day, Text

LEMMA InstantIs ==
  Instant = [is |-> "instant", least |-> 1, most |-> 2, places |-> Unlimited, zero |-> TRUE, may |-> "need"]
<1>1. PICK z : z = TRUE
  OBVIOUS
<1>2. PICK u : u = Unlimited
  OBVIOUS
<1>3. [[[is |-> "text", least |-> 1, most |-> 2, places |-> 0, zero |-> z, may |-> "need"]
         EXCEPT !.is = "instant"] EXCEPT !.places = u]
        = [is |-> "instant", least |-> 1, most |-> 2, places |-> u, zero |-> z, may |-> "need"]
  <2>1. [[is |-> "text", least |-> 1, most |-> 2, places |-> 0, zero |-> z, may |-> "need"]
          EXCEPT !.is = "instant"]
          = [is |-> "instant", least |-> 1, most |-> 2, places |-> 0, zero |-> z, may |-> "need"]
    OBVIOUS
  <2>2. [[is |-> "instant", least |-> 1, most |-> 2, places |-> 0, zero |-> z, may |-> "need"]
          EXCEPT !.places = u]
          = [is |-> "instant", least |-> 1, most |-> 2, places |-> u, zero |-> z, may |-> "need"]
    OBVIOUS
  <2> QED BY <2>1, <2>2, Zenon
<1>4. Instant = [[[is |-> "text", least |-> 1, most |-> 2, places |-> 0, zero |-> TRUE, may |-> "need"]
                    EXCEPT !.is = "instant"] EXCEPT !.places = Unlimited]
  BY Zenon DEF Instant, Text
<1> QED BY <1>1, <1>2, <1>3, <1>4, Zenon

LEMMA MomentsAre ==
  /\ \A f : f \in Happened <=> f \in {"incurredAt", "filledAt", "performedAt"}
  /\ \A f : f \in Moments <=> f \in {"incurredAt", "filledAt", "performedAt", "lastServiceAt"}
  /\ \A f : f \in FilledIn <=> f \in {"incurredAt", "filledAt", "performedAt", "name"}
<1>1. \A f : f \in Happened <=> f \in {"incurredAt", "filledAt", "performedAt"}
  BY DEF Happened
<1>2. \A f : f \in Moments <=> f \in {"incurredAt", "filledAt", "performedAt", "lastServiceAt"}
  BY <1>1 DEF Moments
<1>3. \A f : f \in FilledIn <=> f \in {"incurredAt", "filledAt", "performedAt", "name"}
  BY <1>1 DEF FilledIn
<1> QED BY <1>1, <1>2, <1>3

\* Each form's three statements, compared field by field.
USE DEF NewIsSent, NewField, Updates, UpdateField, EditIsSent, EditField, IsStored, Column,
        Reopens, Reopened, Tighter, IsRule, Fits, Default, Zero, Content, KmRule, Whole, Number, Text,
        AmountRule, Cost, Volume, Price, Money, Positive, OrNull, OrAbsent, LeavingOut, None, Null,
        Warnings, Last, BillionLess, MaxOdometer, Unlimited, IsDay, IsMoment

LEMMA ExpenseAgrees ==
  Agree(ExpenseForm, ExpenseForm, CreateExpense, UpdateExpense, ExpenseColumns,
        {}, {})
<1>1. NewIsSent(ExpenseForm, CreateExpense, {})
  BY DayIs, InstantIs, MomentsAre, SMTT(60) DEF ExpenseForm, CreateExpense
<1>2. Updates(CreateExpense, UpdateExpense)
  BY DayIs, InstantIs, MomentsAre, SMTT(60) DEF CreateExpense, UpdateExpense
<1>3. EditIsSent(ExpenseForm, ExpenseForm, UpdateExpense, {})
  BY DayIs, InstantIs, MomentsAre, SMTT(60) DEF ExpenseForm, UpdateExpense, CreateExpense
<1>4. IsStored(CreateExpense, UpdateExpense, ExpenseColumns, {})
  BY DayIs, InstantIs, MomentsAre, SMTT(60) DEF CreateExpense, UpdateExpense, ExpenseColumns
<1>5. Reopens(ExpenseForm, CreateExpense, ExpenseColumns)
  BY DayIs, InstantIs, MomentsAre, SMTT(60) DEF ExpenseForm, CreateExpense, ExpenseColumns
<1> HIDE DEF NewIsSent, Updates, EditIsSent, IsStored, Reopens
<1> QED BY <1>1, <1>2, <1>3, <1>4, <1>5 DEF Agree

LEMMA FuelAgrees ==
  Agree(FuelBoxRules, FuelBoxRules, CreateFuel, UpdateFuel, FuelColumns,
        {"volumeLiters"}, {"pricePerLiter"})
<1>1. NewIsSent(FuelBoxRules, CreateFuel, {"volumeLiters"})
  BY DayIs, InstantIs, MomentsAre, SMTT(60) DEF FuelBoxRules, CreateFuel
<1>2. Updates(CreateFuel, UpdateFuel)
  BY DayIs, InstantIs, MomentsAre, SMTT(60) DEF CreateFuel, UpdateFuel
<1>3. EditIsSent(FuelBoxRules, FuelBoxRules, UpdateFuel, {"volumeLiters"})
  BY DayIs, InstantIs, MomentsAre, SMTT(60) DEF FuelBoxRules, UpdateFuel, CreateFuel
<1>4. IsStored(CreateFuel, UpdateFuel, FuelColumns, {"pricePerLiter"})
  BY DayIs, InstantIs, MomentsAre, SMTT(60) DEF CreateFuel, UpdateFuel, FuelColumns
<1>5. Reopens(FuelBoxRules, CreateFuel, FuelColumns)
  BY DayIs, InstantIs, MomentsAre, SMTT(60) DEF FuelBoxRules, CreateFuel, FuelColumns
<1> HIDE DEF NewIsSent, Updates, EditIsSent, IsStored, Reopens
<1> QED BY <1>1, <1>2, <1>3, <1>4, <1>5 DEF Agree

LEMMA ServiceAgrees ==
  Agree(RecordForm, RecordForm, CreateRecord, UpdateRecord, RecordColumns,
        {}, {"totalCost"})
<1>1. NewIsSent(RecordForm, CreateRecord, {})
  BY DayIs, InstantIs, MomentsAre, SMTT(60) DEF RecordForm, CreateRecord
<1>2. Updates(CreateRecord, UpdateRecord)
  BY DayIs, InstantIs, MomentsAre, SMTT(60) DEF CreateRecord, UpdateRecord
<1>3. EditIsSent(RecordForm, RecordForm, UpdateRecord, {})
  BY DayIs, InstantIs, MomentsAre, SMTT(60) DEF RecordForm, UpdateRecord, CreateRecord
<1>4. IsStored(CreateRecord, UpdateRecord, RecordColumns, {"totalCost"})
  BY DayIs, InstantIs, MomentsAre, SMTT(60) DEF CreateRecord, UpdateRecord, RecordColumns
<1>5. Reopens(RecordForm, CreateRecord, RecordColumns)
  BY DayIs, InstantIs, MomentsAre, SMTT(60) DEF RecordForm, CreateRecord, RecordColumns
<1> HIDE DEF NewIsSent, Updates, EditIsSent, IsStored, Reopens
<1> QED BY <1>1, <1>2, <1>3, <1>4, <1>5 DEF Agree

LEMMA ScheduleAgrees ==
  Agree(ScheduleForm, ScheduleForm, CreateSchedule, UpdateSchedule, ScheduleColumns,
        {"intervalKm", "intervalMonths"}, {"notifyBeforeKm", "notifyBeforeDays"})
<1>1. NewIsSent(ScheduleForm, CreateSchedule, {"intervalKm", "intervalMonths"})
  BY DayIs, InstantIs, MomentsAre, SMTT(60) DEF ScheduleForm, CreateSchedule
<1>2. Updates(CreateSchedule, UpdateSchedule)
  BY DayIs, InstantIs, MomentsAre, SMTT(60) DEF CreateSchedule, UpdateSchedule
<1>3. EditIsSent(ScheduleForm, ScheduleForm, UpdateSchedule, {"intervalKm", "intervalMonths"})
  BY DayIs, InstantIs, MomentsAre, SMTT(60) DEF ScheduleForm, UpdateSchedule, CreateSchedule
<1>4. IsStored(CreateSchedule, UpdateSchedule, ScheduleColumns, {"notifyBeforeKm", "notifyBeforeDays"})
  BY DayIs, InstantIs, MomentsAre, SMTT(60) DEF CreateSchedule, UpdateSchedule, ScheduleColumns
<1>5. Reopens(ScheduleForm, CreateSchedule, ScheduleColumns)
  BY DayIs, InstantIs, MomentsAre, SMTT(60) DEF ScheduleForm, CreateSchedule, ScheduleColumns
<1> HIDE DEF NewIsSent, Updates, EditIsSent, IsStored, Reopens
<1> QED BY <1>1, <1>2, <1>3, <1>4, <1>5 DEF Agree

LEMMA ReminderAgrees ==
  Agree(ReminderForm, ReminderForm, CreateReminder, UpdateReminder, ReminderColumns,
        {"dueOdometerKm", "repeatEveryMonths", "notifyBeforeDays"}, {"notifyBeforeKm", "notifyBeforeDays"})
<1>1. NewIsSent(ReminderForm, CreateReminder, {"dueOdometerKm", "repeatEveryMonths", "notifyBeforeDays"})
  BY DayIs, InstantIs, MomentsAre, SMTT(60) DEF ReminderForm, CreateReminder
<1>2. Updates(CreateReminder, UpdateReminder)
  BY DayIs, InstantIs, MomentsAre, SMTT(60) DEF CreateReminder, UpdateReminder
<1>3. EditIsSent(ReminderForm, ReminderForm, UpdateReminder, {"dueOdometerKm", "repeatEveryMonths", "notifyBeforeDays"})
  BY DayIs, InstantIs, MomentsAre, SMTT(60) DEF ReminderForm, UpdateReminder, CreateReminder
<1>4. IsStored(CreateReminder, UpdateReminder, ReminderColumns, {"notifyBeforeKm", "notifyBeforeDays"})
  BY DayIs, InstantIs, MomentsAre, SMTT(60) DEF CreateReminder, UpdateReminder, ReminderColumns
<1>5. Reopens(ReminderForm, CreateReminder, ReminderColumns)
  BY DayIs, InstantIs, MomentsAre, SMTT(60) DEF ReminderForm, CreateReminder, ReminderColumns
<1> HIDE DEF NewIsSent, Updates, EditIsSent, IsStored, Reopens
<1> QED BY <1>1, <1>2, <1>3, <1>4, <1>5 DEF Agree

LEMMA VehicleAgrees ==
  Agree(VehicleForm, None, CreateVehicleDto, UpdateVehicle, VehicleColumns,
        {"engineSize"}, {"make", "model", "year", "licensePlate", "initialOdometerKm"})
<1>1. NewIsSent(VehicleForm, CreateVehicleDto, {"engineSize"})
  BY DayIs, InstantIs, MomentsAre, SMTT(60) DEF VehicleForm, CreateVehicleDto
<1>2. Updates(CreateVehicleDto, UpdateVehicle)
  BY DayIs, InstantIs, MomentsAre, SMTT(60) DEF CreateVehicleDto, UpdateVehicle
<1>3. EditIsSent(VehicleForm, None, UpdateVehicle, {"engineSize"})
  BY DayIs, InstantIs, MomentsAre, SMTT(60) DEF VehicleForm, UpdateVehicle, CreateVehicleDto
<1>4. IsStored(CreateVehicleDto, UpdateVehicle, VehicleColumns, {"make", "model", "year", "licensePlate", "initialOdometerKm"})
  <2>1. \A f \in DOMAIN VehicleColumns : f \notin Happened /\ f \notin FilledIn /\ f \notin Warnings
    BY MomentsAre DEF VehicleColumns
  <2> QED BY <2>1, SMTT(60) DEF CreateVehicleDto, UpdateVehicle, VehicleColumns
<1>5. Reopens(None, CreateVehicleDto, VehicleColumns)
  BY DayIs, InstantIs, MomentsAre, SMTT(60) DEF CreateVehicleDto, VehicleColumns
<1> HIDE DEF NewIsSent, Updates, EditIsSent, IsStored, Reopens
<1> QED BY <1>1, <1>2, <1>3, <1>4, <1>5 DEF Agree

LEMMA AccountAgrees ==
  Agree(RegisterForm, ProfileForm, RegisterDto, UpdateProfile, UserColumns,
        {}, {})
BY DayIs, InstantIs, MomentsAre, SMTT(60) DEF Agree, RegisterForm, ProfileForm, RegisterDto, UpdateProfile, UserColumns

LEMMA LoginAgrees ==
  Agree(LoginForm, None, LoginDto, None, None,
        {"email", "password"}, {})
BY DayIs, InstantIs, MomentsAre, SMTT(60) DEF Agree, LoginForm, LoginDto

LEMMA PasswordAgrees ==
  Agree(ResetPasswordForm, None, ResetPasswordDto, None, None,
        {"password"}, {})
BY DayIs, InstantIs, MomentsAre, SMTT(60) DEF Agree, ResetPasswordForm, ResetPasswordDto

LEMMA ReadingAgrees ==
  Agree(ReadingForm, None, RecordReading, None, ReadingColumns,
        {"odometerKm"}, {})
BY DayIs, InstantIs, MomentsAre, SMTT(60) DEF Agree, ReadingForm, RecordReading, ReadingColumns

LEMMA DocumentAgrees ==
  Agree(AttachmentForm, None, RequestUpload, None, DocumentColumns,
        {}, {})
BY DayIs, InstantIs, MomentsAre, SMTT(60) DEF Agree, AttachmentForm, RequestUpload, DocumentColumns

HIDE DEF NewIsSent, NewField, Updates, UpdateField, EditIsSent, EditField, IsStored, Column,
        Reopens, Reopened, Tighter, IsRule, Fits, Default, Zero, Content, KmRule, Whole, Number, Text,
        AmountRule, Cost, Volume, Price, Money, Positive, OrNull, OrAbsent, LeavingOut, None, Null,
        Warnings, Last, BillionLess, MaxOdometer, Unlimited, IsDay, IsMoment

LEMMA TablesAgree ==
  ASSUME NEW which \in DOMAIN Form
  PROVE  AgreeOn(which)
<1>1. which \in {"expense", "fuel", "service", "schedule", "reminder", "vehicle",
                "account", "login", "password", "reading", "document"}
  BY DEF Form
<1>2. CASE which = "expense"
  <2>1. /\ Form[which].new = ExpenseForm /\ Form[which].edit = ExpenseForm
        /\ Form[which].create = CreateExpense /\ Form[which].update = UpdateExpense /\ Columns[which] = ExpenseColumns
    BY <1>2 DEF Form, Columns
  <2>2. /\ LooserIn(which) = {}
        /\ UnguardedIn(which) = {}
    BY <1>2 DEF LooserIn, UnguardedIn, Of, Looser, Unguarded, Chips
  <2> QED BY <2>1, <2>2, ExpenseAgrees DEF AgreeOn
<1>3. CASE which = "fuel"
  <2>1. /\ Form[which].new = FuelBoxRules /\ Form[which].edit = FuelBoxRules
        /\ Form[which].create = CreateFuel /\ Form[which].update = UpdateFuel /\ Columns[which] = FuelColumns
    BY <1>3 DEF Form, Columns
  <2>2. /\ LooserIn(which) = {"volumeLiters"}
        /\ UnguardedIn(which) = {"pricePerLiter"}
    BY <1>3 DEF LooserIn, UnguardedIn, Of, Looser, Unguarded, Chips
  <2> QED BY <2>1, <2>2, FuelAgrees DEF AgreeOn
<1>4. CASE which = "service"
  <2>1. /\ Form[which].new = RecordForm /\ Form[which].edit = RecordForm
        /\ Form[which].create = CreateRecord /\ Form[which].update = UpdateRecord /\ Columns[which] = RecordColumns
    BY <1>4 DEF Form, Columns
  <2>2. /\ LooserIn(which) = {}
        /\ UnguardedIn(which) = {"totalCost"}
    BY <1>4 DEF LooserIn, UnguardedIn, Of, Looser, Unguarded, Chips
  <2> QED BY <2>1, <2>2, ServiceAgrees DEF AgreeOn
<1>5. CASE which = "schedule"
  <2>1. /\ Form[which].new = ScheduleForm /\ Form[which].edit = ScheduleForm
        /\ Form[which].create = CreateSchedule /\ Form[which].update = UpdateSchedule /\ Columns[which] = ScheduleColumns
    BY <1>5 DEF Form, Columns
  <2>2. /\ LooserIn(which) = {"intervalKm", "intervalMonths"}
        /\ UnguardedIn(which) = {"notifyBeforeKm", "notifyBeforeDays"}
    BY <1>5 DEF LooserIn, UnguardedIn, Of, Looser, Unguarded, Chips
  <2> QED BY <2>1, <2>2, ScheduleAgrees DEF AgreeOn
<1>6. CASE which = "reminder"
  <2>1. /\ Form[which].new = ReminderForm /\ Form[which].edit = ReminderForm
        /\ Form[which].create = CreateReminder /\ Form[which].update = UpdateReminder /\ Columns[which] = ReminderColumns
    BY <1>6 DEF Form, Columns
  <2>2. /\ LooserIn(which) = {"dueOdometerKm", "repeatEveryMonths", "notifyBeforeDays"}
        /\ UnguardedIn(which) = {"notifyBeforeKm", "notifyBeforeDays"}
    BY <1>6 DEF LooserIn, UnguardedIn, Of, Looser, Unguarded, Chips
  <2> QED BY <2>1, <2>2, ReminderAgrees DEF AgreeOn
<1>7. CASE which = "vehicle"
  <2>1. /\ Form[which].new = VehicleForm /\ Form[which].edit = None
        /\ Form[which].create = CreateVehicleDto /\ Form[which].update = UpdateVehicle /\ Columns[which] = VehicleColumns
    BY <1>7 DEF Form, Columns
  <2>2. /\ LooserIn(which) = {"engineSize"}
        /\ UnguardedIn(which) = {"make", "model", "year", "licensePlate", "initialOdometerKm"}
    BY <1>7 DEF LooserIn, UnguardedIn, Of, Looser, Unguarded, Chips
  <2> QED BY <2>1, <2>2, VehicleAgrees DEF AgreeOn
<1>8. CASE which = "account"
  <2>1. /\ Form[which].new = RegisterForm /\ Form[which].edit = ProfileForm
        /\ Form[which].create = RegisterDto /\ Form[which].update = UpdateProfile /\ Columns[which] = UserColumns
    BY <1>8 DEF Form, Columns
  <2>2. /\ LooserIn(which) = {}
        /\ UnguardedIn(which) = {}
    BY <1>8 DEF LooserIn, UnguardedIn, Of, Looser, Unguarded, Chips
  <2> QED BY <2>1, <2>2, AccountAgrees DEF AgreeOn
<1>9. CASE which = "login"
  <2>1. /\ Form[which].new = LoginForm /\ Form[which].edit = None
        /\ Form[which].create = LoginDto /\ Form[which].update = None /\ Columns[which] = None
    BY <1>9 DEF Form, Columns
  <2>2. /\ LooserIn(which) = {"email", "password"}
        /\ UnguardedIn(which) = {}
    BY <1>9 DEF LooserIn, UnguardedIn, Of, Looser, Unguarded, Chips
  <2> QED BY <2>1, <2>2, LoginAgrees DEF AgreeOn
<1>10. CASE which = "password"
  <2>1. /\ Form[which].new = ResetPasswordForm /\ Form[which].edit = None
        /\ Form[which].create = ResetPasswordDto /\ Form[which].update = None /\ Columns[which] = None
    BY <1>10 DEF Form, Columns
  <2>2. /\ LooserIn(which) = {"password"}
        /\ UnguardedIn(which) = {}
    BY <1>10 DEF LooserIn, UnguardedIn, Of, Looser, Unguarded, Chips
  <2> QED BY <2>1, <2>2, PasswordAgrees DEF AgreeOn
<1>11. CASE which = "reading"
  <2>1. /\ Form[which].new = ReadingForm /\ Form[which].edit = None
        /\ Form[which].create = RecordReading /\ Form[which].update = None /\ Columns[which] = ReadingColumns
    BY <1>11 DEF Form, Columns
  <2>2. /\ LooserIn(which) = {"odometerKm"}
        /\ UnguardedIn(which) = {}
    BY <1>11 DEF LooserIn, UnguardedIn, Of, Looser, Unguarded, Chips
  <2> QED BY <2>1, <2>2, ReadingAgrees DEF AgreeOn
<1>12. CASE which = "document"
  <2>1. /\ Form[which].new = AttachmentForm /\ Form[which].edit = None
        /\ Form[which].create = RequestUpload /\ Form[which].update = None /\ Columns[which] = DocumentColumns
    BY <1>12 DEF Form, Columns
  <2>2. /\ LooserIn(which) = {}
        /\ UnguardedIn(which) = {}
    BY <1>12 DEF LooserIn, UnguardedIn, Of, Looser, Unguarded, Chips
  <2> QED BY <2>1, <2>2, DocumentAgrees DEF AgreeOn
<1> QED BY <1>1, <1>2, <1>3, <1>4, <1>5, <1>6, <1>7, <1>8, <1>9, <1>10, <1>11, <1>12

-----------------------------------------------------------------------------
\* Where the fields are that the records' own checks look at.
Placed(which) ==
  LET n == DOMAIN Form[which].new  e == DOMAIN Form[which].edit  s == DOMAIN Columns[which] IN
  /\ which \in {"schedule", "reminder", "service"} =>
       \A f \in Looked : (f \in n <=> f \in s) /\ (f \in e <=> f \in s)
  /\ Last \cap s # {} => which = "schedule" /\ Last \subseteq e
  /\ \A f \in {"intervalKm", "intervalMonths"} : f \in n \/ f \in e => which = "schedule"
  /\ which = "fuel" => {"totalCost", "volumeLiters", "pricePerLiter"} \subseteq s
  /\ which # "fuel" => "pricePerLiter" \notin s
  /\ which = "service" => "totalCost" \in s

LEMMA FieldsArePlaced == ASSUME NEW which \in DOMAIN Form PROVE Placed(which)
<1> USE DEF Placed, Looked, Last, Form, Columns
<1>1. CASE which = "expense"
  BY <1>1 DEF ExpenseForm, ExpenseColumns
<1>2. CASE which = "fuel"
  BY <1>2 DEF FuelBoxRules, FuelColumns
<1>3. CASE which = "service"
  BY <1>3 DEF RecordForm, RecordColumns
<1>4. CASE which = "schedule"
  BY <1>4 DEF ScheduleForm, ScheduleColumns
<1>5. CASE which = "reminder"
  BY <1>5 DEF ReminderForm, ReminderColumns
<1>6. CASE which = "vehicle"
  BY <1>6 DEF VehicleForm, VehicleColumns, None
<1>7. CASE which = "account"
  <2>1. DOMAIN Columns[which] = {"displayName", "email"}
    BY <1>7 DEF UserColumns
  <2> QED BY <1>7, <2>1 DEF RegisterForm, ProfileForm
<1>8. CASE which \in {"login", "password"}
  BY <1>8 DEF None, LoginForm, ResetPasswordForm
<1>9. CASE which = "reading"
  BY <1>9 DEF None, ReadingForm, ReadingColumns
<1>10. CASE which = "document"
  BY <1>10 DEF None, AttachmentForm, DocumentColumns
<1> QED BY <1>1, <1>2, <1>3, <1>4, <1>5, <1>6, <1>7, <1>8, <1>9, <1>10

LEMMA ChipsFit ==
  ASSUME NEW f \in DOMAIN Chips, NEW v \in Chips[f]
  PROVE  Fits(CreateReminder[f], Content(ReminderForm[f], v, 0))
BY DEF Chips, CreateReminder, ReminderForm, Fits, Content, Number, Whole, Text, OrNull, Unlimited

\* The next request is one the bounds allow.
Clock == desk.sent \in Nat /\ desk.sent < MaxSent

LEMMA NullAndZero ==
  /\ IsContent(Null) /\ IsContent(Zero) /\ IsContent(Zeros) /\ Zero # Null /\ Zero # Zeros
  /\ Null.is = "nothing" /\ Zeros.is = "zeros" /\ Zeros # Null
  /\ \A r, v, p : /\ Content(r, v, p).is = r.is /\ Content(r, v, p).value = v /\ Content(r, v, p).places = p
                  /\ p \in Int => IsContent(Content(r, v, p))
BY DEF Null, Zero, Zeros, Content, KmRule, Whole, Number, IsContent

LEMMA DefaultsAre ==
  /\ DOMAIN Default = {"initialOdometerKm", "name", "notifyBeforeKm", "notifyBeforeDays"} \cup Happened
  /\ \A f \in Happened : Default[f] = Now
  /\ \A f \in DOMAIN Default \ Happened : IsContent(Default[f]) /\ Default[f] # Null
  /\ FilledIn \subseteq DOMAIN Default
<1> USE DEF Default
<1>1. \A f \in {"initialOdometerKm", "name", "notifyBeforeKm", "notifyBeforeDays"} :
        IsContent(Default[f]) /\ Default[f] # Null
  BY DEF Content, KmRule, Whole, Number, Text, Null, IsContent
<1>2. DOMAIN Default = {"initialOdometerKm", "name", "notifyBeforeKm", "notifyBeforeDays"} \cup Happened
  BY DEF Happened
<1>3. \A f \in Happened : Default[f] = Now
  BY DEF Happened
<1> HIDE DEF Default
<1> QED BY <1>1, <1>2, <1>3 DEF FilledIn

\* A value that fits is neither an empty box nor a zero the form lets by.
LEMMA FitsIs ==
  ASSUME NEW r, NEW v, Fits(r, v)
  PROVE  /\ IsRule(r) => v # Null /\ v # Zeros
         /\ IsDay(r) => Fits(Day, v)
         /\ IsMoment(r) => Fits(Instant, v)
BY NullAndZero, DayIs, InstantIs DEF Fits, IsRule, IsDay, IsMoment

LEMMA FitsDay ==
  ASSUME NEW r, NEW v
  PROVE  /\ IsDay(r) /\ Fits(Day, v) => Fits(r, v)
         /\ IsMoment(r) /\ Fits(Instant, v) => Fits(r, v)
         /\ Fits(Day, v) \/ Fits(Instant, v) => v # Null /\ v # Zeros
BY NullAndZero, DayIs, InstantIs DEF Fits, IsDay, IsMoment

LEMMA NowIs ==
  ASSUME Clock
  PROVE  IsContent(Now) /\ Fits(Instant, Now) /\ Now # Null /\ Now.value = 1
<1>1. Now.is = "instant" /\ Now.value = 1 /\ Now.places = desk.sent + 1 /\ IsContent(Now)
  <2>1. PICK p : p = desk.sent + 1
    OBVIOUS
  <2>2. p \in Int
    BY <2>1 DEF Clock
  <2>3. Now = Content(Instant, 1, p)
    BY <2>1 DEF Now, Today
  <2> QED BY <2>1, <2>2, <2>3, NullAndZero, InstantIs
<1>2. desk.sent + 1 <= Unlimited /\ 0 <= desk.sent + 1
  <2>1. Unlimited \in Nat
    BY SMTT(20) DEF Unlimited
  <2> QED BY <2>1, FormsAssumption, SMTT(20) DEF Clock
<1> QED BY <1>1, <1>2, InstantIs, NullAndZero DEF Fits

\* A day picked, as it is sent; a moment stored, as it is shown.
LEMMA PickedIs ==
  ASSUME Clock, NEW day
  PROVE  LET moment == IncurredAtFromDate(day) IN
         /\ IsContent(moment)
         /\ day = Null => moment = Null
         /\ day # Null => moment # Null
         /\ Fits(Day, day) => Fits(Instant, moment) /\ moment.value = day.value
<1> DEFINE moment == IncurredAtFromDate(day)
           midday == Content(Instant, day.value, 0)
<1>1. moment = IF day = Null THEN Null ELSE IF day.value = 1 THEN Now ELSE midday
  BY DEF IncurredAtFromDate, Today
<1>2. midday.is = "instant" /\ midday.value = day.value /\ midday.places = 0 /\ IsContent(midday)
  BY NullAndZero, InstantIs
<1>3. midday # Null
  BY <1>2, NullAndZero
<1>4. Fits(Day, day) => Fits(Instant, midday)
  BY <1>2, DayIs, InstantIs, SMTT(20) DEF Fits, Unlimited
<1> HIDE DEF moment, midday
<1>5. /\ IsContent(moment)
      /\ day = Null => moment = Null
      /\ day # Null => moment # Null
  BY <1>1, <1>2, <1>3, NowIs, NullAndZero
<1>6. Fits(Day, day) => Fits(Instant, moment) /\ moment.value = day.value
  BY <1>1, <1>2, <1>4, NowIs, FitsDay
<1> QED BY <1>5, <1>6 DEF moment

LEMMA ShownIsDay ==
  ASSUME NEW moment
  PROVE  LET day == DateInputValue(moment) IN
         /\ IsContent(day)
         /\ moment = Null => day = Null
         /\ moment # Null => day # Null /\ day = Content(Day, moment.value, 0) /\ day.value = moment.value
         /\ Fits(Instant, moment) => Fits(Day, day)
<1> DEFINE day == DateInputValue(moment)
           at == Content(Day, moment.value, 0)
<1>1. day = IF moment = Null THEN Null ELSE at
  BY DEF DateInputValue
<1>2. at.is = "day" /\ at.value = moment.value /\ at.places = 0 /\ IsContent(at)
  BY NullAndZero, DayIs
<1>3. Fits(Instant, moment) => Fits(Day, at) /\ moment # Null
  BY <1>2, DayIs, InstantIs, FitsDay DEF Fits
<1>4. at # Null
  BY <1>2, NullAndZero
<1> HIDE DEF at, day
<1>5. /\ IsContent(day)
      /\ moment = Null => day = Null
      /\ moment # Null => day # Null /\ day = at /\ day.value = moment.value
      /\ Fits(Instant, moment) => Fits(Day, day)
  BY <1>1, <1>2, <1>3, <1>4, NullAndZero
<1> QED BY <1>5 DEF day, at

\* A box, as it is sent.
LEMMA SentIs ==
  ASSUME NEW f, NEW content
  PROVE  /\ content = Zeros => Sent(f, content) = Zero
         /\ f \in Warnings /\ content = Null => Sent(f, content) = Zero
         /\ f \in Moments /\ content # Zeros => Sent(f, content) = IncurredAtFromDate(content)
         /\ f \notin Moments /\ f \notin Warnings /\ content # Zeros => Sent(f, content) = content
         /\ f \notin Moments /\ content # Null /\ content # Zeros => Sent(f, content) = content
<1>1. f \in Moments => f \notin Warnings
  BY MomentsAre DEF Warnings
<1> QED BY <1>1, NullAndZero DEF Sent, Warnings, Zero

-----------------------------------------------------------------------------
\* A stored row: its fields are what the API takes, null only where the column
\* may be, a fill's price is worked out, and the record's own check holds.
RowOk(which, row) ==
  LET s == Columns[which]  c == Form[which].create IN
  /\ row = [f \in DOMAIN s |-> row[f]]
  /\ \A f \in DOMAIN s :
       /\ IsContent(row[f])
       /\ row[f] = Null => s[f].may = "null"
       /\ row[f] # Null /\ f # "pricePerLiter" => Fits(c[f], row[f])
  /\ which = "fuel" => row["pricePerLiter"] = WholePrice(row)
  /\ Coherent(which, row)

OpenedIn(which, row) ==
  [f \in DOMAIN Form[which].edit |->
     IF f \in Last /\ ~KnowsLast(row) THEN Null
     ELSE IF f \in Moments THEN DateInputValue(row[f]) ELSE row[f]]

\* The boxes of a form that is open; what chips give, the API takes.
BoxesOk(which, rules, boxes) ==
  /\ boxes = [f \in DOMAIN rules |-> boxes[f]]
  /\ \A f \in DOMAIN rules :
       /\ IsContent(boxes[f])
       /\ which = "reminder" /\ f \in DOMAIN Chips /\ boxes[f] # Null => Fits(CreateReminder[f], boxes[f])

AmongIn(which, fields, table) == which \in DOMAIN table /\ fields # {} /\ fields \subseteq table[which]

\* The moment in its row is another one of the same day.
Redone(moment, row) ==
  /\ DateInputValue(row["lastServiceAt"]) = DateInputValue(moment)
  /\ moment.value = Today \/ moment.places # 0

Forgotten(which, row, forgot) ==
  /\ which = "schedule"
  /\ \/ Given(forgot, "lastServiceOdometerKm") /\ forgot["lastServiceOdometerKm"].value = 0
     \/ DOMAIN forgot = {"lastServiceAt"} /\ Redone(forgot["lastServiceAt"], row)

\* A form is open for a new record or for the stored one, which an untouched
\* edit still shows.
OpenOk(d) ==
  \/ d.open = "no"
  \/ d.open = "new" /\ d.row = None /\ BoxesOk(d.form, Form[d.form].new, d.boxes)
  \/ /\ d.open = "edit" /\ d.row # None /\ Form[d.form].edit # None
     /\ BoxesOk(d.form, Form[d.form].edit, d.boxes)
     /\ d.touched = 0 => d.boxes = OpenedIn(d.form, d.row)

SaysOk(d) ==
  /\ d.says = "400" /\ d.by = "form" => AmongIn(d.form, d.offends, Looser)
  /\ d.says = "500" => AmongIn(d.form, d.offends, Unguarded)
  /\ d.forgot # None => Forgotten(d.form, d.row, d.forgot)

FormsOk(d) ==
  /\ d = [kind |-> "form", form |-> d.form, row |-> d.row, open |-> d.open, boxes |-> d.boxes,
          touched |-> d.touched, sent |-> d.sent, by |-> d.by, says |-> d.says,
          offends |-> d.offends, forgot |-> d.forgot]
  /\ d.form \in DOMAIN Form /\ d.touched \in Nat /\ d.sent \in Nat
  /\ d.row = None \/ RowOk(d.form, d.row)
  /\ OpenOk(d)
  /\ SaysOk(d)

\* What FormsAgree rests on.
FormsInv == FormsOk(desk)

-----------------------------------------------------------------------------
\* What a row holds of a field after a payload, but for a fill's price.
MergedField(payload, f) ==
  IF f \in DOMAIN payload /\ (f \in FilledIn => payload[f] # Null) THEN payload[f]
  ELSE IF f \in DOMAIN desk.row THEN desk.row[f]
  ELSE IF f \in DOMAIN Default /\ Columns[desk.form][f].may = "absent" THEN Default[f]
  ELSE Null

LEMMA MergedIs ==
  ASSUME FormsInv, NEW payload
  PROVE  LET row == Merged(payload) IN
         /\ row = [f \in DOMAIN Columns[desk.form] |-> row[f]]
         /\ \A f \in DOMAIN Columns[desk.form] \ {"pricePerLiter"} : row[f] = MergedField(payload, f)
         /\ desk.form = "fuel" => row["pricePerLiter"] = WholePrice(row)
<1> DEFINE s == Columns[desk.form]
           plain == [f \in DOMAIN s |-> MergedField(payload, f)]
<1>1. PICK row : row = Merged(payload)
  OBVIOUS
<1>2. row = IF desk.form = "fuel" THEN [plain EXCEPT !["pricePerLiter"] = WholePrice(plain)] ELSE plain
  BY <1>1 DEF Merged, MergedField
<1>3. Placed(desk.form)
  BY FieldsArePlaced DEF FormsInv, FormsOk
<1>4. ASSUME desk.form = "fuel"
      PROVE  /\ \A f \in DOMAIN s \ {"pricePerLiter"} : row[f] = plain[f]
             /\ row["pricePerLiter"] = WholePrice(row)
  <2>1. {"totalCost", "volumeLiters", "pricePerLiter"} \subseteq DOMAIN s
    BY <1>3, <1>4 DEF Placed
  <2>2. /\ \A f \in DOMAIN s \ {"pricePerLiter"} : row[f] = plain[f]
        /\ row["pricePerLiter"] = WholePrice(plain)
    BY <1>2, <1>4, <2>1
  <2>3. WholePrice(row) = WholePrice(plain)
    BY <2>1, <2>2 DEF WholePrice
  <2> QED BY <2>2, <2>3
<1>5. row = [f \in DOMAIN s |-> row[f]]
  BY <1>2
<1>6. \A f \in DOMAIN s \ {"pricePerLiter"} : row[f] = MergedField(payload, f)
  BY <1>2, <1>4
<1> QED BY <1>1, <1>4, <1>5, <1>6

Dto == IF desk.row = None THEN Form[desk.form].create ELSE Form[desk.form].update

LEMMA NoneIs == DOMAIN None = {} /\ \A g : DOMAIN g = {} /\ g = [f \in DOMAIN g |-> g[f]] => g = None
BY DEF None

LEMMA RowIs ==
  ASSUME FormsInv
  PROVE  desk.row # None => RowOk(desk.form, desk.row) /\ DOMAIN desk.row = DOMAIN Columns[desk.form]
BY DEF FormsInv, FormsOk, RowOk

\* What a row holds after a payload the API let in.
LEMMA MergedFits ==
  ASSUME FormsInv, Clock, NEW payload, \A f \in DOMAIN payload : IsContent(payload[f]),
         Refused(Dto, payload) = {}, NEW f \in DOMAIN Columns[desk.form], f # "pricePerLiter"
  PROVE  LET v == MergedField(payload, f) IN
         /\ IsContent(v)
         /\ v # Null => Fits(Form[desk.form].create[f], v)
         /\ v = Null => Columns[desk.form][f].may = "null" \/ f \in UnguardedIn(desk.form)
<1> DEFINE s == Columns[desk.form]
           c == Form[desk.form].create
           u == Form[desk.form].update
           v == MergedField(payload, f)
<1>1. desk.form \in DOMAIN Form
  BY DEF FormsInv, FormsOk
<1>2. Column(f, c, u, s, UnguardedIn(desk.form))
  BY <1>1, TablesAgree DEF AgreeOn, Agree, IsStored
<1>3. f \in DOMAIN u => UpdateField(f, c, u)
  BY <1>1, TablesAgree DEF AgreeOn, Agree, Updates
<1>4. f \in DOMAIN payload => f \in DOMAIN Dto /\ ~Breaks(Dto[f], payload[f])
  BY DEF Refused
<1>5. f \in DOMAIN Dto \ DOMAIN payload => Dto[f].may # "need"
  BY DEF Refused
<1> HIDE DEF s, c, u
<1>6. CASE f \in DOMAIN payload /\ (f \in FilledIn => payload[f] # Null)
  <2>1. v = payload[f]
    BY <1>6 DEF MergedField
  <2>2. CASE desk.row = None
    <3>1. Dto = c
      BY <2>2 DEF Dto, c
    <3> QED BY <1>2, <1>4, <1>6, <2>1, <3>1 DEF Column, Breaks, s, c
  <2>3. CASE desk.row # None
    <3>1. Dto = u
      BY <2>3 DEF Dto, u
    <3>2. v # Null => Fits(u[f], v)
      BY <1>4, <1>6, <2>1, <3>1 DEF Breaks
    <3>3. v # Null => Fits(c[f], v)
      BY <1>3, <1>4, <1>6, <2>1, <3>1, <3>2, TighterFits DEF UpdateField
    <3> QED BY <1>2, <1>4, <1>6, <2>1, <3>1, <3>3 DEF Column, Breaks, s, c
  <2> QED BY <2>2, <2>3
<1>7. CASE ~(f \in DOMAIN payload /\ (f \in FilledIn => payload[f] # Null)) /\ f \in DOMAIN desk.row
  <2>1. v = desk.row[f] /\ desk.row # None
    BY <1>7, NoneIs DEF MergedField
  <2> QED BY <2>1, RowIs DEF RowOk, s, c
<1>8. CASE /\ ~(f \in DOMAIN payload /\ (f \in FilledIn => payload[f] # Null)) /\ f \notin DOMAIN desk.row
           /\ f \in DOMAIN Default /\ s[f].may = "absent"
  <2>1. v = Default[f]
    BY <1>8 DEF MergedField, s
  <2>2. CASE f \in Happened
    BY <1>2, <2>1, <2>2, DefaultsAre, NowIs, FitsDay DEF Column, c
  <2>3. CASE f \notin Happened
    BY <1>2, <1>8, <2>1, <2>3, DefaultsAre DEF Column, c
  <2> QED BY <2>2, <2>3
<1>9. CASE /\ ~(f \in DOMAIN payload /\ (f \in FilledIn => payload[f] # Null)) /\ f \notin DOMAIN desk.row
           /\ ~(f \in DOMAIN Default /\ s[f].may = "absent")
  <2>1. v = Null
    BY <1>9 DEF MergedField, s
  <2>2. desk.row = None
    BY <1>9, RowIs
  <2>3. Dto = c
    BY <2>2 DEF Dto, c
  <2>4. f \notin FilledIn
    BY <1>2, <1>9, DefaultsAre DEF Column
  <2>5. c[f].may # "need"
    BY <1>2, <1>5, <1>9, <2>3, <2>4 DEF Column
  <2> QED BY <1>2, <1>9, <2>1, <2>5, NullAndZero DEF Column, s
<1> QED BY <1>6, <1>7, <1>8, <1>9

\* What the API has let in and the services have checked fits the table, but
\* for the fields that nothing guards.
LEMMA UnstorableIs ==
  ASSUME FormsInv, Clock, NEW payload, \A f \in DOMAIN payload : IsContent(payload[f]),
         Refused(Dto, payload) = {}, Coherent(desk.form, Merged(payload))
  PROVE  Unstorable(desk.form, Merged(payload)) \subseteq Of(Unguarded, desk.form)
<1> DEFINE s == Columns[desk.form]
           c == Form[desk.form].create
<1>1. PICK row : row = Merged(payload)
  OBVIOUS
<1>2. SUFFICES ASSUME NEW f \in DOMAIN row, Breaks(s[f], row[f])
               PROVE  f \in Of(Unguarded, desk.form)
  BY <1>1 DEF Unstorable
<1>3. desk.form \in DOMAIN Form /\ f \in DOMAIN s
  BY <1>1, MergedIs DEF FormsInv, FormsOk
<1>4. Column(f, c, Form[desk.form].update, s, UnguardedIn(desk.form)) /\ Placed(desk.form)
  BY <1>3, TablesAgree, FieldsArePlaced DEF AgreeOn, Agree, IsStored
<1>5. CASE f = "pricePerLiter"
  BY <1>3, <1>4, <1>5 DEF Placed, Of, Unguarded
<1>6. \A g \in DOMAIN s \ {"pricePerLiter"} :
        LET v == MergedField(payload, g) IN
        /\ IsContent(v)
        /\ v # Null => Fits(c[g], v)
        /\ v = Null => s[g].may = "null" \/ g \in UnguardedIn(desk.form)
  BY MergedFits
<1>7. CASE f # "pricePerLiter"
  <2>1. row[f] = MergedField(payload, f)
    BY <1>1, <1>3, <1>7, MergedIs
  <2> DEFINE v == MergedField(payload, f)
  <2>2. IsContent(v) /\ (v # Null => Fits(c[f], v))
        /\ (v = Null => s[f].may = "null" \/ f \in UnguardedIn(desk.form))
    BY <1>3, <1>7, <1>6
  <2>3. row[f] = Null /\ f \in UnguardedIn(desk.form)
    BY <1>2, <1>4, <2>1, <2>2, TighterFits DEF Column, Breaks
  <2>4. desk.form = "service" => f # "totalCost"
    BY <1>1, <2>3 DEF Coherent, HasCost, Given
  <2> QED BY <2>3, <2>4 DEF UnguardedIn
<1> QED BY <1>5, <1>7

\* A row that was saved is one the forms can open.
LEMMA SavedIs ==
  ASSUME FormsInv, Clock, NEW payload, \A f \in DOMAIN payload : IsContent(payload[f]),
         Refused(Dto, payload) = {}, Coherent(desk.form, Merged(payload)),
         Unstorable(desk.form, Merged(payload)) = {}
  PROVE  RowOk(desk.form, Merged(payload))
<1> DEFINE s == Columns[desk.form]
           c == Form[desk.form].create
<1>1. PICK row : row = Merged(payload)
  OBVIOUS
<1>2. /\ row = [f \in DOMAIN s |-> row[f]]
      /\ \A f \in DOMAIN s \ {"pricePerLiter"} : row[f] = MergedField(payload, f)
      /\ desk.form = "fuel" => row["pricePerLiter"] = WholePrice(row)
  BY <1>1, MergedIs
<1>3. \A f \in DOMAIN s : ~Breaks(s[f], row[f])
  BY <1>1, <1>2 DEF Unstorable
<1>4. \A f \in DOMAIN s : row[f] = Null => s[f].may = "null"
  BY <1>3 DEF Breaks
<1>5. \A f \in DOMAIN s \ {"pricePerLiter"} :
        IsContent(row[f]) /\ (row[f] # Null => Fits(c[f], row[f]))
  BY <1>2, MergedFits
<1>6. "pricePerLiter" \in DOMAIN s => IsContent(row["pricePerLiter"])
  <2>1. "pricePerLiter" \in DOMAIN s => desk.form = "fuel"
    BY FieldsArePlaced DEF Placed, FormsInv, FormsOk
  <2>2. IsContent(WholePrice(row))
    BY NullAndZero DEF WholePrice
  <2>3. desk.form = "fuel" => row["pricePerLiter"] = WholePrice(row)
    BY <1>2
  <2> HIDE DEF s
  <2> QED BY <2>1, <2>2, <2>3
<1>7. \A f \in DOMAIN s : IsContent(row[f])
  BY <1>5, <1>6
<1> QED BY <1>1, <1>2, <1>4, <1>5, <1>7 DEF RowOk

-----------------------------------------------------------------------------
\* A stored row opens in its form as something the form takes.
LEMMA SameSense ==
  ASSUME NEW which, NEW a, NEW b,
         which \in {"schedule", "reminder", "service"} => \A f \in Looked : Given(a, f) <=> Given(b, f),
         Coherent(which, a)
  PROVE  Coherent(which, b)
BY DEF Coherent, HasInterval, HasDuePoint, HasCost, Looked

LEMMA OpenedIsAccepted ==
  ASSUME NEW which \in DOMAIN Form, NEW row, RowOk(which, row)
  PROVE  FormAccepts(which, Form[which].edit, OpenedIn(which, row))
<1> DEFINE e == Form[which].edit
           s == Columns[which]
           c == Form[which].create
           boxes == OpenedIn(which, row)
<1>1. Placed(which) /\ Reopens(e, c, s)
  BY TablesAgree, FieldsArePlaced DEF AgreeOn, Agree
<1>2. ASSUME NEW f \in DOMAIN e PROVE ~Breaks(e[f], boxes[f])
  <2>1. Reopened(f, e, c, s)
    BY <1>1 DEF Reopens
  <2>2. boxes[f] = IF f \in Last /\ ~KnowsLast(row) THEN Null
                   ELSE IF f \in Moments THEN DateInputValue(row[f]) ELSE row[f]
    BY DEF OpenedIn
  <2>3. IsContent(row[f]) /\ (row[f] = Null => s[f].may = "null")
        /\ (row[f] # Null => Fits(c[f], row[f]))
    BY <2>1 DEF RowOk, Reopened
  <2>4. f \notin Moments /\ row[f] # Null => Fits(e[f], row[f])
    BY <2>1, <2>3, TighterFits DEF Reopened
  <2>5. f \in Moments /\ row[f] # Null => Fits(e[f], DateInputValue(row[f]))
    BY <2>1, <2>3, FitsIs, FitsDay, ShownIsDay DEF Reopened
  <2>6. /\ row[f] = Null => DateInputValue(row[f]) = Null
        /\ row[f] # Null => DateInputValue(row[f]) # Null
    BY ShownIsDay
  <2> HIDE DEF boxes, e, s, c
  <2> QED BY <2>1, <2>2, <2>3, <2>4, <2>5, <2>6 DEF Reopened, Breaks
<1>3. which \in {"schedule", "reminder", "service"} => \A f \in Looked : Given(row, f) <=> Given(boxes, f)
  <2>1. \A f \in DOMAIN e : f \in Looked => boxes[f] = row[f]
    BY MomentsAre DEF OpenedIn, Looked, Last
  <2>2. DOMAIN boxes = DOMAIN e /\ DOMAIN row = DOMAIN s
    BY DEF OpenedIn, RowOk
  <2> QED BY <1>1, <2>1, <2>2 DEF Placed, Given
<1>4. Coherent(which, boxes)
  BY <1>3, SameSense DEF RowOk
<1> QED BY <1>2, <1>4 DEF FormAccepts

-----------------------------------------------------------------------------
\* What a form sends.
LEMMA BodyIs ==
  /\ DOMAIN Body = {f \in DOMAIN desk.boxes : ~LeftOut(f)}
  /\ \A f \in DOMAIN Body : Body[f] = Sent(f, desk.boxes[f])
BY DEF Body

\* The boxes where zeros are let by are a schedule's.
LEMMA ZerosAreLooser ==
  ASSUME NEW which \in DOMAIN Form, NEW f, NEW content, TakesZeros(f, content),
         f \in DOMAIN Form[which].new \/ f \in DOMAIN Form[which].edit
  PROVE  content = Zeros /\ f \in Of(Looser, which)
<1>1. content = Zeros /\ f \in {"intervalKm", "intervalMonths"}
  BY DEF TakesZeros
<1>2. which = "schedule"
  BY <1>1, FieldsArePlaced DEF Placed
<1> QED BY <1>1, <1>2 DEF Of, Looser

\* What a form takes, the API takes, but for the fields where the form is
\* known to be looser.
LEMMA NewIsTaken ==
  ASSUME FormsInv, Clock, desk.open = "new", FormAccepts(desk.form, Mine.new, desk.boxes)
  PROVE  Refused(Dto, Body) \subseteq Of(Looser, desk.form)
<1> DEFINE n == Form[desk.form].new
           c == Form[desk.form].create
<1>1. desk.form \in DOMAIN Form /\ desk.row = None /\ BoxesOk(desk.form, n, desk.boxes)
  BY DEF FormsInv, FormsOk, OpenOk
<1>2. NewIsSent(n, c, LooserIn(desk.form)) /\ Dto = c
  BY <1>1, TablesAgree DEF AgreeOn, Agree, Dto
<1>3. \A f \in DOMAIN n : TakesZeros(f, desk.boxes[f]) \/ ~Breaks(n[f], desk.boxes[f])
  BY DEF FormAccepts, Mine
<1>4. ASSUME NEW f \in DOMAIN Body, f \notin Of(Looser, desk.form)
      PROVE  f \in DOMAIN c /\ ~Breaks(c[f], Body[f])
  <2> DEFINE box == desk.boxes[f]
  <2>1. f \in DOMAIN n /\ NewField(f, n, c, LooserIn(desk.form)) /\ IsContent(box)
    BY <1>1, <1>2, BodyIs DEF NewIsSent, BoxesOk
  <2>2. ~Breaks(n[f], box)
    BY <1>1, <1>3, <1>4, <2>1, ZerosAreLooser
  <2>3. Body[f] = Sent(f, box) /\ Body[f] # Null
    BY BodyIs DEF LeftOut
  <2>4. box # Null => Fits(n[f], box) /\ box # Zeros
    BY <2>1, <2>2, FitsIs DEF Breaks, NewField
  <2> HIDE DEF box, n, c
  <2>5. CASE f \in Warnings /\ box = Null
    <3>1. Body[f] = Zero
      BY <2>3, <2>5, SentIs
    <3> QED BY <2>1, <2>5, <3>1, NullAndZero DEF NewField, Breaks
  <2>6. CASE f \in Moments
    <3>1. box # Zeros
      BY <2>4, NullAndZero
    <3>2. Body[f] = IncurredAtFromDate(box)
      BY <2>3, <2>6, <3>1, SentIs
    <3>3. box # Null
      BY <2>3, <3>2, PickedIs
    <3>4. Fits(c[f], Body[f])
      BY <2>1, <2>4, <2>6, <3>2, <3>3, FitsIs, FitsDay, PickedIs DEF NewField
    <3> QED BY <2>1, <2>3, <3>4 DEF NewField, Breaks
  <2>7. CASE ~(f \in Warnings /\ box = Null) /\ f \notin Moments
    <3>1. box # Null /\ Body[f] = box
      <4>1. box # Zeros
        BY <2>4, NullAndZero
      <4> QED BY <2>3, <2>7, <4>1, SentIs
    <3>2. Fits(n[f], Body[f]) /\ IsContent(Body[f])
      BY <2>1, <2>4, <3>1
    <3>3. CASE f \in LooserIn(desk.form)
      <4>1. desk.form = "reminder" /\ f \in DOMAIN Chips
        BY <1>4, <3>3 DEF LooserIn
      <4>2. Fits(CreateReminder[f], Body[f]) /\ c = CreateReminder
        BY <1>1, <2>1, <3>1, <4>1 DEF BoxesOk, Form, box, n, c
      <4> QED BY <2>1, <2>3, <4>2 DEF Breaks, NewField
    <3>4. CASE f \notin LooserIn(desk.form)
      BY <2>1, <2>3, <2>7, <3>2, <3>4, TighterFits DEF NewField, Breaks
    <3> QED BY <3>3, <3>4
  <2> QED BY <2>5, <2>6, <2>7
<1>5. ASSUME NEW f \in DOMAIN c \ DOMAIN Body PROVE c[f].may # "need"
  <2>1. SUFFICES ASSUME f \in DOMAIN n, n[f].may # "null" PROVE FALSE
    BY <1>2 DEF NewIsSent
  <2> DEFINE box == desk.boxes[f]
  <2>2. box # Null /\ f \in DOMAIN desk.boxes
    BY <1>1, <1>3, <2>1, NullAndZero DEF Breaks, BoxesOk, TakesZeros
  <2>3. Sent(f, box) = Null
    BY <1>5, <2>2, BodyIs DEF LeftOut
  <2> HIDE DEF box
  <2> QED BY <2>2, <2>3, SentIs, PickedIs, NullAndZero
<1> QED BY <1>2, <1>4, <1>5 DEF Refused

LEMMA EditIsTaken ==
  ASSUME FormsInv, Clock, desk.open = "edit", FormAccepts(desk.form, Mine.edit, desk.boxes)
  PROVE  Refused(Dto, Body) \subseteq Of(Looser, desk.form)
<1> DEFINE e == Form[desk.form].edit
           n == Form[desk.form].new
           c == Form[desk.form].create
           u == Form[desk.form].update
<1>1. desk.form \in DOMAIN Form /\ desk.row # None /\ BoxesOk(desk.form, e, desk.boxes)
  BY DEF FormsInv, FormsOk, OpenOk
<1>2. /\ EditIsSent(n, e, u, LooserIn(desk.form)) /\ NewIsSent(n, c, LooserIn(desk.form))
      /\ Updates(c, u) /\ Dto = u
  BY <1>1, TablesAgree DEF AgreeOn, Agree, Dto
<1>3. \A f \in DOMAIN e : TakesZeros(f, desk.boxes[f]) \/ ~Breaks(e[f], desk.boxes[f])
  BY DEF FormAccepts, Mine
<1>4. ASSUME NEW f \in DOMAIN Body, f \notin Of(Looser, desk.form)
      PROVE  f \in DOMAIN u /\ ~Breaks(u[f], Body[f])
  <2> DEFINE box == desk.boxes[f]
  <2>1. f \in DOMAIN e /\ EditField(f, n, e, u, LooserIn(desk.form)) /\ IsContent(box)
    BY <1>1, <1>2, BodyIs DEF EditIsSent, BoxesOk
  <2>2. f \in DOMAIN u /\ UpdateField(f, c, u) /\ NewField(f, n, c, LooserIn(desk.form))
    BY <1>2, <2>1 DEF EditField, Updates, NewIsSent
  <2>3. ~Breaks(e[f], box)
    BY <1>1, <1>3, <1>4, <2>1, ZerosAreLooser
  <2>4. Body[f] = Sent(f, box)
    BY BodyIs
  <2>5. box # Null => Fits(e[f], box)
    BY <2>3 DEF Breaks
  <2>6. box # Zeros
    <3>1. f \in Moments => box = Null \/ Fits(Day, box)
      BY <2>1, <2>5, FitsIs DEF EditField
    <3>2. f \notin Moments /\ f \notin LooserIn(desk.form) => IsRule(e[f])
      BY <2>1 DEF EditField, Tighter
    <3>3. CASE f \in LooserIn(desk.form) /\ f \notin Of(Looser, desk.form)
      <4>1. desk.form = "reminder" /\ f \in DOMAIN Chips
        BY <3>3 DEF LooserIn
      <4>2. box # Null => Fits(c[f], box)
        BY <1>1, <2>1, <4>1 DEF BoxesOk, Form
      <4> QED BY <2>2, <4>2, FitsIs, NullAndZero DEF NewField
    <3> QED BY <1>4, <2>5, <3>1, <3>2, <3>3, FitsIs, FitsDay, NullAndZero
  <2> HIDE DEF box, e, n, c, u
  <2>7. CASE f \in Warnings /\ box = Null
    <3>1. Body[f] = Zero
      BY <2>4, <2>7, SentIs
    <3>2. Fits(u[f], Zero)
      BY <2>2, <2>7, TighterFits, NullAndZero DEF NewField, UpdateField
    <3> QED BY <2>2, <3>1, <3>2, NullAndZero DEF Breaks
  <2>8. CASE f \notin Warnings /\ box = Null
    <3>1. Body[f] = Null
      BY <2>4, <2>6, <2>8, SentIs, PickedIs
    <3>2. e[f].may = "null"
      BY <2>3, <2>8 DEF Breaks
    <3> QED BY <2>1, <2>8, <3>1, <3>2 DEF EditField, Breaks
  <2>9. CASE f \in Moments /\ box # Null
    <3>1. Body[f] = IncurredAtFromDate(box)
      BY <2>4, <2>6, <2>9, SentIs
    <3>2. Fits(Instant, Body[f]) /\ IsContent(Body[f]) /\ Body[f] # Null
      BY <2>1, <2>5, <2>9, <3>1, FitsIs, PickedIs DEF EditField
    <3>3. Fits(c[f], Body[f])
      BY <2>2, <2>9, <3>2, FitsDay DEF NewField
    <3> QED BY <2>2, <3>2, <3>3, TighterFits DEF UpdateField, Breaks
  <2>10. CASE f \notin Moments /\ box # Null
    <3>1. Body[f] = box
      BY <2>4, <2>6, <2>10, SentIs
    <3>2. CASE f \in LooserIn(desk.form)
      <4>1. desk.form = "reminder" /\ f \in DOMAIN Chips
        BY <1>4, <3>2 DEF LooserIn
      <4>2. Fits(c[f], Body[f])
        BY <1>1, <2>1, <2>10, <3>1, <4>1 DEF BoxesOk, Form, box, e, c
      <4> QED BY <2>1, <2>2, <2>10, <3>1, <4>2, TighterFits DEF UpdateField, Breaks
    <3>3. CASE f \notin LooserIn(desk.form)
      BY <2>1, <2>5, <2>10, <3>1, <3>3, TighterFits DEF EditField, Breaks
    <3> QED BY <3>2, <3>3
  <2> QED BY <2>7, <2>8, <2>9, <2>10
<1>5. \A f \in DOMAIN u : u[f].may # "need"
  BY <1>2 DEF Updates, UpdateField
<1> QED BY <1>2, <1>4, <1>5 DEF Refused

\* What the form's own check found coherent, the service finds coherent.
LEMMA SentIsCoherent ==
  ASSUME FormsInv, desk.open \in {"new", "edit"}, Coherent(desk.form, desk.boxes)
  PROVE  Coherent(desk.form, Merged(Body))
<1> DEFINE s == Columns[desk.form]
           rules == IF desk.open = "new" THEN Form[desk.form].new ELSE Form[desk.form].edit
<1>1. PICK row : row = Merged(Body)
  OBVIOUS
<1>2. DOMAIN row = DOMAIN s /\ \A f \in DOMAIN s \ {"pricePerLiter"} : row[f] = MergedField(Body, f)
  BY <1>1, MergedIs
<1>3. /\ desk.form \in DOMAIN Form /\ DOMAIN desk.boxes = DOMAIN rules
      /\ desk.open = "new" => desk.row = None
  BY DEF FormsInv, FormsOk, OpenOk, BoxesOk
<1>4. SUFFICES ASSUME desk.form \in {"schedule", "reminder", "service"}, NEW f \in Looked
               PROVE  Given(desk.boxes, f) <=> Given(row, f)
  BY <1>1, SameSense
<1>5. f \in DOMAIN rules <=> f \in DOMAIN s
  BY <1>3, <1>4, FieldsArePlaced DEF Placed
<1>6. f \notin Warnings /\ f # "name" /\ f # "pricePerLiter" /\ f \notin Moments /\ f \notin Happened
  BY <1>4, MomentsAre DEF Looked, Warnings
<1>7. f \notin DOMAIN Default /\ f \notin FilledIn
  BY <1>4, <1>6, DefaultsAre, MomentsAre DEF Looked
<1>8. Sent(f, desk.boxes[f]) = Null <=> desk.boxes[f] = Null
  BY <1>6, SentIs, NullAndZero
<1>9. ASSUME f \in DOMAIN rules PROVE row[f] = Null <=> desk.boxes[f] = Null
  <2>1. row[f] = MergedField(Body, f)
    BY <1>2, <1>5, <1>6, <1>9
  <2>2. CASE f \in DOMAIN Body
    <3>1. Body[f] = Sent(f, desk.boxes[f])
      BY <2>2, BodyIs
    <3>2. row[f] = Body[f]
      BY <1>7, <2>1, <2>2 DEF MergedField
    <3> QED BY <1>8, <3>1, <3>2
  <2>3. CASE f \notin DOMAIN Body
    <3>1. LeftOut(f)
      BY <1>3, <1>9, <2>3, BodyIs
    <3>2. desk.open = "new" /\ desk.boxes[f] = Null
      BY <1>6, <1>8, <3>1 DEF LeftOut
    <3>3. f \notin DOMAIN desk.row
      BY <1>3, <3>2, NoneIs
    <3> QED BY <1>7, <2>1, <2>3, <3>2, <3>3 DEF MergedField
  <2> QED BY <2>2, <2>3
<1> QED BY <1>2, <1>3, <1>5, <1>9 DEF Given

\* A last service at zero, of which an edit says nothing.
AtZero(row) ==
  ~KnowsLast(row) /\ Given(row, "lastServiceOdometerKm") /\ row["lastServiceOdometerKm"].value = 0

\* An edit that touched nothing forgets nothing but a last service at zero, and
\* changes nothing but the time of day of a last service.
LEMMA UntouchedForgets ==
  ASSUME FormsInv, Clock, desk.open = "edit", desk.touched = 0,
         NEW f \in DOMAIN desk.row, Merged(Body)[f] # desk.row[f]
  PROVE  /\ desk.form = "schedule"
         /\ \/ /\ AtZero(desk.row)
               /\ Merged(Body)["lastServiceOdometerKm"] # desk.row["lastServiceOdometerKm"]
            \/ KnowsLast(desk.row) /\ f = "lastServiceAt" /\ Redone(desk.row[f], Merged(Body))
<1> DEFINE s == Columns[desk.form]
           e == Form[desk.form].edit
           c == Form[desk.form].create
<1>1. PICK row : row = Merged(Body)
  OBVIOUS
<1>2. PICK was : was = desk.row
  OBVIOUS
<1>3. /\ desk.form \in DOMAIN Form /\ RowOk(desk.form, was) /\ DOMAIN was = DOMAIN s
      /\ desk.boxes = OpenedIn(desk.form, was) /\ was # None
  BY <1>2, RowIs DEF FormsInv, FormsOk, OpenOk
<1>4. /\ Placed(desk.form) /\ Reopens(e, c, s)
      /\ IsStored(c, Form[desk.form].update, s, UnguardedIn(desk.form))
  BY <1>3, TablesAgree, FieldsArePlaced DEF AgreeOn, Agree
<1>5. /\ \A g \in DOMAIN s \ {"pricePerLiter"} : row[g] = MergedField(Body, g)
      /\ desk.form = "fuel" => row["pricePerLiter"] = WholePrice(row)
  BY <1>1, MergedIs
<1>6. DOMAIN e \subseteq DOMAIN s /\ DOMAIN desk.boxes = DOMAIN e
  BY <1>3, <1>4 DEF OpenedIn, Reopens, Reopened
<1>7. /\ DOMAIN Body = {g \in DOMAIN e : ~(g \in Happened /\ desk.boxes[g] = DateInputValue(was[g]))}
      /\ \A g \in DOMAIN Body : Body[g] = Sent(g, desk.boxes[g])
  BY <1>2, <1>6, BodyIs DEF LeftOut
<1>8. \A g \in DOMAIN e :
        desk.boxes[g] = IF g \in Last /\ ~KnowsLast(was) THEN Null
                        ELSE IF g \in Moments THEN DateInputValue(was[g]) ELSE was[g]
  BY <1>3 DEF OpenedIn
<1>9. /\ "lastServiceAt" \in Moments /\ Happened \subseteq Moments
      /\ Last \cap (Happened \cup FilledIn) = {} /\ Moments \ Happened \subseteq Last
  BY MomentsAre DEF Last
<1> HIDE DEF s, e, c
<1>10. ASSUME NEW g \in DOMAIN s, g # "pricePerLiter", g \notin Last \/ (KnowsLast(was) /\ g # "lastServiceAt")
      PROVE  row[g] = was[g]
  <2>1. row[g] = MergedField(Body, g)
    BY <1>5, <1>10
  <2>2. CASE g \in Happened /\ g \in DOMAIN e
    <3>1. g \notin DOMAIN Body
      BY <1>7, <1>8, <1>9, <2>2
    <3> QED BY <1>2, <1>3, <1>10, <2>1, <3>1 DEF MergedField
  <2>3. CASE g \notin Happened /\ g \in DOMAIN e
    <3>1. g \notin Moments
      BY <1>9, <1>10, <2>3, MomentsAre DEF Last
    <3>2. desk.boxes[g] = was[g]
      BY <1>8, <1>10, <2>3, <3>1
    <3>3. g \in Warnings \cup FilledIn => was[g] # Null
      BY <1>3, <1>4, <1>10 DEF RowOk, IsStored, Column, s, c
    <3>4. was[g] # Zeros
      <4>1. IsRule(c[g])
        BY <1>4, <1>10 DEF IsStored, Column, Tighter
      <4>2. was[g] # Null => Fits(c[g], was[g])
        BY <1>3, <1>10 DEF RowOk, s, c
      <4> QED BY <4>1, <4>2, FitsIs, NullAndZero
    <3>5. g \in DOMAIN Body /\ Body[g] = was[g]
      BY <1>7, <2>3, <3>1, <3>2, <3>3, <3>4, SentIs
    <3> QED BY <2>1, <3>3, <3>5 DEF MergedField
  <2>4. CASE g \notin DOMAIN e
    BY <1>2, <1>3, <1>10, <1>7, <2>1, <2>4 DEF MergedField
  <2> QED BY <2>2, <2>3, <2>4
<1>11. f \in DOMAIN s /\ row[f] # was[f]
  BY <1>1, <1>2, <1>3
<1>12. f # "pricePerLiter"
  <2> SUFFICES ASSUME f = "pricePerLiter" PROVE FALSE
    OBVIOUS
  <2>1. desk.form = "fuel" /\ {"totalCost", "volumeLiters"} \subseteq DOMAIN s
    BY <1>4, <1>11 DEF Placed, s
  <2>2. row["totalCost"] = was["totalCost"] /\ row["volumeLiters"] = was["volumeLiters"]
    BY <1>10, <2>1 DEF Last, s
  <2>3. WholePrice(row) = WholePrice(was)
    BY <2>2 DEF WholePrice
  <2> QED BY <1>3, <1>5, <1>11, <2>1, <2>3 DEF RowOk, s
<1>13. f \in Last /\ (KnowsLast(was) => f = "lastServiceAt")
  BY <1>10, <1>11, <1>12
<1>14. desk.form = "schedule" /\ Last \subseteq DOMAIN e
  BY <1>4, <1>11, <1>13 DEF Placed, s, e
<1>15. ASSUME ~KnowsLast(was) PROVE \A g \in Last : row[g] = Null
  <2> TAKE g \in Last
  <2>1. desk.boxes[g] = Null
    BY <1>14, <1>15, <1>8
  <2>2. Body[g] = Null /\ g \in DOMAIN Body
    <3>1. g \notin Warnings /\ g \notin Happened /\ g \in DOMAIN e
      BY <1>14, <1>9 DEF Last, Warnings
    <3> QED BY <1>7, <2>1, <3>1, SentIs, PickedIs, NullAndZero
  <2>3. row[g] = MergedField(Body, g)
    BY <1>5, <1>6, <1>14 DEF Last
  <2> QED BY <1>9, <2>2, <2>3 DEF MergedField
<1>16. "lastServiceOdometerKm" \in DOMAIN was /\ "lastServiceAt" \in DOMAIN was
  BY <1>3, <1>6, <1>14 DEF Last
<1>17. CASE ~KnowsLast(was)
  <2>1. was[f] # Null
    BY <1>11, <1>13, <1>15, <1>17
  <2>2. was["lastServiceOdometerKm"] # Null /\ was["lastServiceOdometerKm"].value = 0
    BY <1>13, <1>16, <1>17, <2>1 DEF KnowsLast, Given, Last
  <2>3. AtZero(was)
    BY <1>16, <1>17, <2>2 DEF AtZero, Given
  <2>4. row["lastServiceOdometerKm"] = Null
    BY <1>15, <1>17 DEF Last
  <2> QED BY <1>1, <1>2, <1>14, <2>2, <2>3, <2>4
<1>18. CASE KnowsLast(was)
  <2> DEFINE at == was["lastServiceAt"]
             sent == IncurredAtFromDate(DateInputValue(at))
  <2>1. f = "lastServiceAt" /\ f \in DOMAIN e /\ f \notin Happened /\ f \notin FilledIn
    BY <1>13, <1>14, <1>9, <1>18 DEF Last
  <2>2. desk.boxes[f] = DateInputValue(at)
    BY <1>8, <1>9, <1>18, <2>1
  <2>3. row[f] = sent
    <3>1. DateInputValue(at) # Zeros
      BY ShownIsDay, NullAndZero, DayIs
    <3>2. f \in DOMAIN Body /\ Body[f] = sent
      BY <1>7, <1>9, <2>1, <2>2, <3>1, SentIs
    <3>3. row[f] = MergedField(Body, f)
      BY <1>5, <1>11, <1>12
    <3> QED BY <2>1, <3>2, <3>3 DEF MergedField
  <2>4. at # Null
    BY <1>11, <2>1, <2>3, ShownIsDay, PickedIs
  <2>5. IsContent(at) /\ Fits(Instant, at)
    <3>1. IsMoment(c[f])
      BY <1>4, <1>9, <2>1 DEF Reopens, Reopened
    <3>2. IsContent(at) /\ Fits(c[f], at)
      BY <1>3, <1>16, <2>1, <2>4 DEF RowOk, s, c
    <3> QED BY <3>1, <3>2, FitsIs
  <2>6. at.value = sent.value /\ sent # Null
    BY <2>4, <2>5, ShownIsDay, PickedIs
  <2>7. DateInputValue(row[f]) = DateInputValue(at)
    BY <2>3, <2>4, <2>6, ShownIsDay
  <2>8. at.value = Today \/ at.places # 0
    <3> SUFFICES ASSUME at.value # Today, at.places = 0 PROVE FALSE
      OBVIOUS
    <3>1. at = Content(at, at.value, 0) /\ at.is = Instant.is
      BY <2>5 DEF IsContent, Fits
    <3>2. at = Content(Instant, at.value, 0)
      BY <3>1 DEF Content
    <3>3. sent = Content(Instant, at.value, 0)
      BY <2>4, ShownIsDay DEF IncurredAtFromDate
    <3> QED BY <1>11, <2>1, <2>3, <3>2, <3>3
  <2> HIDE DEF sent
  <2> QED BY <1>1, <1>2, <1>14, <1>18, <2>1, <2>7, <2>8 DEF Redone
<1> QED BY <1>17, <1>18

-----------------------------------------------------------------------------
\* A form's record, written out.
FormRecord(which, row, open, boxes, touched, sent, by, says, offends, forgot) ==
  [kind |-> "form", form |-> which, row |-> row, open |-> open, boxes |-> boxes, touched |-> touched,
   sent |-> sent, by |-> by, says |-> says, offends |-> offends, forgot |-> forgot]

Replied(base, by, offends, says, row, forgot) ==
  [base EXCEPT !.by = by, !.sent = @ + 1, !.offends = offends, !.says = says, !.row = row, !.forgot = forgot]

LEMMA RepliedIs ==
  ASSUME NEW which, NEW r, NEW open, NEW boxes, NEW touched, NEW sent, NEW b, NEW y, NEW o, NEW g,
         NEW by, NEW offends, NEW says, NEW row, NEW forgot
  PROVE  Replied(FormRecord(which, r, open, boxes, touched, sent, b, y, o, g), by, offends, says, row, forgot)
           = FormRecord(which, row, open, boxes, touched, sent + 1, by, says, offends, forgot)
<1> DEFINE d0 == FormRecord(which, r, open, boxes, touched, sent, b, y, o, g)
           d1 == [d0 EXCEPT !.by = by]
           d2 == [d1 EXCEPT !.sent = @ + 1]
           d3 == [d2 EXCEPT !.offends = offends]
           d4 == [d3 EXCEPT !.says = says]
           d5 == [d4 EXCEPT !.row = row]
           d6 == [d5 EXCEPT !.forgot = forgot]
<1>1. Replied(d0, by, offends, says, row, forgot) = d6
  BY DEF Replied
<1>2. d1 = FormRecord(which, r, open, boxes, touched, sent, by, y, o, g)
  BY DEF FormRecord
<1> HIDE DEF d1
<1>3. d2 = FormRecord(which, r, open, boxes, touched, sent + 1, by, y, o, g)
  BY <1>2 DEF FormRecord
<1> HIDE DEF d2
<1>4. d3 = FormRecord(which, r, open, boxes, touched, sent + 1, by, y, offends, g)
  BY <1>3 DEF FormRecord
<1> HIDE DEF d3
<1>5. d4 = FormRecord(which, r, open, boxes, touched, sent + 1, by, says, offends, g)
  BY <1>4 DEF FormRecord
<1> HIDE DEF d4
<1>6. d5 = FormRecord(which, row, open, boxes, touched, sent + 1, by, says, offends, g)
  BY <1>5 DEF FormRecord
<1> HIDE DEF d5
<1>7. d6 = FormRecord(which, row, open, boxes, touched, sent + 1, by, says, offends, forgot)
  BY <1>6 DEF FormRecord
<1> QED BY <1>1, <1>7

\* What an answer leaves, whoever asked.
AnswerOk(by, payload, d) ==
  /\ d = FormRecord(desk.form, d.row, desk.open, desk.boxes, desk.touched, d.sent, by, d.says,
                    d.offends, d.forgot)
  /\ d.sent \in Nat
  /\ \/ d.says = "saved" /\ d.row = Merged(payload) /\ RowOk(desk.form, d.row)
     \/ d.says # "saved" /\ d.row = desk.row
  /\ d.says = "400" => /\ d.offends = Refused(Dto, payload)
                       /\ Refused(Dto, payload) # {} \/ ~Coherent(desk.form, Merged(payload))
  /\ d.says = "500" => AmongIn(desk.form, d.offends, Unguarded)

Lost(row) == [f \in {g \in DOMAIN desk.row : row[g] # desk.row[g]} |-> desk.row[f]]

LEMMA AnswerLeaves ==
  ASSUME FormsInv, Clock, NEW by, NEW payload, \A f \in DOMAIN payload : IsContent(payload[f]),
         NEW untouched \in BOOLEAN, NEW d, d = Answers(by, payload, untouched)
  PROVE  /\ AnswerOk(by, payload, d)
         /\ d.forgot # None => untouched /\ d.forgot = Lost(Merged(payload))
<1>1. d = Answers(by, payload, untouched)
  OBVIOUS
<1>2. PICK row : row = Merged(payload)
  OBVIOUS
<1>3. PICK refused : refused = Refused(Dto, payload)
  OBVIOUS
<1>4. PICK unstorable : unstorable = Unstorable(desk.form, row)
  OBVIOUS
<1> DEFINE ok == Coherent(desk.form, row)
           offends == IF refused # {} THEN refused ELSE IF ok THEN unstorable ELSE {}
           says == IF refused # {} \/ ~ok THEN "400" ELSE IF unstorable # {} THEN "500" ELSE "saved"
           kept == IF refused = {} /\ ok /\ unstorable = {} THEN row ELSE desk.row
           forgot == IF ~untouched \/ refused # {} THEN None ELSE Lost(row)
<1>5. d = Replied(desk, by, offends, says, kept, forgot)
  BY <1>1, <1>2, <1>3, <1>4 DEF Answers, Mine, Dto, Replied, Lost
<1>6. /\ refused = {} /\ ok => unstorable \subseteq Of(Unguarded, desk.form)
      /\ refused = {} /\ ok /\ unstorable = {} => RowOk(desk.form, row)
  BY <1>2, <1>3, <1>4, UnstorableIs, SavedIs
<1>7. desk = FormRecord(desk.form, desk.row, desk.open, desk.boxes, desk.touched, desk.sent, desk.by,
                        desk.says, desk.offends, desk.forgot)
  BY DEF FormsInv, FormsOk, FormRecord
<1> HIDE DEF ok, offends, says, kept, forgot
<1>8. /\ d = FormRecord(desk.form, d.row, desk.open, desk.boxes, desk.touched, d.sent, by, d.says,
                        d.offends, d.forgot)
      /\ d.row = kept /\ d.says = says /\ d.offends = offends /\ d.forgot = forgot
      /\ d.sent \in Nat
  <2>1. d = FormRecord(desk.form, kept, desk.open, desk.boxes, desk.touched, desk.sent + 1, by, says,
                       offends, forgot)
    BY <1>5, <1>7, RepliedIs
  <2>2. desk.sent + 1 \in Nat
    BY DEF Clock
  <2> QED BY <2>1, <2>2 DEF FormRecord
<1>9. d.says = "500" => AmongIn(desk.form, d.offends, Unguarded)
  BY <1>6, <1>8 DEF AmongIn, Of, says, offends
<1>10. \/ d.says = "saved" /\ d.row = row /\ RowOk(desk.form, d.row)
       \/ d.says # "saved" /\ d.row = desk.row
  <2>1. CASE refused = {} /\ ok /\ unstorable = {}
    <3>1. says = "saved" /\ kept = row
      BY <2>1 DEF says, kept
    <3>2. RowOk(desk.form, row)
      BY <1>6, <2>1
    <3> QED BY <1>8, <3>1, <3>2
  <2>2. CASE ~(refused = {} /\ ok /\ unstorable = {})
    BY <1>8, <2>2 DEF says, kept
  <2> QED BY <2>1, <2>2
<1>11. d.says = "400" => d.offends = refused /\ (refused # {} \/ ~ok)
  BY <1>8 DEF says, offends
<1>12. d.forgot # None => untouched /\ d.forgot = Lost(row)
  BY <1>8 DEF forgot
<1> QED BY <1>1, <1>2, <1>3, <1>8, <1>9, <1>10, <1>11, <1>12 DEF ok, AnswerOk

LEMMA EdgesArePlaced ==
  ASSUME NEW rule, IsRule(rule), NEW content \in Edges(rule)
  PROVE  IsContent(content)
<1> DEFINE q0 == {q \in {rule.places, rule.places + 1} : q > 0 /\ rule.places > 0}
<1>1. \E v, p : content = Content(rule, v, p) /\ p \in Int
  <2>1. CASE rule.is = "day"
    BY <2>1 DEF Edges
  <2>2. CASE rule.is = "instant"
    BY <2>2 DEF Edges
  <2>3. CASE rule.is \notin {"day", "instant"}
    <3>1. q0 \subseteq Int
      BY DEF IsRule
    <3> QED BY <2>3, <3>1 DEF Edges
  <2> QED BY <2>1, <2>2, <2>3
<1> QED BY <1>1, NullAndZero

\* The rules behind one form are rules.
LEMMA RulesAre ==
  ASSUME NEW which \in DOMAIN Form
  PROVE  /\ \A f \in DOMAIN Form[which].new : IsRule(Form[which].new[f])
         /\ \A f \in DOMAIN Form[which].create : IsRule(Form[which].create[f])
         /\ \A f \in DOMAIN Form[which].update : IsRule(Form[which].update[f])
         /\ DOMAIN Form[which].edit \subseteq DOMAIN Form[which].new
         /\ DOMAIN Form[which].edit \subseteq DOMAIN Columns[which] \ {"pricePerLiter"}
<1> DEFINE n == Form[which].new
           e == Form[which].edit
           c == Form[which].create
           u == Form[which].update
           s == Columns[which]
<1>1. /\ NewIsSent(n, c, LooserIn(which)) /\ Updates(c, u) /\ EditIsSent(n, e, u, LooserIn(which))
      /\ Reopens(e, c, s)
  BY TablesAgree DEF AgreeOn, Agree
<1> HIDE DEF n, e, c, u, s
<1>2. \A f \in DOMAIN n : IsRule(n[f])
  BY <1>1 DEF NewIsSent, NewField
<1>3. \A f \in DOMAIN c : IsRule(c[f])
  BY <1>1 DEF NewIsSent
<1>4. \A f \in DOMAIN u : IsRule(u[f])
  BY <1>1 DEF Updates, UpdateField, Tighter
<1>5. DOMAIN e \subseteq DOMAIN n
  BY <1>1 DEF EditIsSent, EditField
<1>6. DOMAIN e \subseteq DOMAIN s \ {"pricePerLiter"}
  BY <1>1 DEF Reopens, Reopened
<1> QED BY <1>2, <1>3, <1>4, <1>5, <1>6 DEF n, e, c, u, s

LEMMA OrdinaryIs ==
  ASSUME NEW rules
  PROVE  /\ DOMAIN Ordinary(rules) \subseteq DOMAIN rules
         /\ \A f \in DOMAIN Ordinary(rules) :
              /\ rules[f].may = "need" \/ f \in {"intervalKm", "dueDate", "totalCost"}
              /\ Ordinary(rules)[f] = Content(rules[f], IF rules[f].least > 1 THEN rules[f].least ELSE 1, 0)
              /\ IsContent(Ordinary(rules)[f])
BY NullAndZero DEF Ordinary

\* What a reminder's form offers before it is touched.
LEMMA WarningIsOrdinary ==
  /\ ReminderForm["repeatEveryMonths"].may = "null"
  /\ ReminderForm["notifyBeforeDays"].least = 0
  /\ Fits(CreateReminder["notifyBeforeDays"], Content(ReminderForm["notifyBeforeDays"], 1, 0))
BY DEF CreateReminder, ReminderForm, Fits, Content, Number, Whole, Text, OrNull, Unlimited

-----------------------------------------------------------------------------
\* The fields of a form's record.
LEMMA FormRecordIs ==
  ASSUME NEW which, NEW row, NEW open, NEW boxes, NEW touched, NEW sent, NEW by, NEW says,
         NEW offends, NEW forgot,
         which \in DOMAIN Form, touched \in Nat, sent \in Nat, row = None \/ RowOk(which, row),
         \/ open = "no"
         \/ open = "new" /\ row = None /\ BoxesOk(which, Form[which].new, boxes)
         \/ /\ open = "edit" /\ row # None /\ Form[which].edit # None
            /\ BoxesOk(which, Form[which].edit, boxes)
            /\ touched = 0 => boxes = OpenedIn(which, row),
         says = "400" /\ by = "form" => AmongIn(which, offends, Looser),
         says = "500" => AmongIn(which, offends, Unguarded),
         forgot # None => Forgotten(which, row, forgot)
  PROVE  FormsOk(FormRecord(which, row, open, boxes, touched, sent, by, says, offends, forgot))
<1>1. PICK d : d = FormRecord(which, row, open, boxes, touched, sent, by, says, offends, forgot)
  OBVIOUS
<1>2. /\ d.form = which /\ d.row = row /\ d.open = open /\ d.boxes = boxes /\ d.touched = touched
      /\ d.sent = sent /\ d.by = by /\ d.says = says /\ d.offends = offends /\ d.forgot = forgot
  BY <1>1 DEF FormRecord
<1>3. d = [kind |-> "form", form |-> d.form, row |-> d.row, open |-> d.open, boxes |-> d.boxes,
          touched |-> d.touched, sent |-> d.sent, by |-> d.by, says |-> d.says,
          offends |-> d.offends, forgot |-> d.forgot]
  BY <1>1, <1>2 DEF FormRecord
<1>4. OpenOk(d)
  BY <1>2 DEF OpenOk
<1>5. SaysOk(d)
  BY <1>2 DEF SaysOk
<1>6. FormsOk(d)
  BY <1>2, <1>3, <1>4, <1>5 DEF FormsOk
<1> QED BY <1>1, <1>6

LEMMA DeskIs ==
  ASSUME FormsInv
  PROVE  /\ desk = FormRecord(desk.form, desk.row, desk.open, desk.boxes, desk.touched, desk.sent, desk.by,
                              desk.says, desk.offends, desk.forgot)
         /\ desk.form \in DOMAIN Form /\ desk.touched \in Nat /\ desk.sent \in Nat
         /\ desk.row = None \/ RowOk(desk.form, desk.row)
         /\ desk.forgot # None => Forgotten(desk.form, desk.row, desk.forgot)
         /\ desk.says = "400" /\ desk.by = "form" => AmongIn(desk.form, desk.offends, Looser)
         /\ desk.says = "500" => AmongIn(desk.form, desk.offends, Unguarded)
BY DEF FormsInv, FormsOk, FormRecord, SaysOk

LEMMA OpenIs ==
  ASSUME FormsInv
  PROVE  \/ desk.open = "no"
         \/ desk.open = "new" /\ desk.row = None /\ BoxesOk(desk.form, Form[desk.form].new, desk.boxes)
         \/ /\ desk.open = "edit" /\ desk.row # None /\ Form[desk.form].edit # None
            /\ BoxesOk(desk.form, Form[desk.form].edit, desk.boxes)
            /\ desk.touched = 0 => desk.boxes = OpenedIn(desk.form, desk.row)
BY DEF FormsInv, FormsOk, OpenOk

\* A form that opens.
Shown(base, open, boxes) ==
  [base EXCEPT !.open = open, !.touched = 0, !.by = "nobody", !.says = "nothing", !.offends = {},
     !.forgot = None, !.boxes = boxes]

LEMMA ShownIs ==
  ASSUME NEW which, NEW r, NEW o, NEW b, NEW t, NEW sent, NEW by, NEW y, NEW f, NEW g,
         NEW open, NEW boxes
  PROVE  Shown(FormRecord(which, r, o, b, t, sent, by, y, f, g), open, boxes)
           = FormRecord(which, r, open, boxes, 0, sent, "nobody", "nothing", {}, None)
<1> DEFINE d0 == FormRecord(which, r, o, b, t, sent, by, y, f, g)
           d1 == [d0 EXCEPT !.open = open]
           d2 == [d1 EXCEPT !.touched = 0]
           d3 == [d2 EXCEPT !.by = "nobody"]
           d4 == [d3 EXCEPT !.says = "nothing"]
           d5 == [d4 EXCEPT !.offends = {}]
           d6 == [d5 EXCEPT !.forgot = None]
           d7 == [d6 EXCEPT !.boxes = boxes]
<1>1. Shown(d0, open, boxes) = d7
  BY DEF Shown
<1>2. d1 = FormRecord(which, r, open, b, t, sent, by, y, f, g)
  BY DEF FormRecord
<1> HIDE DEF d1
<1>3. d2 = FormRecord(which, r, open, b, 0, sent, by, y, f, g)
  BY <1>2 DEF FormRecord
<1> HIDE DEF d2
<1>4. d3 = FormRecord(which, r, open, b, 0, sent, "nobody", y, f, g)
  BY <1>3 DEF FormRecord
<1> HIDE DEF d3
<1>5. d4 = FormRecord(which, r, open, b, 0, sent, "nobody", "nothing", f, g)
  BY <1>4 DEF FormRecord
<1> HIDE DEF d4
<1>6. d5 = FormRecord(which, r, open, b, 0, sent, "nobody", "nothing", {}, g)
  BY <1>5 DEF FormRecord
<1> HIDE DEF d5
<1>7. d6 = FormRecord(which, r, open, b, 0, sent, "nobody", "nothing", {}, None)
  BY <1>6 DEF FormRecord
<1> HIDE DEF d6
<1>8. d7 = FormRecord(which, r, open, boxes, 0, sent, "nobody", "nothing", {}, None)
  BY <1>7 DEF FormRecord
<1> QED BY <1>1, <1>8

\* A form whose boxes change, and one that closes.
Changed(base, boxes, touched) ==
  [base EXCEPT !.boxes = boxes, !.touched = touched, !.says = "nothing", !.offends = {}]

LEMMA ChangedIs ==
  ASSUME NEW which, NEW r, NEW o, NEW b, NEW t, NEW sent, NEW by, NEW y, NEW f, NEW g,
         NEW boxes, NEW touched
  PROVE  Changed(FormRecord(which, r, o, b, t, sent, by, y, f, g), boxes, touched)
           = FormRecord(which, r, o, boxes, touched, sent, by, "nothing", {}, g)
<1> DEFINE d0 == FormRecord(which, r, o, b, t, sent, by, y, f, g)
           d1 == [d0 EXCEPT !.boxes = boxes]
           d2 == [d1 EXCEPT !.touched = touched]
           d3 == [d2 EXCEPT !.says = "nothing"]
           d4 == [d3 EXCEPT !.offends = {}]
<1>1. Changed(d0, boxes, touched) = d4
  BY DEF Changed
<1>2. d1 = FormRecord(which, r, o, boxes, t, sent, by, y, f, g)
  BY DEF FormRecord
<1> HIDE DEF d1
<1>3. d2 = FormRecord(which, r, o, boxes, touched, sent, by, y, f, g)
  BY <1>2 DEF FormRecord
<1> HIDE DEF d2
<1>4. d3 = FormRecord(which, r, o, boxes, touched, sent, by, "nothing", f, g)
  BY <1>3 DEF FormRecord
<1> HIDE DEF d3
<1>5. d4 = FormRecord(which, r, o, boxes, touched, sent, by, "nothing", {}, g)
  BY <1>4 DEF FormRecord
<1> QED BY <1>1, <1>5

LEMMA OpenNewKeeps ==
  ASSUME FormsInv, OpenNew
  PROVE  FormsInv'
<1> DEFINE n == Form[desk.form].new
           boxes == [f \in DOMAIN n |-> IF f \in DOMAIN Ordinary(n) THEN Ordinary(n)[f] ELSE Null]
<1>1. desk' = Shown(desk, "new", boxes) /\ desk.row = None
  BY DEF OpenNew, Shown, Mine
<1>2. desk' = FormRecord(desk.form, desk.row, "new", boxes, 0, desk.sent, "nobody", "nothing", {}, None)
  BY <1>1, DeskIs, ShownIs
<1>3. \A f \in DOMAIN n : IsContent(boxes[f])
  BY OrdinaryIs, NullAndZero
<1>4. \A f \in DOMAIN n : desk.form = "reminder" /\ f \in DOMAIN Chips /\ boxes[f] # Null
                            => Fits(CreateReminder[f], boxes[f])
  <2> SUFFICES ASSUME desk.form = "reminder", NEW f \in DOMAIN n, f \in DOMAIN Chips, boxes[f] # Null
               PROVE  Fits(CreateReminder[f], boxes[f])
    OBVIOUS
  <2>1. n = ReminderForm
    BY DEF Form
  <2>2. f \in DOMAIN Ordinary(n) /\ boxes[f] = Ordinary(n)[f]
    OBVIOUS
  <2> HIDE DEF n, boxes
  <2>3. f = "notifyBeforeDays"
    BY <2>1, <2>2, OrdinaryIs, WarningIsOrdinary DEF Chips
  <2>4. boxes[f] = Content(ReminderForm[f], 1, 0)
    BY <2>1, <2>2, <2>3, OrdinaryIs, WarningIsOrdinary
  <2> QED BY <2>3, <2>4, WarningIsOrdinary
<1>5. BoxesOk(desk.form, n, boxes)
  <2>1. boxes = [f \in DOMAIN n |-> boxes[f]]
    OBVIOUS
  <2> QED BY <1>3, <1>4, <2>1 DEF BoxesOk
<1> HIDE DEF boxes
<1>6. FormsOk(desk')
  BY <1>1, <1>2, <1>5, DeskIs, FormRecordIs
<1> QED BY <1>6 DEF FormsInv

LEMMA OpenEditKeeps ==
  ASSUME FormsInv, OpenEdit
  PROVE  FormsInv'
<1> DEFINE e == Form[desk.form].edit
           boxes == OpenedIn(desk.form, desk.row)
<1>1. desk' = Shown(desk, "edit", boxes) /\ desk.row # None /\ e # None
  BY DEF OpenEdit, Shown, Mine, Opened, OpenedIn, Last
<1>2. desk' = FormRecord(desk.form, desk.row, "edit", boxes, 0, desk.sent, "nobody", "nothing", {}, None)
  BY <1>1, DeskIs, ShownIs
<1>3. desk.form \in DOMAIN Form /\ RowOk(desk.form, desk.row)
      /\ DOMAIN e \subseteq DOMAIN Columns[desk.form] \ {"pricePerLiter"}
  BY <1>1, DeskIs, RulesAre
<1>4. ASSUME NEW f \in DOMAIN e
      PROVE  /\ IsContent(boxes[f])
             /\ desk.form = "reminder" /\ boxes[f] # Null => Fits(CreateReminder[f], boxes[f])
  <2>1. \/ boxes[f] = Null
        \/ f \in Moments /\ boxes[f] = DateInputValue(desk.row[f])
        \/ boxes[f] = desk.row[f]
    BY <1>4 DEF OpenedIn
  <2>2. /\ IsContent(desk.row[f])
        /\ desk.row[f] # Null => Fits(Form[desk.form].create[f], desk.row[f])
    BY <1>3, <1>4 DEF RowOk
  <2>3. desk.form = "reminder" => Form[desk.form].create = CreateReminder
    BY DEF Form
  <2>4. desk.form = "reminder" => f \notin Moments
    <3>1. desk.form = "reminder" => f \in DOMAIN ReminderForm
      BY <1>4 DEF Form
    <3> QED BY <3>1, MomentsAre DEF ReminderForm
  <2>5. IsContent(DateInputValue(desk.row[f]))
    BY ShownIsDay
  <2> HIDE DEF boxes, e
  <2> QED BY <2>1, <2>2, <2>3, <2>4, <2>5, NullAndZero
<1>5. BoxesOk(desk.form, e, boxes)
  BY <1>4 DEF BoxesOk, OpenedIn
<1> HIDE DEF boxes, e
<1>6. desk.row # None /\ Form[desk.form].edit # None /\ BoxesOk(desk.form, Form[desk.form].edit, boxes)
      /\ (0 = 0 => boxes = OpenedIn(desk.form, desk.row))
  BY <1>1, <1>5 DEF boxes, e
<1>7. FormsOk(desk')
  BY <1>2, <1>6, DeskIs, FormRecordIs
<1> QED BY <1>7 DEF FormsInv

LEMMA TouchKeeps ==
  ASSUME FormsInv, Touch
  PROVE  FormsInv'
<1> DEFINE rules == IF desk.open = "new" THEN Form[desk.form].new ELSE Form[desk.form].edit
<1>0. PICK f \in DOMAIN desk.boxes : \E content \in Typed(f) \ {desk.boxes[f]} :
        desk' = [desk EXCEPT !.boxes[f] = content, !.touched = @ + 1, !.says = "nothing", !.offends = {}]
  BY DEF Touch
<1>1. PICK content \in Typed(f) \ {desk.boxes[f]} :
        desk' = [desk EXCEPT !.boxes[f] = content, !.touched = @ + 1, !.says = "nothing", !.offends = {}]
  BY <1>0
<1> DEFINE boxes == [desk.boxes EXCEPT ![f] = content]
<1>2. desk' = Changed(desk, boxes, desk.touched + 1)
  <2>1. PICK d : d = desk
    OBVIOUS
  <2>2. d = FormRecord(d.form, d.row, d.open, d.boxes, d.touched, d.sent, d.by, d.says, d.offends, d.forgot)
    BY <2>1, DeskIs
  <2> QED BY <1>1, <2>1, <2>2 DEF Changed, FormRecord
<1>3. desk' = FormRecord(desk.form, desk.row, desk.open, boxes, desk.touched + 1, desk.sent, desk.by,
                         "nothing", {}, desk.forgot)
  BY <1>2, DeskIs, ChangedIs
<1>4. /\ desk.form \in DOMAIN Form /\ BoxesOk(desk.form, rules, desk.boxes)
      /\ f \in DOMAIN rules /\ f \in DOMAIN Form[desk.form].new
  <2>1. desk.open # "no"
    BY DEF Touch
  <2> QED BY <2>1, OpenIs, DeskIs, RulesAre DEF BoxesOk
<1>5. IsContent(content)
  <2>1. IsRule(Mine.new[f]) /\ (f \in DOMAIN Mine.create => IsRule(Mine.create[f]))
    BY <1>4, RulesAre DEF Mine
  <2>2. \/ content = Null
        \/ \E v : content = Content(Mine.new[f], v, 0)
        \/ content \in Edges(Mine.new[f])
        \/ f \in DOMAIN Mine.create /\ content \in Edges(Mine.create[f])
        \/ content = Zeros
    BY DEF Typed
  <2> QED BY <2>1, <2>2, EdgesArePlaced, NullAndZero
<1>6. desk.form = "reminder" /\ f \in DOMAIN Chips /\ content # Null => Fits(CreateReminder[f], content)
  <2> SUFFICES ASSUME desk.form = "reminder", f \in DOMAIN Chips, content # Null
               PROVE  Fits(CreateReminder[f], content)
    OBVIOUS
  <2>1. Mine.new = ReminderForm
    BY DEF Mine, Form
  <2>2. \E v \in Chips[f] : content = Content(ReminderForm[f], v, 0)
    BY <2>1 DEF Typed
  <2> QED BY <2>2, ChipsFit
<1>7. BoxesOk(desk.form, rules, boxes)
  BY <1>4, <1>5, <1>6 DEF BoxesOk
<1>8. desk.touched + 1 \in Nat /\ desk.touched + 1 # 0
  BY DeskIs
<1> HIDE DEF boxes
<1>9. \/ desk.open = "no"
      \/ desk.open = "new" /\ desk.row = None /\ BoxesOk(desk.form, Form[desk.form].new, boxes)
      \/ /\ desk.open = "edit" /\ desk.row # None /\ Form[desk.form].edit # None
         /\ BoxesOk(desk.form, Form[desk.form].edit, boxes)
         /\ desk.touched + 1 = 0 => boxes = OpenedIn(desk.form, desk.row)
  BY <1>7, <1>8, OpenIs
<1>10. FormsOk(desk')
  BY <1>3, <1>8, <1>9, DeskIs, FormRecordIs
<1> QED BY <1>10 DEF FormsInv

LEMMA LeaveFormKeeps ==
  ASSUME FormsInv, LeaveForm
  PROVE  FormsInv'
<1>1. desk' = Changed([desk EXCEPT !.open = "no"], None, 0)
  <2>1. PICK d : d = desk
    OBVIOUS
  <2>2. d = FormRecord(d.form, d.row, d.open, d.boxes, d.touched, d.sent, d.by, d.says, d.offends, d.forgot)
    BY <2>1, DeskIs
  <2>3. desk' = [d EXCEPT !.open = "no", !.boxes = None, !.touched = 0, !.says = "nothing", !.offends = {}]
    BY <2>1 DEF LeaveForm
  <2> QED BY <2>1, <2>2, <2>3 DEF Changed, FormRecord
<1>2. [desk EXCEPT !.open = "no"] =
        FormRecord(desk.form, desk.row, "no", desk.boxes, desk.touched, desk.sent, desk.by, desk.says,
                   desk.offends, desk.forgot)
  <2>1. PICK d : d = desk
    OBVIOUS
  <2>2. d = FormRecord(d.form, d.row, d.open, d.boxes, d.touched, d.sent, d.by, d.says, d.offends, d.forgot)
    BY <2>1, DeskIs
  <2> QED BY <2>1, <2>2 DEF FormRecord
<1>3. desk' = FormRecord(desk.form, desk.row, "no", None, 0, desk.sent, desk.by, "nothing", {},
                         desk.forgot)
  BY <1>1, <1>2, ChangedIs
<1>4. FormsOk(desk')
  BY <1>3, DeskIs, FormRecordIs
<1> QED BY <1>4 DEF FormsInv

\* What the form sends is contents.
LEMMA BodyIsPlaced ==
  ASSUME FormsInv, Clock, desk.open \in {"new", "edit"}
  PROVE  \A f \in DOMAIN Body : IsContent(Body[f])
<1>1. \A f \in DOMAIN desk.boxes : IsContent(desk.boxes[f])
  BY OpenIs DEF BoxesOk
<1>2. SUFFICES ASSUME NEW f \in DOMAIN Body PROVE IsContent(Body[f])
  OBVIOUS
<1>3. f \in DOMAIN desk.boxes /\ Body[f] = Sent(f, desk.boxes[f])
  BY BodyIs
<1>4. IsContent(IncurredAtFromDate(desk.boxes[f]))
  BY PickedIs
<1>5. \/ Sent(f, desk.boxes[f]) = Zero
      \/ Sent(f, desk.boxes[f]) = IncurredAtFromDate(desk.boxes[f])
      \/ Sent(f, desk.boxes[f]) = desk.boxes[f]
  BY SentIs
<1> QED BY <1>1, <1>3, <1>4, <1>5, NullAndZero

\* What submitting does to a form's record: it is turned down, or put away.
TurnedDown(base) == [base EXCEPT !.by = "form", !.says = "told", !.offends = {}]

LEMMA TurnedDownIs ==
  ASSUME NEW which, NEW r, NEW o, NEW b, NEW t, NEW sent, NEW by, NEW y, NEW f, NEW g
  PROVE  TurnedDown(FormRecord(which, r, o, b, t, sent, by, y, f, g))
           = FormRecord(which, r, o, b, t, sent, "form", "told", {}, g)
<1> DEFINE d0 == FormRecord(which, r, o, b, t, sent, by, y, f, g)
           d1 == [d0 EXCEPT !.by = "form"]
           d2 == [d1 EXCEPT !.says = "told"]
           d3 == [d2 EXCEPT !.offends = {}]
<1>1. TurnedDown(d0) = d3
  BY DEF TurnedDown
<1>2. d1 = FormRecord(which, r, o, b, t, sent, "form", y, f, g)
  BY DEF FormRecord
<1> HIDE DEF d1
<1>3. d2 = FormRecord(which, r, o, b, t, sent, "form", "told", f, g)
  BY <1>2 DEF FormRecord
<1> HIDE DEF d2
<1>4. d3 = FormRecord(which, r, o, b, t, sent, "form", "told", {}, g)
  BY <1>3 DEF FormRecord
<1> QED BY <1>1, <1>4

PutAway(base) == [base EXCEPT !.open = "no", !.boxes = None, !.touched = 0]

LEMMA PutAwayIs ==
  ASSUME NEW which, NEW r, NEW o, NEW b, NEW t, NEW sent, NEW by, NEW y, NEW f, NEW g
  PROVE  PutAway(FormRecord(which, r, o, b, t, sent, by, y, f, g))
           = FormRecord(which, r, "no", None, 0, sent, by, y, f, g)
<1> DEFINE d0 == FormRecord(which, r, o, b, t, sent, by, y, f, g)
           d1 == [d0 EXCEPT !.open = "no"]
           d2 == [d1 EXCEPT !.boxes = None]
           d3 == [d2 EXCEPT !.touched = 0]
<1>1. PutAway(d0) = d3
  BY DEF PutAway
<1>2. d1 = FormRecord(which, r, "no", b, t, sent, by, y, f, g)
  BY DEF FormRecord
<1> HIDE DEF d1
<1>3. d2 = FormRecord(which, r, "no", None, t, sent, by, y, f, g)
  BY <1>2 DEF FormRecord
<1> HIDE DEF d2
<1>4. d3 = FormRecord(which, r, "no", None, 0, sent, by, y, f, g)
  BY <1>3 DEF FormRecord
<1> QED BY <1>1, <1>4

LEMMA SubmitFormKeeps ==
  ASSUME FormsInv, SubmitForm
  PROVE  FormsInv'
<1> DEFINE rules == IF desk.open = "new" THEN Mine.new ELSE Mine.edit
           d == Answers("form", Body, desk.open = "edit" /\ desk.touched = 0)
<1>1. desk.open \in {"new", "edit"} /\ Clock
  BY OpenIs, DeskIs DEF SubmitForm, Clock
<1>2. CASE ~FormAccepts(desk.form, rules, desk.boxes)
  <2>1. desk' = [desk EXCEPT !.by = "form", !.says = "told", !.offends = {}]
    BY <1>2 DEF SubmitForm
  <2>2. desk' = FormRecord(desk.form, desk.row, desk.open, desk.boxes, desk.touched, desk.sent, "form",
                           "told", {}, desk.forgot)
    <3>1. desk' = TurnedDown(desk)
      BY <2>1 DEF TurnedDown
    <3> QED BY <3>1, DeskIs, TurnedDownIs
  <2>3. FormsOk(desk')
    BY <2>2, DeskIs, OpenIs, FormRecordIs
  <2> QED BY <2>3 DEF FormsInv
<1>3. CASE FormAccepts(desk.form, rules, desk.boxes)
  <2>1. PICK untouched \in BOOLEAN : untouched = (desk.open = "edit" /\ desk.touched = 0)
    OBVIOUS
  <2>2. untouched => desk.open = "edit" /\ desk.touched = 0
    BY <2>1, Zenon
  <2>3. PICK a : a = d
    OBVIOUS
  <2>4. desk' = IF a.says = "saved" THEN [a EXCEPT !.open = "no", !.boxes = None, !.touched = 0] ELSE a
    BY <1>3, <2>3 DEF SubmitForm
  <2>5. PICK row : row = Merged(Body)
    OBVIOUS
  <2>6. /\ AnswerOk("form", Body, a)
        /\ a.forgot # None => untouched /\ a.forgot = Lost(row)
    <3>1. a = Answers("form", Body, untouched)
      BY <2>1, <2>3, Zenon
    <3>2. \A f \in DOMAIN Body : IsContent(Body[f])
      BY <1>1, BodyIsPlaced
    <3> QED BY <1>1, <2>5, <3>1, <3>2, AnswerLeaves
  <2>7. /\ a = FormRecord(desk.form, a.row, desk.open, desk.boxes, desk.touched, a.sent, "form", a.says,
                          a.offends, a.forgot)
        /\ a.sent \in Nat
        /\ \/ a.says = "saved" /\ a.row = row /\ RowOk(desk.form, a.row)
           \/ a.says # "saved" /\ a.row = desk.row
        /\ a.says = "400" => /\ a.offends = Refused(Dto, Body)
                             /\ Refused(Dto, Body) # {} \/ ~Coherent(desk.form, row)
        /\ a.says = "500" => AmongIn(desk.form, a.offends, Unguarded)
    <3>1. AnswerOk("form", Body, a)
      BY <2>6
    <3> QED BY <2>5, <3>1 DEF AnswerOk
  <2>8. a.says = "400" => AmongIn(desk.form, a.offends, Looser)
    <3>1. Refused(Dto, Body) \subseteq Of(Looser, desk.form)
      BY <1>1, <1>3, NewIsTaken, EditIsTaken
    <3>2. Coherent(desk.form, row)
      BY <1>1, <1>3, <2>5, SentIsCoherent DEF FormAccepts
    <3> QED BY <2>7, <3>1, <3>2 DEF AmongIn, Of
  <2>9. a.forgot # None => Forgotten(desk.form, a.row, a.forgot)
    <3> SUFFICES ASSUME a.forgot # None PROVE Forgotten(desk.form, a.row, a.forgot)
      OBVIOUS
    <3> DEFINE changed == {g \in DOMAIN desk.row : row[g] # desk.row[g]}
    <3>1. desk.open = "edit" /\ desk.touched = 0 /\ a.forgot = [f \in changed |-> desk.row[f]]
      BY <2>2, <2>6 DEF Lost
    <3>2. PICK f \in changed : TRUE
      BY <3>1, NoneIs
    <3>3. \A g \in changed :
            /\ desk.form = "schedule"
            /\ \/ AtZero(desk.row) /\ row["lastServiceOdometerKm"] # desk.row["lastServiceOdometerKm"]
               \/ KnowsLast(desk.row) /\ g = "lastServiceAt" /\ Redone(desk.row[g], row)
      <4> TAKE g \in changed
      <4>1. g \in DOMAIN desk.row /\ Merged(Body)[g] # desk.row[g]
        BY <2>5
      <4> HIDE DEF changed
      <4> QED BY <1>1, <2>5, <3>1, <4>1, UntouchedForgets
    <3>4. CASE AtZero(desk.row)
      <4>1. row["lastServiceOdometerKm"] # desk.row["lastServiceOdometerKm"]
        BY <3>2, <3>3, <3>4 DEF AtZero
      <4>2. "lastServiceOdometerKm" \in DOMAIN a.forgot
            /\ a.forgot["lastServiceOdometerKm"] = desk.row["lastServiceOdometerKm"]
        BY <3>1, <3>4, <4>1 DEF AtZero, Given
      <4> QED BY <3>2, <3>3, <3>4, <4>2 DEF Forgotten, AtZero, Given
    <3>5. CASE ~AtZero(desk.row)
      <4>1. changed = {"lastServiceAt"}
        BY <3>2, <3>3, <3>5
      <4>2. Redone(desk.row["lastServiceAt"], row) /\ desk.form = "schedule"
        BY <3>3, <3>5, <4>1
      <4>3. DOMAIN a.forgot = {"lastServiceAt"} /\ a.forgot["lastServiceAt"] = desk.row["lastServiceAt"]
        BY <3>1, <4>1
      <4>4. a.row = row \/ a.row = desk.row
        BY <2>7
      <4>5. Redone(desk.row["lastServiceAt"], a.row)
        BY <4>2, <4>4 DEF Redone
      <4> QED BY <4>2, <4>3, <4>5 DEF Forgotten
    <3> QED BY <3>4, <3>5
  <2>10. CASE a.says = "saved"
    <3>1. desk' = FormRecord(desk.form, a.row, "no", None, 0, a.sent, "form", a.says, a.offends, a.forgot)
      <4>1. desk' = PutAway(a)
        BY <2>4, <2>10 DEF PutAway
      <4> QED BY <2>7, <4>1, PutAwayIs
    <3>2. FormsOk(desk')
      BY <2>7, <2>9, <2>10, <3>1, DeskIs, FormRecordIs
    <3> QED BY <3>2 DEF FormsInv
  <2>11. CASE a.says # "saved"
    <3>1. desk' = a /\ a.row = desk.row
      BY <2>4, <2>7, <2>11
    <3>2. a.forgot # None => Forgotten(desk.form, desk.row, a.forgot)
      BY <2>9, <3>1
    <3>3. FormsOk(FormRecord(desk.form, desk.row, desk.open, desk.boxes, desk.touched, a.sent, "form",
                             a.says, a.offends, a.forgot))
      BY <2>7, <2>8, <3>2, DeskIs, OpenIs, FormRecordIs
    <3> QED BY <2>7, <3>1, <3>3 DEF FormsInv
  <2> QED BY <2>10, <2>11
<1> QED BY <1>2, <1>3

LEMMA AskKeeps ==
  ASSUME FormsInv, Ask
  PROVE  FormsInv'
<1> DEFINE base == IF desk.row = None THEN Ordinary(Dto) ELSE None
<1>1. PICK f \in DOMAIN Dto \ Figures : \E content \in {Null} \cup Edges(Dto[f]) :
        desk' = Answers("client", [g \in {f} \cup DOMAIN base |-> IF g = f THEN content ELSE base[g]], FALSE)
  BY DEF Ask, Dto, Mine
<1>2. PICK content \in {Null} \cup Edges(Dto[f]) :
        desk' = Answers("client", [g \in {f} \cup DOMAIN base |-> IF g = f THEN content ELSE base[g]], FALSE)
  BY <1>1
<1> DEFINE payload == [g \in {f} \cup DOMAIN base |-> IF g = f THEN content ELSE base[g]]
<1>3. IsContent(content)
  <2>1. IsRule(Dto[f])
    BY DeskIs, RulesAre DEF Dto
  <2> QED BY <2>1, EdgesArePlaced, NullAndZero
<1>4. \A g \in DOMAIN base : IsContent(base[g])
  BY NoneIs, OrdinaryIs
<1> HIDE DEF base
<1>5. \A g \in DOMAIN payload : IsContent(payload[g])
  BY <1>3, <1>4
<1> HIDE DEF payload
<1>6. desk' = Answers("client", payload, FALSE) /\ desk.open = "no" /\ Clock
  BY <1>2, DeskIs DEF payload, Ask, Clock
<1>7. PICK a : a = Answers("client", payload, FALSE)
  OBVIOUS
<1>8. AnswerOk("client", payload, a) /\ a.forgot = None
  BY <1>5, <1>6, <1>7, AnswerLeaves
<1>9. FormsOk(FormRecord(desk.form, a.row, "no", desk.boxes, desk.touched, a.sent, "client", a.says,
                         a.offends, a.forgot))
  BY <1>6, <1>8, DeskIs, FormRecordIs DEF AnswerOk
<1> QED BY <1>6, <1>7, <1>8, <1>9 DEF FormsInv, AnswerOk

-----------------------------------------------------------------------------
LEMMA FormsStart == FormsInit => FormsInv
<1> SUFFICES ASSUME FormsInit PROVE FormsInv
  OBVIOUS
<1>1. PICK which \in DOMAIN Form :
        desk = FormRecord(which, None, "no", None, 0, 0, "nobody", "nothing", {}, None)
  BY DEF FormsInit, FormRecord
<1>2. FormsOk(desk)
  BY <1>1, FormRecordIs
<1> QED BY <1>2 DEF FormsInv

LEMMA FormsStep == FormsInv /\ [FormsNext]_desk => FormsInv'
<1> SUFFICES ASSUME FormsInv, [FormsNext]_desk PROVE FormsInv'
  OBVIOUS
<1>1. CASE UNCHANGED desk
  BY <1>1 DEF FormsInv
<1> QED BY <1>1, OpenNewKeeps, OpenEditKeeps, TouchKeeps, LeaveFormKeeps, SubmitFormKeeps, AskKeeps
        DEF FormsNext

LEMMA FormsInvAgrees == FormsInv => FormsAgree
<1> SUFFICES ASSUME FormsInv PROVE FormsAgree
  OBVIOUS
<1>1. /\ desk.says = "400" /\ desk.by = "form" => Among(desk.offends, Looser)
      /\ desk.says = "500" => Among(desk.offends, Unguarded)
  BY DeskIs DEF Among, AmongIn
<1>2. desk.row # None => FormAccepts(desk.form, Mine.edit, Opened(desk.row))
  BY DeskIs, OpenedIsAccepted DEF Mine, Opened, OpenedIn, Last
<1>3. desk.forgot # None =>
        /\ desk.form = "schedule"
        /\ \/ Given(desk.forgot, "lastServiceOdometerKm") /\ desk.forgot["lastServiceOdometerKm"].value = 0
           \/ DOMAIN desk.forgot = {"lastServiceAt"} /\ Rederived(desk.forgot["lastServiceAt"])
  BY DeskIs DEF Forgotten, Redone, Rederived
<1> QED BY <1>1, <1>2, <1>3 DEF FormsAgree

\* What a form accepts is never answered 400, nor what the API takes 500, but
\* for the fields named; any record stored opens in its form as something the
\* form takes; and saving an edit nobody touched changes nothing, but for a
\* last service at zero kilometres, which it forgets, and the time of day of a
\* last service.  Of any number of boxes, and requests up to a billion.
THEOREM FormsKeepTogether == FormsSpec => []FormsAgree
<1>1. FormsSpec => []FormsInv
  BY FormsStart, FormsStep, PTL DEF FormsSpec
<1> QED BY <1>1, FormsInvAgrees, PTL
=============================================================================
