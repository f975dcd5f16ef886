----------------------------- MODULE Submission -----------------------------
(***************************************************************************)
(* A create form and the endpoint behind it: IdempotencyKeys in the        *)
(* browser, IdempotencyService in the API.  The expense, fuel and          *)
(* maintenance forms share the one, their services the other.              *)
(*                                                                         *)
(* A request is looked up, inserted in a transaction with its key, and     *)
(* answered; the browser may give it up at any moment while the server     *)
(* goes on.  The key's unique index makes an insert wait for the           *)
(* transaction of a twin.                                                  *)
(***************************************************************************)
EXTENDS Integers

CONSTANTS
  Entry,        \* what a person can type into the form
  Key,          \* Idempotency-Keys, in the order they are made: a bound
  Attempt,      \* requests under way at once
  FillsIn,      \* the form fills in a field by itself when what it asked for arrives
  MaxEpisodes,  \* bound: forms opened and entries changed
  MaxNow,       \* bound: moments at which a payload may be built
  NoAttempt, Nothing

ASSUME SubmissionAssumption ==
  /\ Key \subseteq Nat /\ MaxEpisodes \in Nat /\ MaxNow \in Nat /\ FillsIn \in BOOLEAN
  /\ NoAttempt \notin Attempt /\ Nothing \notin Key

VARIABLES
  now,      \* the moment a payload is stamped with
  form,     \* the form: its fields, the submission it keeps, the request it waits for
  request,  \* requests at the server
  stored,   \* idempotency_keys, each with the record it created
  episode   \* history: forms opened and entries changed so far

vars == <<now, form, request, stored, episode>>

\* A key has at most one record, so a record goes by the key that made it.
Identity == [entered : Entry, filled : BOOLEAN]
Payload  == [of : Identity, at : 0..MaxNow]
Closed   == [open |-> FALSE, waits |-> NoAttempt]
Idle     == [pc |-> "idle"]
Pc       == {"received", "creating", "inserted", "conflict", "answered"}
Outcome  == {"none", "created", "replayed", "different", "deleted", "failed"}

\* The absence of a submission or a row is neither.
ASSUME NothingAssumption ==
  /\ Nothing \notin [of : Identity, key : Key, payload : Payload]
  /\ Nothing \notin [payload : Payload, episode : 0..MaxEpisodes, live : BOOLEAN]

TypeOK ==
  /\ now \in 0..MaxNow
  /\ episode \in 0..MaxEpisodes
  /\ form \in {Closed} \cup
       [open : {TRUE}, entered : Entry, filled : BOOLEAN, waits : Attempt \cup {NoAttempt},
        current : {Nothing} \cup [of : Identity, key : Key, payload : Payload]]
  /\ request \in [Attempt -> {Idle} \cup
       [pc : Pc, key : Key, payload : Payload, episode : 0..MaxEpisodes, outcome : Outcome]]
  /\ stored \in [Key -> {Nothing} \cup
       [payload : Payload, episode : 0..MaxEpisodes, live : BOOLEAN]]

-----------------------------------------------------------------------------
\* What the submission is about: the fields, those the form filled in included.
Entered == [entered |-> form.entered, filled |-> FillsIn /\ form.filled]
Is(a, pc) == request[a].pc = pc

InUse(k) ==
  \/ stored[k] # Nothing
  \/ \E a \in Attempt : request[a] # Idle /\ request[a].key = k
  \/ form.open /\ form.current # Nothing /\ form.current.key = k

\* randomUuid: a key nobody has had.
Fresh == {k \in Key : ~InUse(k) /\ \A j \in Key : InUse(j) \/ k <= j}

\* Mutant: the payload is built anew for every click.
KeptRebuilt == [of |-> Entered, key |-> form.current.key, payload |-> [of |-> Entered, at |-> now]]

\* The submission a retry of the same entry takes: key and frozen payload.
Kept == form.current

\* Mutant: a key per click.
NeverKept == FALSE

SameEntry == form.current # Nothing /\ form.current.of = Entered

\* submissionFor.
Submissions ==
  IF SameEntry THEN {Kept}
  ELSE {[of |-> Entered, key |-> k, payload |-> [of |-> Entered, at |-> now]] : k \in Fresh}

-----------------------------------------------------------------------------
(* The form. *)

Open(e) ==
  /\ ~form.open
  /\ episode < MaxEpisodes
  /\ episode' = episode + 1
  /\ form' = [open |-> TRUE, entered |-> e, filled |-> FALSE, waits |-> NoAttempt,
              current |-> Nothing]
  /\ UNCHANGED <<now, request, stored>>

\* The person changes a field, which they may do while a request is out.
Change(e) ==
  /\ form.open
  /\ e # form.entered
  /\ episode < MaxEpisodes
  /\ episode' = episode + 1
  /\ form' = [form EXCEPT !.entered = e]
  /\ UNCHANGED <<now, request, stored>>

\* What the form asked for when it opened arrives: the usual price, the matching
\* schedule, which go into a field nobody has touched; or the mileage around the
\* date, which an expense's form only shows.
FillIn ==
  /\ form.open
  /\ ~form.filled
  /\ form' = [form EXCEPT !.filled = TRUE]
  /\ UNCHANGED <<now, request, stored, episode>>

\* The button is disabled while a request is out.
Submit(a) ==
  /\ form.open
  /\ form.waits = NoAttempt
  /\ Is(a, "idle")
  /\ \E s \in Submissions :
       /\ form' = [form EXCEPT !.waits = a, !.current = s]
       /\ request' = [request EXCEPT ![a] =
            [pc |-> "received", key |-> s.key, payload |-> s.payload, episode |-> episode,
             outcome |-> "none"]]
  /\ UNCHANGED <<now, stored, episode>>

\* The form closes on Cancel; its request goes on.
Cancel ==
  /\ form.open
  /\ form' = Closed
  /\ UNCHANGED <<now, request, stored, episode>>

\* The answer arrives: the form closes, or shows what is wrong and keeps its key.
Receive(a) ==
  /\ Is(a, "answered")
  /\ request' = [request EXCEPT ![a] = Idle]
  /\ form' = IF form.waits # a THEN form
             ELSE IF request[a].outcome \in {"created", "replayed"} THEN Closed
             ELSE [form EXCEPT !.waits = NoAttempt]
  /\ UNCHANGED <<now, stored, episode>>

\* The connection drops: the form shows an error, the server may know nothing of it.
Drop(a) ==
  /\ form.waits = a
  /\ form' = [form EXCEPT !.waits = NoAttempt]
  /\ UNCHANGED <<now, request, stored, episode>>

\* The request never reached the server.
Vanish(a) ==
  /\ Is(a, "received")
  /\ form.waits # a
  /\ request' = [request EXCEPT ![a] = Idle]
  /\ UNCHANGED <<now, form, stored, episode>>

Tick ==
  /\ now < MaxNow
  /\ now' = now + 1
  /\ UNCHANGED <<form, request, stored, episode>>

-----------------------------------------------------------------------------
(* The endpoint. *)

Answer(a, outcome) ==
  request' = [request EXCEPT ![a].pc = "answered", ![a].outcome = outcome]

\* replayedResourceId and replay: what a spent key is answered with.
Replayed(a) ==
  LET row == stored[request[a].key] IN
  IF row.payload # request[a].payload THEN "different"
  ELSE IF row.live THEN "replayed" ELSE "deleted"

\* The lookup before anything is done.
Look(a) ==
  /\ Is(a, "received")
  /\ IF stored[request[a].key] = Nothing
     THEN request' = [request EXCEPT ![a].pc = "creating"]
     ELSE Answer(a, Replayed(a))
  /\ UNCHANGED <<now, form, stored, episode>>

\* The key goes in with the record; a twin's open transaction is waited for.
Insert(a) ==
  /\ Is(a, "creating")
  /\ \A b \in Attempt : Is(b, "inserted") => request[b].key # request[a].key
  /\ request' = [request EXCEPT ![a].pc =
       IF stored[request[a].key] = Nothing THEN "inserted" ELSE "conflict"]
  /\ UNCHANGED <<now, form, stored, episode>>

Commit(a) ==
  /\ Is(a, "inserted")
  /\ stored' = [stored EXCEPT ![request[a].key] =
       [payload |-> request[a].payload, episode |-> request[a].episode, live |-> TRUE]]
  /\ Answer(a, "created")
  /\ UNCHANGED <<now, form, episode>>

\* The mileage does not fit, the process dies, the database is away.
Rollback(a) ==
  /\ Is(a, "creating") \/ Is(a, "inserted")
  /\ Answer(a, "failed")
  /\ UNCHANGED <<now, form, stored, episode>>

\* isConflict: the winner is found and replayed.
ReplayWinner(a) ==
  /\ Is(a, "conflict")
  /\ Answer(a, Replayed(a))
  /\ UNCHANGED <<now, form, stored, episode>>

\* Somebody deletes the record; the key's row stays.
Delete(k) ==
  /\ stored[k] # Nothing
  /\ stored[k].live
  /\ stored' = [stored EXCEPT ![k].live = FALSE]
  /\ UNCHANGED <<now, form, request, episode>>

-----------------------------------------------------------------------------
Init ==
  /\ now = 0
  /\ form = Closed
  /\ request = [a \in Attempt |-> Idle]
  /\ stored = [k \in Key |-> Nothing]
  /\ episode = 0

Next ==
  \/ \E e \in Entry : Open(e) \/ Change(e)
  \/ FillIn
  \/ Cancel
  \/ Tick
  \/ \E a \in Attempt : Submit(a) \/ Receive(a) \/ Drop(a) \/ Vanish(a)
  \/ \E a \in Attempt : Look(a) \/ Insert(a) \/ Commit(a) \/ Rollback(a) \/ ReplayWinner(a)
  \/ \E k \in Key : Delete(k)

Spec == Init /\ [][Next]_vars

-----------------------------------------------------------------------------
\* However often the button is pressed for one entry, and whichever requests
\* and answers are lost or overtake each other, one record is created.
\* (idempotency.ts:5-22; idempotency.service.ts)
OneRecordPerEntry ==
  \A j, k \in Key :
    j # k /\ stored[j] # Nothing /\ stored[k] # Nothing => stored[j].episode # stored[k].episode

\* A form never meets the refusal meant for a key on two different requests,
\* and a twin that lost the race is told of the record.  (idempotency.ts:17-22;
\* expenses.service.ts:111-122)
RetryIsUnderstood ==
  \A a \in Attempt :
    request[a] # Idle =>
      /\ request[a].outcome # "different"
      /\ Is(a, "conflict") => stored[request[a].key].payload = request[a].payload
=============================================================================
