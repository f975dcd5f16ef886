------------------------------ MODULE Sessions ------------------------------
(***************************************************************************)
(* AuthService and RefreshTokenRepository: the refresh tokens of one user. *)
(* A login starts a family; a refresh revokes the presented token and      *)
(* issues its successor; a logout, a replay or a password reset revokes    *)
(* what is live.                                                           *)
(*                                                                         *)
(* Requests run concurrently on Postgres at READ COMMITTED.  A statement   *)
(* sees the rows committed when it starts, waits for the row locks of      *)
(* others, and looks again only at the rows it waited for: a row inserted  *)
(* meanwhile stays invisible to it.  A statement that needs several rows   *)
(* is modelled as taking them together once all are free, which allows     *)
(* every outcome of taking them one by one.                                *)
(***************************************************************************)
EXTENDS Integers

CONSTANTS
  Req,       \* requests in progress at once
  Token,     \* refresh tokens; the number of them bounds a run
  Family,    \* sessions
  NoReq, NoToken, NoFamily,
  Live,      \* revokedAt is null
  Grace,     \* reuseGraceMs
  Ttl,       \* refreshTtlDays
  MaxNow,    \* bound: the clock
  MaxResets  \* bound: password resets

Clock == 0..MaxNow

ASSUME SessionsAssumption ==
  /\ Grace \in Nat /\ Ttl \in Nat /\ MaxNow \in Nat /\ MaxResets \in Nat
  /\ NoReq \notin Req
  /\ NoToken \notin Token
  /\ NoFamily \notin Family
  /\ Live \notin Clock

VARIABLES
  now,        \* the clock every replica reads
  family,     \* refresh_tokens.familyId, NoFamily for a row not yet inserted
  revokedAt,  \* refresh_tokens.revokedAt
  expiresAt,  \* refresh_tokens.expiresAt
  held,       \* the request whose open transaction has locked the row
  password,   \* how often the password was reset
  req,        \* what each request is doing
  session,    \* history: what became of each family
  parent      \* history: the token a rotation replaced

rows == <<family, revokedAt, expiresAt>>
vars == <<now, family, revokedAt, expiresAt, held, password, req, session, parent>>

\* since: when the statement in progress was built; want: the rows it saw.
Idle == [pc |-> "idle", token |-> NoToken, family |-> NoFamily, want |-> {}, since |-> 0]

TypeOK ==
  /\ now \in Clock
  /\ family \in [Token -> Family \cup {NoFamily}]
  /\ revokedAt \in [Token -> Clock \cup {Live}]
  /\ expiresAt \in [Token -> 0..(MaxNow + Ttl)]
  /\ held \in [Token -> Req \cup {NoReq}]
  /\ password \in 0..MaxResets
  /\ req \in [Req -> [pc : {"idle", "verified", "found", "rotating", "continuing", "locking",
                            "counted", "revoking", "resetting", "signing out"},
                      token : Token \cup {NoToken}, family : Family \cup {NoFamily},
                      want : SUBSET Token, since : Clock]]
  /\ session \in [Family -> {"none", "running", "raced", "over"}]
  /\ parent \in [Token -> Token \cup {NoToken}]

Init ==
  /\ now = 0
  /\ family = [t \in Token |-> NoFamily]
  /\ revokedAt = [t \in Token |-> Live]
  /\ expiresAt = [t \in Token |-> 0]
  /\ held = [t \in Token |-> NoReq]
  /\ password = 0
  /\ req = [r \in Req |-> Idle]
  /\ session = [f \in Family |-> "none"]
  /\ parent = [t \in Token |-> NoToken]

-----------------------------------------------------------------------------
Unissued      == {t \in Token : family[t] = NoFamily}
FamilyRows(f) == {t \in Token : family[t] = f}
LiveRows(S)   == {t \in S : revokedAt[t] = Live}
Free(S)       == \A t \in S : held[t] = NoReq

IsExpired(t, at)     == expiresAt[t] <= at
WithinReuseGrace(t)  == now - revokedAt[t] <= Grace

At(r, pc)     == req[r].pc = pc
Goto(r, pc)   == req' = [req EXCEPT ![r].pc = pc]
Release(r)    == held' = [t \in Token |-> IF held[t] = r THEN NoReq ELSE held[t]]

\* The row is inserted when the transaction that built it commits.
Insert(r, s) ==
  /\ family' = [family EXCEPT ![s] = req[r].family]
  /\ expiresAt' = [expiresAt EXCEPT ![s] = req[r].since + Ttl]

\* The UPDATE of revokeFamily as it begins.
Revoking(f) == [pc |-> "revoking", token |-> NoToken, family |-> f,
                want |-> LiveRows(FamilyRows(f)), since |-> now]

-----------------------------------------------------------------------------
(* Signing in. *)

\* The password is read and compared first; Argon2 takes its time.
Login(r, f) ==
  /\ At(r, "idle")
  /\ session[f] = "none"
  /\ \A q \in Req : At(q, "verified") => req[q].family # f
  /\ req' = [req EXCEPT ![r] = [Idle EXCEPT !.pc = "verified", !.family = f]]
  /\ UNCHANGED <<now, rows, held, password, session, parent>>

\* The first token of a family of its own.
StartSession(r, s) ==
  /\ At(r, "verified")
  /\ s \in Unissued
  /\ family' = [family EXCEPT ![s] = req[r].family]
  /\ expiresAt' = [expiresAt EXCEPT ![s] = now + Ttl]
  /\ session' = [session EXCEPT ![req[r].family] = "running"]
  /\ req' = [req EXCEPT ![r] = Idle]
  /\ UNCHANGED <<now, revokedAt, held, password, parent>>

-----------------------------------------------------------------------------
(* Refreshing.  An expired token is refused with nothing changed. *)

\* findByHash, and what the row it read decides.
Refresh(r, t) ==
  /\ At(r, "idle")
  /\ family[t] # NoFamily
  /\ ~IsExpired(t, now)
  /\ req' = [req EXCEPT ![r] =
       IF revokedAt[t] # Live /\ ~WithinReuseGrace(t) THEN Revoking(family[t])
       ELSE [pc |-> IF revokedAt[t] = Live THEN "found" ELSE "continuing",
             token |-> t, family |-> family[t], want |-> {}, since |-> now]]
  /\ UNCHANGED <<now, rows, held, password, session, parent>>

\* Mutant: read-then-write, which trusts what findByHash saw.
RotateBlind(r) ==
  /\ At(r, "found")
  /\ Goto(r, "rotating")
  /\ UNCHANGED <<now, rows, held, password, session, parent>>

\* Mutant: the revocation commits on its own, before the successor exists.
RotateCommitted(r) ==
  /\ At(r, "found")
  /\ Free({req[r].token})
  /\ IF revokedAt[req[r].token] = Live
       THEN /\ Goto(r, "rotating")
            /\ revokedAt' = [revokedAt EXCEPT ![req[r].token] = req[r].since]
       ELSE /\ Goto(r, "continuing")
            /\ revokedAt' = revokedAt
  /\ UNCHANGED <<now, family, expiresAt, held, password, session, parent>>

\* UPDATE ... WHERE id AND revokedAt IS NULL: waits for the row, looks at it
\* again, and keeps it locked until the commit.
Rotate(r) ==
  /\ At(r, "found")
  /\ Free({req[r].token})
  /\ IF revokedAt[req[r].token] = Live
       THEN /\ Goto(r, "rotating")
            /\ held' = [held EXCEPT ![req[r].token] = r]
       ELSE /\ Goto(r, "continuing")
            /\ held' = held
  /\ UNCHANGED <<now, rows, password, session, parent>>

\* The revocation and the successor commit together.
CommitRotation(r, s) ==
  /\ At(r, "rotating")
  /\ s \in Unissued
  /\ Insert(r, s)
  /\ revokedAt' = [revokedAt EXCEPT ![req[r].token] = req[r].since]
  /\ parent' = [parent EXCEPT ![s] = req[r].token]
  /\ Release(r)
  /\ req' = [req EXCEPT ![r] = Idle]
  /\ UNCHANGED <<now, password, session>>

\* createIfFamilyLive begins: SELECT ... FOR UPDATE sees the family's rows.
SelectFamily(r) ==
  /\ At(r, "continuing")
  /\ req' = [req EXCEPT ![r].pc = "locking", ![r].want = FamilyRows(req[r].family),
                        ![r].since = now]
  /\ UNCHANGED <<now, rows, held, password, session, parent>>

\* Mutant: the family runs because it has rows, revoked or not.
FamilyKnown(r) == \E t \in FamilyRows(req[r].family) : ~IsExpired(t, req[r].since)

FamilyLive(r) == \E t \in LiveRows(FamilyRows(req[r].family)) : ~IsExpired(t, req[r].since)

\* The rows are locked; a statement of its own counts what is live now.
LockFamily(r) ==
  /\ At(r, "locking")
  /\ Free(req[r].want)
  /\ FamilyLive(r)
  /\ req' = [req EXCEPT ![r].pc = "counted", ![r].want = {}]
  /\ held' = [t \in Token |-> IF t \in req[r].want THEN r ELSE held[t]]
  /\ UNCHANGED <<now, rows, password, session, parent>>

\* Nothing is live: the family died, and the request is answered 401.
Refuse(r) ==
  /\ At(r, "locking")
  /\ Free(req[r].want)
  /\ ~FamilyLive(r)
  /\ req' = [req EXCEPT ![r] = Idle]
  /\ UNCHANGED <<now, rows, held, password, session, parent>>

\* The insert of createIfFamilyLive, and its commit.
CommitContinuation(r, s) ==
  /\ At(r, "counted")
  /\ s \in Unissued
  /\ Insert(r, s)
  /\ Release(r)
  /\ req' = [req EXCEPT ![r] = Idle]
  /\ UNCHANGED <<now, revokedAt, password, session, parent>>

-----------------------------------------------------------------------------
(* Ending sessions. *)

\* logout: findByHash, then the UPDATE of revokeFamily begins.  An expired
\* token still ends its family.
Logout(r, t) ==
  /\ At(r, "idle")
  /\ family[t] # NoFamily
  /\ req' = [req EXCEPT ![r] = Revoking(family[t])]
  /\ UNCHANGED <<now, rows, held, password, session, parent>>

\* A transaction that may still insert into f.
OpenIn(f) == \E r \in Req : /\ req[r].family = f
                            /\ req[r].pc \in {"rotating", "locking", "counted"}

\* The families a revocation is for are over, or raced by an insert: one that
\* committed after the statement began, or one still open when it ends.
Ended(F, want) ==
  session' = [f \in Family |->
    IF f \notin F \/ session[f] = "over" THEN session[f]
    ELSE IF OpenIn(f) \/ ~(LiveRows(FamilyRows(f)) \subseteq want) THEN "raced"
    ELSE "over"]

\* The UPDATE has its rows, and revokes those still live.
RevokeWanted(r) ==
  /\ Free(req[r].want)
  /\ revokedAt' = [t \in Token |-> IF t \in LiveRows(req[r].want) THEN req[r].since
                                   ELSE revokedAt[t]]

\* revokeFamily, for a logout or a replay.
RevokeFamily(r) ==
  /\ At(r, "revoking")
  /\ RevokeWanted(r)
  /\ Ended({req[r].family}, req[r].want)
  /\ req' = [req EXCEPT ![r] = Idle]
  /\ UNCHANGED <<now, family, expiresAt, held, password, parent>>

\* resetPassword: the link is spent and the password set in one transaction ...
ResetPassword(r) ==
  /\ At(r, "idle")
  /\ password < MaxResets
  /\ password' = password + 1
  /\ req' = [req EXCEPT ![r] = [Idle EXCEPT !.pc = "resetting"]]
  /\ UNCHANGED <<now, rows, held, session, parent>>

\* ... and every session is signed out by a statement after it.
RevokeAllBegin(r) ==
  /\ At(r, "resetting")
  /\ req' = [req EXCEPT ![r].pc = "signing out", ![r].since = now,
                        ![r].want = LiveRows(Token \ Unissued)]
  /\ UNCHANGED <<now, rows, held, password, session, parent>>

RevokeAllForUser(r) ==
  /\ At(r, "signing out")
  /\ RevokeWanted(r)
  /\ Ended({family[t] : t \in req[r].want}, req[r].want)
  /\ req' = [req EXCEPT ![r] = Idle]
  /\ UNCHANGED <<now, family, expiresAt, held, password, parent>>

-----------------------------------------------------------------------------
\* The process or its connection dies: the open transaction rolls back.
Crash(r) ==
  /\ ~At(r, "idle")
  /\ Release(r)
  /\ req' = [req EXCEPT ![r] = Idle]
  /\ UNCHANGED <<now, rows, password, session, parent>>

Tick ==
  /\ now < MaxNow
  /\ now' = now + 1
  /\ UNCHANGED <<rows, held, password, req, session, parent>>

Next ==
  \/ Tick
  \/ \E r \in Req, f \in Family : Login(r, f)
  \/ \E r \in Req, t \in Token :
       \/ StartSession(r, t)
       \/ Refresh(r, t)
       \/ CommitRotation(r, t)
       \/ CommitContinuation(r, t)
       \/ Logout(r, t)
  \/ \E r \in Req :
       \/ Rotate(r)
       \/ SelectFamily(r)
       \/ LockFamily(r)
       \/ Refuse(r)
       \/ RevokeFamily(r)
       \/ ResetPassword(r)
       \/ RevokeAllBegin(r)
       \/ RevokeAllForUser(r)
       \/ Crash(r)

Spec == Init /\ [][Next]_vars

-----------------------------------------------------------------------------
(* What the code promises. *)

LiveIn(f) == LiveRows(FamilyRows(f))

\* Of requests presenting one token at once, exactly one spends it: a token has
\* at most one successor by rotation (the conditional update in rotate).
OneSuccessor ==
  \A s, t \in Token : parent[s] = parent[t] /\ parent[s] # NoToken => s = t

\* Two tabs that refresh at once sign nobody out: a session nobody ended keeps
\* a token that is not revoked.
RunningSessionKeepsToken == \A f \in Family : session[f] = "running" => LiveIn(f) # {}

\* A refresh within the grace is turned away (createIfFamilyLive finds nothing
\* live) only when the session was ended or the token it presented has expired.
Deserved == \A r \in Req : Refuse(r) => \/ session[req[r].family] \in {"raced", "over"}
                                        \/ IsExpired(req[r].token, now)
RefusedOnlyWhenOver == [][Deserved]_vars

\* A logout, replay or reset that ran while no transaction was open in the family
\* is final: refreshes that had already read a live token do not bring it back.
QuietEndIsFinal == \A f \in Family : session[f] = "over" => LiveIn(f) = {}

=============================================================================
