----------------------------- MODULE AuthProofs -----------------------------
(***************************************************************************)
(* Who is let in and to what: the sessions, the guards before the routes   *)
(* (from "Access" on) and the rate limits (from "Throttle" on).            *)
(***************************************************************************)
EXTENDS Sessions, Access, Throttle, FiniteSetTheorems, TLAPS

Pcs == {"idle", "verified", "found", "rotating", "continuing", "locking", "counted", "revoking",
        "resetting", "signing out"}
Presenting == {"found", "rotating", "continuing", "locking", "counted"}
SessionStates == {"none", "running", "raced", "over"}
AnyReq == [pc : Pcs, token : Token \cup {NoToken}, family : Family \cup {NoFamily},
           want : SUBSET Token, since : Clock]

\* What request r relies on.
HasToken(r) ==
  req[r].pc \in Presenting =>
    /\ req[r].token \in Token /\ req[r].family \in Family
    /\ family[req[r].token] = req[r].family
Renews(r) ==
  req[r].pc \in {"found", "rotating"} => expiresAt[req[r].token] <= req[r].since + Ttl
HoldsToken(r) ==
  req[r].pc = "rotating" => held[req[r].token] = r /\ revokedAt[req[r].token] = Live
WantsIssued(r) ==
  /\ \A t \in req[r].want : family[t] # NoFamily
  /\ req[r].pc = "revoking" =>
       /\ req[r].family \in Family /\ session[req[r].family] # "none"
       /\ \A t \in req[r].want : family[t] = req[r].family
IsNew(r) == req[r].pc = "verified" => req[r].family \in Family /\ session[req[r].family] = "none"
IsNotOver(r) == req[r].pc = "counted" => session[req[r].family] # "over"
InTime(r) == req[r].since <= now

Sound(r) ==
  /\ HasToken(r) /\ Renews(r) /\ HoldsToken(r) /\ WantsIssued(r) /\ IsNew(r) /\ IsNotOver(r)
  /\ InTime(r)

\* What holds of the rows, and of the sessions.
Blank == \A t \in Token : family[t] = NoFamily => revokedAt[t] = Live /\ parent[t] = NoToken
Bounded == \A t \in Token : expiresAt[t] <= now + Ttl
Spent == \A s \in Token : parent[s] # NoToken => revokedAt[parent[s]] # Live
NoneIsEmpty == \A f \in Family : session[f] = "none" => \A t \in Token : family[t] # f
Started == \A f \in Family : session[f] = "running" => \E t \in Token : family[t] = f

\* A running session has a live token that lasts as long as any it gave out.
Renewed ==
  \A f \in Family : \A t \in Token :
    session[f] = "running" /\ family[t] = f =>
      \E u \in Token : family[u] = f /\ revokedAt[u] = Live /\ expiresAt[u] >= expiresAt[t]

OwnFamily ==
  \A q, r \in Req :
    q # r /\ req[q].pc = "verified" /\ req[r].pc = "verified" => req[q].family # req[r].family

RowsSound == Blank /\ Bounded /\ Spent /\ OneSuccessor
SessionsSound == NoneIsEmpty /\ Started /\ Renewed /\ QuietEndIsFinal
AllSound == \A r \in Req : Sound(r)

IInv == TypeOK /\ RowsSound /\ SessionsSound /\ OwnFamily /\ AllSound

\* What a step of the others may do to what request q relies on.
Harmless(q) ==
  /\ now <= now'
  /\ \A t \in Token :
       /\ family[t] # NoFamily => family'[t] = family[t] /\ expiresAt'[t] = expiresAt[t]
       /\ held[t] = q => held'[t] = q /\ revokedAt'[t] = revokedAt[t]
  /\ \A f \in Family :
       /\ session[f] # "none" => session'[f] # "none"
       /\ req[q].pc = "verified" /\ req[q].family = f /\ session[f] = "none" => session'[f] = "none"
       /\ req[q].pc = "counted" /\ req[q].family = f /\ session[f] # "over" => session'[f] # "over"

-----------------------------------------------------------------------------
LEMMA TypeIsParts ==
  TypeOK <=> /\ now \in Clock
             /\ family \in [Token -> Family \cup {NoFamily}]
             /\ revokedAt \in [Token -> Clock \cup {Live}]
             /\ expiresAt \in [Token -> 0..(MaxNow + Ttl)]
             /\ held \in [Token -> Req \cup {NoReq}]
             /\ password \in 0..MaxResets
             /\ req \in [Req -> AnyReq]
             /\ session \in [Family -> SessionStates]
             /\ parent \in [Token -> Token \cup {NoToken}]
BY DEF TypeOK, Pcs, AnyReq, SessionStates

LEMMA ClockIsNat == Clock \subseteq Nat /\ MaxNow \in Nat /\ Ttl \in Nat /\ 0 \in Clock
BY SessionsAssumption DEF Clock

LEMMA IdleIsReq ==
  /\ Idle \in AnyReq /\ Idle.pc = "idle" /\ Idle.want = {} /\ Idle.since = 0
  /\ Idle.token = NoToken /\ Idle.family = NoFamily
BY ClockIsNat DEF Idle, AnyReq, Pcs

\* A request takes up r; the others go on as they are.
LEMMA Takes ==
  ASSUME TypeOK, NEW r \in Req, NEW x \in AnyReq, req' = [req EXCEPT ![r] = x]
  PROVE  /\ req' \in [Req -> AnyReq] /\ req'[r] = x
         /\ \A q \in Req : q # r => req'[q] = req[q]
BY TypeIsParts

LEMMA Goes ==
  ASSUME TypeOK, NEW r \in Req, NEW pc \in Pcs, Goto(r, pc)
  PROVE  /\ req' \in [Req -> AnyReq]
         /\ req'[r].pc = pc /\ req'[r].token = req[r].token /\ req'[r].family = req[r].family
         /\ req'[r].want = req[r].want /\ req'[r].since = req[r].since
         /\ \A q \in Req : q # r => req'[q] = req[q]
<1> DEFINE x == [req[r] EXCEPT !.pc = pc]
<1>1. req \in [Req -> AnyReq]
  BY TypeIsParts
<1>2. x \in AnyReq /\ x.pc = pc /\ x.token = req[r].token /\ x.family = req[r].family
      /\ x.want = req[r].want /\ x.since = req[r].since
  BY <1>1 DEF AnyReq
<1>3. req' = [req EXCEPT ![r] = x]
  BY <1>1 DEF Goto
<1> HIDE DEF x
<1> QED BY <1>1, <1>2, <1>3

LEMMA ReleaseKeeps ==
  ASSUME TypeOK, NEW r \in Req, Release(r)
  PROVE  /\ held' \in [Token -> Req \cup {NoReq}]
         /\ \A q \in Req : q # r => \A t \in Token : held[t] = q => held'[t] = q
BY TypeIsParts DEF Release

LEMMA IdleIsSound ==
  ASSUME TypeOK', NEW r \in Req, req'[r] = Idle
  PROVE  Sound(r)'
<1>1. now' \in Nat
  BY ClockIsNat DEF TypeOK
<1> QED BY <1>1, IdleIsReq DEF Sound, HasToken, Renews, HoldsToken, WantsIssued, IsNew, IsNotOver, InTime,
           Presenting

LEMMA Bystander ==
  ASSUME TypeOK, TypeOK', NEW q \in Req, Sound(q), Harmless(q), req'[q] = req[q]
  PROVE  Sound(q)'
<1>0. /\ req[q] \in AnyReq /\ req[q].want \subseteq Token /\ req[q].since \in Nat
      /\ now \in Nat /\ now' \in Nat
  BY TypeIsParts, ClockIsNat DEF AnyReq, TypeOK
<1>1. ASSUME req[q].pc \in Presenting
      PROVE  /\ req[q].token \in Token /\ req[q].family \in Family
             /\ family[req[q].token] = req[q].family /\ req[q].family # NoFamily
  BY <1>1, SessionsAssumption DEF Sound, HasToken
<1>2. HasToken(q)'
  BY <1>1 DEF HasToken, Harmless
<1>3. Renews(q)'
  BY <1>1 DEF Sound, Renews, Harmless, Presenting
<1>4. HoldsToken(q)'
  BY <1>1 DEF Sound, HoldsToken, Harmless, Presenting
<1>5. WantsIssued(q)'
  BY <1>0 DEF Sound, WantsIssued, Harmless
<1>6. IsNew(q)'
  BY DEF Sound, IsNew, Harmless
<1>7. IsNotOver(q)'
  BY <1>1 DEF Sound, IsNotOver, Harmless, Presenting
<1>8. InTime(q)'
  BY <1>0 DEF Sound, InTime, Harmless
<1> QED BY <1>2, <1>3, <1>4, <1>5, <1>6, <1>7, <1>8 DEF Sound

\* Steps that touch neither rows nor sessions.
LEMMA QuietStep ==
  ASSUME IInv, TypeOK', NEW r \in Req, UNCHANGED <<now, rows, session, parent>>,
         \A q \in Req : q # r => req'[q] = req[q],
         \A q \in Req : q # r => \A t \in Token : held[t] = q => held'[t] = q,
         req'[r].pc # "verified",
         Sound(r)'
  PROVE  IInv'
<1>0. now \in Nat
  BY ClockIsNat DEF IInv, TypeOK
<1>1. ASSUME NEW q \in Req, q # r PROVE Sound(q)'
  <2>1. Harmless(q)
    BY <1>0, <1>1 DEF Harmless, rows
  <2> QED BY <1>1, <2>1, Bystander DEF IInv, AllSound
<1>2. RowsSound'
  BY DEF IInv, RowsSound, Blank, Bounded, Spent, OneSuccessor, rows
<1>3. SessionsSound'
  BY DEF IInv, SessionsSound, NoneIsEmpty, Started, Renewed, QuietEndIsFinal, LiveIn, LiveRows,
         FamilyRows, rows
<1>4. OwnFamily'
  BY DEF IInv, OwnFamily
<1> QED BY <1>1, <1>2, <1>3, <1>4 DEF IInv, AllSound

-----------------------------------------------------------------------------
\* An issued token's family, and what it is to be revoked.
LEMMA IssuedIsOwned ==
  ASSUME IInv, NEW t \in Token, family[t] # NoFamily
  PROVE  family[t] \in Family /\ session[family[t]] # "none"
<1>1. family[t] \in Family
  BY TypeIsParts DEF IInv
<1> QED BY <1>1 DEF IInv, SessionsSound, NoneIsEmpty

LEMMA RevokingIsReq ==
  ASSUME TypeOK, NEW f \in Family
  PROVE  /\ Revoking(f) \in AnyReq /\ Revoking(f).pc = "revoking" /\ Revoking(f).family = f
         /\ Revoking(f).since = now /\ Revoking(f).want \subseteq Token
         /\ \A t \in Revoking(f).want : family[t] = f
BY TypeIsParts DEF Revoking, AnyReq, Pcs, LiveRows, FamilyRows

\* A request that begins to revoke a family.
LEMMA RevokingIsSound ==
  ASSUME TypeOK, TypeOK', NEW r \in Req, NEW f \in Family, req'[r] = Revoking(f),
         session[f] # "none", UNCHANGED <<now, rows, session>>
  PROVE  Sound(r)'
<1>1. /\ req'[r].pc = "revoking" /\ req'[r].family = f /\ req'[r].since = now
      /\ \A t \in req'[r].want : family[t] = f
  BY RevokingIsReq
<1>2. f # NoFamily /\ now \in Nat
  BY SessionsAssumption, ClockIsNat DEF TypeOK
<1> QED BY <1>1, <1>2 DEF Sound, HasToken, Renews, HoldsToken, WantsIssued, IsNew, IsNotOver, InTime,
           Presenting, rows

LEMMA LoginKeeps ==
  ASSUME IInv, NEW r \in Req, NEW f \in Family, Login(r, f)
  PROVE  IInv'
<1> DEFINE x == [Idle EXCEPT !.pc = "verified", !.family = f]
<1>0. TypeOK /\ now \in Nat
  BY ClockIsNat DEF IInv, TypeOK
<1>1. x \in AnyReq /\ x.pc = "verified" /\ x.family = f /\ x.want = {} /\ x.since = 0
  BY ClockIsNat DEF Idle, AnyReq, Pcs
<1>2. req' = [req EXCEPT ![r] = x]
  BY DEF Login
<1> HIDE DEF x
<1>3. req' \in [Req -> AnyReq] /\ req'[r] = x /\ \A q \in Req : q # r => req'[q] = req[q]
  BY <1>0, <1>1, <1>2, Takes
<1>4. UNCHANGED <<now, rows, held, session, parent, password>>
  BY DEF Login
<1>5. TypeOK'
  BY <1>0, <1>3, <1>4 DEF TypeOK, AnyReq, Pcs, rows
<1>6. Sound(r)'
  <2>1. IsNew(r)'
    BY <1>1, <1>3, <1>4 DEF Login, IsNew
  <2>2. InTime(r)' /\ WantsIssued(r)'
    BY <1>0, <1>1, <1>3, <1>4 DEF InTime, WantsIssued
  <2> QED BY <1>1, <1>3, <2>1, <2>2 DEF Sound, HasToken, Renews, HoldsToken, IsNotOver, Presenting
<1>7. ASSUME NEW q \in Req, q # r PROVE Sound(q)'
  <2>1. Harmless(q)
    BY <1>0, <1>4 DEF Harmless, rows
  <2> QED BY <1>0, <1>3, <1>5, <1>7, <2>1, Bystander DEF IInv, AllSound
<1>8. RowsSound'
  BY <1>4 DEF IInv, RowsSound, Blank, Bounded, Spent, OneSuccessor, rows
<1>9. SessionsSound'
  BY <1>4 DEF IInv, SessionsSound, NoneIsEmpty, Started, Renewed, QuietEndIsFinal, LiveIn, LiveRows,
         FamilyRows, rows
<1>10. OwnFamily'
  BY <1>1, <1>3 DEF IInv, OwnFamily, Login, At
<1> QED BY <1>5, <1>6, <1>7, <1>8, <1>9, <1>10 DEF IInv, AllSound

LEMMA RefreshKeeps ==
  ASSUME IInv, NEW r \in Req, NEW t \in Token, Refresh(r, t)
  PROVE  IInv'
<1>0. /\ TypeOK /\ now \in Clock /\ now \in Nat /\ expiresAt[t] <= now + Ttl
      /\ family[t] \in Family /\ session[family[t]] # "none"
  BY IssuedIsOwned, TypeIsParts, ClockIsNat DEF IInv, RowsSound, Bounded, Refresh
<1>1. UNCHANGED <<now, rows, held, session, parent, password>>
  BY DEF Refresh
<1>2. CASE revokedAt[t] # Live /\ ~WithinReuseGrace(t)
  <2>1. req' = [req EXCEPT ![r] = Revoking(family[t])]
    BY <1>2 DEF Refresh
  <2>2. /\ req' \in [Req -> AnyReq] /\ req'[r] = Revoking(family[t])
        /\ \A q \in Req : q # r => req'[q] = req[q]
    BY <1>0, <2>1, RevokingIsReq, Takes
  <2>3. TypeOK'
    BY <1>0, <1>1, <2>2 DEF TypeOK, AnyReq, Pcs, rows
  <2>4. Sound(r)' /\ req'[r].pc # "verified"
    BY <1>0, <1>1, <2>2, <2>3, RevokingIsSound, RevokingIsReq
  <2> QED BY <1>1, <2>2, <2>3, <2>4, QuietStep
<1>3. CASE ~(revokedAt[t] # Live /\ ~WithinReuseGrace(t))
  <2> DEFINE pc == IF revokedAt[t] = Live THEN "found" ELSE "continuing"
             x  == [pc |-> pc, token |-> t, family |-> family[t], want |-> {}, since |-> now]
  <2>1. x \in AnyReq /\ x.pc \in {"found", "continuing"} /\ x.token = t /\ x.family = family[t]
        /\ x.want = {} /\ x.since = now
    BY <1>0 DEF AnyReq, Pcs
  <2>2. req' = [req EXCEPT ![r] = x]
    BY <1>3 DEF Refresh
  <2> HIDE DEF x
  <2>3. req' \in [Req -> AnyReq] /\ req'[r] = x /\ \A q \in Req : q # r => req'[q] = req[q]
    BY <1>0, <2>1, <2>2, Takes
  <2>4. TypeOK'
    BY <1>0, <1>1, <2>3 DEF TypeOK, AnyReq, Pcs, rows
  <2>5. Sound(r)'
    BY <1>0, <1>1, <2>1, <2>3 DEF Sound, HasToken, Renews, HoldsToken, WantsIssued, IsNew,
       IsNotOver, InTime, Presenting, rows
  <2> QED BY <1>1, <2>1, <2>3, <2>4, <2>5, QuietStep
<1> QED BY <1>2, <1>3

LEMMA RotateKeeps ==
  ASSUME IInv, NEW r \in Req, Rotate(r)
  PROVE  IInv'
<1>0. /\ TypeOK /\ Sound(r) /\ req[r].pc = "found" /\ req[r].token \in Token
      /\ held[req[r].token] = NoReq /\ NoReq \notin Req
      /\ UNCHANGED <<now, rows, password, session, parent>>
  BY SessionsAssumption DEF IInv, AllSound, Sound, HasToken, Presenting, Rotate, At, Free
<1>1. PICK pc \in {"rotating", "continuing"} :
        /\ Goto(r, pc)
        /\ pc = "rotating" => revokedAt[req[r].token] = Live
        /\ held' = IF pc = "rotating" THEN [held EXCEPT ![req[r].token] = r] ELSE held
  <2>1. CASE revokedAt[req[r].token] = Live
    BY <2>1 DEF Rotate
  <2>2. CASE revokedAt[req[r].token] # Live
    BY <2>2 DEF Rotate
  <2> QED BY <2>1, <2>2
<1>2. /\ req' \in [Req -> AnyReq]
      /\ req'[r].pc = pc /\ req'[r].token = req[r].token /\ req'[r].family = req[r].family
      /\ req'[r].want = req[r].want /\ req'[r].since = req[r].since
      /\ \A q \in Req : q # r => req'[q] = req[q]
  BY <1>0, <1>1, Goes DEF Pcs
<1>3. /\ held' \in [Token -> Req \cup {NoReq}]
      /\ \A q \in Req : q # r => \A t \in Token : held[t] = q => held'[t] = q
      /\ pc = "rotating" => held'[req[r].token] = r
  BY <1>0, <1>1, TypeIsParts
<1>4. TypeOK'
  BY <1>0, <1>2, <1>3 DEF TypeOK, AnyReq, Pcs, rows
<1>5. Sound(r)'
  BY <1>0, <1>1, <1>2, <1>3 DEF Sound, HasToken, Renews, HoldsToken, WantsIssued, IsNew,
     IsNotOver, InTime, Presenting, rows
<1> QED BY <1>0, <1>2, <1>3, <1>4, <1>5, QuietStep

LEMMA SelectKeeps ==
  ASSUME IInv, NEW r \in Req, SelectFamily(r)
  PROVE  IInv'
<1> DEFINE x == [req[r] EXCEPT !.pc = "locking", !.want = FamilyRows(req[r].family), !.since = now]
<1>0. /\ TypeOK /\ Sound(r) /\ req[r].pc = "continuing" /\ now \in Clock /\ now \in Nat
      /\ req[r] \in AnyReq /\ req[r].family \in Family /\ NoFamily \notin Family
      /\ UNCHANGED <<now, rows, held, password, session, parent>>
  BY TypeIsParts, ClockIsNat, SessionsAssumption
     DEF IInv, AllSound, Sound, HasToken, Presenting, SelectFamily, At
<1>1. x \in AnyReq /\ x.pc = "locking" /\ x.token = req[r].token /\ x.family = req[r].family
      /\ x.want = FamilyRows(req[r].family) /\ x.since = now
  BY <1>0 DEF AnyReq, Pcs, FamilyRows
<1>2. req' = [req EXCEPT ![r] = x]
  BY <1>0 DEF SelectFamily
<1> HIDE DEF x
<1>3. req' \in [Req -> AnyReq] /\ req'[r] = x /\ \A q \in Req : q # r => req'[q] = req[q]
  BY <1>0, <1>1, <1>2, Takes
<1>4. TypeOK'
  BY <1>0, <1>3 DEF TypeOK, AnyReq, Pcs, rows
<1>5. \A t \in FamilyRows(req[r].family) : family[t] # NoFamily
  BY <1>0 DEF FamilyRows
<1>6. Sound(r)'
  BY <1>0, <1>1, <1>3, <1>5 DEF Sound, HasToken, Renews, HoldsToken, WantsIssued, IsNew,
     IsNotOver, InTime, Presenting, rows
<1> QED BY <1>0, <1>1, <1>3, <1>4, <1>6, QuietStep

LEMMA LockFamilyKeeps ==
  ASSUME IInv, NEW r \in Req, LockFamily(r)
  PROVE  IInv'
<1> DEFINE x == [req[r] EXCEPT !.pc = "counted", !.want = {}]
<1>0. /\ TypeOK /\ Sound(r) /\ req[r].pc = "locking" /\ NoReq \notin Req
      /\ req[r] \in AnyReq /\ req[r].family \in Family /\ held \in [Token -> Req \cup {NoReq}]
      /\ UNCHANGED <<now, rows, password, session, parent>>
  BY TypeIsParts, SessionsAssumption
     DEF IInv, AllSound, Sound, HasToken, Presenting, LockFamily, At
<1>1. x \in AnyReq /\ x.pc = "counted" /\ x.token = req[r].token /\ x.family = req[r].family
      /\ x.want = {} /\ x.since = req[r].since
  BY <1>0 DEF AnyReq, Pcs
<1>2. req' = [req EXCEPT ![r] = x]
  BY <1>0 DEF LockFamily
<1> HIDE DEF x
<1>3. req' \in [Req -> AnyReq] /\ req'[r] = x /\ \A q \in Req : q # r => req'[q] = req[q]
  BY <1>0, <1>1, <1>2, Takes
<1>4. /\ held' \in [Token -> Req \cup {NoReq}]
      /\ \A q \in Req : q # r => \A t \in Token : held[t] = q => held'[t] = q
  BY <1>0 DEF LockFamily, Free
<1>5. TypeOK'
  BY <1>0, <1>3, <1>4 DEF TypeOK, AnyReq, Pcs, rows
<1>6. session[req[r].family] # "over"
  BY <1>0 DEF IInv, SessionsSound, QuietEndIsFinal, LiveIn, LockFamily, FamilyLive
<1>7. Sound(r)'
  BY <1>0, <1>1, <1>3, <1>6 DEF Sound, HasToken, Renews, HoldsToken, WantsIssued, IsNew,
     IsNotOver, InTime, Presenting, rows
<1> QED BY <1>0, <1>1, <1>3, <1>4, <1>5, <1>7, QuietStep

\* A request is done, answered or dead: it lets go of its rows and changes nothing.
LEMMA DoneKeeps ==
  ASSUME IInv, NEW r \in Req, Refuse(r) \/ Crash(r)
  PROVE  IInv'
<1>0. TypeOK /\ UNCHANGED <<now, rows, password, session, parent>>
  BY DEF IInv, Refuse, Crash
<1>1. req' \in [Req -> AnyReq] /\ req'[r] = Idle /\ \A q \in Req : q # r => req'[q] = req[q]
  BY <1>0, IdleIsReq, Takes DEF Refuse, Crash
<1>2. /\ held' \in [Token -> Req \cup {NoReq}]
      /\ \A q \in Req : q # r => \A t \in Token : held[t] = q => held'[t] = q
  BY <1>0, TypeIsParts, ReleaseKeeps DEF Refuse, Crash
<1>3. TypeOK'
  BY <1>0, <1>1, <1>2 DEF TypeOK, AnyReq, Pcs, rows
<1>4. Sound(r)' /\ req'[r].pc # "verified"
  BY <1>1, <1>3, IdleIsSound, IdleIsReq
<1> QED BY <1>0, <1>1, <1>2, <1>3, <1>4, QuietStep

LEMMA LogoutKeeps ==
  ASSUME IInv, NEW r \in Req, NEW t \in Token, Logout(r, t)
  PROVE  IInv'
<1>0. /\ TypeOK /\ family[t] \in Family /\ session[family[t]] # "none"
      /\ UNCHANGED <<now, rows, held, password, session, parent>>
  BY IssuedIsOwned DEF IInv, Logout
<1>1. /\ req' \in [Req -> AnyReq] /\ req'[r] = Revoking(family[t])
      /\ \A q \in Req : q # r => req'[q] = req[q]
  BY <1>0, RevokingIsReq, Takes DEF Logout
<1>2. TypeOK'
  BY <1>0, <1>1 DEF TypeOK, AnyReq, Pcs, rows
<1>3. Sound(r)' /\ req'[r].pc # "verified"
  BY <1>0, <1>1, <1>2, RevokingIsSound, RevokingIsReq
<1> QED BY <1>0, <1>1, <1>2, <1>3, QuietStep

LEMMA ResetKeeps ==
  ASSUME IInv, NEW r \in Req, ResetPassword(r) \/ RevokeAllBegin(r)
  PROVE  IInv'
<1>0. /\ TypeOK /\ Sound(r) /\ req[r] \in AnyReq /\ now \in Clock /\ now \in Nat
      /\ UNCHANGED <<now, rows, held, session, parent>>
  BY TypeIsParts, ClockIsNat DEF IInv, AllSound, ResetPassword, RevokeAllBegin
<1>1. PICK x \in AnyReq :
        /\ req' = [req EXCEPT ![r] = x]
        /\ x.pc \in {"resetting", "signing out"} /\ x.since <= now
        /\ \A t \in x.want : family[t] # NoFamily
  <2>1. CASE ResetPassword(r)
    <3> DEFINE x == [Idle EXCEPT !.pc = "resetting"]
    <3>1. x \in AnyReq /\ x.pc = "resetting" /\ x.since = 0 /\ x.want = {}
      BY ClockIsNat DEF Idle, AnyReq, Pcs
    <3>2. req' = [req EXCEPT ![r] = x]
      BY <2>1 DEF ResetPassword
    <3> HIDE DEF x
    <3>3. x.since <= now
      BY <1>0, <3>1
    <3> QED BY <3>1, <3>2, <3>3
  <2>2. CASE RevokeAllBegin(r)
    <3> DEFINE x == [req[r] EXCEPT !.pc = "signing out", !.since = now,
                                   !.want = LiveRows(Token \ Unissued)]
    <3>1. x \in AnyReq /\ x.pc = "signing out" /\ x.since = now
          /\ x.want = LiveRows(Token \ Unissued)
      BY <1>0 DEF AnyReq, Pcs, LiveRows
    <3>2. req' = [req EXCEPT ![r] = x]
      BY <1>0, <2>2 DEF RevokeAllBegin
    <3>3. \A t \in LiveRows(Token \ Unissued) : family[t] # NoFamily
      BY DEF LiveRows, Unissued
    <3> HIDE DEF x
    <3>4. x.since <= now
      <4>1. now \in Nat /\ x.since = now
        BY <1>0, <3>1
      <4> QED BY <4>1
    <3> QED BY <3>1, <3>2, <3>3, <3>4
  <2> QED BY <2>1, <2>2
<1>2. req' \in [Req -> AnyReq] /\ req'[r] = x /\ \A q \in Req : q # r => req'[q] = req[q]
  BY <1>0, <1>1, Takes
<1>3. password' \in 0..MaxResets
  <2>1. password \in 0..MaxResets /\ MaxResets \in Nat
    BY <1>0, SessionsAssumption DEF TypeOK
  <2>2. password' = password \/ (password < MaxResets /\ password' = password + 1)
    BY DEF ResetPassword, RevokeAllBegin
  <2> QED BY <2>1, <2>2
<1>4. TypeOK'
  BY <1>0, <1>2, <1>3 DEF TypeOK, AnyReq, Pcs, rows
<1>5. Sound(r)'
  <2>1. family' = family /\ now' = now
    BY <1>0 DEF rows
  <2>2. x.since <= now
    BY <1>1
  <2>3. InTime(r)'
    BY <1>2, <2>1, <2>2 DEF InTime
  <2>4. WantsIssued(r)'
    BY <1>1, <1>2, <2>1 DEF WantsIssued
  <2> QED BY <1>1, <1>2, <2>3, <2>4 DEF Sound, HasToken, Renews, HoldsToken, IsNew, IsNotOver, Presenting
<1> QED BY <1>0, <1>1, <1>2, <1>4, <1>5, QuietStep

-----------------------------------------------------------------------------
\* An issued token is not given out again, and nobody revokes what is locked.
LEMMA StartKeeps ==
  ASSUME IInv, NEW r \in Req, NEW s \in Token, StartSession(r, s)
  PROVE  IInv'
<1> DEFINE F == req[r].family
<1>0. /\ TypeOK /\ Sound(r) /\ F \in Family /\ session[F] = "none" /\ family[s] = NoFamily
      /\ NoFamily \notin Family /\ now \in Nat /\ Ttl \in Nat /\ revokedAt[s] = Live
      /\ req[r].pc = "verified"
      /\ \A t \in Token : family[t] # F
      /\ UNCHANGED <<now, revokedAt, held, password, parent>>
  BY SessionsAssumption, ClockIsNat, TypeIsParts
     DEF IInv, AllSound, Sound, IsNew, StartSession, At, Unissued, RowsSound, Blank, SessionsSound,
         NoneIsEmpty
<1>1. /\ req' \in [Req -> AnyReq] /\ req'[r] = Idle /\ \A q \in Req : q # r => req'[q] = req[q]
      /\ req'[r].pc = "idle"
  BY <1>0, IdleIsReq, Takes DEF StartSession
<1>2. /\ family' \in [Token -> Family \cup {NoFamily}] /\ family'[s] = F
      /\ \A t \in Token : t # s => family'[t] = family[t]
  BY <1>0, TypeIsParts DEF StartSession
<1>3. /\ expiresAt' \in [Token -> 0..(MaxNow + Ttl)] /\ expiresAt'[s] = now + Ttl
      /\ \A t \in Token : t # s => expiresAt'[t] = expiresAt[t]
  <2>1. now + Ttl \in 0..(MaxNow + Ttl)
    BY <1>0, TypeIsParts, SessionsAssumption DEF Clock
  <2> QED BY <1>0, <2>1, TypeIsParts DEF StartSession
<1>4. /\ session' \in [Family -> SessionStates] /\ session'[F] = "running"
      /\ \A f \in Family : f # F => session'[f] = session[f]
  BY <1>0, TypeIsParts DEF StartSession, SessionStates
<1>5. TypeOK'
  BY <1>0, <1>1, <1>2, <1>3, <1>4 DEF TypeOK, AnyReq, Pcs, SessionStates
<1> HIDE DEF F
<1>6. ASSUME NEW q \in Req PROVE Sound(q)'
  <2>1. CASE q = r
    BY <1>1, <1>5, <2>1, IdleIsSound
  <2>2. CASE q # r
    <3>1. req[q].pc = "verified" => req[q].family # F
      BY <1>0, <2>2 DEF IInv, OwnFamily, F
    <3>2. \A t \in Token : family[t] # NoFamily =>
            family'[t] = family[t] /\ expiresAt'[t] = expiresAt[t]
      BY <1>0, <1>2, <1>3
    <3>3. \A f \in Family : session[f] # "over" => session'[f] # "over"
      BY <1>4
    <3>4. Harmless(q)
      BY <1>0, <1>4, <3>1, <3>2, <3>3 DEF Harmless
    <3> QED BY <1>0, <1>1, <1>5, <2>2, <3>4, Bystander DEF IInv, AllSound
  <2> QED BY <2>1, <2>2
<1>7. RowsSound'
  <2>1. Blank'
    BY <1>0, <1>2 DEF IInv, RowsSound, Blank
  <2>2. Bounded'
    BY <1>0, <1>3 DEF IInv, RowsSound, Bounded
  <2>3. Spent' /\ OneSuccessor'
    BY <1>0 DEF IInv, RowsSound, Spent, OneSuccessor
  <2> QED BY <2>1, <2>2, <2>3 DEF RowsSound
<1>8. SessionsSound'
  <2>1. NoneIsEmpty'
    BY <1>0, <1>2, <1>4 DEF IInv, SessionsSound, NoneIsEmpty
  <2>2. Started'
    BY <1>0, <1>2, <1>4 DEF IInv, SessionsSound, Started
  <2>3. ASSUME NEW f \in Family, NEW t \in Token, session'[f] = "running", family'[t] = f
        PROVE  \E u \in Token : family'[u] = f /\ revokedAt'[u] = Live /\ expiresAt'[u] >= expiresAt'[t]
    <3>1. CASE f = F
      <4>1. t = s
        BY <1>0, <1>2, <2>3, <3>1
      <4>2. expiresAt'[s] >= expiresAt'[s]
        BY <1>0, <1>3
      <4> QED BY <1>0, <1>2, <2>3, <4>1, <4>2
    <3>2. CASE f # F
      <4>1. t # s /\ family[t] = f /\ session[f] = "running"
        BY <1>2, <1>4, <2>3, <3>2
      <4>2. PICK u \in Token : family[u] = f /\ revokedAt[u] = Live /\ expiresAt[u] >= expiresAt[t]
        BY <4>1 DEF IInv, SessionsSound, Renewed
      <4>3. u # s
        BY <1>0, <4>2
      <4> QED BY <1>0, <1>2, <1>3, <4>1, <4>2, <4>3
    <3> QED BY <3>1, <3>2
  <2>4. QuietEndIsFinal'
    BY <1>0, <1>2, <1>4 DEF IInv, SessionsSound, QuietEndIsFinal, LiveIn, LiveRows, FamilyRows
  <2> QED BY <2>1, <2>2, <2>3, <2>4 DEF SessionsSound, Renewed
<1>9. OwnFamily'
  BY <1>1 DEF IInv, OwnFamily
<1> QED BY <1>5, <1>6, <1>7, <1>8, <1>9 DEF IInv, AllSound

\* What inserting a row for request r does to the rows.
LEMMA Inserts ==
  ASSUME IInv, NEW r \in Req, req[r].pc \in {"rotating", "counted"}, NEW s \in Unissued, Insert(r, s),
         now' = now
  PROVE  /\ req[r].family \in Family /\ NoFamily \notin Family
         /\ s \in Token /\ family[s] = NoFamily /\ revokedAt[s] = Live /\ parent[s] = NoToken
         /\ family' \in [Token -> Family \cup {NoFamily}] /\ family'[s] = req[r].family
         /\ \A t \in Token : t # s => family'[t] = family[t]
         /\ expiresAt' \in [Token -> 0..(MaxNow + Ttl)] /\ expiresAt'[s] = req[r].since + Ttl
         /\ \A t \in Token : t # s => expiresAt'[t] = expiresAt[t]
         /\ Bounded'
<1>0. /\ TypeOK /\ Sound(r) /\ req[r].family \in Family /\ NoFamily \notin Family
      /\ s \in Token /\ family[s] = NoFamily /\ revokedAt[s] = Live /\ parent[s] = NoToken
  BY SessionsAssumption
     DEF IInv, AllSound, Sound, HasToken, Presenting, Unissued, RowsSound, Blank
<1>1. /\ req[r].since \in Clock /\ req[r].since \in Nat /\ now \in Nat /\ req[r].since <= now
  BY <1>0, TypeIsParts, ClockIsNat DEF AnyReq, Sound, InTime
<1>2. /\ family' \in [Token -> Family \cup {NoFamily}] /\ family'[s] = req[r].family
      /\ \A t \in Token : t # s => family'[t] = family[t]
  BY <1>0, TypeIsParts DEF Insert
<1>3. req[r].since + Ttl \in 0..(MaxNow + Ttl) /\ req[r].since + Ttl <= now + Ttl
  BY <1>1, SessionsAssumption DEF Clock
<1>4. /\ expiresAt' \in [Token -> 0..(MaxNow + Ttl)] /\ expiresAt'[s] = req[r].since + Ttl
      /\ \A t \in Token : t # s => expiresAt'[t] = expiresAt[t]
  BY <1>0, <1>3, TypeIsParts DEF Insert
<1>5. Bounded'
  BY <1>3, <1>4 DEF IInv, RowsSound, Bounded
<1> QED BY <1>0, <1>2, <1>4, <1>5

LEMMA ContinuationKeeps ==
  ASSUME IInv, NEW r \in Req, NEW s \in Token, CommitContinuation(r, s)
  PROVE  IInv'
<1> DEFINE F == req[r].family
<1>0. /\ TypeOK /\ Sound(r) /\ req[r].pc = "counted" /\ Insert(r, s) /\ s \in Unissued
      /\ Ttl \in Nat /\ now \in Nat
      /\ UNCHANGED <<now, revokedAt, password, session, parent>>
  BY ClockIsNat, TypeIsParts DEF IInv, AllSound, CommitContinuation, At
<1>1. /\ F \in Family /\ NoFamily \notin Family
      /\ s \in Token /\ family[s] = NoFamily /\ revokedAt[s] = Live /\ parent[s] = NoToken
      /\ family' \in [Token -> Family \cup {NoFamily}] /\ family'[s] = F
      /\ \A t \in Token : t # s => family'[t] = family[t]
      /\ expiresAt' \in [Token -> 0..(MaxNow + Ttl)] /\ expiresAt'[s] = req[r].since + Ttl
      /\ \A t \in Token : t # s => expiresAt'[t] = expiresAt[t]
      /\ Bounded'
  BY <1>0, Inserts
<1>2. session[F] \notin {"none", "over"} /\ req[r].since \in Nat
  <2>1. family[req[r].token] = F /\ req[r].token \in Token /\ session[F] # "over"
    BY <1>0 DEF Sound, HasToken, IsNotOver, Presenting
  <2>2. session[F] # "none"
    BY <1>1, <2>1 DEF IInv, SessionsSound, NoneIsEmpty
  <2> QED BY <1>0, <2>1, <2>2, TypeIsParts, ClockIsNat DEF AnyReq
<1>3. /\ req' \in [Req -> AnyReq] /\ req'[r] = Idle /\ \A q \in Req : q # r => req'[q] = req[q]
      /\ req'[r].pc = "idle"
  BY <1>0, IdleIsReq, Takes DEF CommitContinuation
<1>4. /\ held' \in [Token -> Req \cup {NoReq}]
      /\ \A q \in Req : q # r => \A t \in Token : held[t] = q => held'[t] = q
  BY <1>0, TypeIsParts, ReleaseKeeps DEF CommitContinuation
<1> HIDE DEF F
<1>5. TypeOK'
  BY <1>0, <1>1, <1>3, <1>4 DEF TypeOK, AnyReq, Pcs
<1>6. ASSUME NEW q \in Req PROVE Sound(q)'
  <2>1. CASE q = r
    BY <1>3, <1>5, <2>1, IdleIsSound
  <2>2. CASE q # r
    <3>1. Harmless(q)
      BY <1>0, <1>1, <1>4, <2>2 DEF Harmless
    <3> QED BY <1>0, <1>3, <1>5, <2>2, <3>1, Bystander DEF IInv, AllSound
  <2> QED BY <2>1, <2>2
<1>7. RowsSound'
  <2>1. Blank'
    BY <1>0, <1>1 DEF IInv, RowsSound, Blank
  <2>2. Spent' /\ OneSuccessor'
    BY <1>0 DEF IInv, RowsSound, Spent, OneSuccessor
  <2> QED BY <1>1, <2>1, <2>2 DEF RowsSound
<1>8. SessionsSound'
  <2>1. NoneIsEmpty'
    BY <1>0, <1>1, <1>2 DEF IInv, SessionsSound, NoneIsEmpty
  <2>2. Started'
    <3>1. ASSUME NEW f \in Family, session'[f] = "running" PROVE \E t \in Token : family'[t] = f
      <4>1. PICK t \in Token : family[t] = f
        BY <1>0, <3>1 DEF IInv, SessionsSound, Started
      <4> QED BY <1>1, <4>1
    <3> QED BY <3>1 DEF Started
  <2>3. ASSUME NEW f \in Family, NEW t \in Token, session'[f] = "running", family'[t] = f
        PROVE  \E u \in Token : family'[u] = f /\ revokedAt'[u] = Live /\ expiresAt'[u] >= expiresAt'[t]
    <3>1. CASE t = s
      <4>1. expiresAt'[s] >= expiresAt'[s]
        BY <1>0, <1>1, <1>2
      <4> QED BY <1>0, <1>1, <2>3, <3>1, <4>1
    <3>2. CASE t # s
      <4>1. family[t] = f /\ session[f] = "running"
        BY <1>0, <1>1, <2>3, <3>2
      <4>2. PICK u \in Token : family[u] = f /\ revokedAt[u] = Live /\ expiresAt[u] >= expiresAt[t]
        BY <4>1 DEF IInv, SessionsSound, Renewed
      <4>3. u # s
        BY <1>1, <4>2
      <4> QED BY <1>0, <1>1, <3>2, <4>2, <4>3
    <3> QED BY <3>1, <3>2
  <2>4. QuietEndIsFinal'
    BY <1>0, <1>1, <1>2 DEF IInv, SessionsSound, QuietEndIsFinal, LiveIn, LiveRows, FamilyRows
  <2> QED BY <2>1, <2>2, <2>3, <2>4 DEF SessionsSound, Renewed
<1>9. OwnFamily'
  BY <1>3 DEF IInv, OwnFamily
<1> QED BY <1>5, <1>6, <1>7, <1>8, <1>9 DEF IInv, AllSound

\* The presented token is live and locked: it is spent now, and only now.
LEMMA RotationKeeps ==
  ASSUME IInv, NEW r \in Req, NEW s \in Token, CommitRotation(r, s)
  PROVE  IInv'
<1> DEFINE F == req[r].family
           p == req[r].token
<1>0. /\ TypeOK /\ Sound(r) /\ req[r].pc = "rotating" /\ Insert(r, s) /\ s \in Unissued
      /\ Ttl \in Nat /\ now \in Nat
      /\ UNCHANGED <<now, password, session>>
  BY ClockIsNat, TypeIsParts DEF IInv, AllSound, CommitRotation, At
<1>1. /\ F \in Family /\ NoFamily \notin Family
      /\ s \in Token /\ family[s] = NoFamily /\ revokedAt[s] = Live /\ parent[s] = NoToken
      /\ family' \in [Token -> Family \cup {NoFamily}] /\ family'[s] = F
      /\ \A t \in Token : t # s => family'[t] = family[t]
      /\ expiresAt' \in [Token -> 0..(MaxNow + Ttl)] /\ expiresAt'[s] = req[r].since + Ttl
      /\ \A t \in Token : t # s => expiresAt'[t] = expiresAt[t]
      /\ Bounded'
  BY <1>0, Inserts
<1>2. /\ p \in Token /\ family[p] = F /\ p # s
      /\ held[p] = r /\ revokedAt[p] = Live /\ expiresAt[p] <= req[r].since + Ttl
  BY <1>0, <1>1 DEF Sound, HasToken, HoldsToken, Renews, Presenting
<1>3. session[F] \notin {"none", "over"}
  BY <1>1, <1>2 DEF IInv, SessionsSound, NoneIsEmpty, QuietEndIsFinal, LiveIn, LiveRows, FamilyRows
<1>4. req[r].since \in Clock /\ req[r].since \in Nat /\ req[r].since # Live
  <2>1. req[r].since \in Clock
    BY <1>0, TypeIsParts DEF AnyReq
  <2> QED BY <2>1, ClockIsNat, SessionsAssumption
<1>5. /\ revokedAt' \in [Token -> Clock \cup {Live}] /\ revokedAt'[p] # Live
      /\ \A t \in Token : t # p => revokedAt'[t] = revokedAt[t]
  BY <1>0, <1>2, <1>4, TypeIsParts DEF CommitRotation
<1>6. /\ parent' \in [Token -> Token \cup {NoToken}] /\ parent'[s] = p
      /\ \A t \in Token : t # s => parent'[t] = parent[t]
  BY <1>0, <1>2, TypeIsParts DEF CommitRotation
<1>7. /\ req' \in [Req -> AnyReq] /\ req'[r] = Idle /\ \A q \in Req : q # r => req'[q] = req[q]
      /\ req'[r].pc = "idle"
  BY <1>0, IdleIsReq, Takes DEF CommitRotation
<1>8. /\ held' \in [Token -> Req \cup {NoReq}]
      /\ \A q \in Req : q # r => \A t \in Token : held[t] = q => held'[t] = q
  BY <1>0, TypeIsParts, ReleaseKeeps DEF CommitRotation
<1> HIDE DEF F, p
<1>9. TypeOK'
  BY <1>0, <1>1, <1>5, <1>6, <1>7, <1>8 DEF TypeOK, AnyReq, Pcs
<1>10. ASSUME NEW q \in Req PROVE Sound(q)'
  <2>1. CASE q = r
    BY <1>7, <1>9, <2>1, IdleIsSound
  <2>2. CASE q # r
    <3>1. Harmless(q)
      BY <1>0, <1>1, <1>2, <1>5, <1>8, <2>2 DEF Harmless
    <3> QED BY <1>0, <1>7, <1>9, <2>2, <3>1, Bystander DEF IInv, AllSound
  <2> QED BY <2>1, <2>2
<1>11. RowsSound'
  <2>1. Blank'
    BY <1>1, <1>2, <1>5, <1>6 DEF IInv, RowsSound, Blank
  <2>2. Spent'
    <3>1. ASSUME NEW t \in Token, parent'[t] # NoToken PROVE revokedAt'[parent'[t]] # Live
      <4>1. CASE t = s
        BY <1>5, <1>6, <4>1
      <4>2. CASE t # s
        <5>1. parent'[t] = parent[t] /\ parent[t] \in Token /\ revokedAt[parent[t]] # Live
          BY <1>0, <1>6, <3>1, <4>2, TypeIsParts DEF IInv, RowsSound, Spent
        <5> QED BY <1>5, <5>1
      <4> QED BY <4>1, <4>2
    <3> QED BY <3>1 DEF Spent
  <2>3. OneSuccessor'
    <3>1. \A t \in Token : parent[t] # p
      BY <1>2, SessionsAssumption DEF IInv, RowsSound, Spent
    <3> QED BY <1>6, <3>1 DEF IInv, RowsSound, OneSuccessor
  <2> QED BY <1>1, <2>1, <2>2, <2>3 DEF RowsSound
<1>12. SessionsSound'
  <2>1. NoneIsEmpty'
    BY <1>0, <1>1, <1>3 DEF IInv, SessionsSound, NoneIsEmpty
  <2>2. Started'
    <3>1. ASSUME NEW f \in Family, session'[f] = "running" PROVE \E t \in Token : family'[t] = f
      <4>1. PICK t \in Token : family[t] = f
        BY <1>0, <3>1 DEF IInv, SessionsSound, Started
      <4> QED BY <1>1, <4>1
    <3> QED BY <3>1 DEF Started
  <2>3. ASSUME NEW f \in Family, NEW t \in Token, session'[f] = "running", family'[t] = f
        PROVE  \E u \in Token : family'[u] = f /\ revokedAt'[u] = Live /\ expiresAt'[u] >= expiresAt'[t]
    <3>0. \A u \in Token : expiresAt[u] \in Nat /\ expiresAt'[u] \in Nat
      BY <1>0, <1>1, TypeIsParts, ClockIsNat
    <3>1. CASE t = s
      <4>1. expiresAt'[s] >= expiresAt'[s]
        BY <1>1, <3>0
      <4> QED BY <1>1, <1>2, <1>5, <2>3, <3>1, <4>1
    <3>2. CASE t # s
      <4>1. family[t] = f /\ session[f] = "running" /\ expiresAt'[t] = expiresAt[t]
        BY <1>0, <1>1, <2>3, <3>2
      <4>2. PICK u \in Token : family[u] = f /\ revokedAt[u] = Live /\ expiresAt[u] >= expiresAt[t]
        BY <4>1 DEF IInv, SessionsSound, Renewed
      <4>3. u # s
        BY <1>1, <4>2
      <4>4. CASE u = p
        <5>1. f = F /\ expiresAt'[s] >= expiresAt'[t]
          BY <1>0, <1>1, <1>2, <1>4, <3>0, <4>1, <4>2, <4>4
        <5>2. revokedAt'[s] = Live
          BY <1>1, <1>2, <1>5
        <5> QED BY <1>1, <5>1, <5>2
      <4>5. CASE u # p
        BY <1>1, <1>5, <4>1, <4>2, <4>3, <4>5
      <4> QED BY <4>4, <4>5
    <3> QED BY <3>1, <3>2
  <2>4. QuietEndIsFinal'
    BY <1>0, <1>1, <1>2, <1>3, <1>5 DEF IInv, SessionsSound, QuietEndIsFinal, LiveIn, LiveRows, FamilyRows
  <2> QED BY <2>1, <2>2, <2>3, <2>4 DEF SessionsSound, Renewed
<1>13. OwnFamily'
  BY <1>7 DEF IInv, OwnFamily
<1> QED BY <1>9, <1>10, <1>11, <1>12, <1>13 DEF IInv, AllSound

-----------------------------------------------------------------------------
\* A revocation of the sessions F: no request rests on a row it revokes.
LEMMA RevocationKeeps ==
  ASSUME IInv, NEW r \in Req, NEW F \in SUBSET Family,
         RevokeWanted(r), Ended(F, req[r].want), req' = [req EXCEPT ![r] = Idle],
         UNCHANGED <<now, family, expiresAt, held, password, parent>>,
         \A f \in F : session[f] # "none",
         \A t \in req[r].want : family[t] \in F
  PROVE  IInv'
<1> DEFINE want == req[r].want
<1>0. /\ TypeOK /\ now \in Nat /\ NoFamily \notin Family /\ NoReq \notin Req
      /\ want \subseteq Token /\ req[r].since \in Clock /\ req[r].since # Live
  <2>1. req[r] \in AnyReq /\ now \in Clock
    BY TypeIsParts DEF IInv
  <2> QED BY <2>1, ClockIsNat, SessionsAssumption DEF IInv, AnyReq
<1>1. /\ revokedAt' \in [Token -> Clock \cup {Live}]
      /\ \A t \in Token : t \notin want => revokedAt'[t] = revokedAt[t]
      /\ \A t \in want : revokedAt'[t] # Live
      /\ \A t \in Token : revokedAt[t] # Live => revokedAt'[t] = revokedAt[t]
  BY <1>0, TypeIsParts DEF RevokeWanted, LiveRows
<1>2. \A t \in want : held[t] = NoReq
  BY DEF RevokeWanted, Free
<1>3. ASSUME NEW f \in Family
      PROVE  /\ session'[f] \in SessionStates
             /\ f \notin F => session'[f] = session[f]
             /\ f \in F => session'[f] \in {"raced", "over"}
             /\ session'[f] = "over" /\ session[f] # "over" =>
                  ~OpenIn(f) /\ LiveRows(FamilyRows(f)) \subseteq want
  <2>1. session[f] \in SessionStates
    BY <1>0, TypeIsParts
  <2>2. session'[f] = IF f \notin F \/ session[f] = "over" THEN session[f]
                      ELSE IF OpenIn(f) \/ ~(LiveRows(FamilyRows(f)) \subseteq want) THEN "raced"
                      ELSE "over"
    BY DEF Ended
  <2> QED BY <2>1, <2>2 DEF SessionStates
<1>4. session' \in [Family -> SessionStates]
  BY <1>3 DEF Ended
<1>5. /\ req' \in [Req -> AnyReq] /\ req'[r] = Idle /\ \A q \in Req : q # r => req'[q] = req[q]
      /\ req'[r].pc = "idle"
  BY <1>0, IdleIsReq, Takes
<1> HIDE DEF want
<1>6. TypeOK'
  BY <1>0, <1>1, <1>4, <1>5 DEF TypeOK, AnyReq, Pcs, SessionStates
<1>7. ASSUME NEW q \in Req PROVE Sound(q)'
  <2>1. CASE q = r
    BY <1>5, <1>6, <2>1, IdleIsSound
  <2>2. CASE q # r
    <3>1. \A t \in Token : held[t] = q => revokedAt'[t] = revokedAt[t]
      BY <1>0, <1>1, <1>2
    <3>2. ASSUME NEW f \in Family, req[q].pc = "counted", req[q].family = f, session[f] # "over"
          PROVE  session'[f] # "over"
      BY <1>3, <3>2 DEF OpenIn
    <3>3. \A f \in Family : session[f] # "none" => session'[f] # "none"
      BY <1>3
    <3>4. \A f \in Family : session[f] = "none" => session'[f] = "none"
      BY <1>3
    <3>5. Harmless(q)
      BY <1>0, <3>1, <3>2, <3>3, <3>4 DEF Harmless
    <3> QED BY <1>0, <1>5, <1>6, <2>2, <3>5, Bystander DEF IInv, AllSound
  <2> QED BY <2>1, <2>2
<1>8. RowsSound'
  <2>1. Blank'
    <3>1. \A t \in Token : family[t] = NoFamily => t \notin want
      BY <1>0 DEF want
    <3> QED BY <1>1, <3>1 DEF IInv, RowsSound, Blank
  <2>2. Bounded' /\ OneSuccessor'
    BY DEF IInv, RowsSound, Bounded, OneSuccessor
  <2>3. Spent'
    <3>1. ASSUME NEW t \in Token, parent[t] # NoToken PROVE revokedAt'[parent[t]] # Live
      <4>1. parent[t] \in Token /\ revokedAt[parent[t]] # Live
        BY <1>0, <3>1, TypeIsParts DEF IInv, RowsSound, Spent
      <4> QED BY <1>1, <4>1
    <3> QED BY <3>1 DEF Spent
  <2> QED BY <2>1, <2>2, <2>3 DEF RowsSound
<1>9. SessionsSound'
  <2>1. NoneIsEmpty'
    BY <1>3 DEF IInv, SessionsSound, NoneIsEmpty
  <2>2. Started'
    BY <1>3 DEF IInv, SessionsSound, Started
  <2>3. ASSUME NEW f \in Family, NEW t \in Token, session'[f] = "running", family[t] = f
        PROVE  \E u \in Token : family[u] = f /\ revokedAt'[u] = Live /\ expiresAt[u] >= expiresAt[t]
    <3>1. f \notin F /\ session[f] = "running"
      BY <1>3, <2>3
    <3>2. PICK u \in Token : family[u] = f /\ revokedAt[u] = Live /\ expiresAt[u] >= expiresAt[t]
      BY <2>3, <3>1 DEF IInv, SessionsSound, Renewed
    <3>3. u \notin want
      BY <3>1, <3>2 DEF want
    <3> QED BY <1>1, <3>2, <3>3
  <2>4. QuietEndIsFinal'
    <3>1. ASSUME NEW f \in Family, session'[f] = "over", NEW t \in Token, family[t] = f
          PROVE  revokedAt'[t] # Live
      <4>1. CASE session[f] = "over"
        <5>1. revokedAt[t] # Live
          BY <3>1, <4>1 DEF IInv, SessionsSound, QuietEndIsFinal, LiveIn, LiveRows, FamilyRows
        <5> QED BY <1>1, <5>1
      <4>2. CASE session[f] # "over"
        BY <1>1, <1>3, <3>1, <4>2 DEF LiveRows, FamilyRows
      <4> QED BY <4>1, <4>2
    <3> QED BY <3>1 DEF QuietEndIsFinal, LiveIn, LiveRows, FamilyRows
  <2> QED BY <2>1, <2>2, <2>3, <2>4 DEF SessionsSound, Renewed
<1>10. OwnFamily'
  BY <1>5 DEF IInv, OwnFamily
<1> QED BY <1>6, <1>7, <1>8, <1>9, <1>10 DEF IInv, AllSound

LEMMA RevokeFamilyKeeps ==
  ASSUME IInv, NEW r \in Req, RevokeFamily(r)
  PROVE  IInv'
<1>1. /\ req[r].family \in Family /\ session[req[r].family] # "none"
      /\ \A t \in req[r].want : family[t] = req[r].family
  BY DEF IInv, AllSound, Sound, WantsIssued, RevokeFamily, At
<1>2. {req[r].family} \in SUBSET Family
  BY <1>1
<1> QED BY <1>1, <1>2, RevocationKeeps DEF RevokeFamily

LEMMA RevokeAllKeeps ==
  ASSUME IInv, NEW r \in Req, RevokeAllForUser(r)
  PROVE  IInv'
<1> DEFINE F == {family[t] : t \in req[r].want}
<1>1. req[r].want \subseteq Token
  BY TypeIsParts DEF IInv, AnyReq
<1>2. \A t \in req[r].want : family[t] \in Family /\ session[family[t]] # "none"
  BY <1>1, IssuedIsOwned DEF IInv, AllSound, Sound, WantsIssued
<1>3. F \in SUBSET Family /\ \A f \in F : session[f] # "none"
  BY <1>2
<1>4. \A t \in req[r].want : family[t] \in F
  OBVIOUS
<1>5. RevokeWanted(r) /\ Ended(F, req[r].want) /\ req' = [req EXCEPT ![r] = Idle]
      /\ UNCHANGED <<now, family, expiresAt, held, password, parent>>
  BY DEF RevokeAllForUser
<1> HIDE DEF F
<1> QED BY <1>3, <1>4, <1>5, RevocationKeeps

LEMMA TickKeeps ==
  ASSUME IInv, Tick
  PROVE  IInv'
<1>0. /\ TypeOK /\ now \in Nat /\ now' = now + 1 /\ now' \in Clock
      /\ UNCHANGED <<rows, held, password, req, session, parent>>
  <2>1. now \in Nat /\ MaxNow \in Nat /\ now < MaxNow /\ now' = now + 1
    BY ClockIsNat DEF IInv, TypeOK, Tick
  <2> QED BY <2>1 DEF IInv, Tick, Clock
<1>1. TypeOK'
  BY <1>0 DEF TypeOK, rows
<1>2. ASSUME NEW q \in Req PROVE Sound(q)'
  <2>1. Harmless(q)
    BY <1>0 DEF Harmless, rows
  <2> QED BY <1>0, <1>1, <2>1, Bystander DEF IInv, AllSound
<1>3. RowsSound'
  <2>1. Bounded'
    <3>1. \A t \in Token : expiresAt[t] \in Nat
      BY <1>0, TypeIsParts, ClockIsNat
    <3> QED BY <1>0, <3>1, ClockIsNat DEF IInv, RowsSound, Bounded, rows
  <2> QED BY <1>0, <2>1 DEF IInv, RowsSound, Blank, Spent, OneSuccessor, rows
<1>4. SessionsSound'
  BY <1>0 DEF IInv, SessionsSound, NoneIsEmpty, Started, Renewed, QuietEndIsFinal, LiveIn, LiveRows,
         FamilyRows, rows
<1> QED BY <1>0, <1>1, <1>2, <1>3, <1>4 DEF IInv, AllSound, OwnFamily

-----------------------------------------------------------------------------
LEMMA Initial == Init => IInv
<1> SUFFICES ASSUME Init PROVE IInv
  OBVIOUS
<1>1. TypeOK
  <2>1. MaxNow + Ttl \in Nat /\ 0 \in 0..(MaxNow + Ttl) /\ 0 \in 0..MaxResets /\ 0 \in Clock
    BY ClockIsNat, SessionsAssumption
  <2>2. Idle \in AnyReq /\ "none" \in SessionStates
    BY IdleIsReq DEF SessionStates
  <2> QED BY <2>1, <2>2, TypeIsParts DEF Init
<1>2. RowsSound
  BY ClockIsNat DEF Init, RowsSound, Blank, Bounded, Spent, OneSuccessor
<1>3. SessionsSound
  BY SessionsAssumption DEF Init, SessionsSound, NoneIsEmpty, Started, Renewed, QuietEndIsFinal
<1>4. OwnFamily /\ AllSound
  BY IdleIsReq DEF Init, OwnFamily, AllSound, Sound, HasToken, Renews, HoldsToken, WantsIssued, IsNew,
     IsNotOver, InTime, Presenting
<1> QED BY <1>1, <1>2, <1>3, <1>4 DEF IInv

LEMMA Inductive == IInv /\ [Next]_vars => IInv'
<1> SUFFICES ASSUME IInv, [Next]_vars PROVE IInv'
  OBVIOUS
<1>1. CASE Tick
  BY <1>1, TickKeeps
<1>2. ASSUME NEW r \in Req, NEW f \in Family, Login(r, f) PROVE IInv'
  BY <1>2, LoginKeeps
<1>3. ASSUME NEW r \in Req, NEW t \in Token, StartSession(r, t) PROVE IInv'
  BY <1>3, StartKeeps
<1>4. ASSUME NEW r \in Req, NEW t \in Token, Refresh(r, t) PROVE IInv'
  BY <1>4, RefreshKeeps
<1>5. ASSUME NEW r \in Req, NEW t \in Token, CommitRotation(r, t) PROVE IInv'
  BY <1>5, RotationKeeps
<1>6. ASSUME NEW r \in Req, NEW t \in Token, CommitContinuation(r, t) PROVE IInv'
  BY <1>6, ContinuationKeeps
<1>7. ASSUME NEW r \in Req, NEW t \in Token, Logout(r, t) PROVE IInv'
  BY <1>7, LogoutKeeps
<1>8. ASSUME NEW r \in Req, Rotate(r) PROVE IInv'
  BY <1>8, RotateKeeps
<1>9. ASSUME NEW r \in Req, SelectFamily(r) PROVE IInv'
  BY <1>9, SelectKeeps
<1>10. ASSUME NEW r \in Req, LockFamily(r) PROVE IInv'
  BY <1>10, LockFamilyKeeps
<1>11. ASSUME NEW r \in Req, Refuse(r) \/ Crash(r) PROVE IInv'
  BY <1>11, DoneKeeps
<1>12. ASSUME NEW r \in Req, RevokeFamily(r) PROVE IInv'
  BY <1>12, RevokeFamilyKeeps
<1>13. ASSUME NEW r \in Req, ResetPassword(r) \/ RevokeAllBegin(r) PROVE IInv'
  BY <1>13, ResetKeeps
<1>14. ASSUME NEW r \in Req, RevokeAllForUser(r) PROVE IInv'
  BY <1>14, RevokeAllKeeps
<1>15. CASE UNCHANGED vars
  <2>1. TypeOK' /\ UNCHANGED <<rows, session, parent, req, now>>
    BY <1>15 DEF vars, rows, IInv, TypeOK
  <2>2. ASSUME NEW q \in Req PROVE Sound(q)'
    <3>0. now \in Nat
      BY ClockIsNat DEF IInv, TypeOK
    <3>1. Harmless(q)
      BY <1>15, <2>1, <3>0 DEF Harmless, vars, rows
    <3> QED BY <2>1, <3>1, Bystander DEF IInv, AllSound
  <2>3. RowsSound'
    BY <2>1 DEF IInv, RowsSound, Blank, Bounded, Spent, OneSuccessor, rows
  <2>4. SessionsSound'
    BY <2>1 DEF IInv, SessionsSound, NoneIsEmpty, Started, Renewed, QuietEndIsFinal, LiveIn, LiveRows,
           FamilyRows, rows
  <2> QED BY <2>1, <2>2, <2>3, <2>4 DEF IInv, AllSound, OwnFamily
<1> QED BY <1>1, <1>2, <1>3, <1>4, <1>5, <1>6, <1>7, <1>8, <1>9, <1>10, <1>11, <1>12, <1>13, <1>14,
           <1>15 DEF Next

LEMMA Invariant == Spec => []IInv
BY Initial, Inductive, PTL DEF Spec

\* Whatever the requests do, and in whatever order, the state keeps its types.
THEOREM SessionsAreTypeCorrect == Spec => []TypeOK
BY Invariant, PTL DEF IInv

\* However many requests present a token at once, one of them rotates it: it is
\* locked from the conditional update until its successor is committed.
THEOREM TokenIsSpentOnce == Spec => []OneSuccessor
BY Invariant, PTL DEF IInv, RowsSound

\* Refreshes alone never use a session up.
THEOREM RunningSessionIsKept == Spec => []RunningSessionKeepsToken
<1>1. IInv => RunningSessionKeepsToken
  <2> SUFFICES ASSUME IInv, NEW f \in Family, session[f] = "running" PROVE LiveIn(f) # {}
    BY DEF RunningSessionKeepsToken
  <2>1. PICK t \in Token : family[t] = f
    BY DEF IInv, SessionsSound, Started
  <2>2. PICK u \in Token : family[u] = f /\ revokedAt[u] = Live
    BY <2>1 DEF IInv, SessionsSound, Renewed
  <2> QED BY <2>2 DEF LiveIn, LiveRows, FamilyRows
<1> QED BY <1>1, Invariant, PTL

\* A session ended while nothing was open in it stays ended.
THEOREM QuietEndStands == Spec => []QuietEndIsFinal
BY Invariant, PTL DEF IInv, SessionsSound

\* A refresh within the grace is turned away only if the session was ended or the
\* token it presented expired on the way: the session's longest-lived token is live.
THEOREM RefusalIsDeserved == Spec => RefusedOnlyWhenOver
<1>1. IInv /\ [Next]_vars => [Deserved]_vars
  <2> SUFFICES ASSUME IInv, NEW r \in Req, Refuse(r), session[req[r].family] \notin {"raced", "over"}
               PROVE  IsExpired(req[r].token, now)
    BY DEF Deserved
  <2> DEFINE p == req[r].token
             f == req[r].family
  <2>1. /\ p \in Token /\ f \in Family /\ family[p] = f
        /\ req[r].since \in Nat /\ now \in Nat /\ req[r].since <= now
        /\ \A t \in Token : expiresAt[t] \in Nat
    BY TypeIsParts, ClockIsNat
       DEF IInv, AllSound, Sound, HasToken, InTime, Presenting, Refuse, At, AnyReq
  <2>2. session[f] = "running"
    <3>1. session[f] \in SessionStates /\ session[f] # "none"
      BY <2>1, TypeIsParts DEF IInv, SessionsSound, NoneIsEmpty
    <3> QED BY <3>1 DEF SessionStates
  <2>3. PICK u \in Token : family[u] = f /\ revokedAt[u] = Live /\ expiresAt[u] >= expiresAt[p]
    BY <2>1, <2>2 DEF IInv, SessionsSound, Renewed
  <2>4. expiresAt[u] <= req[r].since
    BY <2>3 DEF Refuse, FamilyLive, LiveRows, FamilyRows, IsExpired
  <2> QED BY <2>1, <2>3, <2>4 DEF IsExpired
<1> QED BY <1>1, Invariant, PTL DEF Spec, RefusedOnlyWhenOver

-----------------------------------------------------------------------------
(* Access: whoever passes a guard created the vehicle, and is shown no other.  *)

Mine(owner, user, v) == owner[v] = user

\* Whom the table lists created the vehicle.
Listed(owner, m) ==
  m.vehicle \in Vehicles /\ m.user \in Users /\ m.role = "OWNER" /\ Mine(owner, m.user, m.vehicle)

\* A row names nothing, or a row of its own vehicle.
OwnRow(r) == r = [id |-> r.id, of |-> r.of] /\ (r.of # NoRow => VehicleOf(r.of) = VehicleOf(r.id))

\* A request that passed the guard is its creator's, about that vehicle or a row of it.
PassedRequest(owner, q) ==
  /\ q = [is |-> "passed", user |-> q.user, route |-> q.route, id |-> q.id, of |-> q.of,
          vehicle |-> q.vehicle]
  /\ q.user \in Users /\ q.vehicle \in Vehicles /\ Mine(owner, q.user, q.vehicle)
  /\ IF q.route.names = "vehicle" THEN q.id = q.vehicle
     ELSE q.id \notin Vehicles /\ VehicleOf(q.id) = q.vehicle

\* What an answer tells.  Vehicles change hands once, from nobody to who creates them.
AnsweredRequest(owner, q) ==
  /\ q = [is |-> "answered", user |-> q.user, about |-> q.about, says |-> q.says,
          shown |-> q.shown]
  /\ q.user \in Users \cup {Nobody}
  /\ IF q.user = Nobody THEN q.says = "unauthorized" /\ q.shown = {}
     ELSE /\ \A v \in q.shown : v \in Vehicles /\ Mine(owner, q.user, v)
          /\ \A id \in q.about : q.says \in {"not found", "unauthorized"}
               \/ IF id \in Vehicles THEN Mine(owner, q.user, id)
                  ELSE VehicleOf(id) \in Vehicles /\ Mine(owner, q.user, VehicleOf(id))

AccessOk(d) ==
  /\ d = [kind |-> "access", owner |-> d.owner, members |-> d.members, rows |-> d.rows,
          request |-> d.request]
  /\ d.owner \in [Vehicles -> Users \cup {Nobody}]
  /\ \A m \in d.members : Listed(d.owner, m)
  /\ \A r \in d.rows : OwnRow(r)
  /\ \/ d.request = NoRequest
     \/ PassedRequest(d.owner, d.request)
     \/ AnsweredRequest(d.owner, d.request)

AccessInv == AccessOk(desk)

\* Whoever the guard lets through is the vehicle's creator.
LEMMA GuardKnows ==
  ASSUME AccessInv, NEW user \in Users \cup {Nobody}, NEW route \in Routes,
         NEW id \in PathIds(route), Membership(ResolveVehicle(route, id), user) # {}
  PROVE  LET v == CHOOSE v \in ResolveVehicle(route, id) : TRUE
         IN /\ user \in Users /\ v \in Vehicles /\ Mine(desk.owner, user, v)
            /\ IF route.names = "vehicle" THEN id = v ELSE VehicleOf(id) = v
<1>1. PICK m \in desk.members : m.vehicle \in ResolveVehicle(route, id) /\ m.user = user
  BY DEF Membership
<1>2. m.vehicle \in Vehicles /\ user \in Users /\ Mine(desk.owner, user, m.vehicle)
  BY <1>1 DEF AccessInv, AccessOk, Listed
<1>3. CASE route.names = "vehicle"
  <2>1. ResolveVehicle(route, id) = {id}
    BY <1>3 DEF ResolveVehicle
  <2> QED BY <1>1, <1>2, <1>3, <2>1
<1>4. CASE route.names # "vehicle"
  <2>1. \A v \in ResolveVehicle(route, id) : v = VehicleOf(id)
    BY <1>4 DEF ResolveVehicle
  <2> QED BY <1>1, <1>2, <1>4, <2>1
<1> QED BY <1>3, <1>4

\* A path about a row names no vehicle.
LEMMA PathNames ==
  ASSUME NEW route \in Routes, NEW id \in PathIds(route), route.names # "vehicle"
  PROVE  id \notin Vehicles
<1>1. route.names \in Kinds
  BY DEF Routes, VehicleRoutes, OdometerRoutes, VehicleExpensesRoutes, ExpensesRoutes,
     VehicleFuelRoutes, FuelRoutes, VehicleMaintenanceRoutes, MaintenanceRoutes, SchedulesRoutes,
     VehicleRemindersRoutes, RemindersRoutes, VehicleDocumentsRoutes, DocumentsRoutes, Route,
     Lists, Creates, Reads, Changes, Removes, Kinds
<1>2. id \in {Malformed} \cup Ids
  BY <1>1 DEF PathIds, Ids
<1> QED BY <1>2, AccessAssumption

\* What a handler may answer when it is reached in vehicle v.
KeepsTo(a, v) ==
  /\ a.db = [desk EXCEPT !.members = a.db.members, !.rows = a.db.rows]
  /\ a.db.members \subseteq desk.members
  /\ \A r \in a.db.rows : OwnRow(r)
  /\ a.shown \subseteq {v}

LEMMA ReadingKeepsTo ==
  ASSUME AccessInv, NEW v, NEW says, NEW shown, shown \subseteq {v}
  PROVE  KeepsTo(Answer(desk, says, shown), v)
<1>1. desk = [desk EXCEPT !.members = desk.members, !.rows = desk.rows]
  BY DEF AccessInv, AccessOk
<1> QED BY <1>1 DEF KeepsTo, Answer, AccessInv, AccessOk

LEMMA WritingKeepsTo ==
  ASSUME AccessInv, NEW v, NEW shown, shown \subseteq {v}, NEW members, NEW left,
         members \subseteq desk.members, \A r \in left : OwnRow(r)
  PROVE  KeepsTo(Answer([desk EXCEPT !.members = members, !.rows = left], "done", shown), v)
<1> DEFINE db == [desk EXCEPT !.members = members, !.rows = left]
<1>1. db.members = members /\ db.rows = left
  BY DEF AccessInv, AccessOk
<1>2. db = [desk EXCEPT !.members = db.members, !.rows = db.rows]
  BY <1>1
<1> HIDE DEF db
<1> QED BY <1>1, <1>2 DEF KeepsTo, Answer

LEMMA HandlerKeeps ==
  ASSUME AccessInv, NEW route, NEW id, NEW of, NEW v \in Vehicles,
         IF route.names = "vehicle" THEN id = v ELSE VehicleOf(id) = v,
         NEW a, a = Handled(route, id, v, of)
  PROVE  KeepsTo(a, v)
<1>1. \A r \in desk.rows : OwnRow(r)
  BY DEF AccessInv, AccessOk
<1>2. CASE a = OnVehicle(route, v)
  <2> DEFINE members == {m \in desk.members : m.vehicle # v}
             left == {r \in desk.rows : VehicleOf(r.id) # v}
  <2>1. a = NotFound \/ a = Answer(desk, "done", {v})
          \/ a = Answer([desk EXCEPT !.members = members, !.rows = left], "done", {})
    BY <1>2 DEF OnVehicle
  <2>2. members \subseteq desk.members /\ \A r \in left : OwnRow(r)
    BY <1>1
  <2> HIDE DEF members, left
  <2>3. \A says, shown : shown \subseteq {v} => KeepsTo(Answer(desk, says, shown), v)
    BY ReadingKeepsTo
  <2>4. KeepsTo(Answer([desk EXCEPT !.members = members, !.rows = left], "done", {}), v)
    BY <2>2, WritingKeepsTo
  <2> QED BY <2>1, <2>3, <2>4 DEF NotFound
<1>3. CASE a = OnCollection(route, v, of)
  <2> DEFINE rid == <<route.kind, v>>
             left == {r \in desk.rows : r.id # rid} \cup {[id |-> rid, of |-> of]}
             shown == {VehicleOf(r.id) : r \in {s \in desk.rows : KindOf(s.id) = route.kind /\ VehicleOf(s.id) = v}}
  <2>1. \/ a = Answer(desk, "done", shown) \/ a = NotFound \/ a = NothingNamed(route.kind)
        \/ /\ a = Answer([desk EXCEPT !.rows = left], "done", {v})
           /\ NamesOk(route.kind, v, of)
    BY <1>3 DEF OnCollection
  <2>2. shown \subseteq {v}
    OBVIOUS
  <2>3. NamesOk(route.kind, v, of) => \A r \in left : OwnRow(r)
    <3>1. NamesOk(route.kind, v, of) => OwnRow([id |-> rid, of |-> of])
      BY DEF NamesOk, FindInVehicle, OwnRow, VehicleOf
    <3> QED BY <1>1, <3>1
  <2>4. [desk EXCEPT !.rows = left] = [desk EXCEPT !.members = desk.members, !.rows = left]
    BY DEF AccessInv, AccessOk
  <2> HIDE DEF rid, left, shown
  <2>5. \A says, S : S \subseteq {v} => KeepsTo(Answer(desk, says, S), v)
    BY ReadingKeepsTo
  <2>6. NamesOk(route.kind, v, of) => KeepsTo(Answer([desk EXCEPT !.rows = left], "done", {v}), v)
    BY <2>3, <2>4, WritingKeepsTo
  <2> QED BY <2>1, <2>2, <2>5, <2>6 DEF NotFound, NothingNamed
<1>4. CASE a = OnRow(route, id, v, of) /\ VehicleOf(id) = v
  <2> DEFINE found == FindInVehicle(id, v)
             left == (desk.rows \ found) \cup {[id |-> id, of |-> of]}
  <2>1. \/ a = NotFound \/ a = NothingNamed(route.kind)
        \/ a = Answer([desk EXCEPT !.rows = Without({id})], "done", {})
        \/ /\ NamesOk(route.kind, v, of)
           /\ \/ a = Answer([desk EXCEPT !.rows = left], "done", {VehicleOf(id)})
              \/ a = Answer(desk, "done", {VehicleOf(id)})
    BY <1>4 DEF OnRow
  <2>2. \A r \in Without({id}) : OwnRow(r)
    <3> SUFFICES ASSUME NEW r \in desk.rows PROVE OwnRow(IF r.of \in {id} THEN [r EXCEPT !.of = NoRow] ELSE r)
      BY DEF Without
    <3> QED BY <1>1 DEF OwnRow
  <2>3. NamesOk(route.kind, v, of) => \A r \in left : OwnRow(r)
    <3>1. NamesOk(route.kind, v, of) => OwnRow([id |-> id, of |-> of])
      BY <1>4 DEF NamesOk, FindInVehicle, OwnRow
    <3> QED BY <1>1, <3>1
  <2>4. \A R : [desk EXCEPT !.rows = R] = [desk EXCEPT !.members = desk.members, !.rows = R]
    BY DEF AccessInv, AccessOk
  <2> HIDE DEF found, left
  <2>5. \A says, S : S \subseteq {v} => KeepsTo(Answer(desk, says, S), v)
    BY ReadingKeepsTo
  <2>6. KeepsTo(Answer([desk EXCEPT !.rows = Without({id})], "done", {}), v)
    BY <2>2, <2>4, WritingKeepsTo
  <2>7. NamesOk(route.kind, v, of) =>
          KeepsTo(Answer([desk EXCEPT !.rows = left], "done", {VehicleOf(id)}), v)
    BY <1>4, <2>3, <2>4, WritingKeepsTo
  <2> QED BY <1>4, <2>1, <2>5, <2>6, <2>7 DEF NotFound, NothingNamed
<1> QED BY <1>2, <1>3, <1>4 DEF Handled

\* The record, with its table and its rows, or its owners, written anew.
LEMMA Rewriting ==
  ASSUME AccessInv, NEW table, NEW lines, NEW owned
  PROVE  /\ [desk EXCEPT !.members = table, !.rows = lines]
             = [kind |-> "access", owner |-> desk.owner, members |-> table, rows |-> lines,
                request |-> desk.request]
         /\ [desk EXCEPT !.owner = owned, !.members = table]
             = [kind |-> "access", owner |-> owned, members |-> table, rows |-> desk.rows,
                request |-> desk.request]
<1> DEFINE e1 == [desk EXCEPT !.members = table]
           e2 == [desk EXCEPT !.owner = owned]
<1>1. desk = [kind |-> "access", owner |-> desk.owner, members |-> desk.members,
              rows |-> desk.rows, request |-> desk.request]
  BY DEF AccessInv, AccessOk
<1>2. /\ [desk EXCEPT !.members = table, !.rows = lines] = [e1 EXCEPT !.rows = lines]
      /\ [desk EXCEPT !.owner = owned, !.members = table] = [e2 EXCEPT !.members = table]
  OBVIOUS
<1>3. e1 = [kind |-> "access", owner |-> desk.owner, members |-> table, rows |-> desk.rows,
            request |-> desk.request]
  BY <1>1
<1>4. e2 = [kind |-> "access", owner |-> owned, members |-> desk.members, rows |-> desk.rows,
            request |-> desk.request]
  BY <1>1
<1> HIDE DEF e1, e2
<1>5. [e1 EXCEPT !.rows = lines]
        = [kind |-> "access", owner |-> desk.owner, members |-> table, rows |-> lines,
           request |-> desk.request]
  BY <1>3
<1>6. [e2 EXCEPT !.members = table]
        = [kind |-> "access", owner |-> owned, members |-> table, rows |-> desk.rows,
           request |-> desk.request]
  BY <1>4
<1> QED BY <1>2, <1>5, <1>6

LEMMA AnsweredIs ==
  ASSUME NEW owner, NEW q, AnsweredRequest(owner, q) PROVE q.is = "answered"
<1>1. q = [is |-> "answered", user |-> q.user, about |-> q.about, says |-> q.says,
           shown |-> q.shown]
  BY DEF AnsweredRequest
<1> QED BY <1>1

\* The state that Handle and Meanwhile leave, before Handle answers.
LEMMA HandledIsSound ==
  ASSUME AccessInv, NEW v \in Vehicles, NEW a, KeepsTo(a, v)
  PROVE  /\ a.db = [kind |-> "access", owner |-> desk.owner, members |-> a.db.members,
                    rows |-> a.db.rows, request |-> desk.request]
         /\ \A m \in a.db.members : Listed(desk.owner, m)
         /\ \A r \in a.db.rows : OwnRow(r)
<1>1. desk = [kind |-> "access", owner |-> desk.owner, members |-> desk.members,
              rows |-> desk.rows, request |-> desk.request]
  BY DEF AccessInv, AccessOk
<1>2. a.db = [desk EXCEPT !.members = a.db.members, !.rows = a.db.rows]
  BY DEF KeepsTo
<1>3. a.db = [kind |-> "access", owner |-> desk.owner, members |-> a.db.members,
              rows |-> a.db.rows, request |-> desk.request]
  <2> DEFINE members == a.db.members
             left == a.db.rows
  <2>1. a.db = [desk EXCEPT !.members = members, !.rows = left]
    BY <1>2
  <2> HIDE DEF members, left
  <2>2. a.db = [kind |-> "access", owner |-> desk.owner, members |-> members,
                rows |-> left, request |-> desk.request]
    BY <1>1, <2>1, Rewriting
  <2> QED BY <2>2 DEF members, left
<1>4. /\ \A m \in a.db.members : Listed(desk.owner, m)
      /\ \A r \in a.db.rows : OwnRow(r)
  BY DEF AccessInv, AccessOk, KeepsTo
<1> QED BY <1>3, <1>4

LEMMA PartsAreSound ==
  ASSUME NEW owner \in [Vehicles -> Users \cup {Nobody}], NEW members, NEW left, NEW request,
         \A m \in members : Listed(owner, m), \A r \in left : OwnRow(r),
         request = NoRequest \/ PassedRequest(owner, request) \/ AnsweredRequest(owner, request)
  PROVE  AccessOk([kind |-> "access", owner |-> owner, members |-> members, rows |-> left,
                   request |-> request])
BY DEF AccessOk

\* What was so of a vehicle's creator stays so.
LEMMA OwnersStay ==
  ASSUME NEW owner, NEW later, \A v \in Vehicles, u \in Users : owner[v] = u => later[v] = u
  PROVE  /\ \A m : Listed(owner, m) => Listed(later, m)
         /\ \A q : PassedRequest(owner, q) => PassedRequest(later, q)
         /\ \A q : AnsweredRequest(owner, q) => AnsweredRequest(later, q)
<1>1. \A m : Listed(owner, m) => Listed(later, m)
  BY DEF Listed, Mine
<1>2. \A q : PassedRequest(owner, q) => PassedRequest(later, q)
  BY DEF PassedRequest, Mine
<1>3. ASSUME NEW q, AnsweredRequest(owner, q) PROVE AnsweredRequest(later, q)
  <2>1. CASE q.user = Nobody
    BY <1>3, <2>1 DEF AnsweredRequest
  <2>2. CASE q.user \in Users /\ q.user # Nobody
    BY <1>3, <2>2 DEF AnsweredRequest, Mine
  <2> QED BY <1>3, <2>1, <2>2 DEF AnsweredRequest
<1> QED BY <1>1, <1>2, <1>3

LEMMA CreationIsSound ==
  ASSUME AccessInv, NEW user \in Users, NEW v \in Vehicles, CreateVehicle(user, v)
  PROVE  AccessInv'
<1> DEFINE owner == [desk.owner EXCEPT ![v] = user]
           members == desk.members \cup {Member(v, user, "OWNER")}
<1>0. desk = [kind |-> "access", owner |-> desk.owner, members |-> desk.members,
              rows |-> desk.rows, request |-> desk.request]
  BY DEF AccessInv, AccessOk
<1>1. /\ desk' = [kind |-> "access", owner |-> owner, members |-> members,
                  rows |-> desk.rows, request |-> desk.request]
      /\ desk.owner[v] = Nobody
  <2>1. /\ desk.owner[v] = Nobody
        /\ desk' = [desk EXCEPT !.owner[v] = user, !.members = members]
    BY DEF CreateVehicle
  <2>2. desk' = [desk EXCEPT !.owner = owner, !.members = members]
    BY <1>0, <2>1
  <2> HIDE DEF owner, members
  <2> QED BY <1>0, <2>1, <2>2, Rewriting
<1>2. /\ owner \in [Vehicles -> Users \cup {Nobody}] /\ owner[v] = user
      /\ \A w \in Vehicles, u \in Users : desk.owner[w] = u => owner[w] = u
  BY <1>1, AccessAssumption DEF AccessInv, AccessOk
<1> HIDE DEF owner
<1>3. \A m \in members : Listed(owner, m)
  <2>1. \A m \in desk.members : Listed(owner, m)
    BY <1>2, OwnersStay DEF AccessInv, AccessOk
  <2>2. Listed(owner, Member(v, user, "OWNER"))
    BY <1>2 DEF Listed, Mine, Member
  <2> QED BY <2>1, <2>2
<1>4. \/ desk.request = NoRequest
      \/ PassedRequest(owner, desk.request)
      \/ AnsweredRequest(owner, desk.request)
  BY <1>2, OwnersStay DEF AccessInv, AccessOk
<1> HIDE DEF members
<1>5. AccessOk(desk')
  BY <1>1, <1>2, <1>3, <1>4, PartsAreSound DEF AccessInv, AccessOk
<1> QED BY <1>5 DEF AccessInv

LEMMA RequestIsSound ==
  ASSUME AccessInv, NEW q, desk' = [desk EXCEPT !.request = q],
         q = NoRequest \/ PassedRequest(desk.owner, q) \/ AnsweredRequest(desk.owner, q)
  PROVE  AccessInv'
<1>1. desk' = [kind |-> "access", owner |-> desk.owner, members |-> desk.members,
               rows |-> desk.rows, request |-> q]
  BY DEF AccessInv, AccessOk
<1>2. AccessOk(desk')
  BY <1>1, PartsAreSound DEF AccessInv, AccessOk
<1> QED BY <1>2 DEF AccessInv

LEMMA ListingIsSound ==
  ASSUME AccessInv, NEW user \in Users, ListVehicles(user) PROVE AccessInv'
<1> DEFINE shown == {m.vehicle : m \in {n \in desk.members : n.user = user}}
           q == [is |-> "answered", user |-> user, about |-> {}, says |-> "done", shown |-> shown]
<1>1. \A v \in shown : v \in Vehicles /\ Mine(desk.owner, user, v)
  BY DEF AccessInv, AccessOk, Listed
<1>2. desk' = [desk EXCEPT !.request = q]
  BY DEF ListVehicles
<1> HIDE DEF shown
<1>3. AnsweredRequest(desk.owner, q)
  BY <1>1, AccessAssumption DEF AnsweredRequest
<1> QED BY <1>2, <1>3, RequestIsSound

\* What a request is told at the guard.
LEMMA RefusalTells ==
  ASSUME AccessInv, NEW user \in Users \cup {Nobody}, NEW route \in Routes,
         NEW id \in PathIds(route), Guarded(user, route, id) # "passed"
  PROVE  AnsweredRequest(desk.owner, Answered(user, id, Guarded(user, route, id), {}))
<1> DEFINE says == Guarded(user, route, id)
           q == Answered(user, id, says, {})
<1>1. q = [is |-> "answered", user |-> user, about |-> {id} \cap (Vehicles \cup Ids), says |-> says,
           shown |-> {}]
  BY DEF Answered
<1>2. user = Nobody => says = "unauthorized"
  BY DEF Guarded
<1>3. ASSUME user # Nobody, id \in Vehicles \cup Ids, says \notin {"not found", "unauthorized"}
      PROVE  IF id \in Vehicles THEN Mine(desk.owner, user, id)
             ELSE VehicleOf(id) \in Vehicles /\ Mine(desk.owner, user, VehicleOf(id))
  <2>1. Membership(ResolveVehicle(route, id), user) # {}
    BY <1>3, AccessAssumption DEF Guarded
  <2>2. IF route.names = "vehicle" THEN id \in Vehicles /\ Mine(desk.owner, user, id)
        ELSE VehicleOf(id) \in Vehicles /\ Mine(desk.owner, user, VehicleOf(id))
    BY <2>1, GuardKnows
  <2>3. route.names # "vehicle" => id \notin Vehicles
    BY PathNames
  <2> QED BY <2>2, <2>3
<1> SUFFICES AnsweredRequest(desk.owner, q)
  OBVIOUS
<1> HIDE DEF says, q
<1> QED BY <1>1, <1>2, <1>3 DEF AnsweredRequest

LEMMA ArrivalIsSound ==
  ASSUME AccessInv, NEW user \in Users \cup {Nobody}, NEW route \in Routes,
         NEW id \in PathIds(route), NEW of, Arrive(user, route, id, of)
  PROVE  AccessInv'
<1> DEFINE v == CHOOSE v \in ResolveVehicle(route, id) : TRUE
           q == [is |-> "passed", user |-> user, route |-> route, id |-> id, of |-> of,
                 vehicle |-> v]
<1>1. CASE Guarded(user, route, id) = "passed"
  <2>1. desk' = [desk EXCEPT !.request = q]
    BY <1>1 DEF Arrive
  <2>2. Membership(ResolveVehicle(route, id), user) # {}
    BY <1>1 DEF Guarded
  <2>3. /\ user \in Users /\ v \in Vehicles /\ Mine(desk.owner, user, v)
        /\ IF route.names = "vehicle" THEN id = v ELSE id \notin Vehicles /\ VehicleOf(id) = v
    BY <2>2, GuardKnows, PathNames
  <2> HIDE DEF v
  <2>4. PassedRequest(desk.owner, q)
    BY <2>3 DEF PassedRequest
  <2> QED BY <2>1, <2>4, RequestIsSound
<1>2. CASE Guarded(user, route, id) # "passed"
  <2>1. desk' = [desk EXCEPT !.request = Answered(user, id, Guarded(user, route, id), {})]
    BY <1>2 DEF Arrive
  <2> QED BY <1>2, <2>1, RefusalTells, RequestIsSound
<1> QED BY <1>1, <1>2

LEMMA HandlingIsSound ==
  ASSUME AccessInv, Handle PROVE AccessInv'
<1> DEFINE q == desk.request
           a == Handled(q.route, q.id, q.vehicle, q.of)
           answer == Answered(q.user, q.id, a.says, a.shown)
<1>1. PassedRequest(desk.owner, q)
  <2>1. q.is = "passed"
    BY DEF Handle
  <2>2. q # NoRequest
    BY <2>1 DEF NoRequest
  <2>3. AnsweredRequest(desk.owner, q) => q.is = "answered"
    BY AnsweredIs
  <2>4. q = NoRequest \/ PassedRequest(desk.owner, q) \/ AnsweredRequest(desk.owner, q)
    BY DEF AccessInv, AccessOk
  <2> QED BY <2>1, <2>2, <2>3, <2>4
<1>2. desk' = [a.db EXCEPT !.request = answer]
  BY DEF Handle
<1>3. q.vehicle \in Vehicles /\ IF q.route.names = "vehicle" THEN q.id = q.vehicle
                                ELSE VehicleOf(q.id) = q.vehicle
  BY <1>1 DEF PassedRequest
<1>4. KeepsTo(a, q.vehicle)
  BY <1>3, HandlerKeeps
<1>5. /\ a.db = [kind |-> "access", owner |-> desk.owner, members |-> a.db.members,
                 rows |-> a.db.rows, request |-> desk.request]
      /\ \A m \in a.db.members : Listed(desk.owner, m)
      /\ \A r \in a.db.rows : OwnRow(r)
  BY <1>3, <1>4, HandledIsSound
<1>6. a.shown \subseteq {q.vehicle}
  BY <1>4 DEF KeepsTo
<1> HIDE DEF a
<1>7. AnsweredRequest(desk.owner, answer)
  BY <1>1, <1>6, AccessAssumption DEF AnsweredRequest, PassedRequest, Answered
<1> HIDE DEF answer
<1>8. desk' = [kind |-> "access", owner |-> desk.owner, members |-> a.db.members,
               rows |-> a.db.rows, request |-> answer]
  BY <1>2, <1>5
<1>9. AccessOk(desk')
  BY <1>5, <1>7, <1>8, PartsAreSound DEF AccessInv, AccessOk
<1> QED BY <1>9 DEF AccessInv

LEMMA MeanwhileIsSound ==
  ASSUME AccessInv, NEW user \in Users \cup {Nobody}, NEW route \in Routes,
         NEW id \in PathIds(route), NEW of, Meanwhile(user, route, id, of)
  PROVE  AccessInv'
<1> DEFINE v == CHOOSE v \in ResolveVehicle(route, id) : TRUE
           a == Handled(route, id, v, of)
<1>1. Guarded(user, route, id) = "passed" /\ desk' = a.db
  BY DEF Meanwhile
<1>2. Membership(ResolveVehicle(route, id), user) # {}
  BY <1>1 DEF Guarded
<1>3. v \in Vehicles /\ IF route.names = "vehicle" THEN id = v ELSE VehicleOf(id) = v
  BY <1>2, GuardKnows
<1> HIDE DEF v
<1>4. KeepsTo(a, v)
  BY <1>3, HandlerKeeps
<1>5. /\ a.db = [kind |-> "access", owner |-> desk.owner, members |-> a.db.members,
                 rows |-> a.db.rows, request |-> desk.request]
      /\ \A m \in a.db.members : Listed(desk.owner, m)
      /\ \A r \in a.db.rows : OwnRow(r)
  BY <1>3, <1>4, HandledIsSound
<1> HIDE DEF a
<1>6. AccessOk(a.db)
  BY <1>5, PartsAreSound DEF AccessInv, AccessOk
<1> QED BY <1>1, <1>6 DEF AccessInv

LEMMA AccessInvInductive == AccessInv /\ [AccessNext]_desk => AccessInv'
<1> SUFFICES ASSUME AccessInv, [AccessNext]_desk PROVE AccessInv'
  OBVIOUS
<1>1. CASE Read
  BY <1>1, RequestIsSound DEF Read
<1>2. CASE UNCHANGED desk
  BY <1>2 DEF AccessInv
<1>3. ASSUME NEW user \in Users \cup {Nobody}, NEW route \in Routes, NEW id \in PathIds(route),
             NEW of \in Named(route), Arrive(user, route, id, of) \/ Meanwhile(user, route, id, of)
      PROVE  AccessInv'
  BY <1>3, ArrivalIsSound, MeanwhileIsSound
<1> QED BY <1>1, <1>2, <1>3, CreationIsSound, ListingIsSound, HandlingIsSound DEF AccessNext

\* Nobody is shown a vehicle they did not create, or told of a row of one, and
\* no row names a row of another vehicle.
THEOREM MembersOnly == AccessSpec => []OnlyMembersReach
<1>1. AccessInit => AccessInv
  BY DEF AccessInit, AccessInv, AccessOk
<1>2. AccessInv => OnlyMembersReach
  <2> SUFFICES ASSUME AccessInv PROVE OnlyMembersReach
    OBVIOUS
  <2>1. \A r \in desk.rows : r.of # NoRow => VehicleOf(r.of) = VehicleOf(r.id)
    BY DEF AccessInv, AccessOk, OwnRow
  <2>2. ASSUME desk.request.is = "answered" PROVE AnsweredRequest(desk.owner, desk.request)
    BY <2>2 DEF AccessInv, AccessOk, NoRequest, PassedRequest
  <2>3. CASE desk.request.is = "answered" /\ desk.request.user = Nobody
    BY <2>1, <2>2, <2>3 DEF OnlyMembersReach, AnsweredRequest
  <2>4. CASE desk.request.is = "answered" /\ desk.request.user # Nobody
    BY <2>1, <2>2, <2>4 DEF OnlyMembersReach, AnsweredRequest, Mine
  <2> QED BY <2>1, <2>3, <2>4 DEF OnlyMembersReach
<1> QED BY <1>1, <1>2, AccessInvInductive, PTL DEF AccessSpec

-----------------------------------------------------------------------------
(* Throttle: what is let through is still counted while its window lasts.     *)

AttemptRow ==
  [address : Addresses, email : Emails \cup {NoEmail}, at : Nat, up : BOOLEAN,
   admitted : BOOLEAN, lastOfAddress : BOOLEAN]

Keys == Addresses \cup Emails

\* The entry attempt j leaves under a key.
EntryOf(log, key, j) == [key |-> key, at |-> log[j].at, nr |-> j - 1]

\* Whatever is counted was tried, and counted under an email only if let through.
Made(log, e) ==
  LET j == e.nr + 1 IN
  /\ j \in 1..Len(log) /\ e = EntryOf(log, e.key, j) /\ e.key \in Keys
  /\ log[j].up /\ Mentions(log[j], e.key) /\ (e.key \in Emails => log[j].admitted)

\* What was let through is still counted, or has left the window.
StillCounted(d, j) ==
  LET out(rule) == d.log[j].at <= d.now - rule.window IN
  d.log[j].up /\ d.log[j].admitted =>
    /\ EntryOf(d.log, d.log[j].address, j) \in d.counted \/ out(ByAddress)
    /\ d.log[j].email # NoEmail /\ ~d.log[j].lastOfAddress =>
         EntryOf(d.log, d.log[j].email, j) \in d.counted \/ out(ByEmail)

WindowOf(log, i, key, rule) ==
  {j \in 1..i : Mentions(log[j], key) /\ log[j].up /\ log[j].at > log[i].at - rule.window}

AddressUse(log, since, i) ==
  {j \in WindowOf(log, i, log[i].address, ByAddress) : j > since /\ log[j].admitted}

EmailUse(log, since, i) ==
  {j \in WindowOf(log, i, log[i].email, ByEmail) :
     j > since /\ log[j].admitted /\ ~log[j].lastOfAddress}

\* The limits, of attempt i.
LimitAt(log, since, i) ==
  /\ ~log[i].up => log[i].admitted
  /\ log[i].up /\ log[i].admitted =>
       /\ Cardinality(AddressUse(log, since, i)) <= ByAddress.limit
       /\ log[i].email # NoEmail /\ ~log[i].lastOfAddress =>
            Cardinality(EmailUse(log, since, i)) <= ByEmail.limit
  /\ log[i].up /\ ~log[i].admitted =>
       \/ Cardinality(WindowOf(log, i, log[i].address, ByAddress)) > ByAddress.limit
       \/ /\ log[i].email # NoEmail
          /\ Cardinality({j \in WindowOf(log, i, log[i].email, ByEmail) : log[j].admitted})
               >= ByEmail.limit

ThrottleOk(d) ==
  /\ d = [kind |-> "throttle", now |-> d.now, up |-> d.up, counted |-> d.counted,
          log |-> d.log, since |-> d.since]
  /\ d.now \in Nat /\ d.up \in BOOLEAN /\ d.log \in Seq(AttemptRow) /\ d.since \in 0..Len(d.log)
  /\ IsFiniteSet(d.counted) /\ \A e \in d.counted : Made(d.log, e)
  /\ \A j \in 1..Len(d.log) : j > d.since => StillCounted(d, j)
  /\ \A i \in 1..Len(d.log) : LimitAt(d.log, d.since, i)

ThrottleInv == ThrottleOk(desk)

-----------------------------------------------------------------------------
\* What the script counts.
Fresh(key, window) == {e \in desk.counted : e.key = key /\ e.at > desk.now - window}

LEMMA CountIs ==
  ASSUME ThrottleInv, NEW key, NEW rule \in {ByAddress, ByEmail}
  PROVE  /\ IsFiniteSet(Fresh(key, rule.window))
         /\ Count(key, rule.window) = Cardinality(Fresh(key, rule.window))
         /\ Count(key, rule.window) \in Nat
<1>1. \A e \in desk.counted : e.at \in Nat
  <2> SUFFICES ASSUME NEW e \in desk.counted PROVE e.at \in Nat
    OBVIOUS
  <2>1. Made(desk.log, e) /\ desk.log \in Seq(AttemptRow)
    BY DEF ThrottleInv, ThrottleOk
  <2>2. e.nr + 1 \in 1..Len(desk.log) /\ e = EntryOf(desk.log, e.key, e.nr + 1)
    BY <2>1 DEF Made
  <2>3. desk.log[e.nr + 1] \in AttemptRow
    BY <2>1, <2>2
  <2>4. e.at = desk.log[e.nr + 1].at
    BY <2>2 DEF EntryOf
  <2> QED BY <2>3, <2>4 DEF AttemptRow
<1>2. {e \in desk.counted : e.key = key} \ Aged(key, rule.window) = Fresh(key, rule.window)
  BY <1>1, ThrottleAssumption DEF Aged, Fresh, ThrottleInv, ThrottleOk
<1>3. IsFiniteSet(Fresh(key, rule.window))
  BY FS_Subset DEF Fresh, ThrottleInv, ThrottleOk
<1> QED BY <1>2, <1>3, FS_CardinalityType DEF Count

\* No more attempts are counted than there are entries for them.
LEMMA CountBounds ==
  ASSUME ThrottleInv, NEW key, NEW rule \in {ByAddress, ByEmail}, NEW S \in SUBSET (1..Len(desk.log)),
         \A j \in S : EntryOf(desk.log, key, j) \in Fresh(key, rule.window)
  PROVE  IsFiniteSet(S) /\ Cardinality(S) \in Nat /\ Cardinality(S) <= Count(key, rule.window)
<1> DEFINE T == Fresh(key, rule.window)
           f == [j \in S |-> EntryOf(desk.log, key, j)]
<1>1. f \in [S -> T]
  OBVIOUS
<1>2. ASSUME NEW a \in S, NEW b \in S, f[a] = f[b] PROVE a = b
  <2>1. EntryOf(desk.log, key, a).nr = EntryOf(desk.log, key, b).nr
    BY <1>2
  <2>2. a - 1 = b - 1
    BY <2>1 DEF EntryOf
  <2>3. Len(desk.log) \in Nat
    BY DEF ThrottleInv, ThrottleOk
  <2> QED BY <2>2, <2>3
<1>3. f \in Injection(S, T)
  BY <1>1, <1>2 DEF Injection, IsInjective
<1>4. IsFiniteSet(T) /\ Count(key, rule.window) = Cardinality(T)
  BY CountIs
<1> HIDE DEF f, T
<1> QED BY <1>3, <1>4, FS_Injection, FS_CardinalityType

\* Whatever is counted was tried.
LEMMA CountWasMade ==
  ASSUME ThrottleInv, NEW key, NEW rule \in {ByAddress, ByEmail}, NEW S \in SUBSET (1..Len(desk.log)),
         \A e \in Fresh(key, rule.window) : e.nr + 1 \in S
  PROVE  IsFiniteSet(S) /\ Cardinality(S) \in Nat /\ Count(key, rule.window) <= Cardinality(S)
<1> DEFINE T == Fresh(key, rule.window)
           f == [e \in T |-> e.nr + 1]
<1>1. f \in [T -> S]
  OBVIOUS
<1>2. ASSUME NEW a \in T, NEW b \in T, f[a] = f[b] PROVE a = b
  <2>1. /\ a = EntryOf(desk.log, key, a.nr + 1) /\ b = EntryOf(desk.log, key, b.nr + 1)
    BY DEF Fresh, ThrottleInv, ThrottleOk, Made
  <2>2. a.nr + 1 = b.nr + 1
    BY <1>2
  <2> QED BY <2>1, <2>2
<1>3. f \in Injection(T, S)
  BY <1>1, <1>2 DEF Injection, IsInjective
<1>4. IsFiniteSet(S)
  <2>0. Len(desk.log) \in Nat
    BY DEF ThrottleInv, ThrottleOk
  <2>1. IsFiniteSet(1..Len(desk.log))
    BY <2>0, FS_Interval
  <2> QED BY <2>1, FS_Subset
<1>5. Count(key, rule.window) = Cardinality(T)
  BY CountIs
<1> HIDE DEF f, T
<1> QED BY <1>3, <1>4, <1>5, FS_Injection, FS_CardinalityType

-----------------------------------------------------------------------------
\* The parts of an attempt.
Asked(address, email) == Consume(address, ByAddress).allowed /\ email # NoEmail

Verdict(address, email) ==
  IF Asked(address, email) THEN Tightest(Consume(address, ByAddress), Consume(email, ByEmail))
  ELSE Consume(address, ByAddress)

CountsAddress(address) == desk.up /\ Consume(address, ByAddress).allowed

CountsEmail(address, email) ==
  desk.up /\ Asked(address, email) /\ Consume(email, ByEmail).allowed

RowOf(address, email) ==
  [address |-> address, email |-> email, at |-> desk.now, up |-> desk.up,
   admitted |-> Verdict(address, email).allowed,
   lastOfAddress |-> Consume(address, ByAddress).allowed /\ Consume(address, ByAddress).remaining = 0]

CountedAfter(address, email) ==
  ((desk.counted \ Consume(address, ByAddress).dropped)
    \ (IF Asked(address, email) THEN Consume(email, ByEmail).dropped ELSE {}))
  \cup {Entry(key) : key \in (IF CountsAddress(address) THEN {address} ELSE {})
                             \cup (IF CountsEmail(address, email) THEN {email} ELSE {})}

LEMMA ConsumeKnows ==
  ASSUME ThrottleInv, NEW key, NEW rule \in {ByAddress, ByEmail}, NEW c, c = Consume(key, rule)
  PROVE  /\ c.allowed \in BOOLEAN /\ c.remaining \in Nat
         /\ desk.up => (c.allowed <=> Count(key, rule.window) < rule.limit)
         /\ ~desk.up => c.allowed
         /\ ~c.allowed => c.remaining = 0
         /\ \A e \in c.dropped : e.key = key /\ e.at <= desk.now - rule.window
<1>1. Count(key, rule.window) \in Nat /\ rule.limit \in Nat \ {0}
  BY CountIs, ThrottleAssumption
<1>2. CASE ~desk.up
  BY <1>1, <1>2 DEF Consume
<1>3. CASE desk.up /\ Count(key, rule.window) >= rule.limit
  BY <1>1, <1>3 DEF Consume, Aged
<1>4. CASE desk.up /\ Count(key, rule.window) < rule.limit
  BY <1>1, <1>4 DEF Consume, Aged
<1> QED BY <1>1, <1>2, <1>3, <1>4 DEF ThrottleInv, ThrottleOk

LEMMA VerdictKnows ==
  ASSUME ThrottleInv, NEW address \in Addresses, NEW email \in Emails \cup {NoEmail},
         NEW row, row = RowOf(address, email)
  PROVE  /\ row \in AttemptRow
         /\ row.admitted /\ row.up => CountsAddress(address)
         /\ row.admitted /\ row.up /\ email # NoEmail /\ ~row.lastOfAddress =>
              CountsEmail(address, email)
         /\ CountsEmail(address, email) => row.admitted /\ email \in Emails
         /\ row.up /\ ~row.admitted =>
              \/ ~CountsAddress(address)
              \/ Asked(address, email) /\ ~Consume(email, ByEmail).allowed
         /\ ~row.up => row.admitted
<1> DEFINE a == Consume(address, ByAddress)
           b == Consume(email, ByEmail)
<1>1. a.allowed \in BOOLEAN /\ a.remaining \in Nat /\ (~desk.up => a.allowed)
  BY ConsumeKnows
<1>2. /\ b.allowed \in BOOLEAN /\ b.remaining \in Nat /\ (~b.allowed => b.remaining = 0)
      /\ ~desk.up => b.allowed
  BY ConsumeKnows
<1>3. /\ row.address = address /\ row.email = email /\ row.at = desk.now /\ row.up = desk.up
      /\ row.admitted = Verdict(address, email).allowed
      /\ row.lastOfAddress = (a.allowed /\ a.remaining = 0)
  BY DEF RowOf
<1>4. Verdict(address, email) = IF a.allowed /\ email # NoEmail
                                THEN IF b.remaining < a.remaining THEN b ELSE a ELSE a
  BY DEF Verdict, Asked, Tightest
<1>5. /\ CountsAddress(address) <=> desk.up /\ a.allowed
      /\ CountsEmail(address, email) <=> desk.up /\ a.allowed /\ email # NoEmail /\ b.allowed
      /\ Asked(address, email) <=> a.allowed /\ email # NoEmail
  BY DEF CountsAddress, CountsEmail, Asked
<1>6. desk.up \in BOOLEAN /\ desk.now \in Nat
  BY DEF ThrottleInv, ThrottleOk
<1> HIDE DEF a, b
<1>7. row.admitted \in BOOLEAN
  BY <1>1, <1>2, <1>3, <1>4
<1>8. row \in AttemptRow
  <2>1. row = [address |-> row.address, email |-> row.email, at |-> row.at, up |-> row.up,
               admitted |-> row.admitted, lastOfAddress |-> row.lastOfAddress]
    BY DEF RowOf
  <2> QED BY <1>3, <1>6, <1>7, <2>1 DEF AttemptRow
<1>9. row.admitted /\ row.up => CountsAddress(address)
  BY <1>1, <1>2, <1>3, <1>4, <1>5
<1>10. row.admitted /\ row.up /\ email # NoEmail /\ ~row.lastOfAddress => CountsEmail(address, email)
  BY <1>1, <1>2, <1>3, <1>4, <1>5
<1>11. CountsEmail(address, email) => row.admitted /\ email \in Emails
  BY <1>1, <1>2, <1>3, <1>4, <1>5
<1>12. row.up /\ ~row.admitted => \/ ~CountsAddress(address)
                                  \/ Asked(address, email) /\ ~b.allowed
  BY <1>1, <1>2, <1>3, <1>4, <1>5
<1>13. ~row.up => row.admitted
  BY <1>1, <1>2, <1>3, <1>4, <1>6
<1> QED BY <1>8, <1>9, <1>10, <1>11, <1>12, <1>13 DEF b

-----------------------------------------------------------------------------
\* One more attempt in the log.
LEMMA Logged ==
  ASSUME NEW log \in Seq(AttemptRow), NEW row \in AttemptRow, NEW later, later = Append(log, row)
  PROVE  /\ later \in Seq(AttemptRow) /\ Len(later) = Len(log) + 1 /\ Len(log) \in Nat
         /\ \A j \in 1..Len(log) : later[j] = log[j] /\ log[j] \in AttemptRow
         /\ later[Len(log) + 1] = row
  OBVIOUS

LEMMA MadeStays ==
  ASSUME NEW log \in Seq(AttemptRow), NEW row \in AttemptRow, NEW e, Made(log, e)
  PROVE  Made(Append(log, row), e)
<1> DEFINE later == Append(log, row)
           j == e.nr + 1
<1>1. /\ Len(later) = Len(log) + 1 /\ Len(log) \in Nat
      /\ \A k \in 1..Len(log) : later[k] = log[k]
  BY Logged
<1>2. /\ j \in 1..Len(log) /\ e = EntryOf(log, e.key, j) /\ e.key \in Keys
      /\ log[j].up /\ Mentions(log[j], e.key) /\ (e.key \in Emails => log[j].admitted)
  BY DEF Made
<1> HIDE DEF later
<1>3. j \in 1..Len(later) /\ later[j] = log[j]
  BY <1>1, <1>2
<1>4. EntryOf(later, e.key, j) = EntryOf(log, e.key, j)
  BY <1>3 DEF EntryOf
<1>5. Made(later, e)
  BY <1>2, <1>3, <1>4 DEF Made
<1> QED BY <1>5 DEF later

LEMMA WindowStays ==
  ASSUME NEW log \in Seq(AttemptRow), NEW row \in AttemptRow, NEW i \in 1..Len(log), NEW key, NEW rule
  PROVE  WindowOf(Append(log, row), i, key, rule) = WindowOf(log, i, key, rule)
<1> DEFINE later == Append(log, row)
<1>1. Len(log) \in Nat /\ \A k \in 1..Len(log) : later[k] = log[k]
  BY Logged
<1> HIDE DEF later
<1>2. \A k \in 1..i : later[k] = log[k]
  BY <1>1
<1>3. later[i] = log[i]
  BY <1>1
<1>4. WindowOf(later, i, key, rule) = WindowOf(log, i, key, rule)
  BY <1>2, <1>3 DEF WindowOf
<1> QED BY <1>4 DEF later

LEMMA LimitStays ==
  ASSUME NEW log \in Seq(AttemptRow), NEW row \in AttemptRow, NEW i \in 1..Len(log), NEW since,
         LimitAt(log, since, i)
  PROVE  LimitAt(Append(log, row), since, i)
<1> DEFINE later == Append(log, row)
<1>1. Len(log) \in Nat /\ \A k \in 1..Len(log) : later[k] = log[k]
  BY Logged
<1>2. \A key, rule : WindowOf(later, i, key, rule) = WindowOf(log, i, key, rule)
  BY WindowStays
<1> HIDE DEF later
<1>3. \A key, rule : \A k \in WindowOf(log, i, key, rule) : later[k] = log[k]
  BY <1>1 DEF WindowOf
<1>4. later[i] = log[i]
  BY <1>1
<1>5. AddressUse(later, since, i) = AddressUse(log, since, i)
  BY <1>2, <1>3, <1>4 DEF AddressUse
<1>6. EmailUse(later, since, i) = EmailUse(log, since, i)
  BY <1>2, <1>3, <1>4 DEF EmailUse
<1>7. {j \in WindowOf(later, i, later[i].email, ByEmail) : later[j].admitted}
        = {j \in WindowOf(log, i, log[i].email, ByEmail) : log[j].admitted}
  BY <1>2, <1>3, <1>4
<1>8. LimitAt(later, since, i)
  BY <1>2, <1>4, <1>5, <1>6, <1>7 DEF LimitAt
<1> QED BY <1>8 DEF later

\* Whatever Redis loses, no limit gives way: it counts less.
LEMMA LimitForgets ==
  ASSUME NEW log \in Seq(AttemptRow), NEW i \in 1..Len(log), NEW since \in Nat, NEW later \in Nat,
         since <= later, LimitAt(log, since, i)
  PROVE  LimitAt(log, later, i)
<1>0. Len(log) \in Nat
  OBVIOUS
<1>1. IsFiniteSet(1..i)
  BY <1>0, FS_Interval
<1>2. \A key, rule : IsFiniteSet(WindowOf(log, i, key, rule))
  BY <1>1, FS_Subset DEF WindowOf
<1>3. IsFiniteSet(AddressUse(log, since, i)) /\ IsFiniteSet(EmailUse(log, since, i))
  BY <1>2, FS_Subset DEF AddressUse, EmailUse
<1>4. \A key, rule : \A j \in WindowOf(log, i, key, rule) : j \in Nat
  BY <1>0 DEF WindowOf
<1>5. /\ AddressUse(log, later, i) \subseteq AddressUse(log, since, i)
      /\ EmailUse(log, later, i) \subseteq EmailUse(log, since, i)
  BY <1>4 DEF AddressUse, EmailUse
<1>6. /\ Cardinality(AddressUse(log, later, i)) <= Cardinality(AddressUse(log, since, i))
      /\ Cardinality(EmailUse(log, later, i)) <= Cardinality(EmailUse(log, since, i))
  BY <1>3, <1>5, FS_Subset
<1>7. /\ Cardinality(AddressUse(log, later, i)) \in Nat /\ Cardinality(AddressUse(log, since, i)) \in Nat
      /\ Cardinality(EmailUse(log, later, i)) \in Nat /\ Cardinality(EmailUse(log, since, i)) \in Nat
  BY <1>3, <1>5, FS_Subset, FS_CardinalityType
<1> QED BY <1>6, <1>7, ThrottleAssumption DEF LimitAt

-----------------------------------------------------------------------------
\* The attempts that count towards a limit are the ones still counted.
LEMMA AddressKept ==
  ASSUME ThrottleInv, NEW address \in Addresses, NEW j \in 1..Len(desk.log), j > desk.since,
         Mentions(desk.log[j], address), desk.log[j].up, desk.log[j].admitted,
         desk.log[j].at > desk.now - ByAddress.window
  PROVE  EntryOf(desk.log, address, j) \in Fresh(address, ByAddress.window)
<1>1. desk.log[j] \in AttemptRow /\ desk.now \in Nat /\ StillCounted(desk, j)
  BY DEF ThrottleInv, ThrottleOk
<1>2. desk.log[j].address = address
  BY <1>1, ThrottleAssumption DEF Mentions, AttemptRow
<1>3. ~(desk.log[j].at <= desk.now - ByAddress.window)
  BY <1>1, ThrottleAssumption DEF AttemptRow
<1>4. EntryOf(desk.log, address, j) \in desk.counted
  BY <1>1, <1>2, <1>3 DEF StillCounted
<1> QED BY <1>4 DEF Fresh, EntryOf

LEMMA EmailKept ==
  ASSUME ThrottleInv, NEW email \in Emails, NEW j \in 1..Len(desk.log), j > desk.since,
         Mentions(desk.log[j], email), desk.log[j].up, desk.log[j].admitted,
         ~desk.log[j].lastOfAddress, desk.log[j].at > desk.now - ByEmail.window
  PROVE  EntryOf(desk.log, email, j) \in Fresh(email, ByEmail.window)
<1>1. desk.log[j] \in AttemptRow /\ desk.now \in Nat /\ StillCounted(desk, j)
  BY DEF ThrottleInv, ThrottleOk
<1>2. desk.log[j].email = email /\ email # NoEmail
  BY <1>1, ThrottleAssumption DEF Mentions, AttemptRow
<1>3. ~(desk.log[j].at <= desk.now - ByEmail.window)
  BY <1>1, ThrottleAssumption DEF AttemptRow
<1>4. EntryOf(desk.log, email, j) \in desk.counted
  BY <1>1, <1>2, <1>3 DEF StillCounted
<1> QED BY <1>4 DEF Fresh, EntryOf

\* An attempt that is let through finds room under the limit.
LEMMA OneMore ==
  ASSUME NEW n \in Nat, NEW S \in SUBSET (1..n), NEW T, T \subseteq S \cup {n + 1}, IsFiniteSet(S),
         NEW limit \in Nat, Cardinality(S) < limit
  PROVE  Cardinality(T) <= limit
<1>1. Cardinality(S) \in Nat /\ n + 1 \notin S
  BY FS_CardinalityType
<1>2. IsFiniteSet(S \cup {n + 1}) /\ Cardinality(S \cup {n + 1}) = Cardinality(S) + 1
  BY <1>1, FS_AddElement
<1>3. Cardinality(T) <= Cardinality(S) + 1 /\ IsFiniteSet(T)
  <2> DEFINE U == S \cup {n + 1}
  <2>1. IsFiniteSet(U) /\ Cardinality(U) = Cardinality(S) + 1 /\ T \in SUBSET U
    BY <1>2
  <2> HIDE DEF U
  <2> QED BY <2>1, FS_Subset
<1> QED BY <1>1, <1>3, FS_CardinalityType

LEMMA FreshWasMade ==
  ASSUME ThrottleInv, NEW key, NEW window, NEW e \in Fresh(key, window)
  PROVE  /\ e.nr + 1 \in 1..Len(desk.log) /\ desk.log[e.nr + 1] \in AttemptRow
         /\ desk.log[e.nr + 1].up /\ Mentions(desk.log[e.nr + 1], key)
         /\ desk.log[e.nr + 1].at > desk.now - window
         /\ key \in Emails => desk.log[e.nr + 1].admitted
<1>1. Made(desk.log, e) /\ desk.log \in Seq(AttemptRow) /\ e.key = key /\ e.at > desk.now - window
  BY DEF Fresh, ThrottleInv, ThrottleOk
<1>2. e.at = desk.log[e.nr + 1].at
  BY <1>1 DEF Made, EntryOf
<1> QED BY <1>1, <1>2 DEF Made

LEMMA NewLimit ==
  ASSUME ThrottleInv, NEW address \in Addresses, NEW email \in Emails \cup {NoEmail},
         NEW row, row = RowOf(address, email), NEW later, later = Append(desk.log, row)
  PROVE  LimitAt(later, desk.since, Len(desk.log) + 1)
<1> DEFINE n == Len(desk.log)
           i == n + 1
<1>1. /\ desk.log \in Seq(AttemptRow) /\ desk.since \in 0..n /\ desk.now \in Nat /\ n \in Nat
      /\ ByAddress.limit \in Nat /\ ByEmail.limit \in Nat
  BY ThrottleAssumption DEF ThrottleInv, ThrottleOk
<1>2. /\ row \in AttemptRow /\ row.address = address /\ row.email = email /\ row.at = desk.now
      /\ row.up = desk.up
  BY VerdictKnows DEF RowOf
<1>3. /\ \A j \in 1..n : later[j] = desk.log[j] /\ desk.log[j] \in AttemptRow
      /\ later[i] = row
  BY <1>1, <1>2, Logged
<1> DEFINE tried(key, rule) ==
             {j \in 1..n : Mentions(desk.log[j], key) /\ desk.log[j].up
                           /\ desk.log[j].at > desk.now - rule.window}
<1>4. \A key : /\ WindowOf(later, i, key, ByAddress) \subseteq tried(key, ByAddress) \cup {i}
               /\ WindowOf(later, i, key, ByEmail) \subseteq tried(key, ByEmail) \cup {i}
               /\ tried(key, ByAddress) \subseteq WindowOf(later, i, key, ByAddress)
               /\ tried(key, ByEmail) \subseteq WindowOf(later, i, key, ByEmail)
  BY <1>1, <1>2, <1>3 DEF WindowOf
<1>5. row.up => i \in WindowOf(later, i, address, ByAddress)
  BY <1>1, <1>2, <1>3, ThrottleAssumption DEF WindowOf, Mentions
<1>6. ASSUME row.up, row.admitted
      PROVE  Cardinality(AddressUse(later, desk.since, i)) <= ByAddress.limit
  <2> DEFINE S == {j \in tried(address, ByAddress) : j > desk.since /\ desk.log[j].admitted}
  <2>1. \A j \in S : EntryOf(desk.log, address, j) \in Fresh(address, ByAddress.window)
    BY AddressKept
  <2>2. Count(address, ByAddress.window) < ByAddress.limit
    <3>1. CountsAddress(address)
      BY <1>6, VerdictKnows
    <3> QED BY <3>1, ConsumeKnows DEF CountsAddress
  <2>3. AddressUse(later, desk.since, i) \subseteq S \cup {i}
    BY <1>2, <1>3, <1>4 DEF AddressUse
  <2>4. S \in SUBSET (1..n)
    OBVIOUS
  <2> HIDE DEF S
  <2>5. IsFiniteSet(S) /\ Cardinality(S) \in Nat /\ Cardinality(S) <= Count(address, ByAddress.window)
    BY <2>1, <2>4, CountBounds
  <2>6. Cardinality(S) < ByAddress.limit
    BY <1>1, <2>2, <2>5, CountIs
  <2> QED BY <1>1, <2>3, <2>4, <2>5, <2>6, OneMore
<1>7. ASSUME row.up, row.admitted, email # NoEmail, ~row.lastOfAddress
      PROVE  Cardinality(EmailUse(later, desk.since, i)) <= ByEmail.limit
  <2> DEFINE S == {j \in tried(email, ByEmail) :
                     j > desk.since /\ desk.log[j].admitted /\ ~desk.log[j].lastOfAddress}
  <2>1. \A j \in S : EntryOf(desk.log, email, j) \in Fresh(email, ByEmail.window)
    BY <1>7, EmailKept
  <2>2. Count(email, ByEmail.window) < ByEmail.limit
    <3>1. CountsEmail(address, email)
      BY <1>7, VerdictKnows
    <3> QED BY <3>1, ConsumeKnows DEF CountsEmail
  <2>3. EmailUse(later, desk.since, i) \subseteq S \cup {i}
    BY <1>2, <1>3, <1>4 DEF EmailUse
  <2>4. S \in SUBSET (1..n)
    OBVIOUS
  <2> HIDE DEF S
  <2>5. IsFiniteSet(S) /\ Cardinality(S) \in Nat /\ Cardinality(S) <= Count(email, ByEmail.window)
    BY <2>1, <2>4, CountBounds
  <2>6. Cardinality(S) < ByEmail.limit
    BY <1>1, <2>2, <2>5, CountIs
  <2> QED BY <1>1, <2>3, <2>4, <2>5, <2>6, OneMore
<1>8. ASSUME row.up, ~CountsAddress(address)
      PROVE  Cardinality(WindowOf(later, i, address, ByAddress)) > ByAddress.limit
  <2> DEFINE S == tried(address, ByAddress)
  <2>1. \A e \in Fresh(address, ByAddress.window) : e.nr + 1 \in S
    BY FreshWasMade
  <2>2. Count(address, ByAddress.window) >= ByAddress.limit
    BY <1>1, <1>2, <1>8, ConsumeKnows, CountIs DEF CountsAddress
  <2>3. S \in SUBSET (1..n) /\ i \notin S /\ S \cup {i} = WindowOf(later, i, address, ByAddress)
    BY <1>1, <1>4, <1>5, <1>8
  <2> HIDE DEF S
  <2>4. IsFiniteSet(S) /\ Cardinality(S) \in Nat /\ Count(address, ByAddress.window) <= Cardinality(S)
    BY <2>1, <2>3, CountWasMade
  <2>5. Cardinality(S \cup {i}) = Cardinality(S) + 1
    BY <2>3, <2>4, FS_AddElement
  <2>6. Count(address, ByAddress.window) \in Nat
    BY CountIs
  <2>7. Cardinality(S \cup {i}) > ByAddress.limit
    BY <1>1, <2>2, <2>4, <2>5, <2>6
  <2> QED BY <2>3, <2>7
<1>9. ASSUME Asked(address, email), ~Consume(email, ByEmail).allowed
      PROVE  /\ email # NoEmail
             /\ Cardinality({j \in WindowOf(later, i, email, ByEmail) : later[j].admitted})
                  >= ByEmail.limit
  <2> DEFINE S == {j \in tried(email, ByEmail) : desk.log[j].admitted}
             T == {j \in WindowOf(later, i, email, ByEmail) : later[j].admitted}
  <2>1. email \in Emails /\ email # NoEmail
    BY <1>9 DEF Asked
  <2>2. \A e \in Fresh(email, ByEmail.window) : e.nr + 1 \in S
    BY <2>1, FreshWasMade
  <2>3. Count(email, ByEmail.window) >= ByEmail.limit
    <3>1. desk.up
      BY <1>9, ConsumeKnows DEF ThrottleInv, ThrottleOk
    <3> QED BY <1>1, <1>9, <3>1, ConsumeKnows, CountIs
  <2>4. S \in SUBSET (1..n) /\ S \subseteq T /\ T \subseteq 1..i
    BY <1>3, <1>4 DEF WindowOf
  <2> HIDE DEF S, T
  <2>5. IsFiniteSet(S) /\ Cardinality(S) \in Nat /\ Count(email, ByEmail.window) <= Cardinality(S)
    BY <2>2, <2>4, CountWasMade
  <2>6. IsFiniteSet(T) /\ Cardinality(T) \in Nat /\ Cardinality(S) <= Cardinality(T)
    <3>0. i \in Int
      BY <1>1
    <3>1. IsFiniteSet(1..i)
      BY <3>0, FS_Interval
    <3>2. IsFiniteSet(T)
      BY <2>4, <3>1, FS_Subset
    <3> QED BY <2>4, <3>2, FS_Subset, FS_CardinalityType
  <2>7. Count(email, ByEmail.window) \in Nat
    BY CountIs
  <2>8. Cardinality(T) >= ByEmail.limit
    BY <1>1, <2>3, <2>5, <2>6, <2>7
  <2> QED BY <2>1, <2>8 DEF T
<1>10. row.up /\ ~row.admitted => \/ ~CountsAddress(address)
                                  \/ Asked(address, email) /\ ~Consume(email, ByEmail).allowed
  BY VerdictKnows
<1>11. ~row.up => row.admitted
  BY VerdictKnows
<1>12. later[i].address = address /\ later[i].email = email /\ later[i] = row
  BY <1>2, <1>3
<1> HIDE DEF i, n
<1>13. LimitAt(later, desk.since, i)
  BY <1>6, <1>7, <1>8, <1>9, <1>10, <1>11, <1>12 DEF LimitAt
<1> QED BY <1>13 DEF i, n

\* What stands, once the attempt is written down.
LEMMA NewCounted ==
  ASSUME ThrottleInv, NEW address \in Addresses, NEW email \in Emails \cup {NoEmail},
         NEW row, row = RowOf(address, email), NEW later, later = Append(desk.log, row),
         NEW counted, counted = CountedAfter(address, email)
  PROVE  IsFiniteSet(counted) /\ \A e \in counted : Made(later, e)
<1> DEFINE K == (IF CountsAddress(address) THEN {address} ELSE {})
                \cup (IF CountsEmail(address, email) THEN {email} ELSE {})
           new == {Entry(key) : key \in K}
           n == Len(desk.log)
<1>1. /\ desk.log \in Seq(AttemptRow) /\ n \in Nat
      /\ IsFiniteSet(desk.counted) /\ \A e \in desk.counted : Made(desk.log, e)
  BY DEF ThrottleInv, ThrottleOk
<1>2. /\ row \in AttemptRow /\ row.address = address /\ row.email = email /\ row.at = desk.now
      /\ row.up = desk.up
  BY VerdictKnows DEF RowOf
<1>3. Len(later) = n + 1 /\ later[n + 1] = row
  BY <1>1, <1>2, Logged
<1>4. counted \subseteq desk.counted \cup new
  BY DEF CountedAfter
<1>5. \A e \in desk.counted : Made(later, e)
  BY <1>1, <1>2, MadeStays
<1>6. ASSUME NEW key \in K PROVE Made(later, Entry(key))
  <2>1. key \in Keys /\ desk.up /\ Mentions(row, key) /\ (key \in Emails => row.admitted)
    <3>1. CASE key = address /\ CountsAddress(address)
      BY <1>2, <3>1, ThrottleAssumption DEF Keys, CountsAddress, Mentions
    <3>2. CASE key = email /\ CountsEmail(address, email)
      BY <1>2, <3>2, VerdictKnows DEF Keys, CountsEmail, Mentions
    <3> QED BY <3>1, <3>2
  <2>2. Entry(key).nr + 1 = n + 1 /\ Entry(key).key = key
    BY <1>1 DEF Entry
  <2>3. Entry(key) = EntryOf(later, key, n + 1)
    <3>1. later[n + 1].at = desk.now /\ n + 1 - 1 = n
      BY <1>1, <1>2, <1>3
    <3> QED BY <3>1 DEF Entry, EntryOf
  <2>4. n + 1 \in 1..Len(later)
    BY <1>1, <1>3
  <2> QED BY <1>2, <1>3, <2>1, <2>2, <2>3, <2>4 DEF Made
<1>7. IsFiniteSet(desk.counted \cup new)
  <2> DEFINE both == {Entry(address), Entry(email)}
  <2>1. IsFiniteSet({Entry(address)}) /\ IsFiniteSet({Entry(email)})
    BY FS_Singleton
  <2>2. IsFiniteSet(desk.counted \cup {Entry(address)} \cup {Entry(email)})
    BY <1>1, <2>1, FS_Union
  <2>3. desk.counted \cup new \in SUBSET (desk.counted \cup {Entry(address)} \cup {Entry(email)})
    OBVIOUS
  <2> HIDE DEF new
  <2> QED BY <2>2, <2>3, FS_Subset
<1>8. IsFiniteSet(counted)
  BY <1>4, <1>7, FS_Subset
<1> HIDE DEF K
<1> QED BY <1>4, <1>5, <1>6, <1>8

LEMMA NewStillCounted ==
  ASSUME ThrottleInv, NEW address \in Addresses, NEW email \in Emails \cup {NoEmail},
         NEW row, row = RowOf(address, email), NEW later, later = Append(desk.log, row),
         NEW counted, counted = CountedAfter(address, email),
         NEW d, d.log = later, d.counted = counted, d.now = desk.now,
         NEW j \in 1..Len(later), j > desk.since
  PROVE  StillCounted(d, j)
<1> DEFINE n == Len(desk.log)
<1>1. desk.log \in Seq(AttemptRow) /\ n \in Nat /\ desk.now \in Nat
  BY DEF ThrottleInv, ThrottleOk
<1>2. /\ row \in AttemptRow /\ row.address = address /\ row.email = email /\ row.at = desk.now
      /\ row.up = desk.up
  BY VerdictKnows DEF RowOf
<1>3. /\ Len(later) = n + 1 /\ later[n + 1] = row
      /\ \A k \in 1..n : later[k] = desk.log[k] /\ desk.log[k] \in AttemptRow
  BY <1>1, <1>2, Logged
<1>4. CASE j = n + 1
  <2>1. \A key : EntryOf(later, key, j) = Entry(key)
    <3>1. later[j].at = desk.now /\ j - 1 = n
      BY <1>1, <1>2, <1>3, <1>4
    <3> QED BY <3>1 DEF Entry, EntryOf
  <2>2. row.up /\ row.admitted => Entry(address) \in counted
    <3>1. row.up /\ row.admitted => CountsAddress(address)
      BY VerdictKnows
    <3> QED BY <3>1 DEF CountedAfter
  <2>3. row.up /\ row.admitted /\ email # NoEmail /\ ~row.lastOfAddress => Entry(email) \in counted
    <3>1. row.up /\ row.admitted /\ email # NoEmail /\ ~row.lastOfAddress =>
            CountsEmail(address, email)
      BY VerdictKnows
    <3> QED BY <3>1 DEF CountedAfter
  <2>4. later[j] = row
    BY <1>3, <1>4
  <2> QED BY <1>2, <2>1, <2>2, <2>3, <2>4 DEF StillCounted
<1>5. CASE j \in 1..n
  <2>1. StillCounted(desk, j)
    BY <1>5 DEF ThrottleInv, ThrottleOk
  <2>2. later[j] = desk.log[j] /\ desk.log[j] \in AttemptRow
    BY <1>3, <1>5
  <2>3. \A key : EntryOf(later, key, j) = EntryOf(desk.log, key, j)
    BY <2>2 DEF EntryOf
  <2>4. \A e \in desk.counted : \/ e \in counted
                                \/ e.key = address /\ e.at <= desk.now - ByAddress.window
                                \/ e.key = email /\ e.at <= desk.now - ByEmail.window
    <3>1. \A e \in desk.counted : \/ e \in counted
                                  \/ e \in Consume(address, ByAddress).dropped
                                  \/ e \in Consume(email, ByEmail).dropped
      BY DEF CountedAfter
    <3>2. \A e \in Consume(address, ByAddress).dropped :
            e.key = address /\ e.at <= desk.now - ByAddress.window
      BY ConsumeKnows
    <3>3. \A e \in Consume(email, ByEmail).dropped :
            e.key = email /\ e.at <= desk.now - ByEmail.window
      BY ConsumeKnows
    <3> QED BY <3>1, <3>2, <3>3
  <2>5. \A key : /\ EntryOf(desk.log, key, j).key = key
                 /\ EntryOf(desk.log, key, j).at = desk.log[j].at
    BY DEF EntryOf
  <2>6. desk.log[j].address \in Addresses /\ desk.log[j].email \in Emails \cup {NoEmail}
    BY <2>2 DEF AttemptRow
  <2>7. EntryOf(desk.log, desk.log[j].address, j) \in desk.counted =>
          \/ EntryOf(desk.log, desk.log[j].address, j) \in counted
          \/ desk.log[j].at <= desk.now - ByAddress.window
    BY <2>4, <2>5, <2>6, ThrottleAssumption
  <2>8. EntryOf(desk.log, desk.log[j].email, j) \in desk.counted =>
          \/ EntryOf(desk.log, desk.log[j].email, j) \in counted
          \/ desk.log[j].at <= desk.now - ByEmail.window
    BY <2>4, <2>5, <2>6, ThrottleAssumption
  <2> QED BY <2>1, <2>2, <2>3, <2>7, <2>8 DEF StillCounted
<1> QED BY <1>1, <1>3, <1>4, <1>5

-----------------------------------------------------------------------------
LEMMA ThrottleParts ==
  ASSUME NEW time \in Nat, NEW up \in BOOLEAN, NEW counted, NEW log \in Seq(AttemptRow),
         NEW since \in 0..Len(log), IsFiniteSet(counted), \A e \in counted : Made(log, e),
         NEW d, d = [kind |-> "throttle", now |-> time, up |-> up, counted |-> counted, log |-> log,
                     since |-> since],
         \A j \in 1..Len(log) : j > since => StillCounted(d, j),
         \A i \in 1..Len(log) : LimitAt(log, since, i)
  PROVE  ThrottleOk(d)
BY DEF ThrottleOk

LEMMA AttemptIsSound ==
  ASSUME ThrottleInv, NEW address \in Addresses, NEW email \in Emails \cup {NoEmail},
         Attempt(address, email)
  PROVE  ThrottleInv'
<1> DEFINE row == RowOf(address, email)
           counted == CountedAfter(address, email)
           later == Append(desk.log, row)
<1>1. desk' = [desk EXCEPT !.counted = counted, !.log = later]
  BY DEF Attempt, RowOf, CountedAfter, Verdict, Asked, CountsAddress, CountsEmail
<1>2. desk = [kind |-> "throttle", now |-> desk.now, up |-> desk.up, counted |-> desk.counted,
              log |-> desk.log, since |-> desk.since]
  BY DEF ThrottleInv, ThrottleOk
<1>3. /\ desk.now \in Nat /\ desk.up \in BOOLEAN /\ desk.log \in Seq(AttemptRow)
      /\ desk.since \in 0..Len(desk.log) /\ Len(desk.log) \in Nat
  BY DEF ThrottleInv, ThrottleOk
<1>4. row \in AttemptRow
  BY VerdictKnows
<1>5. later \in Seq(AttemptRow) /\ Len(later) = Len(desk.log) + 1
  BY <1>3, <1>4, Logged
<1>6. IsFiniteSet(counted) /\ \A e \in counted : Made(later, e)
  BY NewCounted
<1>7. \A i \in 1..Len(later) : LimitAt(later, desk.since, i)
  <2>1. LimitAt(later, desk.since, Len(desk.log) + 1)
    BY NewLimit
  <2>2. \A i \in 1..Len(desk.log) : LimitAt(later, desk.since, i)
    BY <1>3, <1>4, LimitStays DEF ThrottleInv, ThrottleOk
  <2> HIDE DEF later
  <2> QED BY <1>3, <1>5, <2>1, <2>2
<1>8. \A d : d.log = later /\ d.counted = counted /\ d.now = desk.now =>
        \A j \in 1..Len(later) : j > desk.since => StillCounted(d, j)
  BY NewStillCounted
<1> HIDE DEF row, counted, later
<1>9. desk' = [kind |-> "throttle", now |-> desk.now, up |-> desk.up, counted |-> counted,
               log |-> later, since |-> desk.since]
  <2> DEFINE e == [desk EXCEPT !.counted = counted]
  <2>1. desk' = [e EXCEPT !.log = later]
    BY <1>1
  <2>2. e = [kind |-> "throttle", now |-> desk.now, up |-> desk.up, counted |-> counted,
             log |-> desk.log, since |-> desk.since]
    BY <1>2
  <2> HIDE DEF e
  <2> QED BY <2>1, <2>2
<1>10. \A j \in 1..Len(later) : j > desk.since => StillCounted(desk', j)
  BY <1>8, <1>9
<1>11. desk.since \in 0..Len(later)
  BY <1>3, <1>5
<1>12. ThrottleOk(desk')
  BY <1>3, <1>5, <1>6, <1>7, <1>9, <1>10, <1>11, ThrottleParts
<1> QED BY <1>12 DEF ThrottleInv

LEMMA ElapseIsSound ==
  ASSUME ThrottleInv, Elapse PROVE ThrottleInv'
<1> DEFINE time == desk.now + 1
<1>1. desk' = [kind |-> "throttle", now |-> time, up |-> desk.up, counted |-> desk.counted,
               log |-> desk.log, since |-> desk.since]
  BY DEF Elapse, ThrottleInv, ThrottleOk
<1>2. /\ desk.now \in Nat /\ desk.up \in BOOLEAN /\ desk.log \in Seq(AttemptRow)
      /\ desk.since \in 0..Len(desk.log) /\ IsFiniteSet(desk.counted)
      /\ \A e \in desk.counted : Made(desk.log, e)
      /\ \A i \in 1..Len(desk.log) : LimitAt(desk.log, desk.since, i)
  BY DEF ThrottleInv, ThrottleOk
<1>3. ASSUME NEW j \in 1..Len(desk.log), j > desk.since PROVE StillCounted(desk', j)
  <2>0. StillCounted(desk, j) /\ desk.log[j] \in AttemptRow
    BY <1>2, <1>3 DEF ThrottleInv, ThrottleOk
  <2>1. StillCounted(desk, j) /\ desk.log[j].at \in Nat
    BY <2>0 DEF AttemptRow
  <2>2. /\ desk'.log = desk.log /\ desk'.counted = desk.counted
        /\ desk'.now = desk.now + 1
    BY <1>1
  <2>3. /\ desk.log[j].at <= desk.now - ByAddress.window =>
              desk.log[j].at <= desk'.now - ByAddress.window
        /\ desk.log[j].at <= desk.now - ByEmail.window =>
              desk.log[j].at <= desk'.now - ByEmail.window
    <3>1. ByAddress.window \in Nat /\ ByEmail.window \in Nat /\ desk.now \in Nat
      BY <1>2, ThrottleAssumption
    <3>2. \A at, w \in Nat : at <= desk.now - w => at <= desk.now + 1 - w
      BY <3>1
    <3>3. desk'.now = desk.now + 1
      BY <2>2
    <3>4. \A w \in Nat : desk.log[j].at <= desk.now - w => desk.log[j].at <= desk'.now - w
      BY <2>1, <3>1, <3>3
    <3> QED BY <3>1, <3>4
  <2>4. \A key : EntryOf(desk'.log, key, j) = EntryOf(desk.log, key, j)
    BY <2>2 DEF EntryOf
  <2> QED BY <2>1, <2>2, <2>3, <2>4 DEF StillCounted
<1>4. time \in Nat
  BY <1>2
<1> HIDE DEF time
<1>5. ThrottleOk(desk')
  BY <1>1, <1>2, <1>3, <1>4, ThrottleParts
<1> QED BY <1>5 DEF ThrottleInv

LEMMA FailureIsSound ==
  ASSUME ThrottleInv, RedisFails PROVE ThrottleInv'
<1> DEFINE up == FALSE
<1>0. up \in BOOLEAN /\ desk' = [desk EXCEPT !.up = up]
  BY DEF RedisFails
<1> HIDE DEF up
<1>1. desk' = [kind |-> "throttle", now |-> desk.now, up |-> up, counted |-> desk.counted,
               log |-> desk.log, since |-> desk.since]
  BY <1>0 DEF ThrottleInv, ThrottleOk
<1>2. /\ desk.now \in Nat /\ up \in BOOLEAN /\ desk.log \in Seq(AttemptRow)
      /\ desk.since \in 0..Len(desk.log) /\ IsFiniteSet(desk.counted)
      /\ \A e \in desk.counted : Made(desk.log, e)
      /\ \A i \in 1..Len(desk.log) : LimitAt(desk.log, desk.since, i)
  BY <1>0 DEF ThrottleInv, ThrottleOk
<1>3. ASSUME NEW j \in 1..Len(desk.log), j > desk.since PROVE StillCounted(desk', j)
  <2>1. StillCounted(desk, j)
    BY <1>3 DEF ThrottleInv, ThrottleOk
  <2>2. desk'.log = desk.log /\ desk'.counted = desk.counted /\ desk'.now = desk.now
    BY <1>1
  <2> QED BY <2>1, <2>2 DEF StillCounted
<1>4. ThrottleOk(desk')
  BY <1>1, <1>2, <1>3, ThrottleParts
<1> QED BY <1>4 DEF ThrottleInv

LEMMA ReturnIsSound ==
  ASSUME ThrottleInv, NEW kept \in BOOLEAN, RedisReturns(kept) PROVE ThrottleInv'
<1> DEFINE counted == IF kept THEN desk.counted ELSE {}
           since == IF kept THEN desk.since ELSE Len(desk.log)
           up == TRUE
<1>1. desk = [kind |-> "throttle", now |-> desk.now, up |-> desk.up, counted |-> desk.counted,
              log |-> desk.log, since |-> desk.since]
  BY DEF ThrottleInv, ThrottleOk
<1>2. /\ desk.now \in Nat /\ desk.log \in Seq(AttemptRow) /\ desk.since \in 0..Len(desk.log)
      /\ Len(desk.log) \in Nat /\ IsFiniteSet(desk.counted)
      /\ \A e \in desk.counted : Made(desk.log, e)
      /\ \A i \in 1..Len(desk.log) : LimitAt(desk.log, desk.since, i)
  BY DEF ThrottleInv, ThrottleOk
<1>3. /\ since \in 0..Len(desk.log) /\ desk.since <= since /\ counted \subseteq desk.counted
      /\ IsFiniteSet(counted)
  BY <1>2, FS_EmptySet
<1>4. \A i \in 1..Len(desk.log) : LimitAt(desk.log, since, i)
  BY <1>2, <1>3, LimitForgets
<1>5. up \in BOOLEAN /\ desk' = [desk EXCEPT !.up = up, !.counted = counted, !.since = since]
  BY DEF RedisReturns
<1>6. \A j \in 1..Len(desk.log) : j > since => counted = desk.counted /\ StillCounted(desk, j)
  BY <1>2 DEF ThrottleInv, ThrottleOk
<1> HIDE DEF counted, since, up
<1>7. desk' = [kind |-> "throttle", now |-> desk.now, up |-> up, counted |-> counted,
               log |-> desk.log, since |-> since]
  <2> DEFINE e == [desk EXCEPT !.up = up]
             g == [e EXCEPT !.counted = counted]
  <2>1. desk' = [g EXCEPT !.since = since]
    BY <1>5
  <2>2. e = [kind |-> "throttle", now |-> desk.now, up |-> up, counted |-> desk.counted,
             log |-> desk.log, since |-> desk.since]
    BY <1>1
  <2> HIDE DEF e
  <2>3. g = [kind |-> "throttle", now |-> desk.now, up |-> up, counted |-> counted,
             log |-> desk.log, since |-> desk.since]
    BY <2>2
  <2> HIDE DEF g
  <2> QED BY <2>1, <2>3
<1>8. ASSUME NEW j \in 1..Len(desk.log), j > since PROVE StillCounted(desk', j)
  <2>1. StillCounted(desk, j) /\ counted = desk.counted
    BY <1>6, <1>8
  <2>2. desk'.log = desk.log /\ desk'.counted = desk.counted /\ desk'.now = desk.now
    BY <1>7, <2>1
  <2> QED BY <2>1, <2>2 DEF StillCounted
<1>9. \A e \in counted : Made(desk.log, e)
  BY <1>2, <1>3
<1>10. ThrottleOk(desk')
  <2>1. /\ desk.now \in Nat /\ desk.log \in Seq(AttemptRow) /\ up \in BOOLEAN
        /\ since \in 0..Len(desk.log) /\ IsFiniteSet(counted)
    BY <1>2, <1>3, <1>5
  <2> QED BY <2>1, <1>4, <1>7, <1>8, <1>9, ThrottleParts
<1> QED BY <1>10 DEF ThrottleInv

LEMMA ThrottleInvInductive == ThrottleInv /\ [ThrottleNext]_desk => ThrottleInv'
<1> SUFFICES ASSUME ThrottleInv, [ThrottleNext]_desk PROVE ThrottleInv'
  OBVIOUS
<1>1. CASE UNCHANGED desk
  BY <1>1 DEF ThrottleInv
<1> QED BY <1>1, AttemptIsSound, ElapseIsSound, FailureIsSound, ReturnIsSound DEF ThrottleNext

LEMMA ThrottleInvStarts == ThrottleInit => ThrottleInv
<1> SUFFICES ASSUME ThrottleInit PROVE ThrottleInv
  OBVIOUS
<1>1. desk = [kind |-> "throttle", now |-> 0, up |-> TRUE, counted |-> {}, log |-> <<>>, since |-> 0]
  BY DEF ThrottleInit
<1>2. <<>> \in Seq(AttemptRow) /\ Len(<<>>) = 0
  OBVIOUS
<1>3. desk.log = <<>> /\ desk.since = 0 /\ desk.counted = {} /\ desk.now = 0 /\ desk.up = TRUE
  BY <1>1
<1>4. 0 \in Nat /\ TRUE \in BOOLEAN /\ 0 \in 0..Len(<<>>) /\ 1..Len(<<>>) = {}
  BY <1>2
<1>5. IsFiniteSet({})
  BY FS_EmptySet
<1>6. ThrottleOk(desk)
  BY <1>1, <1>2, <1>4, <1>5, ThrottleParts
<1> QED BY <1>6 DEF ThrottleInv

LEMMA LimitsFollow == ThrottleInv => LimitsHold
<1> SUFFICES ASSUME ThrottleInv, NEW i \in DOMAIN desk.log
             PROVE  LET made == desk.log[i]
                        kept(S) == {j \in S : j > desk.since}
                        ofAddress == InWindow(i, made.address, ByAddress)
                        ofEmail == InWindow(i, made.email, ByEmail)
                    IN IF ~made.up THEN made.admitted
                       ELSE IF made.admitted
                       THEN /\ Cardinality(Admitted(kept(ofAddress))) <= ByAddress.limit
                            /\ made.email # NoEmail /\ ~made.lastOfAddress =>
                                 Cardinality({j \in Admitted(kept(ofEmail)) : ~desk.log[j].lastOfAddress})
                                   <= ByEmail.limit
                       ELSE \/ Cardinality(ofAddress) > ByAddress.limit
                            \/ made.email # NoEmail /\ Cardinality(Admitted(ofEmail)) >= ByEmail.limit
  BY DEF LimitsHold
<1>1. LimitAt(desk.log, desk.since, i)
  BY DEF ThrottleInv, ThrottleOk
<1>2. \A key, rule : InWindow(i, key, rule) = WindowOf(desk.log, i, key, rule)
  BY DEF InWindow, WindowOf
<1>3. AddressUse(desk.log, desk.since, i)
        = Admitted({j \in InWindow(i, desk.log[i].address, ByAddress) : j > desk.since})
  BY <1>2 DEF AddressUse, Admitted
<1>4. EmailUse(desk.log, desk.since, i)
        = {j \in Admitted({k \in InWindow(i, desk.log[i].email, ByEmail) : k > desk.since}) :
             ~desk.log[j].lastOfAddress}
  BY <1>2 DEF EmailUse, Admitted
<1>5. {j \in WindowOf(desk.log, i, desk.log[i].email, ByEmail) : desk.log[j].admitted}
        = Admitted(InWindow(i, desk.log[i].email, ByEmail))
  BY <1>2 DEF Admitted
<1> QED BY <1>1, <1>2, <1>3, <1>4, <1>5 DEF LimitAt

\* Within any window Redis remembers, no more attempts of an address, or on an
\* email, are let through than the limit, and none is refused for nothing.
THEOREM LimitsAreKept == ThrottleSpec => []LimitsHold
BY ThrottleInvStarts, ThrottleInvInductive, LimitsFollow, PTL DEF ThrottleSpec
=============================================================================
