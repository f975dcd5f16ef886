------------------------ MODULE BrowserSessionProofs ------------------------
(***************************************************************************)
(* For any number of tabs, calls, people and sign-ins: one refresh per tab *)
(* and session, nothing stored from a session that is over, nobody left    *)
(* waiting, and a session that lasts while nobody ends it.  And for any    *)
(* page size, number of rows and of writes: what a tab shows is what the   *)
(* server has.                                                             *)
(***************************************************************************)
EXTENDS BrowserSession, Screens, FiniteSetTheorems, TLAPS

States  == {"unissued", "live", "grace", "old"}
Row     == [family : Family \cup {NoFamily}, state : States]
Access  == [user : User \cup {NoUser}, via : {"none", "login", "refresh"}, begun : Nat]
Pcs     == {"sent", "answered", "waiting"}
AnyCall == [kind : Kind, tab : Tab \cup {NoTab}, pc : Pcs, gen : Nat,
            cookie : Token \cup {NoToken}, user : User \cup {NoUser}, retried : BOOLEAN,
            on : Call \cup {NoCall}, answer : Answers]

Types ==
  /\ token \in [Token -> Row]
  /\ owner \in [Family -> User \cup {NoUser}]
  /\ jar \in Token \cup {NoToken}
  /\ access \in [Tab -> Access]
  /\ generation \in [Tab -> Nat]
  /\ inFlight \in [Tab -> Call \cup {NoCall}]
  /\ boot \in [Tab -> Call \cup {NoCall}]
  /\ status \in [Tab -> {"loading", "authenticated", "unauthenticated"}]
  /\ shown \in [Tab -> User \cup {NoUser}]
  /\ call \in [Call -> {Idle} \cup AnyCall]

\* What a call is for, and what its answer may bring.
Shape(x) ==
  /\ x.kind \notin {"refresh", "logout"} => x.cookie = NoToken
  /\ x.kind = "login" => x.user \in User
  /\ x.pc = "waiting" => x.kind \in {"data", "me"}
  /\ x.pc # "sent" => x.tab \in Tab
  /\ x.pc = "answered" /\ x.kind \in {"data", "me"} => x.answer.set = Keep
  /\ x.pc = "answered" /\ x.kind = "login" =>
       IF x.answer.ok THEN x.answer.set \in Token ELSE x.answer.set = Keep
Shapes == \A c \in Call : call[c] # Idle => Shape(call[c])

\* Every token that was issued belongs to a sign-in.
Filed == \A s \in Token : token[s].state # "unissued" => token[s].family \in Family

-----------------------------------------------------------------------------
\* The tab's side.
OnItsWay(c, t) == c \in Busy(t) /\ call[c].kind = "refresh" /\ call[c].pc # "waiting"

InFlightRuns(t) ==
  inFlight[t] # NoCall => OnItsWay(inFlight[t], t) /\ call[inFlight[t]].gen = generation[t]
OwnRefreshes(t) ==
  \A c \in Busy(t) : call[c].kind = "refresh" =>
    call[c].gen <= generation[t] /\ (call[c].gen = generation[t] => inFlight[t] = c)
WaitsForRefresh(t) == \A c \in Busy(t) : call[c].pc = "waiting" => OnItsWay(call[c].on, t)
LoadingGoesOn(t) ==
  status[t] = "loading" => \/ boot[t] # NoCall /\ OnItsWay(boot[t], t)
                           \/ \E c \in Busy(t) : call[c].kind = "me"
StoresOwn(t) == access[t].via = "refresh" => access[t].begun = generation[t]

TabSound(t) ==
  InFlightRuns(t) /\ OwnRefreshes(t) /\ WaitsForRefresh(t) /\ LoadingGoesOn(t) /\ StoresOwn(t)

TabInv == Types /\ Filed /\ Shapes /\ \A t \in Tab : TabSound(t)

-----------------------------------------------------------------------------
\* The cookie's side: the tokens the browser sends, and those on their way to it.
Carries(c, s) == call[c] # Idle /\ call[c].pc = "sent" /\ call[c].cookie = s
Carried(s)    == s = jar \/ \E c \in Call : Carries(c, s)
Brings(c, s)  == call[c] # Idle /\ call[c].pc = "answered" /\ call[c].answer.set = s

\* Tokens exist before anybody has them, and belong to a sign-in.
Issued ==
  /\ \A s \in Token : (Carried(s) \/ \E c \in Call : Brings(c, s)) => token[s].state # "unissued"
  /\ \A s \in Token : token[s].state # "unissued" => owner[token[s].family] # NoUser
  /\ \A s \in Token : token[s].state = "unissued" => token[s].family = NoFamily

\* The sign-in an answer brings is known to nobody else yet.
FreshSignIn(c) ==
  \A n \in Token : Brings(c, n) /\ call[c].kind = "login" =>
    /\ token[n].state = "live"
    /\ \A s \in Token : Carried(s) => token[s].family # token[n].family
    /\ \A d \in Call, m \in Token : d # c /\ Brings(d, m) => token[m].family # token[n].family

\* While nobody ends the session, all the browser sends or gets is of one live family.
Usable(s, f) == s \in Token /\ token[s].family = f /\ token[s].state \in {"live", "grace"}
LastsIn(f) ==
  /\ Usable(jar, f)
  /\ FamilyLive(f)
  /\ \A c \in Call : call[c] # Idle /\ call[c].kind = "refresh" /\ call[c].pc = "sent" =>
       Usable(call[c].cookie, f)
  /\ \A c \in Call : call[c] # Idle /\ call[c].pc = "answered" /\ call[c].kind # "login" =>
       call[c].answer.set \in Token \cup {Keep}
  /\ \A c \in Call, n \in Token : Brings(c, n) /\ call[c].kind # "login" =>
       /\ token[n] = [family |-> f, state |-> "live"]
       /\ ~Carried(n)
       /\ \A d \in Call : d # c => ~Brings(d, n)
Lasts == quiet => LastsIn(token[jar].family)

CookieInv == Issued /\ (\A c \in Call : FreshSignIn(c)) /\ Lasts

-----------------------------------------------------------------------------
LEMMA IdleIsNoCall == Idle \notin AnyCall /\ Idle.kind = "none"
BY DEF Idle, AnyCall, Kind

LEMMA CallIs ==
  ASSUME Types, NEW c \in Call, call[c] # Idle
  PROVE  call[c] \in AnyCall
BY DEF Types

\* A call that is sent.
LEMMA SentIs ==
  ASSUME NEW kind \in Kind, NEW t \in Tab, NEW u \in User \cup {NoUser}, NEW g \in Nat,
         NEW s \in Token \cup {NoToken}, kind = "login" => u \in User
  PROVE  LET x == Sent(kind, t, u, g, s)
         IN  /\ x \in AnyCall /\ x # Idle /\ Shape(x)
             /\ x.kind = kind /\ x.tab = t /\ x.pc = "sent" /\ x.user = u
             /\ x.gen = IF kind = "refresh" THEN g ELSE 0
             /\ x.cookie = IF kind \in {"refresh", "logout"} THEN s ELSE NoToken
<1> DEFINE x == Sent(kind, t, u, g, s)
<1>1. Unanswered \in Answers
  BY DEF Unanswered, Answers
<1>2. /\ x.kind = kind /\ x.tab = t /\ x.pc = "sent" /\ x.user = u
      /\ x.gen = IF kind = "refresh" THEN g ELSE 0
      /\ x.cookie = IF kind \in {"refresh", "logout"} THEN s ELSE NoToken
  BY DEF Sent
<1>3. x \in AnyCall
  BY <1>1 DEF Sent, AnyCall, Pcs
<1>4. x # Idle
  BY <1>3, IdleIsNoCall
<1>5. Shape(x)
  BY <1>2 DEF Shape
<1> QED BY <1>2, <1>3, <1>4, <1>5

LEMMA RefreshIs ==
  ASSUME NEW t \in Tab, NEW g \in Nat, NEW s \in Token \cup {NoToken}
  PROVE  LET x == Sent("refresh", t, NoUser, g, s)
         IN  /\ x \in AnyCall /\ x # Idle /\ Shape(x)
             /\ x.kind = "refresh" /\ x.tab = t /\ x.pc = "sent" /\ x.gen = g /\ x.cookie = s
             /\ x.on = NoCall
BY SentIs DEF Kind, Sent

LEMMA FreeIsIdle == \A c \in Free : c \in Call /\ call[c] = Idle
BY DEF Free, Lowest

LEMMA BusyIs == \A t \in Tab : \A c \in Busy(t) : c \in Call /\ call[c] # Idle /\ call[c].tab = t
BY DEF Busy

-----------------------------------------------------------------------------
(* What a step may do to the calls of a tab without disturbing it. *)

\* c stays what it is to tab t, but for an answer that has come.
Stays(c, t) ==
  /\ c \in Busy(t)' <=> c \in Busy(t)
  /\ c \in Busy(t) =>
       /\ call'[c].kind = call[c].kind /\ call'[c].gen = call[c].gen
       /\ call'[c].on = call[c].on
       /\ call'[c].pc = "waiting" <=> call[c].pc = "waiting"

\* c comes or goes, and is no refresh, nor waits for one.
Aside(c, t) ==
  /\ c \in Busy(t) => /\ call[c].kind # "refresh"
                      /\ call[c].kind = "me" => status'[t] # "loading"
  /\ c \in Busy(t)' => call'[c].kind # "refresh" /\ call'[c].pc # "waiting"

LEMMA TabUndisturbed ==
  ASSUME NEW t \in Tab, TabSound(t),
         generation'[t] = generation[t], inFlight'[t] = inFlight[t], boot'[t] = boot[t],
         access'[t] = access[t] \/ access'[t].via # "refresh",
         status'[t] = status[t] \/ status'[t] # "loading",
         inFlight[t] \in Call \cup {NoCall}, boot[t] \in Call \cup {NoCall},
         \A c \in Call : Stays(c, t) \/ Aside(c, t)
  PROVE  TabSound(t)'
<1>1. \A c \in Call : OnItsWay(c, t) => OnItsWay(c, t)' /\ call'[c].gen = call[c].gen
  BY DEF OnItsWay, Stays, Aside
<1>2. \A c \in Busy(t)' : c \in Call
  BY DEF Busy
<1>3. \A c \in Busy(t)' : call'[c].pc = "waiting" =>
        c \in Busy(t) /\ call[c].pc = "waiting" /\ call'[c].on = call[c].on
  BY <1>2 DEF Stays, Aside
<1>4. \A c \in Busy(t)' : call'[c].kind = "refresh" =>
        c \in Busy(t) /\ call[c].kind = "refresh" /\ call'[c].gen = call[c].gen
  BY <1>2 DEF Stays, Aside
<1>5. InFlightRuns(t)'
  <2> SUFFICES ASSUME inFlight'[t] # NoCall
               PROVE  OnItsWay(inFlight[t], t)' /\ call'[inFlight'[t]].gen = generation'[t]
    BY DEF InFlightRuns
  <2>1. inFlight[t] \in Call /\ OnItsWay(inFlight[t], t)
    BY DEF TabSound, InFlightRuns, OnItsWay, Busy
  <2> QED BY <1>1, <2>1 DEF TabSound, InFlightRuns, OnItsWay, Busy
<1>6. OwnRefreshes(t)'
  <2> SUFFICES ASSUME NEW c \in Busy(t)', call'[c].kind = "refresh"
               PROVE  /\ call'[c].gen <= generation'[t]
                      /\ call'[c].gen = generation'[t] => inFlight'[t] = c
    BY DEF OwnRefreshes
  <2> QED BY <1>4 DEF TabSound, OwnRefreshes
<1>7. WaitsForRefresh(t)'
  <2> SUFFICES ASSUME NEW c \in Busy(t)', call'[c].pc = "waiting"
               PROVE  OnItsWay(call[c].on, t)'
    BY DEF WaitsForRefresh
  <2>1. OnItsWay(call[c].on, t) /\ call'[c].on = call[c].on
    BY <1>3 DEF TabSound, WaitsForRefresh
  <2>2. call[c].on \in Call
    BY <2>1 DEF OnItsWay, Busy
  <2> QED BY <1>1, <2>1, <2>2 DEF OnItsWay, Busy
<1>8. LoadingGoesOn(t)'
  <2> SUFFICES ASSUME status'[t] = "loading"
               PROVE  \/ boot'[t] # NoCall /\ OnItsWay(boot[t], t)'
                      \/ \E c \in Busy(t)' : call'[c].kind = "me"
    BY DEF LoadingGoesOn
  <2>1. CASE boot[t] # NoCall /\ OnItsWay(boot[t], t)
    BY <1>1, <2>1 DEF OnItsWay, Busy
  <2>2. ASSUME NEW c \in Busy(t), call[c].kind = "me"
        PROVE  c \in Busy(t)' /\ call'[c].kind = "me"
    <3>1. c \in Call
      BY DEF Busy
    <3> QED BY <2>2, <3>1 DEF Stays, Aside
  <2> QED BY <2>1, <2>2 DEF TabSound, LoadingGoesOn
<1>9. StoresOwn(t)'
  BY DEF TabSound, StoresOwn
<1> QED BY <1>5, <1>6, <1>7, <1>8, <1>9 DEF TabSound

\* The tab's session ends, and some of its calls with it: a refresh only
\* together with those that wait for it.
LEMMA TabEnds ==
  ASSUME Types, NEW t \in Tab, TabSound(t),
         generation'[t] = generation[t] + 1, inFlight'[t] = NoCall,
         access'[t].via # "refresh", status'[t] # "loading",
         \A c \in Call : call'[c] = call[c] \/ call'[c] = Idle,
         \A c, w \in Call : /\ call[c] # Idle /\ call[c].kind = "refresh" /\ call'[c] = Idle
                           /\ call[w] # Idle /\ call[w].pc = "waiting" /\ call[w].on = c
                           => call'[w] = Idle
  PROVE  TabSound(t)'
<1>1. \A c \in Busy(t)' : c \in Busy(t) /\ call'[c] = call[c]
  BY DEF Busy
<1>2. InFlightRuns(t)' /\ StoresOwn(t)' /\ LoadingGoesOn(t)'
  BY DEF InFlightRuns, StoresOwn, LoadingGoesOn
<1>3. OwnRefreshes(t)'
  <2> SUFFICES ASSUME NEW c \in Busy(t)', call'[c].kind = "refresh"
               PROVE  call'[c].gen <= generation'[t] /\ call'[c].gen # generation'[t]
    BY DEF OwnRefreshes
  <2>1. call'[c].gen <= generation[t]
    BY <1>1 DEF TabSound, OwnRefreshes
  <2>2. c \in Call /\ call[c] # Idle /\ call'[c] = call[c]
    BY <1>1 DEF Busy
  <2>3. call[c].gen \in Nat /\ generation[t] \in Nat
    BY <2>2 DEF Types, AnyCall
  <2> QED BY <2>1, <2>2, <2>3
<1>4. WaitsForRefresh(t)'
  <2> SUFFICES ASSUME NEW c \in Busy(t)', call'[c].pc = "waiting"
               PROVE  OnItsWay(call[c].on, t)'
    BY DEF WaitsForRefresh
  <2>1. c \in Busy(t) /\ call'[c] = call[c] /\ call'[c] # Idle /\ c \in Call
    BY <1>1 DEF Busy
  <2>2. OnItsWay(call[c].on, t)
    BY <2>1 DEF TabSound, WaitsForRefresh
  <2>3. call[c].on \in Call
    BY <2>2 DEF OnItsWay, Busy
  <2>4. call'[call[c].on] = call[call[c].on]
    BY <2>1, <2>2, <2>3 DEF OnItsWay, Busy
  <2> QED BY <2>1, <2>2, <2>4 DEF OnItsWay, Busy
<1> QED BY <1>2, <1>3, <1>4 DEF TabSound

-----------------------------------------------------------------------------
(* The steps, as the tabs see them. *)

\* A browser that opens its tabs.
LEMMA OpenedIsSound ==
  ASSUME NEW start \in [Tab -> 1..Cardinality(Tab)], NEW s \in Lowest(Token), NEW f \in Family,
         NEW u \in User, NEW returning \in BOOLEAN, Opened(start, s, f, u, returning)
  PROVE  TabInv
<1> DEFINE Of(c) == CHOOSE t \in Tab : start[t] = c
<1>1. start \in [Tab -> Call] /\ s \in Token
  BY BrowserAssumption DEF Lowest
<1>2. jar \in Token \cup {NoToken}
  BY <1>1 DEF Opened
<1>3. \A t \in Tab : Of(start[t]) = t
  BY DEF Opened
<1>4. \A t \in Tab : call[start[t]] = Sent("refresh", t, NoUser, 0, jar)
  BY <1>1, <1>3 DEF Opened
<1>5. \A c \in Call : call[c] # Idle => \E t \in Tab : start[t] = c
  BY DEF Opened
<1>6. ASSUME NEW t \in Tab
      PROVE  /\ call[start[t]] \in AnyCall /\ call[start[t]] # Idle /\ Shape(call[start[t]])
             /\ call[start[t]].kind = "refresh" /\ call[start[t]].tab = t
             /\ call[start[t]].pc = "sent" /\ call[start[t]].gen = 0
  <2> DEFINE x == Sent("refresh", t, NoUser, 0, jar)
  <2>1. /\ x \in AnyCall /\ x # Idle /\ Shape(x) /\ x.kind = "refresh" /\ x.tab = t
        /\ x.pc = "sent" /\ x.gen = 0
    BY <1>2, RefreshIs
  <2> QED BY <1>4, <2>1
<1>7. /\ \A c \in Call : call[c] # Idle => call[c] \in AnyCall /\ Shape(call[c])
      /\ call = [c \in Call |-> call[c]]
  <2>1. \A c \in Call : call[c] # Idle => call[c] \in AnyCall /\ Shape(call[c])
    BY <1>4, <1>5, <1>6
  <2> QED BY <2>1 DEF Opened
<1>8. Types
  <2>1. call \in [Call -> {Idle} \cup AnyCall]
    BY <1>7
  <2>2. token \in [Token -> Row] /\ owner \in [Family -> User \cup {NoUser}]
    BY DEF Opened, Row, States
  <2>3. access \in [Tab -> Access]
    BY DEF Opened, Access, NoAccess
  <2> QED BY <1>1, <1>2, <2>1, <2>2, <2>3 DEF Types, Opened
<1>9. Filed
  BY DEF Filed, Opened
<1>10. ASSUME NEW t \in Tab PROVE TabSound(t)
  <2>1. /\ start[t] \in Call /\ call[start[t]] # Idle /\ call[start[t]].tab = t
        /\ call[start[t]].kind = "refresh" /\ call[start[t]].pc = "sent"
        /\ call[start[t]].gen = 0
    BY <1>1, <1>4, <1>6
  <2>2. \A c \in Busy(t) : c = start[t]
    <3> SUFFICES ASSUME NEW c \in Busy(t) PROVE c = start[t]
      OBVIOUS
    <3>1. c \in Call /\ call[c] # Idle /\ call[c].tab = t
      BY DEF Busy
    <3>2. PICK r \in Tab : start[r] = c
      BY <1>5, <3>1
    <3>3. call[c].tab = r
      BY <1>4, <1>6, <3>2
    <3> QED BY <3>1, <3>2, <3>3
  <2>3. OnItsWay(start[t], t)
    BY <2>1 DEF OnItsWay, Busy
  <2>4. inFlight[t] = start[t] /\ boot[t] = start[t] /\ generation[t] = 0 /\ access[t] = NoAccess
    BY DEF Opened
  <2>5. start[t] # NoCall
    BY <2>1, BrowserAssumption
  <2> QED BY <2>1, <2>2, <2>3, <2>4, <2>5
       DEF TabSound, InFlightRuns, OwnRefreshes, WaitsForRefresh, LoadingGoesOn, StoresOwn, NoAccess
<1> QED BY <1>7, <1>8, <1>9, <1>10 DEF TabInv, Shapes

\* A page that loads.
LEMMA LoadIsSound ==
  ASSUME TabInv, NEW t \in Tab, NEW c \in Call, Load(t, c)
  PROVE  TabInv'
<1> DEFINE x == Sent("refresh", t, NoUser, generation[t] + 1, jar)
<1>1. /\ x \in AnyCall /\ x # Idle /\ Shape(x) /\ x.kind = "refresh" /\ x.tab = t
      /\ x.pc = "sent" /\ x.gen = generation[t] + 1
  <2>1. generation[t] + 1 \in Nat /\ jar \in Token \cup {NoToken}
    BY DEF TabInv, Types
  <2> QED BY <2>1, SentIs DEF Kind
<1> HIDE DEF x
<1>2. call[c] = Idle
  BY FreeIsIdle DEF Load
<1>3. \A d \in Call : d # c /\ d \notin Busy(t) => call'[d] = call[d]
  BY DEF Load
<1>4. call'[c] = x
  BY DEF Load, x
<1>5. ASSUME NEW d \in Call, d # c, d \in Busy(t)
      PROVE  \/ call'[d] = Idle
             \/ /\ call'[d] = [call[d] EXCEPT !.tab = NoTab] /\ call'[d] \in AnyCall
                /\ call[d].pc = "sent" /\ Shape(call[d])
                /\ call'[d].tab = NoTab /\ Shape(call'[d])
  <2>1. call[d] \in AnyCall /\ Shape(call[d])
    BY <1>5 DEF TabInv, Types, Shapes, Busy
  <2>2. \/ call'[d] = Idle
        \/ call[d].pc = "sent" /\ call'[d] = [call[d] EXCEPT !.tab = NoTab]
    BY <1>5 DEF Load
  <2>3. CASE call'[d] = Idle
    BY <2>3
  <2>4. CASE call[d].pc = "sent" /\ call'[d] = [call[d] EXCEPT !.tab = NoTab]
    <3>1. call'[d] \in AnyCall /\ call'[d].tab = NoTab
      BY <2>1, <2>4 DEF AnyCall
    <3>2. Shape(call'[d])
      BY <2>1, <2>4 DEF Shape, AnyCall
    <3> QED BY <2>1, <2>4, <3>1, <3>2
  <2> QED BY <2>2, <2>3, <2>4
<1>6. call' = [d \in Call |-> call'[d]]
  BY DEF Load
<1>7. \A d \in Call : call'[d] # Idle => call'[d] \in AnyCall /\ Shape(call'[d])
  BY <1>1, <1>3, <1>4, <1>5 DEF TabInv, Types, Shapes
<1>8. Types'
  <2>1. call' \in [Call -> {Idle} \cup AnyCall]
    BY <1>6, <1>7
  <2>2. access' \in [Tab -> Access] /\ generation' \in [Tab -> Nat]
    BY DEF Load, TabInv, Types, Access, NoAccess
  <2> QED BY <2>1, <2>2 DEF Load, TabInv, Types, server
<1>9. Filed' /\ Shapes'
  BY <1>7 DEF Filed, Shapes, TabInv, Load, server
<1>10. ASSUME NEW r \in Tab PROVE TabSound(r)'
  <2>1. CASE r = t
    <3>1. \A d \in Call : d \in Busy(t)' <=> d = c
      <4>1. \A d \in Call : d # c /\ d \in Busy(t) => call'[d] = Idle \/ call'[d].tab # t
        BY <1>5, BrowserAssumption
      <4> QED BY <1>1, <1>3, <1>4, <4>1 DEF Busy
    <3>2. Busy(t)' = {c}
      BY <3>1 DEF Busy
    <3>3. /\ generation'[t] = generation[t] + 1 /\ access'[t] = NoAccess /\ inFlight'[t] = c
          /\ boot'[t] = c
      BY DEF Load, TabInv, Types
    <3>4. generation[t] \in Nat
      BY DEF TabInv, Types
    <3>5. c # NoCall
      BY BrowserAssumption
    <3>6. call'[c].kind = "refresh" /\ call'[c].pc = "sent" /\ call'[c].gen = generation[t] + 1
      BY <1>1, <1>4
    <3>7. InFlightRuns(t)' /\ LoadingGoesOn(t)' /\ StoresOwn(t)'
      BY <3>2, <3>3, <3>5, <3>6 DEF InFlightRuns, OnItsWay, LoadingGoesOn, StoresOwn, NoAccess
    <3>8. OwnRefreshes(t)' /\ WaitsForRefresh(t)'
      BY <3>2, <3>3, <3>4, <3>6 DEF OwnRefreshes, WaitsForRefresh
    <3> QED BY <2>1, <3>7, <3>8 DEF TabSound
  <2>2. CASE r # t
    <3>1. ASSUME NEW d \in Call PROVE Stays(d, r)
      <4>1. CASE d = c
        BY <1>1, <1>2, <1>4, <2>2, <4>1 DEF Stays, Busy
      <4>2. CASE d # c /\ d \notin Busy(t)
        BY <1>3, <4>2 DEF Stays, Busy
      <4>3. CASE d # c /\ d \in Busy(t)
        BY <1>5, <2>2, <4>3, BrowserAssumption DEF Stays, Busy
      <4> QED BY <4>1, <4>2, <4>3
    <3>2. /\ generation'[r] = generation[r] /\ access'[r] = access[r] /\ inFlight'[r] = inFlight[r]
          /\ boot'[r] = boot[r] /\ status'[r] = status[r] /\ TabSound(r)
          /\ inFlight[r] \in Call \cup {NoCall} /\ boot[r] \in Call \cup {NoCall}
      BY <2>2 DEF Load, TabInv, Types
    <3> QED BY <3>1, <3>2, TabUndisturbed
  <2> QED BY <2>1, <2>2
<1> QED BY <1>8, <1>9, <1>10 DEF TabInv

\* A request, a sign-in or a sign-out that is sent.
LEMMA StartIsSound ==
  ASSUME TabInv, NEW t \in Tab, NEW c \in Free, NEW kind \in {"data", "login", "logout"},
         NEW u \in User \cup {NoUser}, kind = "login" => u \in User,
         call' = [call EXCEPT ![c] = Sent(kind, t, u, generation[t], jar)],
         UNCHANGED <<server, jar, tabs>>
  PROVE  TabInv'
<1> DEFINE x == Sent(kind, t, u, generation[t], jar)
<1>1. x \in AnyCall /\ x # Idle /\ Shape(x) /\ x.kind = kind /\ x.pc = "sent"
  <2>1. generation[t] \in Nat /\ jar \in Token \cup {NoToken}
    BY DEF TabInv, Types
  <2>2. kind \in Kind
    BY DEF Kind
  <2> QED BY <2>1, <2>2, SentIs
<1> HIDE DEF x
<1>2. c \in Call /\ call[c] = Idle
  BY FreeIsIdle
<1>3. call' = [call EXCEPT ![c] = x]
  BY DEF x
<1>4. call'[c] = x /\ \A d \in Call : d # c => call'[d] = call[d]
  BY <1>2, <1>3 DEF TabInv, Types
<1>5. Types'
  BY <1>1, <1>2, <1>3 DEF TabInv, Types, server, tabs
<1>6. Filed' /\ Shapes'
  BY <1>1, <1>4 DEF TabInv, Filed, Shapes, server
<1>7. ASSUME NEW r \in Tab PROVE TabSound(r)'
  <2>1. Aside(c, r)
    BY <1>1, <1>2, <1>4 DEF Aside, Busy
  <2>2. \A d \in Call : d # c => Stays(d, r)
    BY <1>4 DEF Stays, Busy
  <2>3. TabSound(r) /\ inFlight[r] \in Call \cup {NoCall} /\ boot[r] \in Call \cup {NoCall}
    BY DEF TabInv, Types
  <2> QED BY <2>1, <2>2, <2>3, TabUndisturbed DEF tabs
<1> QED BY <1>5, <1>6, <1>7 DEF TabInv

LEMMA AskIsSound ==
  ASSUME TabInv, NEW t \in Tab, NEW c \in Call, Ask(t, c)
  PROVE  TabInv'
<1>1. access[t].user \in User \cup {NoUser}
  BY DEF TabInv, Types, Access
<1> QED BY <1>1, StartIsSound DEF Ask

LEMMA SignInIsSound ==
  ASSUME TabInv, NEW t \in Tab, NEW c \in Call, NEW u \in User, SignIn(t, c, u)
  PROVE  TabInv'
BY StartIsSound DEF SignIn

LEMMA SignOutIsSound ==
  ASSUME TabInv, NEW t \in Tab, NEW c \in Call, SignOut(t, c)
  PROVE  TabInv'
<1>1. NoUser \in User \cup {NoUser}
  OBVIOUS
<1> QED BY <1>1, StartIsSound DEF SignOut

LEMMA AccessExpiresIsSound ==
  ASSUME TabInv, NEW t \in Tab, AccessExpires(t)
  PROVE  TabInv'
<1>1. Types'
  BY DEF TabInv, Types, AccessExpires, Access, NoAccess, server
<1>2. Filed' /\ Shapes'
  BY DEF TabInv, Filed, Shapes, AccessExpires, server
<1>3. ASSUME NEW r \in Tab PROVE TabSound(r)'
  <2>1. access'[r] = access[r] \/ access'[r].via # "refresh"
    BY DEF TabInv, Types, AccessExpires, NoAccess
  <2>2. \A c \in Call : Stays(c, r)
    BY DEF Stays, Busy, AccessExpires
  <2>3. TabSound(r) /\ inFlight[r] \in Call \cup {NoCall} /\ boot[r] \in Call \cup {NoCall}
    BY DEF TabInv, Types
  <2> QED BY <2>1, <2>2, <2>3, TabUndisturbed DEF AccessExpires
<1> QED BY <1>1, <1>2, <1>3 DEF TabInv

\* The server answers a call, or drops the answer of a page that has gone.
LEMMA ReplyIsSound ==
  ASSUME TabInv, NEW c \in Call, call[c] # Idle, call[c].pc = "sent",
         NEW ok \in BOOLEAN, NEW user \in User \cup {NoUser},
         NEW set \in Token \cup {NoToken, Keep},
         call[c].kind \in {"data", "me"} => set = Keep,
         call[c].kind = "login" => IF ok THEN set \in Token ELSE set = Keep,
         Reply(c, ok, user, set), UNCHANGED tabs
  PROVE  /\ call' \in [Call -> {Idle} \cup AnyCall]
         /\ Shapes'
         /\ \A t \in Tab : TabSound(t)'
<1> DEFINE a == [ok |-> ok, user |-> user, set |-> set]
<1> DEFINE x == IF call[c].tab = NoTab THEN Idle
                ELSE [call[c] EXCEPT !.pc = "answered", !.answer = a]
<1>1. call[c] \in AnyCall /\ Shape(call[c])
  BY DEF TabInv, Types, Shapes
<1>2. a \in Answers
  BY DEF Answers
<1> HIDE DEF a
<1>3. call' = [call EXCEPT ![c] = x]
  BY DEF Reply, a, TabInv, Types
<1>4. ASSUME call[c].tab # NoTab
      PROVE  /\ x \in AnyCall /\ x.kind = call[c].kind /\ x.tab = call[c].tab
             /\ x.gen = call[c].gen /\ x.on = call[c].on /\ x.pc = "answered"
             /\ x.cookie = call[c].cookie /\ x.user = call[c].user /\ x.answer = a
  BY <1>1, <1>2, <1>4 DEF AnyCall, Pcs
<1>5. x # Idle => call[c].tab # NoTab
  OBVIOUS
<1> HIDE DEF x
<1>6. x \in {Idle} \cup AnyCall
  BY <1>4 DEF x
<1>7. x # Idle => Shape(x)
  <2> SUFFICES ASSUME x # Idle PROVE Shape(x)
    OBVIOUS
  <2>1. call[c].tab \in Tab
    BY <1>1, <1>5 DEF AnyCall
  <2> QED BY <1>1, <1>4, <1>5, <2>1 DEF Shape, a
<1>8. call'[c] = x /\ \A d \in Call : d # c => call'[d] = call[d]
  BY <1>3 DEF TabInv, Types
<1>9. ASSUME NEW t \in Tab PROVE TabSound(t)'
  <2>1. Stays(c, t)
    <3>1. CASE call[c].tab = NoTab
      <4>1. c \notin Busy(t) /\ x = Idle
        BY <3>1, BrowserAssumption DEF Busy, x
      <4> QED BY <1>8, <4>1 DEF Stays, Busy
    <3>2. CASE call[c].tab # NoTab
      <4>1. x # Idle
        BY <1>4, <3>2, IdleIsNoCall
      <4> QED BY <1>4, <1>8, <3>2, <4>1 DEF Stays, Busy
    <3> QED BY <3>1, <3>2
  <2>2. \A d \in Call : d # c => Stays(d, t)
    BY <1>8 DEF Stays, Busy
  <2>3. TabSound(t) /\ inFlight[t] \in Call \cup {NoCall} /\ boot[t] \in Call \cup {NoCall}
    BY DEF TabInv, Types
  <2> QED BY <2>1, <2>2, <2>3, TabUndisturbed DEF tabs
<1>10. call' \in [Call -> {Idle} \cup AnyCall]
  BY <1>3, <1>6 DEF TabInv, Types
<1>11. Shapes'
  BY <1>7, <1>8 DEF TabInv, Shapes
<1> QED BY <1>9, <1>10, <1>11

LEMMA UnissuedIs == \A n \in Unissued : n \in Token /\ token[n].state = "unissued"
BY DEF Unissued, Lowest

LEMMA EndedIs ==
  ASSUME token \in [Token -> Row], Filed, NEW f
  PROVE  /\ Ended(f) \in [Token -> Row]
         /\ \A s \in Token : /\ Ended(f)[s].family = token[s].family
                             /\ Ended(f)[s].state = IF token[s].family = f /\ token[s].state = "live"
                                                    THEN "grace" ELSE token[s].state
BY DEF Ended, Row, States

\* What the server's tables may become.
LEMMA ServedIsSound ==
  ASSUME TabInv, token' \in [Token -> Row], Filed', owner' \in [Family -> User \cup {NoUser}],
         UNCHANGED <<jar, tabs>>,
         call' \in [Call -> {Idle} \cup AnyCall], Shapes', \A t \in Tab : TabSound(t)'
  PROVE  TabInv'
<1>1. Types'
  BY DEF TabInv, Types, tabs
<1> QED BY <1>1 DEF TabInv

LEMMA ServeRefreshIsSound ==
  ASSUME TabInv, NEW c \in Call, ServeRefresh(c)
  PROVE  TabInv'
<1> DEFINE s == call[c].cookie
<1>1. /\ call[c] # Idle /\ call[c].kind = "refresh" /\ call[c].pc = "sent"
      /\ call[c] \in AnyCall /\ s \in Token \cup {NoToken}
  BY DEF ServeRefresh, At, TabInv, Types, AnyCall
<1>2. token \in [Token -> Row] /\ Filed /\ owner \in [Family -> User \cup {NoUser}]
  BY DEF TabInv, Types
<1> HIDE DEF s
<1>3. CASE Accepted(s)
  <2>1. s \in Token /\ token[s].state \in {"live", "grace"} /\ token[s].family \in Family
    BY <1>1, <1>2, <1>3 DEF Accepted, Filed
  <2>2. PICK n \in Unissued :
          /\ token' = [token EXCEPT ![s].state = "grace",
                                    ![n] = [family |-> token[s].family, state |-> "live"]]
          /\ Reply(c, TRUE, owner[token[s].family], n)
    BY <1>3 DEF ServeRefresh, s
  <2>3. n \in Token /\ token[n].state = "unissued"
    BY UnissuedIs
  <2>4. token' \in [Token -> Row] /\ Filed'
    BY <1>2, <2>1, <2>2, <2>3 DEF Row, States, Filed
  <2>5. owner[token[s].family] \in User \cup {NoUser} /\ n \in Token \cup {NoToken, Keep}
    BY <1>2, <2>1, <2>3
  <2>6. /\ call' \in [Call -> {Idle} \cup AnyCall] /\ Shapes' /\ \A t \in Tab : TabSound(t)'
    BY <1>1, <2>2, <2>5, ReplyIsSound DEF ServeRefresh
  <2> QED BY <1>2, <2>4, <2>6, ServedIsSound DEF ServeRefresh
<1>4. CASE ~Accepted(s)
  <2>1. /\ Reply(c, FALSE, NoUser, NoToken)
        /\ token' = IF s # NoToken /\ token[s].state # "live" THEN Ended(token[s].family) ELSE token
    BY <1>4 DEF ServeRefresh, s
  <2>2. token' \in [Token -> Row] /\ Filed'
    <3>1. \A f : Ended(f) \in [Token -> Row] /\ \A r \in Token :
            /\ Ended(f)[r].family = token[r].family
            /\ Ended(f)[r].state = "unissued" <=> token[r].state = "unissued"
      BY <1>2, EndedIs
    <3> QED BY <1>2, <2>1, <3>1 DEF Filed
  <2>3. /\ call' \in [Call -> {Idle} \cup AnyCall] /\ Shapes' /\ \A t \in Tab : TabSound(t)'
    BY <1>1, <2>1, ReplyIsSound DEF ServeRefresh
  <2> QED BY <1>2, <2>2, <2>3, ServedIsSound DEF ServeRefresh
<1> QED BY <1>3, <1>4

LEMMA ServeLoginIsSound ==
  ASSUME TabInv, NEW c \in Call, ServeLogin(c)
  PROVE  TabInv'
<1>1. call[c] # Idle /\ call[c].kind = "login" /\ call[c].pc = "sent" /\ call[c].user \in User
  BY DEF ServeLogin, At, TabInv, Shapes, Shape
<1>2. token \in [Token -> Row] /\ Filed /\ owner \in [Family -> User \cup {NoUser}]
  BY DEF TabInv, Types
<1>3. PICK f \in Family, n \in Unissued :
        /\ owner[f] = NoUser
        /\ owner' = [owner EXCEPT ![f] = call[c].user]
        /\ token' = [token EXCEPT ![n] = [family |-> f, state |-> "live"]]
        /\ Reply(c, TRUE, call[c].user, n)
  BY DEF ServeLogin
<1>4. n \in Token
  BY UnissuedIs
<1>5. token' \in [Token -> Row] /\ Filed' /\ owner' \in [Family -> User \cup {NoUser}]
  BY <1>1, <1>2, <1>3, <1>4 DEF Row, States, Filed
<1>6. /\ call' \in [Call -> {Idle} \cup AnyCall] /\ Shapes' /\ \A t \in Tab : TabSound(t)'
  BY <1>1, <1>3, <1>4, ReplyIsSound DEF ServeLogin
<1> QED BY <1>5, <1>6, ServedIsSound DEF ServeLogin

LEMMA ServeLogoutIsSound ==
  ASSUME TabInv, NEW c \in Call, ServeLogout(c)
  PROVE  TabInv'
<1>1. call[c] # Idle /\ call[c].kind = "logout" /\ call[c].pc = "sent"
  BY DEF ServeLogout, At
<1>2. token \in [Token -> Row] /\ Filed /\ owner \in [Family -> User \cup {NoUser}]
  BY DEF TabInv, Types
<1>3. \E f : token' = token \/ token' = Ended(f)
  BY DEF ServeLogout
<1>4. token' \in [Token -> Row] /\ Filed'
  <2>1. \A f : Ended(f) \in [Token -> Row] /\ \A r \in Token :
          /\ Ended(f)[r].family = token[r].family
          /\ Ended(f)[r].state = "unissued" <=> token[r].state = "unissued"
    BY <1>2, EndedIs
  <2> QED BY <1>2, <1>3, <2>1 DEF Filed
<1>5. Reply(c, TRUE, NoUser, NoToken) /\ UNCHANGED <<owner, jar, tabs>>
  BY DEF ServeLogout
<1>6. /\ call' \in [Call -> {Idle} \cup AnyCall] /\ Shapes' /\ \A t \in Tab : TabSound(t)'
  BY <1>1, <1>5, ReplyIsSound
<1> QED BY <1>2, <1>4, <1>5, <1>6, ServedIsSound

LEMMA ServeDataIsSound ==
  ASSUME TabInv, NEW c \in Call, ServeData(c)
  PROVE  TabInv'
<1>1. call[c] # Idle /\ call[c].kind \in {"data", "me"} /\ call[c].pc = "sent"
  BY DEF ServeData, At
<1>2. call[c].user \in User \cup {NoUser}
  BY <1>1 DEF TabInv, Types, AnyCall
<1>3. Reply(c, call[c].user # NoUser, call[c].user, Keep) /\ UNCHANGED <<server, jar, tabs>>
  BY DEF ServeData
<1>4. /\ call' \in [Call -> {Idle} \cup AnyCall] /\ Shapes' /\ \A t \in Tab : TabSound(t)'
  BY <1>1, <1>2, <1>3, ReplyIsSound
<1> QED BY <1>3, <1>4, ServedIsSound DEF TabInv, Types, Filed, server

LEMMA ServeErrorIsSound ==
  ASSUME TabInv, NEW c \in Call, ServeError(c)
  PROVE  TabInv'
<1>1. call[c] # Idle /\ call[c].kind \in {"refresh", "login", "logout"} /\ call[c].pc = "sent"
  BY DEF ServeError
<1>2. PICK set \in {NoToken, Keep} :
        /\ Reply(c, FALSE, NoUser, set)
        /\ call[c].kind = "login" => set = Keep
  BY <1>1 DEF ServeError
<1>3. UNCHANGED <<server, jar, tabs>>
  BY DEF ServeError
<1>4. /\ call' \in [Call -> {Idle} \cup AnyCall] /\ Shapes' /\ \A t \in Tab : TabSound(t)'
  BY <1>1, <1>2, <1>3, ReplyIsSound
<1> QED BY <1>3, <1>4, ServedIsSound DEF TabInv, Types, Filed, server

LEMMA GraceElapsesIsSound ==
  ASSUME TabInv, NEW s \in Token, GraceElapses(s)
  PROVE  TabInv'
<1>1. token' \in [Token -> Row] /\ Filed'
  BY DEF GraceElapses, TabInv, Types, Filed, Row, States
<1>2. UNCHANGED <<owner, jar, tabs, call>>
  BY DEF GraceElapses, tabs
<1>3. Shapes'
  BY <1>2 DEF TabInv, Shapes
<1>4. ASSUME NEW t \in Tab PROVE TabSound(t)'
  <2>1. \A c \in Call : Stays(c, t)
    BY <1>2 DEF Stays, Busy
  <2>2. TabSound(t) /\ inFlight[t] \in Call \cup {NoCall} /\ boot[t] \in Call \cup {NoCall}
    BY DEF TabInv, Types
  <2> QED BY <1>2, <2>1, <2>2, TabUndisturbed DEF tabs
<1> QED BY <1>1, <1>2, <1>3, <1>4, ServedIsSound DEF TabInv, Types

-----------------------------------------------------------------------------
(* Answers. *)

LEMMA WaitersAre ==
  ASSUME TabInv, NEW c \in Call, call[c] # Idle
  PROVE  \A w \in Waiters(c) :
           /\ w \in Call /\ w \in Busy(call[c].tab) /\ call[w].kind \in {"data", "me"}
           /\ call[w].pc = "waiting" /\ call[w].on = c /\ w # c
<1> SUFFICES ASSUME NEW w \in Waiters(c)
             PROVE  /\ w \in Call /\ w \in Busy(call[c].tab) /\ call[w].kind \in {"data", "me"}
                    /\ call[w].pc = "waiting" /\ call[w].on = c /\ w # c
  OBVIOUS
<1>1. w \in Call /\ call[w] # Idle /\ call[w].pc = "waiting" /\ call[w].on = c
  BY DEF Waiters
<1>2. call[w].kind \in {"data", "me"} /\ call[w].tab \in Tab
  BY <1>1 DEF TabInv, Shapes, Shape
<1>3. OnItsWay(c, call[w].tab)
  BY <1>1, <1>2 DEF TabInv, TabSound, WaitsForRefresh, Busy
<1> QED BY <1>1, <1>2, <1>3 DEF OnItsWay, Busy

\* What is the same in every answer a tab takes: the calls of other tabs.
LEMMA OtherTabs ==
  ASSUME TabInv, NEW t \in Tab, NEW r \in Tab, r # t,
         generation'[r] = generation[r], inFlight'[r] = inFlight[r], boot'[r] = boot[r],
         access'[r] = access[r], status'[r] = status[r],
         \A d \in Call : call'[d] = call[d] \/ (d \notin Busy(r) /\ d \notin Busy(r)')
  PROVE  TabSound(r)'
<1>1. \A d \in Call : Stays(d, r)
  BY DEF Stays, Busy
<1>2. TabSound(r) /\ inFlight[r] \in Call \cup {NoCall} /\ boot[r] \in Call \cup {NoCall}
  BY DEF TabInv, Types
<1> QED BY <1>1, <1>2, TabUndisturbed

\* A call that ends without ending anything else: a login, data, a profile.
LEMMA QuietEnd ==
  ASSUME TabInv, NEW c \in Call, NEW t \in Tab, call[c] # Idle, call[c].tab = t,
         call[c].pc # "waiting", call[c].kind # "refresh",
         call[c].kind = "me" => status'[t] # "loading",
         call' = [call EXCEPT ![c] = Idle],
         UNCHANGED <<server, generation, inFlight, boot>>, jar' \in Token \cup {NoToken},
         NEW a \in Access, a.via # "refresh",
         NEW st \in {"authenticated", "unauthenticated"}, NEW u \in User \cup {NoUser},
         access' = access \/ access' = [access EXCEPT ![t] = a],
         status' = status \/ status' = [status EXCEPT ![t] = st],
         shown' = shown \/ shown' = [shown EXCEPT ![t] = u]
  PROVE  TabInv'
<1>1. call'[c] = Idle /\ \A d \in Call : d # c => call'[d] = call[d]
  BY DEF TabInv, Types
<1>2. Types'
  BY DEF TabInv, Types, server
<1>3. Filed' /\ Shapes'
  BY <1>1 DEF TabInv, Filed, Shapes, server
<1>4. ASSUME NEW r \in Tab PROVE TabSound(r)'
  <2>1. Aside(c, r)
    BY <1>1 DEF Aside, Busy
  <2>2. \A d \in Call : d # c => Stays(d, r)
    BY <1>1 DEF Stays, Busy
  <2>3. TabSound(r) /\ inFlight[r] \in Call \cup {NoCall} /\ boot[r] \in Call \cup {NoCall}
    BY DEF TabInv, Types
  <2>4. /\ access'[r] = access[r] \/ access'[r].via # "refresh"
        /\ status'[r] = status[r] \/ status'[r] # "loading"
    BY DEF TabInv, Types
  <2> QED BY <2>1, <2>2, <2>3, <2>4, TabUndisturbed
<1> QED BY <1>2, <1>3, <1>4 DEF TabInv

\* The tab's session ends, with some of its calls.
LEMMA EndIsSound ==
  ASSUME TabInv, NEW t \in Tab, NEW u \in User \cup {NoUser}, EndSession(t, u, boot[t]),
         UNCHANGED server, jar' \in Token \cup {NoToken},
         call' \in [Call -> {Idle} \cup AnyCall],
         \A d \in Call : call'[d] = call[d] \/ (d \in Busy(t) /\ call'[d] = Idle),
         \A d, w \in Call : /\ call[d] # Idle /\ call[d].kind = "refresh" /\ call'[d] = Idle
                           /\ call[w] # Idle /\ call[w].pc = "waiting" /\ call[w].on = d
                           => call'[w] = Idle
  PROVE  TabInv'
<1>1. Types'
  BY DEF TabInv, Types, EndSession, server, Access, NoAccess
<1>2. Filed' /\ Shapes'
  BY DEF TabInv, Filed, Shapes, server
<1>3. TabSound(t)'
  <2>1. /\ generation'[t] = generation[t] + 1 /\ inFlight'[t] = NoCall
        /\ access'[t].via # "refresh" /\ status'[t] # "loading"
    BY DEF EndSession, TabInv, Types, NoAccess
  <2>2. TabSound(t) /\ Types
    BY DEF TabInv
  <2> QED BY <2>1, <2>2, TabEnds
<1>4. ASSUME NEW r \in Tab, r # t PROVE TabSound(r)'
  <2>1. /\ generation'[r] = generation[r] /\ inFlight'[r] = inFlight[r] /\ boot'[r] = boot[r]
        /\ access'[r] = access[r] /\ status'[r] = status[r]
    BY <1>4 DEF EndSession, TabInv, Types
  <2>2. \A d \in Call : call'[d] = call[d] \/ (d \notin Busy(r) /\ d \notin Busy(r)')
    BY <1>4 DEF Busy
  <2> QED BY <1>4, <2>1, <2>2, OtherTabs
<1> QED BY <1>1, <1>2, <1>3, <1>4 DEF TabInv

LEMMA RefreshedIsSound ==
  ASSUME TabInv, NEW c \in Call, NEW t \in Tab, call[c] # Idle, call[c].tab = t,
         call[c].kind = "refresh", call[c].pc = "answered", StillOurs(c), Refreshed(c, t),
         UNCHANGED server, jar' \in Token \cup {NoToken}
  PROVE  TabInv'
<1> DEFINE user == call[c].answer.user
<1> DEFINE x == Sent("me", t, user, generation[t], jar')
<1>1. /\ call[c] \in AnyCall /\ user \in User \cup {NoUser} /\ generation[t] \in Nat
      /\ call[c].gen = generation[t]
  BY DEF TabInv, Types, AnyCall, Answers, StillOurs
<1>2. inFlight[t] = c /\ c # NoCall
  <2>1. c \in Busy(t)
    BY DEF Busy
  <2> QED BY <1>1, <2>1, BrowserAssumption DEF TabInv, TabSound, OwnRefreshes
<1> HIDE DEF user
<1>3. x \in AnyCall /\ x # Idle /\ Shape(x) /\ x.kind = "me" /\ x.tab = t /\ x.pc = "sent"
  <2>1. "me" \in Kind
    BY DEF Kind
  <2> QED BY <1>1, <2>1, SentIs
<1> HIDE DEF x
<1>4. \A w \in Waiters(c) :
        /\ w \in Call /\ w \in Busy(t) /\ call[w].kind \in {"data", "me"}
        /\ call[w].pc = "waiting" /\ call[w].on = c /\ w # c
  BY WaitersAre
<1>5. /\ call'[c] = IF boot[t] = c THEN x ELSE Idle
      /\ \A w \in Waiters(c) :
           call'[w] = [call[w] EXCEPT !.pc = "sent", !.on = NoCall, !.user = user]
      /\ \A d \in Call : d # c /\ d \notin Waiters(c) => call'[d] = call[d]
      /\ call' = [d \in Call |-> call'[d]]
  BY <1>4 DEF Refreshed, user, x
<1>6. ASSUME NEW w \in Waiters(c)
      PROVE  /\ call'[w] \in AnyCall /\ call'[w] # Idle /\ Shape(call'[w])
             /\ call'[w].kind = call[w].kind /\ call'[w].tab = t /\ call'[w].pc = "sent"
  <2>1. call[w] \in AnyCall /\ Shape(call[w]) /\ call[w].tab = t
    BY <1>4 DEF TabInv, Types, Shapes, Busy
  <2>2. /\ call'[w] \in AnyCall /\ call'[w].kind = call[w].kind /\ call'[w].tab = call[w].tab
        /\ call'[w].pc = "sent" /\ call'[w].cookie = call[w].cookie
    <3>1. call'[w] = [call[w] EXCEPT !.pc = "sent", !.on = NoCall, !.user = user]
      BY <1>5
    <3>2. "sent" \in Pcs /\ NoCall \in Call \cup {NoCall} /\ user \in User \cup {NoUser}
      BY <1>1 DEF Pcs
    <3> QED BY <2>1, <3>1, <3>2 DEF AnyCall
  <2>3. Shape(call'[w])
    BY <1>4, <2>1, <2>2 DEF Shape
  <2> QED BY <2>1, <2>2, <2>3, IdleIsNoCall
<1>7. \A d \in Call : call'[d] # Idle => call'[d] \in AnyCall /\ Shape(call'[d])
  BY <1>3, <1>5, <1>6 DEF TabInv, Types, Shapes
<1>8. /\ access' = [access EXCEPT ![t] = [user |-> user, via |-> "refresh", begun |-> call[c].gen]]
      /\ inFlight' = [inFlight EXCEPT ![t] = NoCall]
      /\ boot' = [boot EXCEPT ![t] = IF @ = c THEN NoCall ELSE @]
      /\ UNCHANGED <<generation, status, shown>>
  BY <1>1 DEF Refreshed, Retired, user
<1>9. Types'
  <2>1. call' \in [Call -> {Idle} \cup AnyCall]
    BY <1>5, <1>7
  <2>2. access' \in [Tab -> Access]
    BY <1>1, <1>8 DEF TabInv, Types, Access
  <2>3. inFlight' \in [Tab -> Call \cup {NoCall}] /\ boot' \in [Tab -> Call \cup {NoCall}]
    BY <1>8 DEF TabInv, Types
  <2> QED BY <1>8, <2>1, <2>2, <2>3 DEF TabInv, Types, server
<1>10. Filed' /\ Shapes'
  BY <1>7 DEF TabInv, Filed, Shapes, server
<1>11. TabSound(t)'
  <2>1. inFlight'[t] = NoCall /\ access'[t].begun = generation[t] /\ generation'[t] = generation[t]
    BY <1>1, <1>8 DEF TabInv, Types
  <2>2. InFlightRuns(t)' /\ StoresOwn(t)'
    BY <2>1 DEF InFlightRuns, StoresOwn
  <2>3. \A d \in Busy(t)' : call'[d].kind = "refresh" \/ call'[d].pc = "waiting" =>
          d # c /\ d \notin Waiters(c) /\ d \in Busy(t) /\ call'[d] = call[d]
    BY <1>3, <1>4, <1>5, <1>6 DEF Busy
  <2>4. OwnRefreshes(t)'
    <3> SUFFICES ASSUME NEW d \in Busy(t)', call'[d].kind = "refresh"
                 PROVE  call'[d].gen <= generation'[t] /\ call'[d].gen # generation'[t]
      BY DEF OwnRefreshes
    <3> QED BY <1>2, <2>1, <2>3 DEF TabInv, TabSound, OwnRefreshes
  <2>5. \A d \in Call : d # c /\ OnItsWay(d, t) => OnItsWay(d, t)'
    BY <1>4, <1>5 DEF OnItsWay, Busy
  <2>6. WaitsForRefresh(t)'
    <3> SUFFICES ASSUME NEW d \in Busy(t)', call'[d].pc = "waiting"
                 PROVE  OnItsWay(call[d].on, t)' /\ call'[d].on = call[d].on
      BY DEF WaitsForRefresh, OnItsWay, Busy
    <3>1. d \in Busy(t) /\ call'[d] = call[d] /\ d \notin Waiters(c) /\ d \in Call /\ call[d] # Idle
      BY <2>3 DEF Busy
    <3>2. OnItsWay(call[d].on, t) /\ call[d].on # c
      BY <3>1 DEF TabInv, TabSound, WaitsForRefresh, Waiters
    <3>3. call[d].on \in Call /\ call'[d].on = call[d].on
      BY <3>1, <3>2 DEF OnItsWay, Busy
    <3> QED BY <2>5, <3>1, <3>2, <3>3 DEF OnItsWay, Busy
  <2>7. LoadingGoesOn(t)'
    <3> SUFFICES ASSUME status[t] = "loading"
                 PROVE  \/ boot'[t] # NoCall /\ OnItsWay(boot[t], t)' /\ boot'[t] = boot[t]
                        \/ \E d \in Busy(t)' : call'[d].kind = "me"
      BY <1>8 DEF LoadingGoesOn, OnItsWay, Busy
    <3>1. CASE boot[t] = c
      <4>1. c \in Busy(t)' /\ call'[c].kind = "me"
        BY <1>3, <1>5, <3>1 DEF Busy
      <4> QED BY <4>1
    <3>2. CASE boot[t] # c /\ boot[t] # NoCall /\ OnItsWay(boot[t], t)
      <4>1. boot'[t] = boot[t] /\ boot[t] \in Call
        BY <1>8, <3>2 DEF TabInv, Types
      <4> QED BY <2>5, <3>2, <4>1 DEF OnItsWay, Busy
    <3>3. CASE \E d \in Busy(t) : call[d].kind = "me"
      <4>1. PICK d \in Busy(t) : call[d].kind = "me"
        BY <3>3
      <4>2. d \in Call /\ d # c /\ call[d] # Idle /\ call[d].tab = t
        BY <4>1 DEF Busy
      <4>3. d \in Busy(t)' /\ call'[d].kind = "me"
        BY <1>5, <1>6, <4>1, <4>2 DEF Busy
      <4> QED BY <4>3
    <3> QED BY <3>1, <3>2, <3>3 DEF TabInv, TabSound, LoadingGoesOn
  <2> QED BY <2>2, <2>4, <2>6, <2>7 DEF TabSound
<1>12. ASSUME NEW r \in Tab, r # t PROVE TabSound(r)'
  <2>1. /\ generation'[r] = generation[r] /\ inFlight'[r] = inFlight[r] /\ boot'[r] = boot[r]
        /\ access'[r] = access[r] /\ status'[r] = status[r]
    BY <1>8, <1>12 DEF TabInv, Types
  <2>2. \A d \in Call : call'[d] = call[d] \/ (d \notin Busy(r) /\ d \notin Busy(r)')
    <3> SUFFICES ASSUME NEW d \in Call, call'[d] # call[d]
                 PROVE  d \notin Busy(r) /\ d \notin Busy(r)'
      OBVIOUS
    <3>1. CASE d = c
      BY <1>3, <1>5, <1>12, <3>1 DEF Busy
    <3>2. CASE d \in Waiters(c)
      BY <1>4, <1>6, <1>12, <3>2 DEF Busy
    <3> QED BY <1>5, <3>1, <3>2
  <2> QED BY <1>12, <2>1, <2>2, OtherTabs
<1> QED BY <1>9, <1>10, <1>11, <1>12 DEF TabInv

LEMMA NotRefreshedIsSound ==
  ASSUME TabInv, NEW c \in Call, NEW t \in Tab, call[c] # Idle, call[c].tab = t,
         call[c].kind = "refresh", NotRefreshed(c, t),
         UNCHANGED server, jar' \in Token \cup {NoToken}
  PROVE  TabInv'
<1>1. \A w \in Waiters(c) :
        /\ w \in Call /\ w \in Busy(t) /\ call[w].kind \in {"data", "me"}
        /\ call[w].pc = "waiting" /\ call[w].on = c /\ w # c
  BY WaitersAre
<1>2. c \in Busy(t) /\ call[c] \in AnyCall /\ generation[t] \in Nat
  BY DEF Busy, TabInv, Types
<1>3. call' = [d \in Call |-> IF d \in Waiters(c) \cup {c} THEN Idle ELSE call[d]]
  BY DEF NotRefreshed
<1>4. /\ \A d \in Call : IF d = c \/ d \in Waiters(c) THEN call'[d] = Idle ELSE call'[d] = call[d]
      /\ call' \in [Call -> {Idle} \cup AnyCall]
  BY <1>3 DEF TabInv, Types
<1>5. \A d, w \in Call : /\ call[d] # Idle /\ call[d].kind = "refresh" /\ call'[d] = Idle
                         /\ call[w] # Idle /\ call[w].pc = "waiting" /\ call[w].on = d
                         => call'[w] = Idle
  BY <1>1, <1>4 DEF Waiters
<1>6. CASE \E d \in Waiters(c) : call[d].kind = "me"
  <2>1. EndSession(t, shown[t], boot[t])
    BY <1>6 DEF NotRefreshed
  <2>2. shown[t] \in User \cup {NoUser}
    BY DEF TabInv, Types
  <2>3. \A d \in Call : call'[d] = call[d] \/ (d \in Busy(t) /\ call'[d] = Idle)
    BY <1>1, <1>2, <1>4
  <2> QED BY <1>4, <1>5, <2>1, <2>2, <2>3, EndIsSound
<1>7. CASE ~ \E d \in Waiters(c) : call[d].kind = "me"
  <2>1. /\ access' = [access EXCEPT ![t] = IF StillOurs(c) THEN NoAccess ELSE @]
        /\ inFlight' = [inFlight EXCEPT ![t] = Retired(c)]
        /\ status' = [status EXCEPT ![t] = IF boot[t] = c THEN "unauthenticated" ELSE @]
        /\ boot' = [boot EXCEPT ![t] = IF @ = c THEN NoCall ELSE @]
        /\ UNCHANGED <<generation, shown>>
    BY <1>7 DEF NotRefreshed
  <2>2. Retired(c) \in Call \cup {NoCall}
    BY DEF Retired, TabInv, Types
  <2>3. Types'
    <3>1. access' \in [Tab -> Access]
      BY <2>1 DEF TabInv, Types, Access, NoAccess
    <3>2. inFlight' \in [Tab -> Call \cup {NoCall}] /\ boot' \in [Tab -> Call \cup {NoCall}]
      BY <2>1, <2>2 DEF TabInv, Types
    <3>3. status' \in [Tab -> {"loading", "authenticated", "unauthenticated"}]
      BY <2>1 DEF TabInv, Types
    <3> QED BY <1>4, <2>1, <3>1, <3>2, <3>3 DEF TabInv, Types, server
  <2>4. Filed' /\ Shapes'
    BY <1>4 DEF TabInv, Filed, Shapes, server
  <2>5. TabSound(t)'
    <3>1. \A d \in Call : d # c /\ OnItsWay(d, t) => OnItsWay(d, t)' /\ call'[d] = call[d]
      BY <1>1, <1>4 DEF OnItsWay, Busy
    <3>2. \A d \in Busy(t)' : d \in Busy(t) /\ d # c /\ call'[d] = call[d] /\ d \notin Waiters(c)
      BY <1>4 DEF Busy
    <3>3. InFlightRuns(t)'
      <4> SUFFICES ASSUME inFlight'[t] # NoCall
                   PROVE  /\ inFlight'[t] = inFlight[t] /\ OnItsWay(inFlight[t], t)'
                          /\ call'[inFlight[t]].gen = generation[t]
        BY <2>1 DEF InFlightRuns, OnItsWay, Busy
      <4>1. inFlight'[t] = inFlight[t] /\ call[c].gen # generation[t]
        BY <2>1 DEF Retired, TabInv, Types
      <4>2. OnItsWay(inFlight[t], t) /\ call[inFlight[t]].gen = generation[t]
        BY <4>1 DEF TabInv, TabSound, InFlightRuns
      <4>3. inFlight[t] \in Call /\ inFlight[t] # c
        BY <4>1, <4>2 DEF OnItsWay, Busy
      <4> QED BY <3>1, <4>1, <4>2, <4>3 DEF OnItsWay, Busy
    <3>4. OwnRefreshes(t)'
      <4> SUFFICES ASSUME NEW d \in Busy(t)', call'[d].kind = "refresh"
                   PROVE  /\ call'[d].gen <= generation'[t]
                          /\ call'[d].gen = generation'[t] => inFlight'[t] = d
        BY DEF OwnRefreshes
      <4>1. /\ d \in Busy(t) /\ call'[d] = call[d] /\ d # c /\ call[d].gen <= generation[t]
            /\ call[d].gen = generation[t] => inFlight[t] = d
        BY <3>2 DEF TabInv, TabSound, OwnRefreshes
      <4>2. inFlight[t] # c => inFlight'[t] = inFlight[t]
        BY <1>2, <2>1 DEF Retired, TabInv, Types, TabSound, OwnRefreshes
      <4> QED BY <2>1, <4>1, <4>2
    <3>5. WaitsForRefresh(t)'
      <4> SUFFICES ASSUME NEW d \in Busy(t)', call'[d].pc = "waiting"
                   PROVE  OnItsWay(call[d].on, t)' /\ call'[d].on = call[d].on
        BY DEF WaitsForRefresh, OnItsWay, Busy
      <4>1. d \in Busy(t) /\ call'[d] = call[d] /\ d \notin Waiters(c) /\ d \in Call /\ call[d] # Idle
        BY <3>2 DEF Busy
      <4>2. OnItsWay(call[d].on, t) /\ call[d].on # c
        BY <4>1 DEF TabInv, TabSound, WaitsForRefresh, Waiters
      <4>3. call[d].on \in Call
        BY <4>2 DEF OnItsWay, Busy
      <4> QED BY <3>1, <4>1, <4>2, <4>3 DEF OnItsWay, Busy
    <3>6. LoadingGoesOn(t)'
      <4> SUFFICES ASSUME status'[t] = "loading"
                   PROVE  \/ boot'[t] # NoCall /\ OnItsWay(boot[t], t)' /\ boot'[t] = boot[t]
                          \/ \E d \in Busy(t)' : call'[d].kind = "me"
        BY DEF LoadingGoesOn, OnItsWay, Busy
      <4>1. status[t] = "loading" /\ boot[t] # c /\ boot'[t] = boot[t]
        BY <2>1 DEF TabInv, Types
      <4>2. CASE boot[t] # NoCall /\ OnItsWay(boot[t], t)
        <5>1. boot[t] \in Call
          BY <4>2 DEF TabInv, Types
        <5> QED BY <3>1, <4>1, <4>2, <5>1 DEF OnItsWay, Busy
      <4>3. CASE \E d \in Busy(t) : call[d].kind = "me"
        <5>1. PICK d \in Busy(t) : call[d].kind = "me"
          BY <4>3
        <5>2. d \in Call /\ d # c /\ d \notin Waiters(c) /\ call[d] # Idle /\ call[d].tab = t
          BY <1>7, <5>1 DEF Busy
        <5>3. d \in Busy(t)' /\ call'[d].kind = "me"
          BY <1>4, <5>1, <5>2 DEF Busy
        <5> QED BY <5>3
      <4> QED BY <4>1, <4>2, <4>3 DEF TabInv, TabSound, LoadingGoesOn
    <3>7. StoresOwn(t)'
      <4>1. access'[t] = access[t] \/ access'[t] = NoAccess
        BY <2>1 DEF TabInv, Types
      <4> QED BY <2>1, <4>1 DEF TabInv, TabSound, StoresOwn, NoAccess
    <3> QED BY <3>3, <3>4, <3>5, <3>6, <3>7 DEF TabSound
  <2>6. ASSUME NEW r \in Tab, r # t PROVE TabSound(r)'
    <3>1. /\ generation'[r] = generation[r] /\ inFlight'[r] = inFlight[r] /\ boot'[r] = boot[r]
          /\ access'[r] = access[r] /\ status'[r] = status[r]
      BY <2>1, <2>6 DEF TabInv, Types
    <3>2. \A d \in Call : call'[d] = call[d] \/ (d \notin Busy(r) /\ d \notin Busy(r)')
      BY <1>1, <1>2, <1>4, <2>6 DEF Busy
    <3> QED BY <2>6, <3>1, <3>2, OtherTabs
  <2> QED BY <2>3, <2>4, <2>5, <2>6 DEF TabInv
<1> QED BY <1>6, <1>7

LEMMA AwaitRefreshIsSound ==
  ASSUME TabInv, NEW c \in Call, NEW t \in Tab, NEW d \in Free, call[c] # Idle, call[c].tab = t,
         call[c].kind \in {"data", "me"}, call[c].pc = "answered", AwaitRefresh(c, d),
         UNCHANGED server, jar' \in Token \cup {NoToken}
  PROVE  TabInv'
<1>0. PICK on \in Call : /\ on = IF inFlight[t] # NoCall THEN inFlight[t] ELSE d
                         /\ on # NoCall
  <2>1. inFlight[t] \in Call \cup {NoCall} /\ d \in Call /\ NoCall \notin Call
    BY FreeIsIdle, BrowserAssumption DEF TabInv, Types
  <2>2. CASE inFlight[t] = NoCall
    BY <2>1, <2>2
  <2>3. CASE inFlight[t] # NoCall
    BY <2>1, <2>3
  <2> QED BY <2>2, <2>3
<1> DEFINE x == [call[c] EXCEPT !.pc = "waiting", !.retried = TRUE, !.answer = Unanswered,
                                !.on = on]
<1> DEFINE y == Sent("refresh", t, NoUser, generation[t], jar')
<1>1. d \in Call /\ call[d] = Idle /\ d # c /\ d # NoCall
  BY FreeIsIdle, BrowserAssumption
<1>2. call[c] \in AnyCall /\ Shape(call[c]) /\ generation[t] \in Nat
  BY DEF TabInv, Types, Shapes
<1>3. /\ y \in AnyCall /\ y # Idle /\ Shape(y) /\ y.kind = "refresh" /\ y.tab = t
      /\ y.pc = "sent" /\ y.gen = generation[t]
  BY <1>2, RefreshIs
<1> HIDE DEF y
<1>4. /\ call'[c] = x
      /\ call'[d] = IF inFlight[t] # NoCall THEN Idle ELSE y
      /\ \A e \in Call : e # c /\ e # d => call'[e] = call[e]
      /\ call' = [e \in Call |-> call'[e]]
      /\ inFlight' = [inFlight EXCEPT ![t] = on]
      /\ UNCHANGED <<access, generation, boot, status, shown>>
  BY <1>0, <1>1 DEF AwaitRefresh, Joins, y
<1>5. /\ x \in AnyCall /\ x # Idle /\ Shape(x) /\ x.kind = call[c].kind /\ x.tab = t
      /\ x.pc = "waiting" /\ x.on = on
  <2>1. "waiting" \in Pcs /\ Unanswered \in Answers
    BY DEF Pcs, Unanswered, Answers
  <2>2. x \in AnyCall
    BY <1>2, <1>0, <2>1 DEF AnyCall
  <2>3. /\ x.kind = call[c].kind /\ x.tab = t /\ x.pc = "waiting" /\ x.on = on
        /\ x.cookie = call[c].cookie
    BY <1>2 DEF AnyCall
  <2>4. Shape(x)
    BY <1>2, <2>3 DEF Shape
  <2> QED BY <2>2, <2>3, <2>4, IdleIsNoCall
<1> HIDE DEF x
<1>6. \A e \in Call : call'[e] # Idle => call'[e] \in AnyCall /\ Shape(call'[e])
  BY <1>3, <1>4, <1>5 DEF TabInv, Types, Shapes
<1>7. Types'
  <2>1. call' \in [Call -> {Idle} \cup AnyCall]
    BY <1>4, <1>6
  <2>2. inFlight' \in [Tab -> Call \cup {NoCall}]
    BY <1>0, <1>4 DEF TabInv, Types
  <2> QED BY <1>4, <2>1, <2>2 DEF TabInv, Types, server
<1>8. Filed' /\ Shapes'
  BY <1>6 DEF TabInv, Filed, Shapes, server
<1>9. TabSound(t)'
  <2>1. \A e \in Call : OnItsWay(e, t) => OnItsWay(e, t)' /\ call'[e] = call[e]
    BY <1>1, <1>4 DEF OnItsWay, Busy
  <2>2. OnItsWay(on, t)' /\ call'[on].gen = generation[t]
    <3>1. CASE inFlight[t] # NoCall
      <4>1. on = inFlight[t] /\ OnItsWay(on, t) /\ call[on].gen = generation[t]
        BY <1>0, <3>1 DEF TabInv, TabSound, InFlightRuns
      <4> QED BY <1>0, <2>1, <4>1
    <3>2. CASE inFlight[t] = NoCall
      <4>1. on = d /\ call'[d] = y
        BY <1>0, <1>4, <3>2
      <4> QED BY <1>1, <1>3, <4>1 DEF OnItsWay, Busy
    <3> QED BY <3>1, <3>2
  <2>3. inFlight'[t] = on /\ generation'[t] = generation[t]
    BY <1>4 DEF TabInv, Types
  <2>4. InFlightRuns(t)'
    BY <1>0, <2>2, <2>3 DEF InFlightRuns, OnItsWay, Busy
  <2>5. OwnRefreshes(t)'
    <3> SUFFICES ASSUME NEW e \in Busy(t)', call'[e].kind = "refresh"
                 PROVE  /\ call'[e].gen <= generation[t]
                        /\ call'[e].gen = generation[t] => on = e
      BY <2>3 DEF OwnRefreshes
    <3>1. e \in Call /\ call'[e] # Idle /\ e # c
      BY <1>5, <1>4 DEF Busy
    <3>2. CASE e = d
      <4>1. inFlight[t] = NoCall /\ call'[e] = y
        BY <1>4, <3>1, <3>2
      <4> QED BY <1>0, <1>2, <1>3, <3>2, <4>1
    <3>3. CASE e # d
      <4>1. e \in Busy(t) /\ call'[e] = call[e]
        BY <1>4, <3>1, <3>3 DEF Busy
      <4>2. call[e].gen <= generation[t] /\ (call[e].gen = generation[t] => inFlight[t] = e)
        BY <4>1 DEF TabInv, TabSound, OwnRefreshes
      <4>3. e # NoCall
        BY <3>1, BrowserAssumption
      <4> QED BY <1>0, <4>1, <4>2, <4>3
    <3> QED BY <3>2, <3>3
  <2>6. WaitsForRefresh(t)'
    <3> SUFFICES ASSUME NEW e \in Busy(t)', call'[e].pc = "waiting"
                 PROVE  \E o \in Call : call'[e].on = o /\ OnItsWay(o, t)'
      BY DEF WaitsForRefresh, OnItsWay, Busy
    <3>1. e \in Call /\ call'[e] # Idle /\ e # d
      BY <1>3, <1>4 DEF Busy
    <3>2. CASE e = c
      BY <1>0, <1>4, <1>5, <2>2, <3>2
    <3>3. CASE e # c
      <4>1. e \in Busy(t) /\ call'[e] = call[e]
        BY <1>4, <3>1, <3>3 DEF Busy
      <4>2. OnItsWay(call[e].on, t)
        BY <4>1 DEF TabInv, TabSound, WaitsForRefresh
      <4>3. call[e].on \in Call
        BY <4>2 DEF OnItsWay, Busy
      <4>4. PICK o \in Call : o = call[e].on
        BY <4>3
      <4> QED BY <2>1, <4>1, <4>2, <4>4
    <3> QED BY <3>2, <3>3
  <2>7. LoadingGoesOn(t)'
    <3> SUFFICES ASSUME status[t] = "loading"
                 PROVE  \/ boot[t] # NoCall /\ OnItsWay(boot[t], t)'
                        \/ \E e \in Busy(t)' : call'[e].kind = "me"
      BY <1>4 DEF LoadingGoesOn, OnItsWay, Busy
    <3>1. CASE boot[t] # NoCall /\ OnItsWay(boot[t], t)
      <4>1. PICK o \in Call : o = boot[t]
        BY <3>1 DEF TabInv, Types
      <4> QED BY <1>4, <2>1, <3>1, <4>1 DEF OnItsWay, Busy
    <3>2. CASE \E e \in Busy(t) : call[e].kind = "me"
      <4>1. PICK e \in Busy(t) : call[e].kind = "me"
        BY <3>2
      <4>2. e \in Call /\ call[e] # Idle /\ call[e].tab = t /\ e # d
        BY <1>1, <4>1 DEF Busy
      <4>3. e \in Busy(t)' /\ call'[e].kind = "me"
        BY <1>4, <1>5, <4>1, <4>2 DEF Busy
      <4> QED BY <4>3
    <3> QED BY <3>1, <3>2 DEF TabInv, TabSound, LoadingGoesOn
  <2>8. StoresOwn(t)'
    BY <1>4 DEF TabInv, TabSound, StoresOwn
  <2> QED BY <2>4, <2>5, <2>6, <2>7, <2>8 DEF TabSound
<1>10. ASSUME NEW r \in Tab, r # t PROVE TabSound(r)'
  <2>1. /\ generation'[r] = generation[r] /\ inFlight'[r] = inFlight[r] /\ boot'[r] = boot[r]
        /\ access'[r] = access[r] /\ status'[r] = status[r]
    BY <1>4, <1>10 DEF TabInv, Types
  <2>2. \A e \in Call : call'[e] = call[e] \/ (e \notin Busy(r) /\ e \notin Busy(r)')
    <3>1. c \notin Busy(r) /\ c \notin Busy(r)'
      BY <1>4, <1>5, <1>10 DEF Busy
    <3>2. d \notin Busy(r) /\ d \notin Busy(r)'
      BY <1>1, <1>3, <1>4, <1>10 DEF Busy
    <3> QED BY <1>4, <3>1, <3>2
  <2> QED BY <1>10, <2>1, <2>2, OtherTabs
<1> QED BY <1>7, <1>8, <1>9, <1>10 DEF TabInv

\* Whatever a tab does with an answer, or with the loss of one.
LEMMA SettleIsSound ==
  ASSUME TabInv, NEW c \in Call, NEW t \in Tab, call[c] # Idle, call[c].tab = t,
         call[c].pc # "waiting", NEW ok \in BOOLEAN, ok => call[c].pc = "answered", Settle(c, ok),
         UNCHANGED server, jar' \in Token \cup {NoToken}
  PROVE  TabInv'
<1>1. call[c] \in AnyCall /\ shown[t] \in User \cup {NoUser} /\ c \in Busy(t)
  BY DEF TabInv, Types, Busy
<1>2. call[c].answer.user \in User \cup {NoUser}
  BY <1>1 DEF AnyCall, Answers
<1> DEFINE a == [user |-> call[c].answer.user, via |-> "login", begun |-> 0]
<1>3. a \in Access /\ a.via # "refresh"
  BY <1>2 DEF Access
<1>4. ASSUME call' = [call EXCEPT ![c] = Idle], call[c].kind # "refresh"
      PROVE  /\ call' \in [Call -> {Idle} \cup AnyCall]
             /\ \A d \in Call : call'[d] = call[d] \/ (d \in Busy(t) /\ call'[d] = Idle)
             /\ \A d, w \in Call : /\ call[d] # Idle /\ call[d].kind = "refresh" /\ call'[d] = Idle
                                   /\ call[w] # Idle /\ call[w].pc = "waiting" /\ call[w].on = d
                                   => call'[w] = Idle
  BY <1>1, <1>4 DEF TabInv, Types
<1>5. CASE SettleRefresh(c, ok)
  <2>1. call[c].kind = "refresh"
    BY <1>5 DEF SettleRefresh
  <2>2. CASE ok /\ StillOurs(c)
    BY <1>5, <2>1, <2>2, RefreshedIsSound DEF SettleRefresh
  <2>3. CASE ~(ok /\ StillOurs(c))
    BY <1>5, <2>1, <2>3, NotRefreshedIsSound DEF SettleRefresh
  <2> QED BY <2>2, <2>3
<1>6. CASE SettleLogin(c, ok)
  <2>1. /\ call[c].kind = "login" /\ call' = [call EXCEPT ![c] = Idle]
        /\ UNCHANGED <<generation, inFlight, boot>>
    BY <1>6 DEF SettleLogin
  <2>2. "authenticated" \in {"authenticated", "unauthenticated"}
    OBVIOUS
  <2>3. CASE ok
    <3>1. /\ access' = [access EXCEPT ![t] = a]
          /\ status' = [status EXCEPT ![t] = "authenticated"]
          /\ shown' = [shown EXCEPT ![t] = call[c].answer.user]
      BY <1>6, <2>3 DEF SettleLogin
    <3> HIDE DEF a
    <3> QED BY <1>2, <1>3, <2>1, <2>2, <3>1, QuietEnd
  <2>4. CASE ~ok
    <3>1. UNCHANGED <<access, status, shown>>
      BY <1>6, <2>4 DEF SettleLogin
    <3> HIDE DEF a
    <3> QED BY <1>2, <1>3, <2>1, <2>2, <3>1, QuietEnd
  <2> QED BY <2>3, <2>4
<1>7. CASE SettleLogout(c)
  <2>1. /\ call[c].kind = "logout" /\ call' = [call EXCEPT ![c] = Idle]
        /\ EndSession(t, NoUser, boot[t])
    BY <1>7 DEF SettleLogout
  <2>2. NoUser \in User \cup {NoUser}
    OBVIOUS
  <2> QED BY <1>4, <2>1, <2>2, EndIsSound
<1>8. CASE SettleData(c)
  <2>1. call[c].kind = "data" /\ call' = [call EXCEPT ![c] = Idle] /\ UNCHANGED tabs
    BY <1>8 DEF SettleData
  <2>2. "authenticated" \in {"authenticated", "unauthenticated"}
    OBVIOUS
  <2> HIDE DEF a
  <2> QED BY <1>2, <1>3, <2>1, <2>2, QuietEnd DEF tabs
<1>9. CASE SettleProfile(c, ok)
  <2>1. call[c].kind = "me" /\ call' = [call EXCEPT ![c] = Idle]
    BY <1>9 DEF SettleProfile
  <2>2. CASE ok
    <3>1. /\ status' = [status EXCEPT ![t] = "authenticated"]
          /\ shown' = [shown EXCEPT ![t] = call[c].answer.user]
          /\ UNCHANGED <<access, generation, inFlight, boot>>
      BY <1>9, <2>2 DEF SettleProfile
    <3>2. status'[t] # "loading"
      BY <3>1 DEF TabInv, Types
    <3> HIDE DEF a
    <3> QED BY <1>2, <1>3, <2>1, <3>1, <3>2, QuietEnd
  <2>3. CASE ~ok
    <3>1. EndSession(t, shown[t], boot[t])
      BY <1>9, <2>3 DEF SettleProfile
    <3> QED BY <1>1, <1>4, <2>1, <3>1, EndIsSound
  <2> QED BY <2>2, <2>3
<1> QED BY <1>5, <1>6, <1>7, <1>8, <1>9 DEF Settle

LEMMA DeliverIsSound ==
  ASSUME TabInv, NEW c \in Call, Deliver(c)
  PROVE  TabInv'
<1>1. /\ call[c] # Idle /\ call[c].pc = "answered" /\ call[c] \in AnyCall /\ Shape(call[c])
      /\ call[c].answer \in Answers /\ call[c].tab \in Tab
  BY DEF Deliver, TabInv, Types, Shapes, Shape, AnyCall
<1>2. jar' \in Token \cup {NoToken} /\ UNCHANGED server /\ call[c].answer.ok \in BOOLEAN
  BY <1>1 DEF Deliver, TabInv, Types, Answers
<1>3. CASE Unauthorized(c)
  <2>1. PICK d \in Free : AwaitRefresh(c, d)
    BY <1>3 DEF Deliver
  <2>2. call[c].kind \in {"data", "me"}
    BY <1>3 DEF Unauthorized, RefreshesOn401
  <2> QED BY <1>1, <1>2, <2>1, <2>2, AwaitRefreshIsSound
<1>4. CASE ~Unauthorized(c)
  <2>1. Settle(c, call[c].answer.ok)
    BY <1>4 DEF Deliver
  <2> QED BY <1>1, <1>2, <2>1, SettleIsSound
<1> QED BY <1>3, <1>4

LEMMA LoseIsSound ==
  ASSUME TabInv, NEW c \in Call, Lose(c)
  PROVE  TabInv'
<1>1. call[c] # Idle /\ call[c].pc # "waiting" /\ call[c] \in AnyCall /\ UNCHANGED <<server, jar>>
  BY DEF Lose, TabInv, Types
<1>2. CASE call[c].tab = NoTab
  <2>1. call' = [call EXCEPT ![c] = Idle] /\ UNCHANGED tabs
    BY <1>2 DEF Lose
  <2>2. call'[c] = Idle /\ \A d \in Call : d # c => call'[d] = call[d]
    BY <2>1 DEF TabInv, Types
  <2>3. Types' /\ Filed' /\ Shapes'
    BY <1>1, <2>1, <2>2 DEF TabInv, Types, Filed, Shapes, server, tabs
  <2>4. ASSUME NEW r \in Tab PROVE TabSound(r)'
    <3>1. \A d \in Call : Stays(d, r)
      BY <1>2, <2>2, BrowserAssumption DEF Stays, Busy
    <3>2. TabSound(r) /\ inFlight[r] \in Call \cup {NoCall} /\ boot[r] \in Call \cup {NoCall}
      BY DEF TabInv, Types
    <3> QED BY <2>1, <3>1, <3>2, TabUndisturbed DEF tabs
  <2> QED BY <2>3, <2>4 DEF TabInv
<1>3. CASE call[c].tab # NoTab
  <2>1. Settle(c, FALSE) /\ call[c].tab \in Tab /\ jar' \in Token \cup {NoToken}
    BY <1>1, <1>3 DEF Lose, AnyCall, TabInv, Types
  <2> QED BY <1>1, <2>1, SettleIsSound
<1> QED BY <1>2, <1>3

-----------------------------------------------------------------------------
\* The tabs' invariant holds from the start and every step keeps it.
LEMMA TabsStaySound == Spec => []TabInv
<1>1. Init => TabInv
  BY OpenedIsSound DEF Init
<1>2. TabInv /\ [Next]_vars => TabInv'
  <2> SUFFICES ASSUME TabInv, [Next]_vars PROVE TabInv'
    OBVIOUS
  <2>1. CASE \E t \in Tab, c \in Call : Load(t, c)
    BY <2>1, LoadIsSound
  <2>2. CASE \E t \in Tab, c \in Call : Ask(t, c)
    BY <2>2, AskIsSound
  <2>3. CASE \E t \in Tab, c \in Call, u \in User : SignIn(t, c, u)
    BY <2>3, SignInIsSound
  <2>4. CASE \E t \in Tab, c \in Call : SignOut(t, c)
    BY <2>4, SignOutIsSound
  <2>5. CASE \E t \in Tab : AccessExpires(t)
    BY <2>5, AccessExpiresIsSound
  <2>6. CASE \E c \in Call : Serve(c)
    BY <2>6, ServeRefreshIsSound, ServeLoginIsSound, ServeLogoutIsSound, ServeDataIsSound,
       ServeErrorIsSound DEF Serve
  <2>7. CASE \E s \in Token : GraceElapses(s)
    BY <2>7, GraceElapsesIsSound
  <2>8. CASE \E c \in Call : Deliver(c)
    BY <2>8, DeliverIsSound
  <2>9. CASE \E c \in Call : Lose(c)
    BY <2>9, LoseIsSound
  <2>10. CASE UNCHANGED vars
    <3>1. UNCHANGED <<token, owner, jar, access, generation, inFlight, boot, status, shown, call>>
      BY <2>10 DEF vars, server, tabs
    <3>2. Types' /\ Filed' /\ Shapes'
      BY <3>1 DEF TabInv, Types, Filed, Shapes
    <3>3. \A t \in Tab : TabSound(t)'
      BY <3>1 DEF TabInv, TabSound, InFlightRuns, OwnRefreshes, WaitsForRefresh, LoadingGoesOn,
                  StoresOwn, OnItsWay, Busy
    <3> QED BY <3>2, <3>3 DEF TabInv
  <2> QED BY <2>1, <2>2, <2>3, <2>4, <2>5, <2>6, <2>7, <2>8, <2>9, <2>10 DEF Next
<1> QED BY <1>1, <1>2, PTL DEF Spec

\* A token a refresh brought is only ever stored in the session that asked for
\* it (session.ts: generation, rotate).
THEOREM StoredTokensAreOwn == Spec => []StoredByOwnSession
<1>1. TabInv => StoredByOwnSession
  BY DEF TabInv, TabSound, StoresOwn, StoredByOwnSession
<1> QED BY <1>1, TabsStaySound, PTL

\* However many requests of a tab meet a 401, its running session has one
\* refresh in the air (session.ts: inFlight).
THEOREM RefreshesAreShared == Spec => []OneRefreshInFlight
<1>1. ASSUME TabInv, NEW t \in Tab
      PROVE  Cardinality({c \in Busy(t) : call[c].kind = "refresh" /\ call[c].gen = generation[t]})
               <= 1
  <2> DEFINE S == {c \in Busy(t) : call[c].kind = "refresh" /\ call[c].gen = generation[t]}
  <2>1. S \subseteq {inFlight[t]}
    BY <1>1 DEF TabInv, TabSound, OwnRefreshes
  <2>2. S = {} \/ S = {inFlight[t]}
    BY <2>1
  <2> HIDE DEF S
  <2>3. Cardinality(S) <= 1
    <3>1. Cardinality({}) = 0 /\ Cardinality({inFlight[t]}) = 1
      BY FS_EmptySet, FS_Singleton
    <3> QED BY <2>2, <3>1
  <2> QED BY <2>3 DEF S
<1>2. TabInv => OneRefreshInFlight
  BY <1>1 DEF OneRefreshInFlight
<1> QED BY <1>2, TabsStaySound, PTL

\* No page and no request waits for a call that nobody will settle (client.ts:
\* the single retry; session.ts: finally; AuthProvider's first effect).
THEOREM WaitingIsNotInVain == Spec => []NobodyWaitsInVain
<1>1. TabInv => NobodyWaitsInVain
  BY DEF TabInv, TabSound, WaitsForRefresh, LoadingGoesOn, OnItsWay, NobodyWaitsInVain
<1> QED BY <1>1, TabsStaySound, PTL

-----------------------------------------------------------------------------
(* The steps, as the cookie sees them. *)

\* A call goes on, ends, or starts with the cookie of the moment.
GoesOn(d) == /\ call[d] # Idle /\ call'[d] # Idle
             /\ call'[d].kind = call[d].kind /\ call'[d].pc = call[d].pc
             /\ call'[d].cookie = call[d].cookie /\ call'[d].answer = call[d].answer
Starts(d) == /\ call'[d] # Idle /\ call'[d].pc # "answered"
             /\ call'[d].cookie = jar' \/ call'[d].cookie \notin Token
             /\ call'[d].kind = "refresh" => call'[d].cookie = jar'
Moves(d)  == call'[d] = Idle \/ GoesOn(d) \/ Starts(d)

LEMMA MovesBring ==
  ASSUME \A d \in Call : Moves(d)
  PROVE  /\ \A s \in Token : Carried(s)' => Carried(s) \/ s = jar'
         /\ \A d \in Call, s \in Token : Brings(d, s)' => Brings(d, s) /\ call'[d].kind = call[d].kind
         /\ \A d \in Call : call'[d] # Idle /\ call'[d].pc = "answered" => GoesOn(d)
         /\ \A d \in Call : call'[d] # Idle /\ call'[d].kind = "refresh" /\ call'[d].pc = "sent"
              => GoesOn(d) \/ call'[d].cookie = jar'
BY DEF Moves, GoesOn, Starts, Carried, Carries, Brings

\* What the pages do while the cookie stays.
LEMMA PagesKeepCookie ==
  ASSUME TabInv, CookieInv, UNCHANGED <<server, jar, quiet>>, \A d \in Call : Moves(d)
  PROVE  CookieInv'
<1>1. /\ \A s \in Token : Carried(s)' => Carried(s)
      /\ \A d \in Call, s \in Token : Brings(d, s)' => Brings(d, s) /\ call'[d].kind = call[d].kind
  BY MovesBring DEF Carried
<1>2. token' = token /\ owner' = owner /\ jar' = jar /\ quiet' = quiet
  BY DEF server
<1>3. Issued'
  BY <1>1, <1>2 DEF CookieInv, Issued
<1>4. \A c \in Call : FreshSignIn(c)'
  BY <1>1, <1>2 DEF CookieInv, FreshSignIn
<1>5. Lasts'
  <2> SUFFICES ASSUME quiet PROVE LastsIn(token[jar].family)'
    BY <1>2 DEF Lasts
  <2>1. PICK f : f = token[jar].family
    OBVIOUS
  <2>2. LastsIn(f)
    BY <2>1 DEF CookieInv, Lasts
  <2>3. Usable(jar, f)' /\ FamilyLive(f)'
    BY <1>2, <2>2 DEF LastsIn, Usable, FamilyLive
  <2>4. \A c \in Call : call'[c] # Idle /\ call'[c].kind = "refresh" /\ call'[c].pc = "sent" =>
          \/ Usable(call[c].cookie, f) /\ call'[c].cookie = call[c].cookie
          \/ call'[c].cookie = jar
    BY <1>2, <2>2, MovesBring DEF LastsIn, GoesOn
  <2>5. \A c \in Call : call'[c] # Idle /\ call'[c].kind = "refresh" /\ call'[c].pc = "sent" =>
          Usable(call[c].cookie, f)'
    BY <1>2, <2>2, <2>4 DEF Usable, LastsIn
  <2>6. \A c \in Call : call'[c] # Idle /\ call'[c].pc = "answered" /\ call'[c].kind # "login" =>
          call'[c].answer.set \in Token \cup {Keep}
    BY <2>2, MovesBring DEF LastsIn, GoesOn
  <2>7. \A c \in Call, n \in Token : Brings(c, n)' /\ call'[c].kind # "login" =>
          /\ token'[n] = [family |-> f, state |-> "live"]
          /\ ~Carried(n)'
          /\ \A d \in Call : d # c => ~Brings(d, n)'
    BY <1>1, <1>2, <2>2 DEF LastsIn
  <2>8. LastsIn(f)'
    BY <2>3, <2>5, <2>6, <2>7 DEF LastsIn
  <2> QED BY <1>2, <2>1, <2>8
<1> QED BY <1>3, <1>4, <1>5 DEF CookieInv

\* An answer whose Set-Cookie is a token.
LEMMA CookieArrives ==
  ASSUME TabInv, CookieInv, UNCHANGED server, NEW c \in Call, NEW n \in Token,
         Brings(c, n), jar' = n, \A d \in Call : Moves(d),
         call'[c] # Idle => call'[c].pc # "answered",
         quiet' = IF call[c].kind = "login"
                  THEN \A d \in Call \ {c} :
                         call[d] = Idle \/ call[d].kind \notin {"refresh", "login", "logout"}
                  ELSE quiet
  PROVE  CookieInv'
<1>1. /\ \A s \in Token : Carried(s)' => Carried(s) \/ s = n
      /\ \A d \in Call, s \in Token :
           Brings(d, s)' => d # c /\ Brings(d, s) /\ call'[d].kind = call[d].kind
  BY MovesBring DEF Brings
<1>2. token' = token /\ owner' = owner
  BY DEF server
<1>3. Issued'
  BY <1>1, <1>2 DEF CookieInv, Issued
<1>4. ASSUME NEW d \in Call PROVE FreshSignIn(d)'
  <2> SUFFICES ASSUME NEW m \in Token, Brings(d, m)', call'[d].kind = "login"
               PROVE  /\ token[m].state = "live"
                      /\ \A s \in Token : Carried(s)' => token[s].family # token[m].family
                      /\ \A e \in Call, k \in Token :
                           e # d /\ Brings(e, k)' => token[k].family # token[m].family
    BY <1>2 DEF FreshSignIn
  <2>1. d # c /\ Brings(d, m) /\ call[d].kind = "login"
    BY <1>1
  <2>2. /\ token[m].state = "live"
        /\ \A s \in Token : Carried(s) => token[s].family # token[m].family
        /\ \A e \in Call, k \in Token : e # d /\ Brings(e, k) => token[k].family # token[m].family
    BY <2>1 DEF CookieInv, FreshSignIn
  <2> QED BY <1>1, <2>1, <2>2
<1>5. ASSUME quiet' PROVE LastsIn(token[jar].family)'
  <2>1. PICK f : f = token[n].family
    OBVIOUS
  <2>2. CASE call[c].kind = "login"
    <3>1. \A d \in Call : d # c /\ call[d] # Idle => call[d].kind \in {"data", "me"}
      <4>1. \A d \in Call : d # c /\ call[d] # Idle =>
              call[d].kind \notin {"refresh", "login", "logout"} /\ call[d] \in AnyCall
        BY <1>5, <2>2 DEF TabInv, Types
      <4> QED BY <4>1 DEF AnyCall, Kind
    <3>2. token[n].state = "live"
      BY <2>2 DEF CookieInv, FreshSignIn
    <3>3. Usable(jar, f)' /\ FamilyLive(f)'
      <4>1. token[n] = [family |-> f, state |-> "live"]
        BY <2>1, <3>2 DEF TabInv, Types, Row
      <4> QED BY <1>2, <4>1 DEF Usable, FamilyLive
    <3>4. \A d \in Call : call'[d] # Idle /\ call'[d].kind = "refresh" /\ call'[d].pc = "sent" =>
            call'[d].cookie = jar'
      <4>1. \A d \in Call : GoesOn(d) => call'[d].kind # "refresh"
        BY <2>2, <3>1 DEF GoesOn
      <4> QED BY <4>1, MovesBring
    <3>5. \A d \in Call : call'[d] # Idle /\ call'[d].kind = "refresh" /\ call'[d].pc = "sent" =>
            Usable(call[d].cookie, f)'
      BY <3>3, <3>4 DEF Usable
    <3>6. \A d \in Call : call'[d] # Idle /\ call'[d].pc = "answered" =>
            call'[d].answer.set = Keep
      <4> SUFFICES ASSUME NEW d \in Call, call'[d] # Idle, call'[d].pc = "answered"
                   PROVE  call'[d].answer.set = Keep
        OBVIOUS
      <4>1. d # c /\ GoesOn(d)
        BY MovesBring
      <4>2. call[d].pc = "answered" /\ call[d].kind \in {"data", "me"} /\ call[d] # Idle
        BY <3>1, <4>1 DEF GoesOn
      <4> QED BY <4>1, <4>2 DEF GoesOn, TabInv, Shapes, Shape
    <3>7. \A d \in Call, m \in Token : ~Brings(d, m)'
      BY <3>6, BrowserAssumption DEF Brings
    <3>8. LastsIn(f)'
      BY <3>3, <3>5, <3>6, <3>7 DEF LastsIn
    <3> QED BY <1>2, <2>1, <3>8
  <2>3. CASE call[c].kind # "login"
    <3>1. LastsIn(token[jar].family)
      BY <1>5, <2>3 DEF CookieInv, Lasts
    <3>2. /\ f = token[jar].family /\ token[n] = [family |-> f, state |-> "live"]
          /\ \A d \in Call : d # c => ~Brings(d, n)
      BY <2>1, <2>3, <3>1 DEF LastsIn
    <3>3. LastsIn(f)
      BY <3>1, <3>2
    <3>4. Usable(jar, f)' /\ FamilyLive(f)'
      BY <1>2, <3>2 DEF Usable, FamilyLive
    <3>5. \A d \in Call : call'[d] # Idle /\ call'[d].kind = "refresh" /\ call'[d].pc = "sent" =>
            \/ Usable(call[d].cookie, f) /\ call'[d].cookie = call[d].cookie
            \/ call'[d].cookie = jar'
      BY <3>3, MovesBring DEF LastsIn, GoesOn
    <3>6. \A d \in Call : call'[d] # Idle /\ call'[d].kind = "refresh" /\ call'[d].pc = "sent" =>
            Usable(call[d].cookie, f)'
      BY <1>2, <3>4, <3>5 DEF Usable
    <3>7. \A d \in Call : call'[d] # Idle /\ call'[d].pc = "answered" /\ call'[d].kind # "login" =>
            call'[d].answer.set \in Token \cup {Keep}
      BY <3>3, MovesBring DEF LastsIn, GoesOn
    <3>8. \A d \in Call, m \in Token : Brings(d, m)' /\ call'[d].kind # "login" =>
            /\ token'[m] = [family |-> f, state |-> "live"]
            /\ ~Carried(m)'
            /\ \A e \in Call : e # d => ~Brings(e, m)'
      BY <1>1, <1>2, <3>2, <3>3 DEF LastsIn
    <3>9. LastsIn(f)'
      BY <3>4, <3>6, <3>7, <3>8 DEF LastsIn
    <3> QED BY <1>2, <2>1, <3>9
  <2> QED BY <2>2, <2>3
<1>6. Lasts'
  BY <1>5 DEF Lasts
<1> QED BY <1>3, <1>4, <1>6 DEF CookieInv

\* An answer that clears the cookie.
LEMMA CookieGoes ==
  ASSUME TabInv, CookieInv, UNCHANGED server, jar' = NoToken, \A d \in Call : Moves(d), ~quiet'
  PROVE  CookieInv'
<1>1. /\ \A s \in Token : Carried(s)' => Carried(s)
      /\ \A d \in Call, s \in Token : Brings(d, s)' => Brings(d, s) /\ call'[d].kind = call[d].kind
  BY MovesBring, BrowserAssumption
<1>2. token' = token /\ owner' = owner
  BY DEF server
<1>3. Issued'
  BY <1>1, <1>2 DEF CookieInv, Issued
<1>4. \A c \in Call : FreshSignIn(c)'
  BY <1>1, <1>2 DEF CookieInv, FreshSignIn
<1> QED BY <1>3, <1>4 DEF CookieInv, Lasts

-----------------------------------------------------------------------------
LEMMA SettleMoves ==
  ASSUME TabInv, NEW c \in Call, call[c] # Idle, call[c].pc # "waiting", call[c].tab \in Tab,
         NEW ok, Settle(c, ok), jar' \in Token \cup {NoToken}
  PROVE  /\ \A d \in Call : Moves(d)
         /\ call'[c] # Idle => call'[c].pc # "answered"
<1>1. \A d \in Call : call'[d] = call[d] => Moves(d)
  BY DEF Moves, GoesOn
<1>2. CASE call' = [call EXCEPT ![c] = Idle]
  BY <1>1, <1>2 DEF Moves, TabInv, Types
<1>3. CASE SettleRefresh(c, ok) /\ ok /\ StillOurs(c)
  <2> DEFINE t == call[c].tab
  <2> DEFINE user == call[c].answer.user
  <2> DEFINE x == Sent("me", t, user, generation[t], jar')
  <2>1. Refreshed(c, t)
    BY <1>3 DEF SettleRefresh
  <2>2. /\ \A w \in Waiters(c) :
             /\ w # c /\ call'[w] = [call[w] EXCEPT !.pc = "sent", !.on = NoCall, !.user = user]
        /\ call'[c] = x \/ call'[c] = Idle
        /\ \A d \in Call : d # c /\ d \notin Waiters(c) => call'[d] = call[d]
    BY <2>1, WaitersAre DEF Refreshed
  <2>3. x.pc = "sent" /\ x.cookie = NoToken /\ x.kind = "me"
    BY DEF Sent
  <2>4. Moves(c)
    BY <2>2, <2>3, BrowserAssumption DEF Moves, Starts
  <2>5. ASSUME NEW w \in Waiters(c) PROVE Moves(w)
    <3>1. /\ call[w] \in AnyCall /\ call[w].kind \in {"data", "me"} /\ call[w].cookie = NoToken
      BY <2>5, WaitersAre DEF TabInv, Types, Shapes, Shape, Busy
    <3>2. call'[w].kind = call[w].kind /\ call'[w].pc = "sent" /\ call'[w].cookie = NoToken
      BY <2>2, <3>1 DEF AnyCall
    <3> QED BY <3>1, <3>2, BrowserAssumption DEF Moves, Starts
  <2>6. \A d \in Call : Moves(d)
    BY <1>1, <2>2, <2>4, <2>5
  <2> HIDE DEF x
  <2> QED BY <2>2, <2>3, <2>6
<1>4. CASE SettleRefresh(c, ok) /\ ~(ok /\ StillOurs(c))
  <2>1. call' = [d \in Call |-> IF d \in Waiters(c) \cup {c} THEN Idle ELSE call[d]]
    BY <1>4 DEF SettleRefresh, NotRefreshed
  <2> QED BY <1>1, <2>1 DEF Moves
<1> QED BY <1>2, <1>3, <1>4 DEF Settle, SettleLogin, SettleLogout, SettleData, SettleProfile

LEMMA AwaitMoves ==
  ASSUME TabInv, NEW c \in Call, call[c] # Idle, call[c].kind \in {"data", "me"},
         NEW e \in Free, AwaitRefresh(c, e), call[c].tab \in Tab, jar' \in Token \cup {NoToken}
  PROVE  /\ \A d \in Call : Moves(d)
         /\ call'[c].pc # "answered"
<1> DEFINE t == call[c].tab
<1> DEFINE y == Sent("refresh", t, NoUser, generation[t], jar')
<1>1. e \in Call /\ call[e] = Idle /\ e # c
  BY FreeIsIdle
<1>2. call[c] \in AnyCall /\ call[c].cookie = NoToken
  BY DEF TabInv, Types, Shapes, Shape
<1>3. y.pc = "sent" /\ y.cookie = jar'
  BY DEF Sent
<1>4. \E o : call'[c] = [call[c] EXCEPT !.pc = "waiting", !.retried = TRUE, !.answer = Unanswered,
                                        !.on = o]
  BY DEF AwaitRefresh
<1>5. call'[c].kind = call[c].kind /\ call'[c].pc = "waiting" /\ call'[c].cookie = NoToken
  BY <1>2, <1>4 DEF AnyCall
<1>6. /\ \A d \in Call : d # c /\ d # e => call'[d] = call[d]
      /\ call'[e] = Idle \/ call'[e] = y
  BY <1>1 DEF AwaitRefresh
<1> HIDE DEF y
<1>7. Moves(c)
  BY <1>5, BrowserAssumption DEF Moves, Starts
<1>8. Moves(e)
  BY <1>3, <1>6 DEF Moves, Starts
<1>9. \A d \in Call : call'[d] = call[d] => Moves(d)
  BY DEF Moves, GoesOn
<1> QED BY <1>5, <1>6, <1>7, <1>8, <1>9

LEMMA DeliverKeepsCookie ==
  ASSUME TabInv, CookieInv, NEW c \in Call, Deliver(c)
  PROVE  CookieInv'
<1>1. /\ call[c] # Idle /\ call[c].pc = "answered" /\ call[c].answer \in Answers
      /\ call[c].tab \in Tab /\ Shape(call[c])
  BY DEF Deliver, TabInv, Types, AnyCall, Shapes, Shape
<1> DEFINE set == call[c].answer.set
<1>2. /\ set \in Token \cup {NoToken, Keep} /\ UNCHANGED server
      /\ jar' = IF set = Keep THEN jar ELSE set
      /\ jar' \in Token \cup {NoToken}
  BY <1>1 DEF Deliver, Answers, TabInv, Types
<1>3. (\A d \in Call : Moves(d)) /\ (call'[c] # Idle => call'[c].pc # "answered")
  <2>1. CASE Unauthorized(c)
    <3>1. PICK e \in Free : AwaitRefresh(c, e)
      BY <2>1 DEF Deliver
    <3>2. call[c].kind \in {"data", "me"}
      BY <2>1 DEF Unauthorized, RefreshesOn401
    <3> QED BY <1>1, <1>2, <3>1, <3>2, AwaitMoves
  <2>2. CASE ~Unauthorized(c)
    <3>1. Settle(c, call[c].answer.ok)
      BY <2>2 DEF Deliver
    <3> QED BY <1>1, <1>2, <3>1, SettleMoves
  <2> QED BY <2>1, <2>2
<1>4. call[c].kind = "login" => IF call[c].answer.ok THEN set \in Token ELSE set = Keep
  BY <1>1 DEF Shape
<1>5. quiet' = IF call[c].kind = "login" /\ call[c].answer.ok
               THEN \A d \in Call \ {c} :
                      call[d] = Idle \/ call[d].kind \notin {"refresh", "login", "logout"}
               ELSE quiet
  BY DEF Deliver
<1>6. CASE set = Keep
  <2>1. jar' = jar /\ quiet' = quiet
    BY <1>2, <1>4, <1>5, <1>6, BrowserAssumption
  <2> QED BY <1>2, <1>3, <2>1, PagesKeepCookie
<1>7. CASE set \in Token
  <2>1. Brings(c, set) /\ jar' = set
    BY <1>1, <1>2, <1>7, BrowserAssumption DEF Brings
  <2>2. call[c].kind = "login" => call[c].answer.ok
    BY <1>4, <1>7, BrowserAssumption
  <2>3. PICK n \in Token : n = set
    BY <1>7
  <2>4. Brings(c, n) /\ jar' = n
    BY <2>1, <2>3 DEF Brings
  <2>5. quiet' = IF call[c].kind = "login"
                 THEN \A d \in Call \ {c} :
                        call[d] = Idle \/ call[d].kind \notin {"refresh", "login", "logout"}
                 ELSE quiet
    BY <1>5, <2>2
  <2> QED BY <1>2, <1>3, <2>4, <2>5, CookieArrives
<1>8. CASE set = NoToken
  <2>1. call[c].kind # "login" /\ quiet' = quiet
    BY <1>4, <1>5, <1>8, BrowserAssumption
  <2>2. ~quiet
    BY <1>1, <1>8, <2>1, BrowserAssumption DEF CookieInv, Lasts, LastsIn
  <2> QED BY <1>2, <1>3, <1>8, <2>1, <2>2, CookieGoes, BrowserAssumption
<1> QED BY <1>2, <1>6, <1>7, <1>8

-----------------------------------------------------------------------------
\* A page that loads, asks, signs in or out, or loses a call.
LEMMA LoadKeepsCookie ==
  ASSUME TabInv, CookieInv, NEW t \in Tab, NEW c \in Call, Load(t, c)
  PROVE  CookieInv'
<1> DEFINE x == Sent("refresh", t, NoUser, generation[t] + 1, jar)
<1>1. x.pc = "sent" /\ x.cookie = jar /\ jar' = jar /\ UNCHANGED <<server, quiet>>
  BY DEF Sent, Load
<1>2. /\ call'[c] = x
      /\ \A d \in Call : d # c => \/ call'[d] = call[d]
                                 \/ call'[d] = Idle
                                 \/ (d \in Busy(t) /\ call'[d] = [call[d] EXCEPT !.tab = NoTab])
  BY DEF Load
<1> HIDE DEF x
<1>3. Moves(c)
  BY <1>1, <1>2 DEF Moves, Starts
<1>4. ASSUME NEW d \in Call, d # c PROVE Moves(d)
  <2>1. CASE call'[d] = call[d] \/ call'[d] = Idle
    BY <2>1 DEF Moves, GoesOn
  <2>2. CASE d \in Busy(t) /\ call'[d] = [call[d] EXCEPT !.tab = NoTab]
    <3>1. call[d] \in AnyCall /\ call[d] # Idle
      BY <2>2 DEF TabInv, Types, Busy
    <3>2. /\ call'[d] \in AnyCall /\ call'[d].kind = call[d].kind /\ call'[d].pc = call[d].pc
          /\ call'[d].cookie = call[d].cookie /\ call'[d].answer = call[d].answer
      BY <2>2, <3>1 DEF AnyCall
    <3> QED BY <3>1, <3>2, IdleIsNoCall DEF Moves, GoesOn
  <2> QED BY <1>2, <1>4, <2>1, <2>2
<1> QED BY <1>1, <1>3, <1>4, PagesKeepCookie

LEMMA StartKeepsCookie ==
  ASSUME TabInv, CookieInv, NEW t \in Tab, NEW c \in Call, NEW kind \in {"data", "login", "logout"},
         NEW u, call' = [call EXCEPT ![c] = Sent(kind, t, u, generation[t], jar)],
         UNCHANGED <<server, jar, quiet>>
  PROVE  CookieInv'
<1> DEFINE x == Sent(kind, t, u, generation[t], jar)
<1>1. x.pc = "sent" /\ x.kind = kind /\ (x.cookie = jar \/ x.cookie = NoToken)
  BY DEF Sent
<1> HIDE DEF x
<1>2. call'[c] = x /\ \A d \in Call : d # c => call'[d] = call[d]
  BY DEF x, TabInv, Types
<1>3. Moves(c)
  BY <1>1, <1>2, BrowserAssumption DEF Moves, Starts
<1>4. \A d \in Call : d # c => Moves(d)
  BY <1>2 DEF Moves, GoesOn
<1> QED BY <1>3, <1>4, PagesKeepCookie

LEMMA LoseKeepsCookie ==
  ASSUME TabInv, CookieInv, NEW c \in Call, Lose(c)
  PROVE  CookieInv'
<1>1. /\ call[c] # Idle /\ call[c].pc # "waiting" /\ UNCHANGED <<server, jar, quiet>>
      /\ call[c].tab \in Tab \cup {NoTab} /\ jar' \in Token \cup {NoToken}
  BY DEF Lose, TabInv, Types, AnyCall
<1>2. \A d \in Call : Moves(d)
  <2>1. CASE call[c].tab = NoTab
    BY <2>1 DEF Lose, Moves, GoesOn, TabInv, Types
  <2>2. CASE call[c].tab # NoTab
    BY <1>1, <2>2, SettleMoves DEF Lose
  <2> QED BY <2>1, <2>2
<1> QED BY <1>1, <1>2, PagesKeepCookie

-----------------------------------------------------------------------------
\* What an answer of the server changes in what the browser sends and gets.
LEMMA ReplyBrings ==
  ASSUME TabInv, NEW c \in Call, call[c] # Idle, call[c].pc = "sent", NEW ok, NEW user, NEW set,
         Reply(c, ok, user, set), jar' = jar
  PROVE  /\ \A d \in Call : d # c => call'[d] = call[d]
         /\ call'[c] # Idle => /\ call'[c].pc = "answered" /\ call'[c].kind = call[c].kind
                               /\ call'[c].answer.set = set
         /\ \A s \in Token : Carried(s)' => Carried(s)
         /\ \A d \in Call, s \in Token : Brings(d, s)' =>
              call'[d].kind = call[d].kind /\ ((d # c /\ Brings(d, s)) \/ (d = c /\ s = set))
<1>1. call[c] \in AnyCall
  BY DEF TabInv, Types
<1>2. \A d \in Call : d # c => call'[d] = call[d]
  BY DEF Reply
<1>3. call'[c] # Idle => /\ call'[c].pc = "answered" /\ call'[c].kind = call[c].kind
                         /\ call'[c].answer.set = set
  BY <1>1 DEF Reply, AnyCall, TabInv, Types
<1>4. \A s \in Token : Carried(s)' => Carried(s)
  BY <1>2, <1>3 DEF Carried, Carries
<1>5. \A d \in Call, s \in Token : Brings(d, s)' =>
        call'[d].kind = call[d].kind /\ ((d # c /\ Brings(d, s)) \/ (d = c /\ s = set))
  BY <1>2, <1>3 DEF Brings
<1> QED BY <1>2, <1>3, <1>4, <1>5

\* An answer that brings no token, from a server that spends tokens of the
\* families f its callers name.
LEMMA RefusalKeepsCookie ==
  ASSUME TabInv, CookieInv, NEW c \in Call, call[c] # Idle, call[c].pc = "sent", NEW ok, NEW user,
         NEW set \in {NoToken, Keep}, Reply(c, ok, user, set), UNCHANGED <<owner, jar>>,
         token' = token \/ \E s \in Token : Carries(c, s) /\ token' = Ended(token[s].family),
         quiet' => quiet /\ set = Keep /\ token' = token
  PROVE  CookieInv'
<1>1. /\ \A d \in Call : d # c => call'[d] = call[d]
      /\ call'[c] # Idle => /\ call'[c].pc = "answered" /\ call'[c].kind = call[c].kind
                            /\ call'[c].answer.set = set
      /\ \A s \in Token : Carried(s)' => Carried(s)
      /\ \A d \in Call, s \in Token : Brings(d, s)' =>
           call'[d].kind = call[d].kind /\ ((d # c /\ Brings(d, s)) \/ (d = c /\ s = set))
  BY ReplyBrings
<1>2. \A d \in Call, s \in Token : Brings(d, s)' => Brings(d, s) /\ call'[d].kind = call[d].kind
  BY <1>1, BrowserAssumption
<1>3. \A s \in Token : /\ token'[s].family = token[s].family
                       /\ token'[s].state = "unissued" <=> token[s].state = "unissued"
  BY EndedIs DEF TabInv, Types
<1>4. Issued'
  BY <1>1, <1>2, <1>3 DEF CookieInv, Issued
<1>5. ASSUME NEW d \in Call PROVE FreshSignIn(d)'
  <2> SUFFICES ASSUME NEW m \in Token, Brings(d, m)', call'[d].kind = "login"
               PROVE  /\ token'[m].state = "live"
                      /\ \A s \in Token : Carried(s)' => token'[s].family # token'[m].family
                      /\ \A e \in Call, k \in Token :
                           e # d /\ Brings(e, k)' => token'[k].family # token'[m].family
    BY DEF FreshSignIn
  <2>1. Brings(d, m) /\ call[d].kind = "login"
    BY <1>2
  <2>2. /\ token[m].state = "live"
        /\ \A s \in Token : Carried(s) => token[s].family # token[m].family
        /\ \A e \in Call, k \in Token : e # d /\ Brings(e, k) => token[k].family # token[m].family
    BY <2>1 DEF CookieInv, FreshSignIn
  <2>3. token'[m].state = "live"
    <3>1. CASE token' = token
      BY <2>2, <3>1
    <3>2. ASSUME NEW s \in Token, Carries(c, s), token' = Ended(token[s].family)
          PROVE  token'[m].state = "live"
      <4>1. token[s].family # token[m].family
        BY <2>2, <3>2 DEF Carried
      <4> QED BY <2>2, <3>2, <4>1, EndedIs DEF TabInv, Types
    <3> QED BY <3>1, <3>2
  <2> QED BY <1>1, <1>2, <1>3, <2>2, <2>3
<1>6. ASSUME quiet' PROVE LastsIn(token[jar].family)'
  <2>1. quiet /\ set = Keep /\ token' = token /\ jar' = jar
    BY <1>6
  <2>2. PICK f : f = token[jar].family
    OBVIOUS
  <2>3. LastsIn(f)
    BY <2>1, <2>2 DEF CookieInv, Lasts
  <2>4. Usable(jar, f)' /\ FamilyLive(f)'
    BY <2>1, <2>3 DEF LastsIn, Usable, FamilyLive
  <2>5. \A d \in Call : call'[d] # Idle /\ call'[d].kind = "refresh" /\ call'[d].pc = "sent" =>
          Usable(call[d].cookie, f)'
    BY <1>1, <2>1, <2>3 DEF LastsIn, Usable
  <2>6. \A d \in Call : call'[d] # Idle /\ call'[d].pc = "answered" /\ call'[d].kind # "login" =>
          call'[d].answer.set \in Token \cup {Keep}
    BY <1>1, <2>1, <2>3 DEF LastsIn
  <2>7. \A d \in Call, m \in Token : Brings(d, m)' /\ call'[d].kind # "login" =>
          /\ token'[m] = [family |-> f, state |-> "live"]
          /\ ~Carried(m)'
          /\ \A e \in Call : e # d => ~Brings(e, m)'
    BY <1>1, <1>2, <2>1, <2>3 DEF LastsIn
  <2>8. LastsIn(f)'
    BY <2>4, <2>5, <2>6, <2>7 DEF LastsIn
  <2> QED BY <2>1, <2>2, <2>8
<1>7. Lasts'
  BY <1>6 DEF Lasts
<1> QED BY <1>4, <1>5, <1>7 DEF CookieInv

\* A refresh that succeeds: s is spent, n is on its way to the browser.
LEMMA RotationKeepsCookie ==
  ASSUME TabInv, CookieInv, NEW c \in Call, call[c] # Idle, call[c].pc = "sent",
         call[c].kind = "refresh", NEW s \in Token, Carries(c, s), token[s].state \in {"live", "grace"},
         NEW n \in Token, token[n].state = "unissued", NEW user, Reply(c, TRUE, user, n),
         token' = [token EXCEPT ![s].state = "grace",
                                ![n] = [family |-> token[s].family, state |-> "live"]],
         UNCHANGED <<owner, jar, quiet>>
  PROVE  CookieInv'
<1>0. PICK f : f = token[s].family
  OBVIOUS
<1>1. /\ \A d \in Call : d # c => call'[d] = call[d]
      /\ call'[c] # Idle => /\ call'[c].pc = "answered" /\ call'[c].kind = call[c].kind
                            /\ call'[c].answer.set = n
      /\ \A r \in Token : Carried(r)' => Carried(r)
      /\ \A d \in Call, r \in Token : Brings(d, r)' =>
           call'[d].kind = call[d].kind /\ ((d # c /\ Brings(d, r)) \/ (d = c /\ r = n))
  BY ReplyBrings
<1>2. Carried(s) /\ s # n
  BY DEF Carried
<1>3. /\ token'[s].family = f /\ token'[s].state = "grace"
      /\ token'[n].family = f /\ token'[n].state = "live"
      /\ token'[n] = [family |-> f, state |-> "live"]
      /\ \A r \in Token : r # s /\ r # n => token'[r] = token[r]
  <2>1. token \in [Token -> Row]
    BY DEF TabInv, Types
  <2> QED BY <1>0, <1>2, <2>1 DEF Row
<1>4. \A r \in Token : Carried(r) \/ (\E d \in Call : Brings(d, r)) => r # n
  BY DEF CookieInv, Issued
<1>5. f \in Family /\ owner[f] # NoUser
  BY <1>0 DEF TabInv, Filed, CookieInv, Issued
<1>6. Issued'
  <2>1. ASSUME NEW r \in Token, Carried(r)' \/ \E d \in Call : Brings(d, r)'
        PROVE  token'[r].state # "unissued"
    <3>1. Carried(r) \/ (\E d \in Call : Brings(d, r)) \/ r = n
      BY <1>1, <2>1
    <3>2. r = n \/ token[r].state # "unissued"
      BY <3>1 DEF CookieInv, Issued
    <3> QED BY <1>3, <3>2
  <2>2. \A r \in Token : token'[r].state # "unissued" => owner[token'[r].family] # NoUser
    BY <1>3, <1>5 DEF CookieInv, Issued
  <2>3. \A r \in Token : token'[r].state = "unissued" => token'[r].family = NoFamily
    BY <1>3 DEF CookieInv, Issued
  <2> QED BY <2>1, <2>2, <2>3 DEF Issued
<1>7. ASSUME NEW d \in Call PROVE FreshSignIn(d)'
  <2> SUFFICES ASSUME NEW m \in Token, Brings(d, m)', call'[d].kind = "login"
               PROVE  /\ token'[m].state = "live"
                      /\ \A r \in Token : Carried(r)' => token'[r].family # token'[m].family
                      /\ \A e \in Call, k \in Token :
                           e # d /\ Brings(e, k)' => token'[k].family # token'[m].family
    BY DEF FreshSignIn
  <2>1. d # c /\ Brings(d, m) /\ call[d].kind = "login" /\ m # n
    BY <1>1, <1>4
  <2>2. /\ token[m].state = "live"
        /\ \A r \in Token : Carried(r) => token[r].family # token[m].family
        /\ \A e \in Call, k \in Token : e # d /\ Brings(e, k) => token[k].family # token[m].family
    BY <2>1 DEF CookieInv, FreshSignIn
  <2>3. f # token[m].family /\ m # s /\ token'[m] = token[m]
    BY <1>0, <1>2, <1>3, <2>1, <2>2
  <2>4. \A r \in Token : r # n => token'[r].family = token[r].family
    BY <1>0, <1>3
  <2>5. \A r \in Token : Carried(r)' => token'[r].family # token'[m].family
    BY <1>1, <1>4, <2>2, <2>3, <2>4
  <2>6. ASSUME NEW e \in Call, NEW k \in Token, e # d, Brings(e, k)'
        PROVE  token'[k].family # token'[m].family
    <3>1. (e # c /\ Brings(e, k)) \/ k = n
      BY <1>1, <2>6
    <3>2. CASE k = n
      BY <1>3, <2>3, <3>2
    <3>3. CASE k # n
      BY <2>2, <2>3, <2>4, <2>6, <3>1, <3>3
    <3> QED BY <3>2, <3>3
  <2> QED BY <2>2, <2>3, <2>5, <2>6
<1>8. ASSUME quiet PROVE LastsIn(token[jar].family)'
  <2>1. LastsIn(token[jar].family)
    BY <1>8 DEF CookieInv, Lasts
  <2>2. Usable(s, token[jar].family)
    BY <2>1 DEF LastsIn, Carries
  <2>3. f = token[jar].family /\ jar \in Token /\ jar # n
    BY <1>0, <1>4, <2>1, <2>2 DEF LastsIn, Usable, Carried
  <2>4. LastsIn(f)
    BY <2>1, <2>3
  <2>5. \A r \in Token : Usable(r, f) /\ r # n => Usable(r, f)'
    BY <1>3 DEF Usable
  <2>6. Usable(jar, f)' /\ FamilyLive(f)'
    <3>1. Usable(jar, f)
      BY <2>4 DEF LastsIn
    <3> QED BY <1>3, <2>3, <2>5, <3>1 DEF Usable, FamilyLive
  <2>7. ASSUME NEW d \in Call, call'[d] # Idle, call'[d].kind = "refresh", call'[d].pc = "sent"
        PROVE  Usable(call[d].cookie, f)'
    <3>1. d # c /\ call'[d] = call[d]
      BY <1>1, <2>7
    <3>2. PICK r \in Token : r = call[d].cookie /\ Usable(r, f)
      BY <2>4, <2>7, <3>1 DEF LastsIn, Usable
    <3>3. Carried(r)
      BY <2>7, <3>1, <3>2 DEF Carried, Carries
    <3> QED BY <1>4, <2>5, <3>1, <3>2, <3>3 DEF Usable
  <2>8. \A d \in Call : call'[d] # Idle /\ call'[d].pc = "answered" /\ call'[d].kind # "login" =>
          call'[d].answer.set \in Token \cup {Keep}
    BY <1>1, <2>4 DEF LastsIn
  <2>9. ASSUME NEW d \in Call, NEW m \in Token, Brings(d, m)', call'[d].kind # "login"
        PROVE  /\ token'[m] = [family |-> f, state |-> "live"]
               /\ ~Carried(m)'
               /\ \A e \in Call : e # d => ~Brings(e, m)'
    <3>1. CASE d = c
      <4>1. m = n
        BY <1>1, <2>9, <3>1
      <4> QED BY <1>1, <1>3, <1>4, <3>1, <4>1
    <3>2. CASE d # c
      <4>1. Brings(d, m) /\ call[d].kind # "login" /\ m # n
        BY <1>1, <1>4, <2>9, <3>2
      <4>2. /\ token[m] = [family |-> f, state |-> "live"] /\ ~Carried(m)
            /\ \A e \in Call : e # d => ~Brings(e, m)
        BY <2>4, <4>1 DEF LastsIn
      <4>3. token'[m] = token[m]
        BY <1>2, <1>3, <4>1, <4>2
      <4> QED BY <1>1, <4>1, <4>2, <4>3
    <3> QED BY <3>1, <3>2
  <2>10. LastsIn(f)'
    BY <2>6, <2>7, <2>8, <2>9 DEF LastsIn
  <2>11. token'[jar].family = f
    BY <2>6 DEF Usable
  <2> QED BY <2>10, <2>11
<1>9. Lasts'
  BY <1>8 DEF Lasts
<1> QED BY <1>6, <1>7, <1>9 DEF CookieInv

LEMMA ServeRefreshKeepsCookie ==
  ASSUME TabInv, CookieInv, NEW c \in Call, ServeRefresh(c)
  PROVE  CookieInv'
<1>1. /\ call[c] # Idle /\ call[c].kind = "refresh" /\ call[c].pc = "sent"
      /\ call[c].cookie \in Token \cup {NoToken} /\ UNCHANGED <<owner, jar, quiet>>
  BY DEF ServeRefresh, At, TabInv, Types, AnyCall
<1>2. PICK s \in Token \cup {NoToken} : s = call[c].cookie
  BY <1>1
<1>3. s \in Token => Carries(c, s)
  BY <1>1, <1>2 DEF Carries
<1>4. CASE Accepted(s)
  <2>1. s \in Token /\ token[s].state \in {"live", "grace"}
    BY <1>4 DEF Accepted
  <2>2. PICK n \in Unissued :
          /\ token' = [token EXCEPT ![s].state = "grace",
                                    ![n] = [family |-> token[s].family, state |-> "live"]]
          /\ Reply(c, TRUE, owner[token[s].family], n)
    BY <1>2, <1>4 DEF ServeRefresh
  <2>3. n \in Token /\ token[n].state = "unissued"
    BY UnissuedIs
  <2> QED BY <1>1, <1>3, <2>1, <2>2, <2>3, RotationKeepsCookie
<1>5. CASE ~Accepted(s)
  <2>1. /\ Reply(c, FALSE, NoUser, NoToken)
        /\ token' = IF s # NoToken /\ token[s].state # "live" THEN Ended(token[s].family) ELSE token
    BY <1>2, <1>5 DEF ServeRefresh
  <2>2. ~quiet
    <3> SUFFICES ASSUME quiet PROVE FALSE
      OBVIOUS
    <3>1. LastsIn(token[jar].family)
      BY DEF CookieInv, Lasts
    <3>2. Usable(s, token[jar].family) /\ FamilyLive(token[jar].family)
      BY <1>1, <1>2, <3>1 DEF LastsIn
    <3> QED BY <1>5, <3>2, BrowserAssumption DEF Usable, Accepted
  <2>3. token' = token \/ \E r \in Token : Carries(c, r) /\ token' = Ended(token[r].family)
    BY <1>3, <2>1
  <2>4. NoToken \in {NoToken, Keep} /\ ~quiet'
    BY <1>1, <2>2
  <2> QED BY <1>1, <2>1, <2>3, <2>4, RefusalKeepsCookie
<1> QED BY <1>4, <1>5

LEMMA ServeLogoutKeepsCookie ==
  ASSUME TabInv, CookieInv, NEW c \in Call, ServeLogout(c)
  PROVE  CookieInv'
<1>1. /\ call[c] # Idle /\ call[c].kind = "logout" /\ call[c].pc = "sent"
      /\ call[c].cookie \in Token \cup {NoToken} /\ UNCHANGED <<owner, jar>> /\ ~quiet'
      /\ Reply(c, TRUE, NoUser, NoToken)
  BY DEF ServeLogout, At, TabInv, Types, AnyCall
<1>2. token' = token \/ \E s \in Token : Carries(c, s) /\ token' = Ended(token[s].family)
  BY <1>1 DEF ServeLogout, Carries
<1>3. NoToken \in {NoToken, Keep}
  OBVIOUS
<1> QED BY <1>1, <1>2, <1>3, RefusalKeepsCookie

LEMMA ServeDataKeepsCookie ==
  ASSUME TabInv, CookieInv, NEW c \in Call, ServeData(c)
  PROVE  CookieInv'
<1>1. /\ call[c] # Idle /\ call[c].pc = "sent" /\ UNCHANGED <<token, owner, jar, quiet>>
      /\ Reply(c, call[c].user # NoUser, call[c].user, Keep) /\ Keep \in {NoToken, Keep}
  BY DEF ServeData, At, server
<1> QED BY <1>1, RefusalKeepsCookie

LEMMA ServeErrorKeepsCookie ==
  ASSUME TabInv, CookieInv, NEW c \in Call, ServeError(c)
  PROVE  CookieInv'
<1>1. /\ call[c] # Idle /\ call[c].pc = "sent" /\ UNCHANGED <<token, owner, jar>>
      /\ quiet' = (quiet /\ call[c].kind # "refresh")
  BY DEF ServeError, server
<1>2. PICK set \in {NoToken, Keep} :
        Reply(c, FALSE, NoUser, set) /\ (call[c].kind # "refresh" => set = Keep)
  BY DEF ServeError
<1>3. quiet' => quiet /\ set = Keep /\ token' = token
  BY <1>1, <1>2
<1> QED BY <1>1, <1>2, <1>3, RefusalKeepsCookie

LEMMA ServeLoginKeepsCookie ==
  ASSUME TabInv, CookieInv, NEW c \in Call, ServeLogin(c)
  PROVE  CookieInv'
<1>1. /\ call[c] # Idle /\ call[c].kind = "login" /\ call[c].pc = "sent" /\ call[c].user \in User
      /\ UNCHANGED <<jar, quiet>>
  BY DEF ServeLogin, At, TabInv, Shapes, Shape
<1>2. PICK f \in Family, n \in Unissued :
        /\ owner[f] = NoUser
        /\ owner' = [owner EXCEPT ![f] = call[c].user]
        /\ token' = [token EXCEPT ![n] = [family |-> f, state |-> "live"]]
        /\ Reply(c, TRUE, call[c].user, n)
  BY DEF ServeLogin
<1>3. n \in Token /\ token[n].state = "unissued"
  BY UnissuedIs
<1>4. /\ \A d \in Call : d # c => call'[d] = call[d]
      /\ call'[c] # Idle => /\ call'[c].pc = "answered" /\ call'[c].kind = call[c].kind
                            /\ call'[c].answer.set = n
      /\ \A r \in Token : Carried(r)' => Carried(r)
      /\ \A d \in Call, r \in Token : Brings(d, r)' =>
           call'[d].kind = call[d].kind /\ ((d # c /\ Brings(d, r)) \/ (d = c /\ r = n))
  BY <1>1, <1>2, ReplyBrings
<1>5. /\ token'[n] = [family |-> f, state |-> "live"]
      /\ token'[n].family = f /\ token'[n].state = "live"
      /\ \A r \in Token : r # n => token'[r] = token[r]
      /\ owner'[f] # NoUser /\ \A g \in Family : owner[g] # NoUser => owner'[g] # NoUser
  BY <1>1, <1>2, <1>3, BrowserAssumption DEF TabInv, Types
<1>6. \A r \in Token : Carried(r) \/ (\E d \in Call : Brings(d, r)) =>
        r # n /\ token[r].state # "unissued" /\ token[r].family # f
  <2>1. \A r \in Token : Carried(r) \/ (\E d \in Call : Brings(d, r)) => token[r].state # "unissued"
    BY DEF CookieInv, Issued
  <2>2. \A r \in Token : token[r].state # "unissued" => owner[token[r].family] # NoUser
    BY DEF CookieInv, Issued
  <2> QED BY <1>2, <1>3, <2>1, <2>2
<1>7. Issued'
  <2>1. ASSUME NEW r \in Token, Carried(r)' \/ \E d \in Call : Brings(d, r)'
        PROVE  token'[r].state # "unissued"
    <3>1. Carried(r) \/ (\E d \in Call : Brings(d, r)) \/ r = n
      BY <1>4, <2>1
    <3>2. r = n \/ (r # n /\ token[r].state # "unissued")
      BY <1>6, <3>1
    <3> QED BY <1>5, <3>2
  <2>2. ASSUME NEW r \in Token, token'[r].state # "unissued"
        PROVE  owner'[token'[r].family] # NoUser
    <3>1. CASE r = n
      BY <1>5, <3>1
    <3>2. CASE r # n
      <4>1. token'[r] = token[r] /\ token[r].state # "unissued"
        BY <1>5, <2>2, <3>2
      <4>2. token[r].family \in Family /\ owner[token[r].family] # NoUser
        BY <4>1 DEF TabInv, Filed, CookieInv, Issued
      <4> QED BY <1>5, <4>1, <4>2
    <3> QED BY <3>1, <3>2
  <2>3. \A r \in Token : token'[r].state = "unissued" => token'[r].family = NoFamily
    BY <1>5 DEF CookieInv, Issued
  <2> QED BY <2>1, <2>2, <2>3 DEF Issued
<1>8. ASSUME NEW d \in Call PROVE FreshSignIn(d)'
  <2> SUFFICES ASSUME NEW m \in Token, Brings(d, m)', call'[d].kind = "login"
               PROVE  /\ token'[m].state = "live"
                      /\ \A r \in Token : Carried(r)' => token'[r].family # token'[m].family
                      /\ \A e \in Call, k \in Token :
                           e # d /\ Brings(e, k)' => token'[k].family # token'[m].family
    BY DEF FreshSignIn
  <2>1. \A r \in Token : Carried(r)' => token'[r] = token[r] /\ Carried(r) /\ token[r].family # f
    BY <1>4, <1>5, <1>6
  <2>2. CASE d = c
    <3>1. m = n
      BY <1>4, <2>2
    <3>2. ASSUME NEW e \in Call, NEW k \in Token, e # d, Brings(e, k)'
          PROVE  token'[k].family # f
      <4>1. Brings(e, k)
        BY <1>4, <2>2, <3>2
      <4> QED BY <1>5, <1>6, <4>1
    <3> QED BY <1>5, <2>1, <3>1, <3>2
  <2>3. CASE d # c
    <3>1. Brings(d, m) /\ call[d].kind = "login"
      BY <1>4, <2>3
    <3>2. m # n /\ token[m].family # f /\ token'[m] = token[m]
      BY <1>5, <1>6, <3>1
    <3>3. /\ token[m].state = "live"
          /\ \A r \in Token : Carried(r) => token[r].family # token[m].family
          /\ \A e \in Call, k \in Token : e # d /\ Brings(e, k) => token[k].family # token[m].family
      BY <3>1 DEF CookieInv, FreshSignIn
    <3>4. ASSUME NEW e \in Call, NEW k \in Token, e # d, Brings(e, k)'
          PROVE  token'[k].family # token'[m].family
      <4>1. Brings(e, k) \/ k = n
        BY <1>4, <3>4
      <4>2. CASE k = n
        BY <1>5, <3>2, <4>2
      <4>3. CASE k # n
        BY <1>5, <3>2, <3>3, <3>4, <4>1, <4>3
      <4> QED BY <4>2, <4>3
    <3> QED BY <2>1, <3>2, <3>3, <3>4
  <2> QED BY <2>2, <2>3
<1>9. ASSUME quiet PROVE LastsIn(token[jar].family)'
  <2>1. PICK g : g = token[jar].family
    OBVIOUS
  <2>2. LastsIn(g)
    BY <1>9, <2>1 DEF CookieInv, Lasts
  <2>3. jar \in Token /\ jar # n /\ jar' = jar
    BY <1>1, <1>6, <2>2 DEF LastsIn, Usable, Carried
  <2>4. \A r \in Token : Usable(r, g) /\ r # n => Usable(r, g)'
    BY <1>5 DEF Usable
  <2>5. Usable(jar, g)' /\ FamilyLive(g)'
    <3>1. Usable(jar, g) /\ FamilyLive(g)
      BY <2>2 DEF LastsIn
    <3>2. PICK r \in Token : token[r] = [family |-> g, state |-> "live"]
      BY <3>1 DEF FamilyLive
    <3>3. r # n
      BY <1>3, <3>2
    <3>4. FamilyLive(g)'
      BY <1>5, <3>2, <3>3 DEF FamilyLive
    <3> QED BY <2>3, <2>4, <3>1, <3>4 DEF Usable
  <2>6. ASSUME NEW d \in Call, call'[d] # Idle, call'[d].kind = "refresh", call'[d].pc = "sent"
        PROVE  Usable(call[d].cookie, g)'
    <3>1. d # c /\ call'[d] = call[d]
      BY <1>4, <2>6
    <3>2. PICK r \in Token : r = call[d].cookie /\ Usable(r, g)
      BY <2>2, <2>6, <3>1 DEF LastsIn, Usable
    <3>3. Carried(r)
      BY <2>6, <3>1, <3>2 DEF Carried, Carries
    <3> QED BY <1>6, <2>4, <3>1, <3>2, <3>3 DEF Usable
  <2>7. \A d \in Call : call'[d] # Idle /\ call'[d].pc = "answered" /\ call'[d].kind # "login" =>
          call'[d].answer.set \in Token \cup {Keep}
    BY <1>1, <1>4, <2>2 DEF LastsIn
  <2>8. ASSUME NEW d \in Call, NEW m \in Token, Brings(d, m)', call'[d].kind # "login"
        PROVE  /\ token'[m] = [family |-> g, state |-> "live"]
               /\ ~Carried(m)'
               /\ \A e \in Call : e # d => ~Brings(e, m)'
    <3>1. d # c /\ Brings(d, m) /\ call[d].kind # "login" /\ m # n
      BY <1>1, <1>4, <1>6, <2>8
    <3>2. /\ token[m] = [family |-> g, state |-> "live"] /\ ~Carried(m)
          /\ \A e \in Call : e # d => ~Brings(e, m)
      BY <2>2, <3>1 DEF LastsIn
    <3> QED BY <1>4, <1>5, <3>1, <3>2
  <2>9. LastsIn(g)'
    BY <2>5, <2>6, <2>7, <2>8 DEF LastsIn
  <2>10. token'[jar].family = g
    BY <1>5, <2>1, <2>3
  <2> QED BY <2>3, <2>9, <2>10
<1>10. Lasts'
  BY <1>1, <1>9 DEF Lasts
<1> QED BY <1>7, <1>8, <1>10 DEF CookieInv

LEMMA GraceElapsesKeepsCookie ==
  ASSUME TabInv, CookieInv, NEW s \in Token, GraceElapses(s)
  PROVE  CookieInv'
<1>1. /\ token[s].state = "grace" /\ UNCHANGED <<owner, jar, call>>
      /\ quiet' = (quiet /\ s # jar /\ \A c \in Call :
                     call[c] # Idle => call[c].pc # "sent" \/ call[c].cookie # s)
  BY DEF GraceElapses
<1>2. /\ \A r \in Token : token'[r].family = token[r].family
      /\ \A r \in Token : token'[r].state = "unissued" <=> token[r].state = "unissued"
      /\ \A r \in Token : r # s => token'[r] = token[r]
  BY <1>1 DEF GraceElapses, TabInv, Types, Row
<1>3. /\ \A r \in Token : Carried(r)' <=> Carried(r)
      /\ \A d \in Call, r \in Token : Brings(d, r)' <=> Brings(d, r)
  BY <1>1 DEF Carried, Carries, Brings
<1>4. Issued'
  BY <1>1, <1>2, <1>3 DEF CookieInv, Issued
<1>5. \A d \in Call : FreshSignIn(d)'
  BY <1>1, <1>2, <1>3 DEF CookieInv, FreshSignIn
<1>6. ASSUME quiet' PROVE LastsIn(token[jar].family)'
  <2>1. quiet /\ s # jar
    BY <1>1, <1>6
  <2>2. PICK f : f = token[jar].family
    OBVIOUS
  <2>3. LastsIn(f)
    BY <2>1, <2>2 DEF CookieInv, Lasts
  <2>4. jar \in Token /\ token'[jar] = token[jar] /\ jar' = jar
    BY <1>1, <1>2, <2>1, <2>3 DEF LastsIn, Usable
  <2>5. Usable(jar, f)' /\ FamilyLive(f)'
    <3>1. Usable(jar, f) /\ FamilyLive(f)
      BY <2>3 DEF LastsIn
    <3>2. PICK r \in Token : token[r] = [family |-> f, state |-> "live"]
      BY <3>1 DEF FamilyLive
    <3> QED BY <1>1, <1>2, <2>4, <3>1, <3>2 DEF Usable, FamilyLive
  <2>6. \A d \in Call : call'[d] # Idle /\ call'[d].kind = "refresh" /\ call'[d].pc = "sent" =>
          Usable(call[d].cookie, f)'
    <3> SUFFICES ASSUME NEW d \in Call, call[d] # Idle, call[d].kind = "refresh",
                        call[d].pc = "sent"
                 PROVE  Usable(call[d].cookie, f)'
      BY <1>1
    <3>1. Usable(call[d].cookie, f) /\ call[d].cookie # s
      BY <1>1, <1>6, <2>3 DEF LastsIn
    <3> QED BY <1>1, <1>2, <3>1 DEF Usable
  <2>7. \A d \in Call : call'[d] # Idle /\ call'[d].pc = "answered" /\ call'[d].kind # "login" =>
          call'[d].answer.set \in Token \cup {Keep}
    BY <1>1, <2>3 DEF LastsIn
  <2>8. ASSUME NEW d \in Call, NEW m \in Token, Brings(d, m)', call'[d].kind # "login"
        PROVE  /\ token'[m] = [family |-> f, state |-> "live"]
               /\ ~Carried(m)'
               /\ \A e \in Call : e # d => ~Brings(e, m)'
    <3>1. /\ token[m] = [family |-> f, state |-> "live"] /\ ~Carried(m)
          /\ \A e \in Call : e # d => ~Brings(e, m)
      BY <1>1, <1>3, <2>3, <2>8 DEF LastsIn
    <3> QED BY <1>1, <1>2, <1>3, <3>1
  <2>9. LastsIn(f)'
    BY <2>5, <2>6, <2>7, <2>8 DEF LastsIn
  <2> QED BY <2>2, <2>4, <2>9
<1>7. Lasts'
  BY <1>6 DEF Lasts
<1> QED BY <1>4, <1>5, <1>7 DEF CookieInv

\* A browser that opens its tabs.
LEMMA OpenedKeepsCookie ==
  ASSUME NEW start \in [Tab -> 1..Cardinality(Tab)], NEW s \in Lowest(Token), NEW f \in Family,
         NEW u \in User, NEW returning \in BOOLEAN, Opened(start, s, f, u, returning)
  PROVE  CookieInv
<1>1. s \in Token
  BY DEF Lowest
<1>2. \A c \in Call : call[c] # Idle => call[c].pc = "sent" /\ call[c].cookie = jar
  BY DEF Opened, Sent
<1>3. /\ \A r \in Token : Carried(r) => returning /\ r = s
      /\ \A c \in Call, r \in Token : ~Brings(c, r)
  BY <1>2, BrowserAssumption DEF Carried, Carries, Brings, Opened
<1>4. /\ \A r \in Token : r = s /\ returning => token[r] = [family |-> f, state |-> "live"]
      /\ \A r \in Token : ~(r = s /\ returning) => token[r] = [family |-> NoFamily, state |-> "unissued"]
      /\ returning => owner[f] = u
      /\ u # NoUser
  BY BrowserAssumption DEF Opened
<1>5. Issued
  BY <1>3, <1>4 DEF Issued
<1>6. \A c \in Call : FreshSignIn(c)
  BY <1>3 DEF FreshSignIn
<1>7. Lasts
  <2> SUFFICES ASSUME quiet PROVE LastsIn(f) /\ token[jar].family = f
    BY DEF Lasts
  <2>1. returning /\ jar = s /\ token[s] = [family |-> f, state |-> "live"]
    BY <1>1, <1>4 DEF Opened
  <2>2. Usable(jar, f) /\ FamilyLive(f)
    BY <1>1, <2>1 DEF Usable, FamilyLive
  <2> QED BY <1>2, <1>3, <2>1, <2>2 DEF LastsIn
<1> QED BY <1>5, <1>6, <1>7 DEF CookieInv

-----------------------------------------------------------------------------
\* Tabs that refresh together, late, in any order or in vain, and pages that
\* reload, do not end a session: while nobody signs out or in over it, no
\* server fails and no spent cookie is left to age, the cookie in the browser
\* is good for another token (session.ts; AuthService.refresh and its grace).
THEOREM SessionOutlivesItsTabs == Spec => []QuietSessionLasts
<1>1. Init => CookieInv
  BY OpenedKeepsCookie DEF Init
<1>2. TabInv /\ CookieInv /\ [Next]_vars => CookieInv'
  <2> SUFFICES ASSUME TabInv, CookieInv, [Next]_vars PROVE CookieInv'
    OBVIOUS
  <2>1. CASE \E t \in Tab, c \in Call : Load(t, c)
    BY <2>1, LoadKeepsCookie
  <2>2. CASE \E t \in Tab, c \in Call : Ask(t, c)
    BY <2>2, StartKeepsCookie DEF Ask
  <2>3. CASE \E t \in Tab, c \in Call, u \in User : SignIn(t, c, u)
    BY <2>3, StartKeepsCookie DEF SignIn
  <2>4. CASE \E t \in Tab, c \in Call : SignOut(t, c)
    BY <2>4, StartKeepsCookie DEF SignOut
  <2>5. CASE \E t \in Tab : AccessExpires(t)
    <3>1. UNCHANGED <<server, jar, quiet, call>>
      BY <2>5 DEF AccessExpires
    <3>2. \A d \in Call : Moves(d)
      BY <3>1 DEF Moves, GoesOn
    <3> QED BY <3>1, <3>2, PagesKeepCookie
  <2>6. CASE \E c \in Call : Serve(c)
    BY <2>6, ServeRefreshKeepsCookie, ServeLoginKeepsCookie, ServeLogoutKeepsCookie,
       ServeDataKeepsCookie, ServeErrorKeepsCookie DEF Serve
  <2>7. CASE \E s \in Token : GraceElapses(s)
    BY <2>7, GraceElapsesKeepsCookie
  <2>8. CASE \E c \in Call : Deliver(c)
    BY <2>8, DeliverKeepsCookie
  <2>9. CASE \E c \in Call : Lose(c)
    BY <2>9, LoseKeepsCookie
  <2>10. CASE UNCHANGED vars
    <3>1. UNCHANGED <<server, jar, quiet, call>>
      BY <2>10 DEF vars
    <3>2. \A d \in Call : Moves(d)
      BY <3>1 DEF Moves, GoesOn
    <3> QED BY <3>1, <3>2, PagesKeepCookie
  <2> QED BY <2>1, <2>2, <2>3, <2>4, <2>5, <2>6, <2>7, <2>8, <2>9, <2>10 DEF Next
<1>3. CookieInv => QuietSessionLasts
  BY BrowserAssumption DEF CookieInv, Lasts, LastsIn, Usable, QuietSessionLasts
<1> QED BY <1>1, <1>2, <1>3, TabsStaySound, PTL DEF Spec

-----------------------------------------------------------------------------
(* What a query has, with what the server has of it now.                   *)

AnyView == [version : Int, here : Int, pages : Int]

AnyQuery ==
  [data : AnyView, old : BOOLEAN, read : {"no", "sent", "answered"}, got : AnyView,
   failed : BOOLEAN, missed : BOOLEAN]

AnyWrite == [write : Writes, waiting : BOOLEAN, committed : BOOLEAN]

Screen ==
  [kind : {"screen"}, panel : Panels, mounted : BOOLEAN, filter : BOOLEAN,
   paging : [of : BOOLEAN, page : 1..Pages(MostRows)],
   server : [version : Nat, all : Nat, some : Nat],
   cache : [QueryKeys -> AnyQuery], pending : SUBSET AnyWrite, turns : Nat, fewer : BOOLEAN]

RowsOf(panel, db, filter) ==
  IF panel = VehicleList
  THEN IF filter THEN db.all ELSE db.some
  ELSE IF filter THEN db.some ELSE db.all

ViewOf(panel, db, key) ==
  LET n == RowsOf(panel, db, key[1])
      before == (key[2] - 1) * PageSize
  IN IF panel.paged
     THEN [version |-> db.version, pages |-> Pages(n),
           here |-> IF n > before THEN Within(PageSize, n - before) ELSE 0]
     ELSE [version |-> db.version, pages |-> 1, here |-> n]

KeyOf(d) == <<d.filter, PageFor(d.paging, d.filter)>>
Shown(d, k) == d.mounted /\ k = KeyOf(d)

\* A write has been done that the browser is still to hear of.
Owed(d) == \E w \in d.pending : w.committed

\* A query q the server would now answer with v.  What was read and not told
\* of a write since is what the server has; what is on screen has been read,
\* and is that even if it is due to be read again.
SoundQuery(q, v, owed, visible) ==
  /\ q.read = "answered" => q.got # Unread
  /\ visible /\ q.read = "no" /\ ~q.failed => q.data # Unread
  /\ ~owed /\ ~q.missed =>
       /\ q.read = "answered" => q.got = v
       /\ q.read = "no" /\ ~q.old /\ q.data # Unread => q.data = v
       /\ visible /\ q.read = "no" /\ ~q.failed => q.data = v

\* One write at a time, of what the panel reads; who no longer waits for one
\* has not heard that it was done.
SoundWrites(d) ==
  /\ \A w, x \in d.pending : w = x
  /\ \A w \in d.pending : /\ w.committed => w.waiting
                          /\ Touched(w.write) \cap d.panel.reads # {}

\* While no rows went, no page is beyond the last.
SoundPages(d) ==
  ~d.fewer =>
    /\ \A k \in QueryKeys :
         LET most == Pages(RowsOf(d.panel, d.server, k[1])) IN
         /\ d.cache[k].data.pages <= 1 \/ d.cache[k].data.pages <= most
         /\ d.cache[k].got.pages <= 1 \/ d.cache[k].got.pages <= most
    /\ d.paging.page = 1 \/ d.paging.page <= Pages(RowsOf(d.panel, d.server, d.paging.of))

ScreenOk(d) ==
  /\ d \in Screen
  /\ d.filter => d.panel.filtered
  /\ SoundWrites(d)
  /\ SoundPages(d)
  /\ \A k \in QueryKeys :
       SoundQuery(d.cache[k], ViewOf(d.panel, d.server, k), Owed(d), Shown(d, k))

ScreenInv == ScreenOk(desk)

-----------------------------------------------------------------------------
LEMMA PagesAre ==
  ASSUME NEW n \in Nat \ {0}
  PROVE  /\ Pages(n) = 1 + ((n - 1) \div PageSize) /\ Pages(n) \in Nat \ {0}
         /\ (n - 1) \div PageSize \in Nat
<1>1. Within(1, n) = 1
  BY DEF Within
<1>2. n - 1 \in Nat /\ PageSize \in Nat \ {0}
  BY ScreensAssumption
<1>3. (n - 1) \div PageSize \in Nat
  BY <1>2
<1> QED BY <1>1, <1>3 DEF Pages

LEMMA NoPages == Pages(0) = 0
<1>1. Within(1, 0) = 0
  BY DEF Within
<1>2. 0 \div PageSize = 0
  BY ScreensAssumption
<1> QED BY <1>1, <1>2 DEF Pages

LEMMA PagesAreNat == \A n \in Nat : Pages(n) \in Nat
BY PagesAre, NoPages

LEMMA PagesDiv ==
  ASSUME NEW x \in Nat
  PROVE  /\ x \div PageSize \in Nat /\ PageSize * (x \div PageSize) <= x
         /\ x < PageSize * (x \div PageSize) + PageSize
BY ScreensAssumption

LEMMA TimesGrows ==
  ASSUME NEW s \in Nat \ {0}, NEW y \in Nat, NEW z \in Nat, y <= z
  PROVE  s * y <= s * z
<1>1. PICK d \in Nat : z = y + d
  <2>1. z - y \in Nat /\ z = y + (z - y)
    OBVIOUS
  <2> QED BY <2>1
<1>2. s * z = s * y + s * d
  BY <1>1
<1>3. s * d \in Nat /\ s * y \in Nat
  OBVIOUS
<1> QED BY <1>2, <1>3

LEMMA PagesGrow ==
  ASSUME NEW m \in Nat, NEW n \in Nat, m <= n
  PROVE  Pages(m) <= Pages(n)
<1>1. CASE m = 0
  BY <1>1, NoPages, PagesAreNat
<1>2. CASE m # 0
  <2> DEFINE y == (m - 1) \div PageSize
             z == (n - 1) \div PageSize
  <2>1. m - 1 \in Nat /\ n - 1 \in Nat /\ m - 1 <= n - 1
    BY <1>2
  <2>2. /\ y \in Nat /\ PageSize * y <= m - 1
        /\ z \in Nat /\ n - 1 < PageSize * z + PageSize
    BY <2>1, PagesDiv
  <2>3. Pages(m) = 1 + y /\ Pages(n) = 1 + z
    BY <1>2, PagesAre
  <2> HIDE DEF y, z
  <2>4. ASSUME z < y PROVE FALSE
    <3> DEFINE a == PageSize * (z + 1)
               b == PageSize * y
    <3>1. z + 1 \in Nat /\ z + 1 <= y
      BY <2>2, <2>4
    <3>2. a <= b
      BY <2>2, <3>1, TimesGrows, ScreensAssumption
    <3>3. a = PageSize * z + PageSize
      BY <2>2, ScreensAssumption
    <3>4. a \in Nat /\ b \in Nat
      BY <2>2, <3>1, ScreensAssumption
    <3>5. b <= m - 1 /\ n - 1 < a
      BY <2>2, <3>3
    <3> HIDE DEF a, b
    <3> QED BY <2>1, <3>2, <3>4, <3>5
  <2> QED BY <2>2, <2>3, <2>4
<1> QED BY <1>1, <1>2

\* A page that there is has rows.
LEMMA PageHasRows ==
  ASSUME NEW n \in Nat \ {0}, NEW p \in Nat \ {0}, p = 1 \/ p <= Pages(n)
  PROVE  (p - 1) * PageSize < n
<1> DEFINE y == (n - 1) \div PageSize
<1>1. n - 1 \in Nat
  OBVIOUS
<1>2. y \in Nat /\ PageSize * y <= n - 1
  BY <1>1, PagesDiv
<1>3. Pages(n) = 1 + y
  BY PagesAre
<1> HIDE DEF y
<1>4. p - 1 \in Nat /\ p - 1 <= y
  BY <1>2, <1>3
<1>5. PageSize * (p - 1) <= PageSize * y
  BY <1>2, <1>4, TimesGrows, ScreensAssumption
<1>6. (p - 1) * PageSize = PageSize * (p - 1) /\ PageSize * (p - 1) \in Nat /\ PageSize * y \in Nat
  BY <1>2, <1>4, ScreensAssumption
<1> QED BY <1>1, <1>2, <1>5, <1>6

LEMMA FirstPage == 1 \in 1..Pages(MostRows) /\ Pages(MostRows) \in Nat
BY PagesAre, ScreensAssumption

-----------------------------------------------------------------------------
(* What a query becomes. *)

LEMMA UnreadIsView == Unread \in AnyView /\ Unread.pages = 0 /\ Unread.version = -1
BY DEF Unread, AnyView

LEMMA QueryIs == Query \in AnyQuery /\ Query.data = Unread /\ Query.read = "no" /\ ~Query.failed
                 /\ ~Query.missed /\ Query.got = Unread
BY UnreadIsView DEF Query, AnyQuery

LEMMA SendIs ==
  ASSUME NEW q \in AnyQuery
  PROVE  /\ Send(q) \in AnyQuery /\ Send(q).read = "sent" /\ Send(q).data = q.data
         /\ Send(q).got = Unread
BY UnreadIsView DEF Send, AnyQuery

LEMMA SentIsSound ==
  ASSUME NEW q \in AnyQuery, q.read = "sent", NEW v, NEW owed, NEW visible
  PROVE  SoundQuery(q, v, owed, visible)
BY DEF SoundQuery

LEMMA MountsIs ==
  ASSUME NEW q \in AnyQuery, NEW v, NEW owed \in BOOLEAN, NEW s \in BOOLEAN,
         SoundQuery(q, v, owed, s)
  PROVE  /\ Mounts(q) \in AnyQuery /\ Mounts(q).data = q.data /\ Mounts(q).got \in {q.got, Unread}
         /\ \A t \in BOOLEAN : SoundQuery(Mounts(q), v, owed, t)
<1>1. CASE q.read = "no" /\ (q.data = Unread \/ q.old \/ q.failed)
  <2> DEFINE m == [Send(q) EXCEPT !.failed = @ /\ q.data # Unread]
  <2>1. Mounts(q) = m
    BY <1>1 DEF Mounts
  <2>2. m \in AnyQuery /\ m.read = "sent" /\ m.data = q.data /\ m.got = Unread
    BY SendIs DEF AnyQuery
  <2> QED BY <2>1, <2>2, SentIsSound
<1>2. CASE ~(q.read = "no" /\ (q.data = Unread \/ q.old \/ q.failed))
  <2>1. Mounts(q) = q
    BY <1>2 DEF Mounts
  <2> QED BY <1>2, <2>1 DEF SoundQuery, AnyQuery
<1> QED BY <1>1, <1>2

LEMMA UnawareIs ==
  ASSUME NEW q \in AnyQuery, NEW v, NEW u, NEW owed \in BOOLEAN, NEW wed \in BOOLEAN,
         NEW visible \in BOOLEAN, SoundQuery(q, v, owed, visible)
  PROVE  LET m == [q EXCEPT !.missed = q # Query] IN
         /\ m \in AnyQuery /\ m.data = q.data /\ m.got = q.got
         /\ SoundQuery(m, u, wed, visible)
<1> DEFINE m == [q EXCEPT !.missed = q # Query]
<1>1. /\ m \in AnyQuery /\ m.data = q.data /\ m.got = q.got /\ m.read = q.read
      /\ m.failed = q.failed /\ m.missed = (q # Query)
  BY DEF AnyQuery
<1>2. SoundQuery(m, u, wed, visible)
  <2> HIDE DEF m
  <2> QED BY <1>1, QueryIs DEF SoundQuery
<1> QED BY <1>1, <1>2
-----------------------------------------------------------------------------
(* What the server has, and how many pages of it. *)

LEMMA ViewIs ==
  ASSUME NEW k \in QueryKeys
  PROVE  View(k[1], k[2]) = ViewOf(desk.panel, desk.server, k)
BY DEF View, ViewOf, Matching, RowsOf

LEMMA RowsAre ==
  ASSUME NEW d \in Screen, NEW f
  PROVE  RowsOf(d.panel, d.server, f) \in Nat
BY ScreensAssumption DEF RowsOf, Screen

LEMMA KeyIs ==
  ASSUME NEW d \in Screen
  PROVE  /\ KeyOf(d) \in QueryKeys /\ KeyOf(d)[1] = d.filter /\ KeyOf(d)[2] \in Nat \ {0}
         /\ KeyOf(d)[2] = PageFor(d.paging, d.filter)
<1>1. PageFor(d.paging, d.filter) \in 1..Pages(MostRows)
  BY FirstPage DEF PageFor, Screen
<1>2. d.filter \in BOOLEAN
  BY DEF Screen
<1> QED BY <1>1, <1>2, FirstPage DEF KeyOf, QueryKeys

LEMMA ViewIsView ==
  ASSUME NEW d \in Screen, NEW k \in QueryKeys
  PROVE  LET v == ViewOf(d.panel, d.server, k)
             n == RowsOf(d.panel, d.server, k[1])
         IN v \in AnyView /\ v # Unread /\ (v.pages = 1 \/ v.pages = Pages(n))
<1> DEFINE n == RowsOf(d.panel, d.server, k[1])
           before == (k[2] - 1) * PageSize
           v == ViewOf(d.panel, d.server, k)
<1>1. n \in Nat /\ Pages(n) \in Nat
  BY RowsAre, PagesAreNat
<1>2. before \in Int
  BY ScreensAssumption DEF QueryKeys
<1>3. d.server.version \in Nat
  BY DEF Screen
<1>4. v = IF d.panel.paged
          THEN [version |-> d.server.version, pages |-> Pages(n),
                here |-> IF n > before THEN Within(PageSize, n - before) ELSE 0]
          ELSE [version |-> d.server.version, pages |-> 1, here |-> n]
  BY DEF ViewOf
<1> HIDE DEF n, before, v
<1>5. (IF n > before THEN Within(PageSize, n - before) ELSE 0) \in Int
  BY <1>1, <1>2, ScreensAssumption DEF Within
<1>6. v \in AnyView /\ v.version = d.server.version /\ (v.pages = 1 \/ v.pages = Pages(n))
  BY <1>1, <1>3, <1>4, <1>5 DEF AnyView
<1>7. v # Unread
  BY <1>3, <1>6, UnreadIsView
<1> QED BY <1>6, <1>7 DEF n, v

\* The rows a panel has now, where none have gone.
LEMMA RowsGrow ==
  ASSUME NEW d \in Screen, NEW e \in Screen, e.panel = d.panel,
         d.server.all <= e.server.all, d.server.some <= e.server.some, NEW f
  PROVE  Pages(RowsOf(d.panel, d.server, f)) <= Pages(RowsOf(e.panel, e.server, f))
<1>1. RowsOf(d.panel, d.server, f) <= RowsOf(e.panel, e.server, f)
  BY DEF RowsOf
<1> QED BY <1>1, RowsAre, PagesGrow

\* What a step leaves in a query was there, or was out, or is what the server had.
Comes(d, e) ==
  \A k \in QueryKeys :
    {e.cache[k].data, e.cache[k].got} \subseteq
      {Unread, d.cache[k].data, d.cache[k].got, ViewOf(d.panel, d.server, k)}

LEMMA PagesStay ==
  ASSUME NEW d \in Screen, NEW e \in Screen, SoundPages(d), Comes(d, e), e.panel = d.panel,
         ~e.fewer => /\ ~d.fewer
                     /\ d.server.all <= e.server.all /\ d.server.some <= e.server.some,
         \/ e.paging.page = 1 \/ e.paging = d.paging
         \/ ~d.fewer => e.paging.page <= Pages(RowsOf(d.panel, d.server, e.paging.of))
  PROVE  SoundPages(e)
<1> SUFFICES ASSUME ~e.fewer PROVE
    /\ \A k \in QueryKeys :
         LET most == Pages(RowsOf(e.panel, e.server, k[1])) IN
         /\ e.cache[k].data.pages <= 1 \/ e.cache[k].data.pages <= most
         /\ e.cache[k].got.pages <= 1 \/ e.cache[k].got.pages <= most
    /\ e.paging.page = 1 \/ e.paging.page <= Pages(RowsOf(e.panel, e.server, e.paging.of))
  BY DEF SoundPages
<1>0. ~d.fewer
  OBVIOUS
<1>1. \A f : /\ Pages(RowsOf(d.panel, d.server, f)) <= Pages(RowsOf(e.panel, e.server, f))
             /\ Pages(RowsOf(d.panel, d.server, f)) \in Nat
             /\ Pages(RowsOf(e.panel, e.server, f)) \in Nat
  BY RowsGrow, RowsAre, PagesAreNat
<1>2. ASSUME NEW k \in QueryKeys
      PROVE  LET most == Pages(RowsOf(e.panel, e.server, k[1])) IN
             /\ e.cache[k].data.pages <= 1 \/ e.cache[k].data.pages <= most
             /\ e.cache[k].got.pages <= 1 \/ e.cache[k].got.pages <= most
  <2> DEFINE was == Pages(RowsOf(d.panel, d.server, k[1]))
             most == Pages(RowsOf(e.panel, e.server, k[1]))
  <2>1. was <= most /\ was \in Nat /\ most \in Nat
    BY <1>1
  <2>2. ASSUME NEW x \in {Unread, d.cache[k].data, d.cache[k].got, ViewOf(d.panel, d.server, k)}
        PROVE  x.pages \in Int /\ (x.pages <= 1 \/ x.pages <= was)
    <3>1. d.cache[k].data \in AnyView /\ d.cache[k].got \in AnyView
      BY DEF Screen, AnyQuery
    <3>2. /\ d.cache[k].data.pages <= 1 \/ d.cache[k].data.pages <= was
          /\ d.cache[k].got.pages <= 1 \/ d.cache[k].got.pages <= was
      BY <1>0 DEF SoundPages
    <3>3. /\ ViewOf(d.panel, d.server, k) \in AnyView
          /\ ViewOf(d.panel, d.server, k).pages = 1 \/ ViewOf(d.panel, d.server, k).pages = was
      BY ViewIsView
    <3>4. x \in AnyView
      BY <3>1, <3>3, UnreadIsView
    <3>5. x.pages \in Int
      BY <3>4 DEF AnyView
    <3> HIDE DEF was
    <3> QED BY <2>1, <3>2, <3>3, <3>5, UnreadIsView
  <2>3. /\ e.cache[k].data \in {Unread, d.cache[k].data, d.cache[k].got, ViewOf(d.panel, d.server, k)}
        /\ e.cache[k].got \in {Unread, d.cache[k].data, d.cache[k].got, ViewOf(d.panel, d.server, k)}
    BY DEF Comes
  <2>4. /\ e.cache[k].data.pages \in Int /\ (e.cache[k].data.pages <= 1 \/ e.cache[k].data.pages <= was)
        /\ e.cache[k].got.pages \in Int /\ (e.cache[k].got.pages <= 1 \/ e.cache[k].got.pages <= was)
    BY <2>2, <2>3
  <2> HIDE DEF was, most
  <2>5. /\ e.cache[k].data.pages <= 1 \/ e.cache[k].data.pages <= most
        /\ e.cache[k].got.pages <= 1 \/ e.cache[k].got.pages <= most
    BY <2>1, <2>4
  <2> QED BY <2>5 DEF most
<1>3. e.paging.page = 1 \/ e.paging.page <= Pages(RowsOf(e.panel, e.server, e.paging.of))
  <2> DEFINE was == Pages(RowsOf(d.panel, d.server, e.paging.of))
             most == Pages(RowsOf(e.panel, e.server, e.paging.of))
  <2>1. was <= most /\ was \in Nat /\ most \in Nat
    BY <1>1
  <2>2. e.paging.page \in Int
    BY FirstPage DEF Screen
  <2>3. e.paging.page = 1 \/ e.paging.page <= was
    BY <1>0 DEF SoundPages
  <2> HIDE DEF was, most
  <2>4. e.paging.page = 1 \/ e.paging.page <= most
    BY <2>1, <2>2, <2>3
  <2> QED BY <2>4 DEF most
<1> QED BY <1>2, <1>3
-----------------------------------------------------------------------------
(* Steps that leave the server and the writes alone. *)

Steady(d, e) ==
  /\ e.panel = d.panel /\ e.server = d.server /\ e.pending = d.pending /\ e.fewer = d.fewer
  /\ e.filter => e.panel.filtered
  /\ \/ e.paging.page = 1 \/ e.paging = d.paging
     \/ ~d.fewer => e.paging.page <= Pages(RowsOf(d.panel, d.server, e.paging.of))

LEMMA OkIs ==
  ASSUME NEW d, ScreenOk(d)
  PROVE  /\ d \in Screen /\ (d.filter => d.panel.filtered) /\ SoundWrites(d) /\ SoundPages(d)
         /\ \A k \in QueryKeys :
              /\ d.cache[k] \in AnyQuery
              /\ SoundQuery(d.cache[k], ViewOf(d.panel, d.server, k), Owed(d), Shown(d, k))
BY DEF ScreenOk, Screen

LEMMA Booleans ==
  ASSUME NEW d \in Screen, NEW k
  PROVE  Owed(d) \in BOOLEAN /\ Shown(d, k) \in BOOLEAN
BY DEF Owed, Shown, Screen

LEMMA SteadyStep ==
  ASSUME NEW d, ScreenOk(d), NEW e \in Screen, Steady(d, e), Comes(d, e),
         \A k \in QueryKeys :
           SoundQuery(e.cache[k], ViewOf(d.panel, d.server, k), Owed(d), Shown(e, k))
  PROVE  ScreenOk(e)
<1>1. SoundPages(e)
  <2>1. d.server.all <= e.server.all /\ d.server.some <= e.server.some
    BY OkIs, ScreensAssumption DEF Steady, Screen
  <2> QED BY <2>1, OkIs, PagesStay DEF Steady
<1>2. SoundWrites(e) /\ Owed(e) = Owed(d)
  BY OkIs DEF Steady, SoundWrites, Owed
<1> QED BY <1>1, <1>2 DEF ScreenOk, Steady

LEMMA Unshown ==
  ASSUME NEW q, NEW v, NEW owed, NEW s \in BOOLEAN, NEW t \in BOOLEAN, t => s,
         SoundQuery(q, v, owed, s)
  PROVE  SoundQuery(q, v, owed, t)
BY DEF SoundQuery

LEMMA OneQuery ==
  ASSUME NEW d, ScreenOk(d), NEW e \in Screen, Steady(d, e),
         NEW k \in QueryKeys, NEW x \in AnyQuery, e.cache = [d.cache EXCEPT ![k] = x],
         {x.data, x.got} \subseteq
           {Unread, d.cache[k].data, d.cache[k].got, ViewOf(d.panel, d.server, k)},
         SoundQuery(x, ViewOf(d.panel, d.server, k), Owed(d), Shown(e, k)),
         \A j \in QueryKeys : j # k /\ Shown(e, j) => Shown(d, j)
  PROVE  ScreenOk(e)
<1>1. e.cache[k] = x /\ \A j \in QueryKeys : j # k => e.cache[j] = d.cache[j]
  BY OkIs DEF Screen
<1>2. Comes(d, e)
  BY <1>1 DEF Comes
<1>3. ASSUME NEW j \in QueryKeys
      PROVE  SoundQuery(e.cache[j], ViewOf(d.panel, d.server, j), Owed(d), Shown(e, j))
  <2>1. CASE j = k
    BY <1>1, <2>1
  <2>2. CASE j # k
    <3>1. SoundQuery(d.cache[j], ViewOf(d.panel, d.server, j), Owed(d), Shown(d, j))
      BY OkIs
    <3>2. d \in Screen
      BY OkIs
    <3>3. SoundQuery(d.cache[j], ViewOf(d.panel, d.server, j), Owed(d), Shown(e, j))
      BY <2>2, <3>1, <3>2, Booleans, Unshown
    <3> QED BY <1>1, <2>2, <3>3
  <2> QED BY <2>1, <2>2
<1> QED BY <1>2, <1>3, SteadyStep

\* Another query is on screen: at once sound to look at.
LEMMA TurnOk ==
  ASSUME NEW d, ScreenOk(d), NEW e \in Screen, Steady(d, e),
         e.cache = [d.cache EXCEPT ![KeyOf(e)] = Mounts(@)]
  PROVE  ScreenOk(e)
<1> DEFINE k == KeyOf(e)
           q == d.cache[k]
           v == ViewOf(d.panel, d.server, k)
<1>1. k \in QueryKeys
  BY KeyIs
<1>2. d \in Screen /\ q \in AnyQuery /\ SoundQuery(q, v, Owed(d), Shown(d, k))
  BY <1>1, OkIs
<1>3. /\ Mounts(q) \in AnyQuery /\ Mounts(q).data = q.data /\ Mounts(q).got \in {q.got, Unread}
      /\ \A t \in BOOLEAN : SoundQuery(Mounts(q), v, Owed(d), t)
  BY <1>2, MountsIs, Booleans
<1>4. \A j \in QueryKeys : j # k => ~Shown(e, j)
  BY DEF Shown
<1>5. Shown(e, k) \in BOOLEAN
  BY Booleans
<1>6. e.cache = [d.cache EXCEPT ![k] = Mounts(q)]
  OBVIOUS
<1> HIDE DEF k, q, v
<1> QED BY <1>1, <1>3, <1>4, <1>5, <1>6, OneQuery DEF q, v

LEMMA MountsAt ==
  ASSUME NEW d, ScreenOk(d), NEW k \in QueryKeys
  PROVE  Mounts(d.cache[k]) \in AnyQuery
<1>1. d \in Screen /\ d.cache[k] \in AnyQuery
  BY OkIs
<1>2. SoundQuery(d.cache[k], ViewOf(d.panel, d.server, k), Owed(d), Shown(d, k))
  BY OkIs
<1>3. Owed(d) \in BOOLEAN /\ Shown(d, k) \in BOOLEAN
  BY <1>1, Booleans
<1> QED BY <1>1, <1>2, <1>3, MountsIs

\* A step that turns to a query leaves a screen, and one that is sound to look at.
Turned(d, k, filter, paging) ==
  [d EXCEPT !.turns = @ + 1, !.mounted = TRUE, !.filter = filter, !.paging = paging,
            !.cache[k] = Mounts(@)]

LEMMA TurnIsScreen ==
  ASSUME NEW d, ScreenOk(d), NEW k \in QueryKeys,
         NEW filter \in BOOLEAN, NEW paging \in [of : BOOLEAN, page : 1..Pages(MostRows)]
  PROVE  LET e == Turned(d, k, filter, paging) IN
         /\ e \in Screen /\ e.panel = d.panel /\ e.server = d.server /\ e.pending = d.pending
         /\ e.fewer = d.fewer /\ e.cache = [d.cache EXCEPT ![k] = Mounts(@)]
         /\ e.paging = paging /\ e.filter = filter
<1> DEFINE c == [d.cache EXCEPT ![k] = Mounts(@)]
           e == Turned(d, k, filter, paging)
           o == [d EXCEPT !.turns = @ + 1]
           a == [o EXCEPT !.mounted = TRUE]
           f == [a EXCEPT !.filter = filter]
           b == [f EXCEPT !.paging = paging]
<1>0. d \in Screen
  BY OkIs
<1>1. c \in [QueryKeys -> AnyQuery]
  BY <1>0, MountsAt DEF Screen
<1>2. e = [b EXCEPT !.cache = c]
  BY DEF Turned
<1> HIDE DEF c, e
<1>3. /\ o \in Screen /\ o.panel = d.panel /\ o.server = d.server /\ o.pending = d.pending
      /\ o.fewer = d.fewer
  BY <1>0 DEF Screen
<1> HIDE DEF o
<1>4. /\ a \in Screen /\ a.panel = d.panel /\ a.server = d.server /\ a.pending = d.pending
      /\ a.fewer = d.fewer
  BY <1>3 DEF Screen
<1> HIDE DEF a
<1>5. /\ f \in Screen /\ f.panel = d.panel /\ f.server = d.server /\ f.pending = d.pending
      /\ f.fewer = d.fewer /\ f.filter = filter
  BY <1>4 DEF Screen
<1> HIDE DEF f
<1>6. /\ b \in Screen /\ b.panel = d.panel /\ b.server = d.server /\ b.pending = d.pending
      /\ b.fewer = d.fewer /\ b.paging = paging /\ b.filter = filter
  BY <1>5 DEF Screen
<1> HIDE DEF b
<1>7. /\ e \in Screen /\ e.panel = d.panel /\ e.server = d.server /\ e.pending = d.pending
      /\ e.fewer = d.fewer /\ e.cache = c
      /\ e.paging = paging /\ e.filter = filter
  BY <1>1, <1>2, <1>6 DEF Screen
<1> QED BY <1>7 DEF c, e

LEMMA TurnsWell ==
  ASSUME ScreenInv, NEW filter \in BOOLEAN,
         NEW paging \in [of : BOOLEAN, page : 1..Pages(MostRows)], Turn(paging, filter),
         filter => desk.panel.filtered,
         \/ paging.page = 1 \/ paging = desk.paging
         \/ ~desk.fewer => paging.page <= Pages(RowsOf(desk.panel, desk.server, paging.of))
  PROVE  ScreenInv'
<1> DEFINE k == <<filter, PageFor(paging, filter)>>
<1>0. ScreenOk(desk)
  BY DEF ScreenInv
<1>1. k \in QueryKeys
  BY FirstPage DEF QueryKeys, PageFor
<1>2. desk' = Turned(desk, k, filter, paging)
  BY DEF Turn, Turned
<1>3. k = <<filter, PageFor(paging, filter)>>
  OBVIOUS
<1> HIDE DEF k
<1>4. /\ desk' \in Screen /\ desk'.panel = desk.panel /\ desk'.server = desk.server
      /\ desk'.pending = desk.pending /\ desk'.fewer = desk.fewer
      /\ desk'.cache = [desk.cache EXCEPT ![k] = Mounts(@)]
      /\ desk'.paging = paging /\ desk'.filter = filter
  BY <1>0, <1>1, <1>2, TurnIsScreen
<1>5. KeyOf(desk') = k
  BY <1>3, <1>4 DEF KeyOf
<1>6. Steady(desk, desk')
  BY <1>4 DEF Steady
<1>7. desk'.cache = [desk.cache EXCEPT ![KeyOf(desk')] = Mounts(@)]
  BY <1>4, <1>5
<1> QED BY <1>0, <1>4, <1>6, <1>7, TurnOk DEF ScreenInv

LEMMA LookOk ==
  ASSUME ScreenInv, Look
  PROVE  ScreenInv'
<1> DEFINE no == FALSE
           paging == [of |-> no, page |-> 1]
<1>1. Turn(paging, no)
  BY DEF Look
<1>2. paging \in [of : BOOLEAN, page : 1..Pages(MostRows)] /\ paging.page = 1
  BY FirstPage
<1>3. no \in BOOLEAN /\ ~no
  OBVIOUS
<1> HIDE DEF no, paging
<1> QED BY <1>1, <1>2, <1>3, TurnsWell

LEMMA GoToPageOk ==
  ASSUME ScreenInv, NEW page \in 1..Pages(MostRows), GoToPage(page)
  PROVE  ScreenInv'
<1> DEFINE paging == [of |-> desk.filter, page |-> page]
           k == KeyOf(desk)
           most == Pages(RowsOf(desk.panel, desk.server, desk.filter))
<1>0. ScreenOk(desk) /\ desk \in Screen
  BY OkIs DEF ScreenInv
<1>1. Turn(paging, desk.filter)
  BY DEF GoToPage
<1>2. desk.filter \in BOOLEAN /\ desk.paging.page \in Nat /\ desk.paging.of \in BOOLEAN
  BY <1>0, FirstPage DEF Screen
<1>3. paging \in [of : BOOLEAN, page : 1..Pages(MostRows)] /\ paging.page = page
      /\ paging.of = desk.filter
  BY <1>2
<1>4. ASSUME ~desk.fewer, page # 1 PROVE page <= most
  <2>1. /\ k \in QueryKeys /\ k[1] = desk.filter /\ k[2] \in Nat \ {0}
        /\ k[2] = PageFor(desk.paging, desk.filter)
    BY <1>0, KeyIs
  <2>2. Current = desk.cache[k] /\ Key[2] = k[2]
    BY DEF Current, Key, KeyOf
  <2>3. most \in Nat
    BY <1>0, RowsAre, PagesAreNat
  <2>4. desk.cache[k].data.pages \in Int
        /\ (desk.cache[k].data.pages <= 1 \/ desk.cache[k].data.pages <= most)
    <3>1. desk.cache[k] \in AnyQuery
      BY <1>0, <2>1, OkIs
    <3>2. desk.cache[k].data.pages \in Int
      BY <3>1 DEF AnyQuery, AnyView
    <3>3. SoundPages(desk)
      BY <1>0, OkIs
    <3> QED BY <1>4, <2>1, <3>2, <3>3 DEF SoundPages
  <2>5. \/ page = k[2] - 1
        \/ page = k[2] + 1 /\ page <= desk.cache[k].data.pages
    BY <2>2 DEF GoToPage
  <2>6. page \in Nat \ {0}
    BY FirstPage
  <2>7. CASE page = k[2] - 1
    <3>1. k[2] # 1
      BY <2>6, <2>7
    <3>2. k[2] = desk.paging.page /\ desk.paging.of = desk.filter
      BY <2>1, <3>1 DEF PageFor
    <3>3. desk.paging.page <= most
      BY <1>0, <1>4, <3>1, <3>2, OkIs DEF SoundPages
    <3> HIDE DEF most, k
    <3> QED BY <1>2, <2>3, <2>6, <2>7, <3>2, <3>3
  <2>8. CASE page = k[2] + 1 /\ page <= desk.cache[k].data.pages
    <3> HIDE DEF most, k
    <3> QED BY <1>4, <2>3, <2>4, <2>6, <2>8
  <2> QED BY <2>5, <2>7, <2>8
<1>5. desk.filter => desk.panel.filtered
  BY <1>0, OkIs
<1>6. \/ paging.page = 1
      \/ ~desk.fewer => paging.page <= Pages(RowsOf(desk.panel, desk.server, paging.of))
  BY <1>3, <1>4
<1> HIDE DEF paging
<1> QED BY <1>1, <1>2, <1>3, <1>5, <1>6, TurnsWell

LEMMA ChangeFilterOk ==
  ASSUME ScreenInv, ChangeFilter
  PROVE  ScreenInv'
<1> DEFINE filter == ~desk.filter
           first == [of |-> filter, page |-> 1]
           paging == IF desk.panel = NotificationsPage THEN first ELSE desk.paging
<1>0. desk \in Screen
  BY OkIs DEF ScreenInv
<1>1. Turn(paging, filter) /\ desk.panel.filtered
  BY DEF ChangeFilter
<1>2. filter \in BOOLEAN
  OBVIOUS
<1>3. first \in [of : BOOLEAN, page : 1..Pages(MostRows)] /\ first.page = 1
  BY FirstPage
<1>4. desk.paging \in [of : BOOLEAN, page : 1..Pages(MostRows)]
  BY <1>0 DEF Screen
<1> HIDE DEF filter, first
<1>5. /\ paging \in [of : BOOLEAN, page : 1..Pages(MostRows)]
      /\ paging.page = 1 \/ paging = desk.paging
  BY <1>3, <1>4
<1> HIDE DEF paging
<1> QED BY <1>1, <1>2, <1>5, TurnsWell

LEMMA LeaveOk ==
  ASSUME ScreenInv, Leave
  PROVE  ScreenInv'
<1>0. ScreenOk(desk) /\ desk \in Screen
  BY OkIs DEF ScreenInv
<1>1. /\ desk' \in Screen /\ Steady(desk, desk') /\ desk'.cache = desk.cache /\ ~desk'.mounted
  BY <1>0, OkIs DEF Leave, Screen, Steady
<1>2. Comes(desk, desk')
  BY <1>1 DEF Comes
<1>3. \A k \in QueryKeys :
        SoundQuery(desk'.cache[k], ViewOf(desk.panel, desk.server, k), Owed(desk), Shown(desk', k))
  <2> TAKE k \in QueryKeys
  <2>1. ~Shown(desk', k)
    BY <1>1 DEF Shown
  <2>2. Shown(desk', k) \in BOOLEAN /\ Shown(desk, k) \in BOOLEAN
    BY <1>0, <1>1, Booleans
  <2> QED BY <1>0, <1>1, <2>1, <2>2, OkIs, Unshown
<1> QED BY <1>0, <1>1, <1>2, <1>3, SteadyStep DEF ScreenInv

LEMMA ForgetOk ==
  ASSUME ScreenInv, Forget
  PROVE  ScreenInv'
<1>0. ScreenOk(desk) /\ desk \in Screen
  BY OkIs DEF ScreenInv
<1>1. /\ desk' \in Screen /\ Steady(desk, desk') /\ ~desk'.mounted
      /\ \A k \in QueryKeys : desk'.cache[k] = Query
  BY <1>0, QueryIs, OkIs DEF Forget, Screen, Steady
<1>2. Comes(desk, desk')
  BY <1>1, QueryIs DEF Comes
<1>3. \A k \in QueryKeys :
        SoundQuery(desk'.cache[k], ViewOf(desk.panel, desk.server, k), Owed(desk), Shown(desk', k))
  BY <1>1, QueryIs DEF SoundQuery, Shown
<1> QED BY <1>0, <1>1, <1>2, <1>3, SteadyStep DEF ScreenInv

LEMMA AgeOk ==
  ASSUME ScreenInv, Age
  PROVE  ScreenInv'
<1>0. ScreenOk(desk) /\ desk \in Screen
  BY OkIs DEF ScreenInv
<1>1. \A k \in QueryKeys :
        LET a == Aging(desk.cache[k])
            q == desk.cache[k]
        IN /\ a \in AnyQuery /\ a.data = q.data /\ a.read = q.read /\ a.got = q.got
           /\ a.failed = q.failed /\ a.missed = q.missed /\ (q.old => a.old)
  BY <1>0, OkIs DEF Aging, AnyQuery
<1> DEFINE c == [k \in QueryKeys |-> Aging(desk.cache[k])]
           o == [desk EXCEPT !.turns = @ + 1]
<1>2. desk' = [o EXCEPT !.cache = c]
  BY DEF Age
<1>3. c \in [QueryKeys -> AnyQuery] /\ \A k \in QueryKeys : c[k] = Aging(desk.cache[k])
  BY <1>1
<1> HIDE DEF c
<1>4. /\ o \in Screen /\ o.panel = desk.panel /\ o.server = desk.server /\ o.filter = desk.filter
      /\ o.pending = desk.pending /\ o.fewer = desk.fewer /\ o.paging = desk.paging
      /\ o.mounted = desk.mounted
  BY <1>0 DEF Screen
<1> HIDE DEF o
<1>5. /\ desk' \in Screen /\ desk'.panel = desk.panel /\ desk'.server = desk.server
      /\ desk'.filter = desk.filter /\ desk'.pending = desk.pending /\ desk'.fewer = desk.fewer
      /\ desk'.paging = desk.paging /\ desk'.mounted = desk.mounted /\ desk'.cache = c
  BY <1>2, <1>3, <1>4 DEF Screen
<1>6. Steady(desk, desk') /\ KeyOf(desk') = KeyOf(desk)
  BY <1>0, <1>5, OkIs DEF Steady, KeyOf
<1>7. Comes(desk, desk')
  BY <1>1, <1>3, <1>5 DEF Comes
<1>8. \A k \in QueryKeys :
        SoundQuery(desk'.cache[k], ViewOf(desk.panel, desk.server, k), Owed(desk), Shown(desk', k))
  <2> TAKE k \in QueryKeys
  <2>1. Shown(desk', k) = Shown(desk, k)
    BY <1>5, <1>6 DEF Shown
  <2>2. SoundQuery(desk.cache[k], ViewOf(desk.panel, desk.server, k), Owed(desk), Shown(desk, k))
    BY <1>0, OkIs
  <2>3. desk'.cache[k] = Aging(desk.cache[k])
    BY <1>3, <1>5
  <2> QED BY <1>1, <2>1, <2>2, <2>3 DEF SoundQuery
<1> QED BY <1>0, <1>5, <1>6, <1>7, <1>8, SteadyStep DEF ScreenInv
-----------------------------------------------------------------------------
(* One query changes, as it is read. *)

SameScreen(d, o) ==
  /\ o.panel = d.panel /\ o.server = d.server /\ o.pending = d.pending /\ o.fewer = d.fewer
  /\ o.filter = d.filter /\ o.paging = d.paging /\ o.mounted = d.mounted /\ o.cache = d.cache

Replaced(o, k, x) == [o EXCEPT !.cache[k] = x]

LEMMA QueryReplaced ==
  ASSUME NEW d, ScreenOk(d), NEW o \in Screen, SameScreen(d, o),
         NEW k \in QueryKeys, NEW x \in AnyQuery,
         {x.data, x.got} \subseteq
           {Unread, d.cache[k].data, d.cache[k].got, ViewOf(d.panel, d.server, k)},
         SoundQuery(x, ViewOf(d.panel, d.server, k), Owed(d), Shown(d, k))
  PROVE  ScreenOk(Replaced(o, k, x))
<1> DEFINE e == Replaced(o, k, x)
           c == [o.cache EXCEPT ![k] = x]
<1>0. d \in Screen
  BY OkIs
<1>1. c \in [QueryKeys -> AnyQuery]
  BY DEF Screen
<1>2. e = [o EXCEPT !.cache = c]
  BY DEF Replaced
<1>3. c = [d.cache EXCEPT ![k] = x]
  BY DEF SameScreen
<1> HIDE DEF c, e
<1>4. /\ e \in Screen /\ e.panel = o.panel /\ e.server = o.server /\ e.pending = o.pending
      /\ e.fewer = o.fewer /\ e.filter = o.filter /\ e.paging = o.paging
      /\ e.mounted = o.mounted /\ e.cache = c
  BY <1>1, <1>2 DEF Screen
<1>5. Steady(d, e)
  BY <1>4, OkIs DEF Steady, SameScreen
<1>6. \A j : Shown(e, j) = Shown(d, j)
  BY <1>4 DEF Shown, KeyOf, SameScreen
<1>7. SoundQuery(x, ViewOf(d.panel, d.server, k), Owed(d), Shown(e, k))
  BY <1>6
<1>8. e.cache = [d.cache EXCEPT ![k] = x]
  BY <1>3, <1>4
<1>9. \A i \in QueryKeys : i # k /\ Shown(e, i) => Shown(d, i)
  BY <1>6
<1>10. ScreenOk(e)
  BY <1>4, <1>5, <1>7, <1>8, <1>9, OneQuery
<1> QED BY <1>10 DEF e

LEMMA DeskIs ==
  ASSUME ScreenInv
  PROVE  /\ ScreenOk(desk) /\ desk \in Screen
         /\ \A k \in QueryKeys :
              /\ desk.cache[k] \in AnyQuery
              /\ SoundQuery(desk.cache[k], ViewOf(desk.panel, desk.server, k), Owed(desk), Shown(desk, k))
BY OkIs DEF ScreenInv

LEMMA SameIs == SameScreen(desk, desk)
BY DEF SameScreen

LEMMA TickIs ==
  ASSUME desk \in Screen
  PROVE  LET o == [desk EXCEPT !.turns = @ + 1] IN o \in Screen /\ SameScreen(desk, o)
BY DEF Screen, SameScreen

LEMMA ReadServerOk ==
  ASSUME ScreenInv, NEW k \in QueryKeys, ReadServer(k)
  PROVE  ScreenInv'
<1> DEFINE q == desk.cache[k]
           v == ViewOf(desk.panel, desk.server, k)
           x == [q EXCEPT !.read = "answered", !.got = v]
<1>1. ScreenOk(desk) /\ desk \in Screen /\ q \in AnyQuery
  BY DeskIs
<1>2. v \in AnyView /\ v # Unread
  BY <1>1, ViewIsView
<1>3. View(k[1], k[2]) = v
  BY ViewIs
<1>4. q.read = "sent" /\ SoundQuery(q, v, Owed(desk), Shown(desk, k))
  BY DeskIs DEF ReadServer
<1> HIDE DEF v
<1>5. desk' = Replaced(desk, k, x)
  BY <1>3, <1>1 DEF ReadServer, Screen, Replaced
<1> HIDE DEF q
<1>6. /\ x \in AnyQuery /\ x.read = "answered" /\ x.got = v /\ x.data = q.data
      /\ x.missed = q.missed
  BY <1>1, <1>2 DEF AnyQuery
<1> HIDE DEF x
<1>7. SoundQuery(x, v, Owed(desk), Shown(desk, k))
  BY <1>2, <1>6 DEF SoundQuery
<1>8. {x.data, x.got} \subseteq {Unread, desk.cache[k].data, desk.cache[k].got, v}
  BY <1>6 DEF q
<1> QED BY <1>1, <1>5, <1>6, <1>7, <1>8, SameIs, QueryReplaced DEF ScreenInv, v

LEMMA LandOk ==
  ASSUME ScreenInv, NEW k \in QueryKeys, Land(k)
  PROVE  ScreenInv'
<1> DEFINE q == desk.cache[k]
           v == ViewOf(desk.panel, desk.server, k)
           x == [q EXCEPT !.data = q.got, !.got = Unread, !.read = "no", !.old = FALSE, !.failed = FALSE]
<1>1. ScreenOk(desk) /\ desk \in Screen /\ q \in AnyQuery
  BY DeskIs
<1>2. q.read = "answered" /\ SoundQuery(q, v, Owed(desk), Shown(desk, k))
  BY DeskIs DEF Land
<1>3. desk' = Replaced(desk, k, x)
  BY DEF Land, Replaced
<1> HIDE DEF q, v
<1>4. /\ x \in AnyQuery /\ x.read = "no" /\ x.got = Unread /\ x.data = q.got
      /\ x.missed = q.missed
  BY <1>1, UnreadIsView DEF AnyQuery
<1> HIDE DEF x
<1>5. SoundQuery(x, v, Owed(desk), Shown(desk, k))
  BY <1>2, <1>4 DEF SoundQuery
<1>6. {x.data, x.got} \subseteq {Unread, desk.cache[k].data, desk.cache[k].got, v}
  BY <1>4 DEF q
<1> QED BY <1>1, <1>3, <1>4, <1>5, <1>6, SameIs, QueryReplaced DEF ScreenInv, v

LEMMA FailToReadOk ==
  ASSUME ScreenInv, NEW k \in QueryKeys, FailToRead(k)
  PROVE  ScreenInv'
<1> DEFINE q == desk.cache[k]
           v == ViewOf(desk.panel, desk.server, k)
           x == [q EXCEPT !.read = "no", !.old = TRUE, !.failed = TRUE]
           o == [desk EXCEPT !.turns = @ + 1]
<1>1. ScreenOk(desk) /\ desk \in Screen /\ q \in AnyQuery
  BY DeskIs
<1>2. q.read = "sent" /\ SoundQuery(q, v, Owed(desk), Shown(desk, k))
  BY DeskIs DEF FailToRead
<1>3. o \in Screen /\ SameScreen(desk, o)
  BY <1>1, TickIs
<1>4. desk' = Replaced(o, k, x)
  BY <1>1, <1>3 DEF FailToRead, Replaced
<1> HIDE DEF q, v, o
<1>5. /\ x \in AnyQuery /\ x.read = "no" /\ x.old /\ x.failed /\ x.data = q.data /\ x.got = q.got
  BY <1>1 DEF AnyQuery
<1> HIDE DEF x
<1>6. SoundQuery(x, v, Owed(desk), Shown(desk, k))
  BY <1>5 DEF SoundQuery
<1>7. {x.data, x.got} \subseteq {Unread, desk.cache[k].data, desk.cache[k].got, v}
  BY <1>5 DEF q
<1> QED BY <1>1, <1>3, <1>4, <1>5, <1>6, <1>7, QueryReplaced DEF ScreenInv, v

LEMMA ResendOk ==
  ASSUME ScreenInv, NEW k \in QueryKeys, NEW x \in AnyQuery,
         x.read = "sent", x.data = desk.cache[k].data, x.got = Unread,
         desk' = Replaced(desk, k, x)
  PROVE  ScreenInv'
<1>1. ScreenOk(desk) /\ desk \in Screen
  BY DeskIs
<1>2. SoundQuery(x, ViewOf(desk.panel, desk.server, k), Owed(desk), Shown(desk, k))
  BY SentIsSound
<1>3. {x.data, x.got} \subseteq
        {Unread, desk.cache[k].data, desk.cache[k].got, ViewOf(desk.panel, desk.server, k)}
  OBVIOUS
<1> QED BY <1>1, <1>2, <1>3, SameIs, QueryReplaced DEF ScreenInv

LEMMA KeyInUse ==
  ASSUME ScreenInv
  PROVE  Key = KeyOf(desk) /\ Key \in QueryKeys /\ Current = desk.cache[Key]
BY DeskIs, KeyIs DEF Key, KeyOf, Current

LEMMA TryAgainOk ==
  ASSUME ScreenInv, TryAgain
  PROVE  ScreenInv'
<1> DEFINE k == Key
           x == [Send(desk.cache[k]) EXCEPT !.failed = desk.cache[k].data # Unread]
<1>1. k \in QueryKeys /\ desk.cache[k] \in AnyQuery
  BY KeyInUse, DeskIs
<1>2. desk' = Replaced(desk, k, x)
  BY DEF TryAgain, Replaced
<1> HIDE DEF k
<1>3. x \in AnyQuery /\ x.read = "sent" /\ x.data = desk.cache[k].data /\ x.got = Unread
  BY <1>1, SendIs DEF AnyQuery
<1> HIDE DEF x
<1> QED BY <1>1, <1>2, <1>3, ResendOk

LEMMA PollOk ==
  ASSUME ScreenInv, Poll
  PROVE  ScreenInv'
<1> DEFINE k == Key
           x == Send(desk.cache[k])
<1>1. k \in QueryKeys /\ desk.cache[k] \in AnyQuery
  BY KeyInUse, DeskIs
<1>2. desk' = Replaced(desk, k, x)
  BY DEF Poll, Replaced
<1> HIDE DEF k
<1>3. x \in AnyQuery /\ x.read = "sent" /\ x.data = desk.cache[k].data /\ x.got = Unread
  BY <1>1, SendIs
<1> HIDE DEF x
<1> QED BY <1>1, <1>2, <1>3, ResendOk
-----------------------------------------------------------------------------
(* Every write tells what reads the rows it touches, but for a change of   *)
(* the profile.                                                            *)

CarRows ==
  {"cars", "readings", "expenses", "fuel", "services", "schedules", "reminders", "documents"}

OfCarsPanel(panel) ==
  /\ panel.reads \subseteq CarRows \cup {"users"}
  /\ \A write : write.clears = <<"vehicles">> => Under(write.clears, panel.key)

LEMMA PlainIs ==
  ASSUME NEW key, NEW rows, NEW also
  PROVE  LET p == Plain(key, rows, also) IN p.key = key /\ p.reads = {rows} \cup also
BY DEF Plain

LEMMA LikeIs ==
  ASSUME NEW key, NEW rows, NEW also
  PROVE  LET p == Plain(key, rows, also)
             Like(q) == q.key = p.key /\ q.reads = p.reads
         IN /\ Like(Paged(p)) /\ Like(Filtered(p)) /\ Like(Filtered(Paged(p))) /\ Like(Silent(p))
            /\ Like([Silent(p) EXCEPT !.polled = TRUE])
BY DEF Plain, Paged, Filtered, Silent

LEMMA UnderCars ==
  ASSUME NEW key, 1 \in DOMAIN key, key[1] = "vehicles"
  PROVE  Under(<<"vehicles">>, key)
BY DEF Under

LEMMA CarKeys ==
  /\ Under(<<"vehicles">>, <<"vehicles", "list">>)
  /\ Under(<<"vehicles">>, <<"vehicles", "detail">>)
  /\ \A x : Under(<<"vehicles">>, <<"vehicles", "car", x>>)
  /\ \A x, y : Under(<<"vehicles">>, <<"vehicles", "car", x, y>>)
BY DEF Under

LEMMA CarPanels ==
  \A panel \in {VehicleList, VehicleDetail, OdometerTimeline, RecentExpenses, ExpenseLedger, FuelLog,
                FuelSummaryCard, ConsumptionPanel, MaintenanceLog, DuePanel, MaintenanceSummaryCard,
                RemindersPanel, RemindersSummaryCard, AttachmentsPanel, CarPapersCard} :
    OfCarsPanel(panel)
<1>1. OfCarsPanel(VehicleList)
  BY PlainIs, LikeIs, CarKeys DEF OfCarsPanel, CarRows, VehicleList
<1>2. OfCarsPanel(VehicleDetail)
  BY PlainIs, CarKeys DEF OfCarsPanel, CarRows, VehicleDetail
<1>3. OfCarsPanel(OdometerTimeline)
  BY PlainIs, LikeIs, CarKeys DEF OfCarsPanel, CarRows, OdometerTimeline
<1>4. OfCarsPanel(RecentExpenses)
  BY PlainIs, CarKeys DEF OfCarsPanel, CarRows, RecentExpenses
<1>5. OfCarsPanel(ExpenseLedger)
  BY PlainIs, LikeIs, CarKeys DEF OfCarsPanel, CarRows, ExpenseLedger, RecentExpenses
<1>6. OfCarsPanel(FuelLog)
  BY PlainIs, LikeIs, CarKeys DEF OfCarsPanel, CarRows, FuelLog
<1>7. OfCarsPanel(FuelSummaryCard)
  BY PlainIs, CarKeys DEF OfCarsPanel, CarRows, FuelSummaryCard
<1>8. OfCarsPanel(ConsumptionPanel)
  BY PlainIs, CarKeys DEF OfCarsPanel, CarRows, ConsumptionPanel
<1>9. OfCarsPanel(MaintenanceLog)
  BY PlainIs, LikeIs, CarKeys DEF OfCarsPanel, CarRows, MaintenanceLog
<1>10. OfCarsPanel(DuePanel)
  BY PlainIs, CarKeys DEF OfCarsPanel, CarRows, DuePanel
<1>11. OfCarsPanel(MaintenanceSummaryCard)
  BY <1>10 DEF MaintenanceSummaryCard
<1>12. OfCarsPanel(RemindersPanel)
  BY PlainIs, CarKeys DEF OfCarsPanel, CarRows, RemindersPanel
<1>13. OfCarsPanel(RemindersSummaryCard)
  BY <1>12 DEF RemindersSummaryCard
<1>14. OfCarsPanel(AttachmentsPanel)
  BY PlainIs, CarKeys DEF OfCarsPanel, CarRows, AttachmentsPanel
<1>15. OfCarsPanel(CarPapersCard)
  BY <1>14 DEF CarPapersCard
<1> QED BY <1>1, <1>2, <1>3, <1>4, <1>5, <1>6, <1>7, <1>8, <1>9, <1>10, <1>11, <1>12, <1>13, <1>14,
           <1>15

LEMMA OtherPanels ==
  /\ \A panel \in {NotificationsPage, LatestInBell, UnreadInBell} :
       panel.reads = {"notifications"} /\ Under(<<"notifications">>, panel.key)
  /\ ConnectedAccounts.reads = {"accounts"} /\ Under(<<"auth", "connected">>, ConnectedAccounts.key)
<1>1. /\ Under(<<"notifications">>, <<"notifications", "list">>)
      /\ Under(<<"notifications">>, <<"notifications", "unread-count">>)
      /\ Under(<<"auth", "connected">>, <<"auth", "connected">>)
  BY DEF Under
<1>2. NotificationsPage.reads = {"notifications"} /\ NotificationsPage.key = <<"notifications", "list">>
  BY PlainIs, LikeIs DEF NotificationsPage
<1>3. LatestInBell.reads = {"notifications"} /\ LatestInBell.key = <<"notifications", "list">>
  BY PlainIs, LikeIs DEF LatestInBell
<1>4. UnreadInBell.reads = {"notifications"} /\ UnreadInBell.key = <<"notifications", "unread-count">>
  BY PlainIs, LikeIs DEF UnreadInBell
<1>5. ConnectedAccounts.reads = {"accounts"} /\ ConnectedAccounts.key = <<"auth", "connected">>
  BY PlainIs, LikeIs DEF ConnectedAccounts
<1> QED BY <1>1, <1>2, <1>3, <1>4, <1>5

LEMMA OfCarsIs ==
  ASSUME NEW adds \in SUBSET CarRows, NEW drops \in SUBSET CarRows, NEW alters \in SUBSET CarRows
  PROVE  LET w == OfCars(adds, drops, alters) IN
         Touched(w) \subseteq CarRows /\ w.clears = <<"vehicles">>
BY DEF OfCars, Touched

LEMMA WritesAre ==
  ASSUME NEW write \in Writes
  PROVE  \/ Touched(write) \subseteq CarRows /\ write.clears = <<"vehicles">>
         \/ Touched(write) = {"notifications"} /\ write.clears = <<"notifications">>
         \/ Touched(write) = {"accounts"} /\ write.clears = <<"auth", "connected">>
         \/ write = SaveProfile
<1> DEFINE Cars(w) == Touched(w) \subseteq CarRows /\ w.clears = <<"vehicles">>
<1>1. Cars(SaveVehicle) /\ Cars(Archive) /\ Cars(RecordMileage)
  BY OfCarsIs DEF CarRows, SaveVehicle, Archive, RecordMileage
<1>2. Cars(SaveExpense) /\ Cars(RemoveExpense)
  BY OfCarsIs DEF CarRows, SaveExpense, RemoveExpense
<1>3. Cars(SaveFuel) /\ Cars(RemoveFuel)
  BY OfCarsIs DEF CarRows, SaveFuel, RemoveFuel
<1>4. Cars(SaveService) /\ Cars(RemoveService)
  BY OfCarsIs DEF CarRows, SaveService, RemoveService
<1>5. Cars(SaveSchedule) /\ Cars(ToggleSchedule) /\ Cars(RemoveSchedule)
  BY OfCarsIs DEF CarRows, SaveSchedule, ToggleSchedule, RemoveSchedule
<1>6. Cars(SaveReminder) /\ Cars(CompleteReminder) /\ Cars(RemoveReminder)
  BY OfCarsIs DEF CarRows, SaveReminder, CompleteReminder, RemoveReminder
<1>7. Cars(Attach) /\ Cars(Detach)
  BY OfCarsIs DEF CarRows, Attach, Detach
<1>8. Touched(MarkRead) = {"notifications"} /\ MarkRead.clears = <<"notifications">>
  BY DEF MarkRead, Touched
<1>9. Touched(Disconnect) = {"accounts"} /\ Disconnect.clears = <<"auth", "connected">>
  BY DEF Disconnect, Touched
<1> HIDE DEF Cars
<1>10. Cars(write) \/ write \in {MarkRead, Disconnect, SaveProfile}
  BY <1>1, <1>2, <1>3, <1>4, <1>5, <1>6, <1>7 DEF Writes
<1> QED BY <1>8, <1>9, <1>10 DEF Cars

LEMMA WhatIsTouchedIsTold ==
  ASSUME NEW panel \in Panels, NEW write \in Writes, Touched(write) \cap panel.reads # {}
  PROVE  write = SaveProfile \/ Under(write.clears, panel.key)
<1>1. \/ OfCarsPanel(panel)
      \/ panel.reads = {"notifications"} /\ Under(<<"notifications">>, panel.key)
      \/ panel.reads = {"accounts"} /\ Under(<<"auth", "connected">>, panel.key)
  BY CarPanels, OtherPanels DEF Panels
<1>2. "notifications" \notin CarRows /\ "accounts" \notin CarRows /\ "notifications" # "accounts"
      /\ "users" # "notifications" /\ "users" # "accounts"
  BY DEF CarRows
<1> QED BY <1>1, <1>2, WritesAre DEF OfCarsPanel
-----------------------------------------------------------------------------
(* A write: started, done, heard of. *)

LEMMA UnfilteredTimeline == ~OdometerTimeline.filtered
BY DEF OdometerTimeline, Paged, Plain

\* What a write, and being told of it or not, leaves of the cache.
Aware(cache) ==
  /\ cache \in [QueryKeys -> AnyQuery]
  /\ \A k \in QueryKeys : /\ cache[k].data = desk.cache[k].data
                          /\ cache[k].got \in {desk.cache[k].got, Unread}

LEMMA UnawareWell ==
  ASSUME ScreenInv
  PROVE  /\ Aware(Unaware(desk.cache))
         /\ \A k \in QueryKeys : \A v : SoundQuery(Unaware(desk.cache)[k], v, FALSE, Shown(desk, k))
<1> DEFINE c == Unaware(desk.cache)
           no == FALSE
<1>0. desk \in Screen /\ no \in BOOLEAN /\ Owed(desk) \in BOOLEAN
  BY DeskIs, Booleans
<1> HIDE DEF no
<1>1. ASSUME NEW k \in QueryKeys
      PROVE  LET m == [desk.cache[k] EXCEPT !.missed = desk.cache[k] # Query] IN
             /\ m \in AnyQuery /\ m.data = desk.cache[k].data /\ m.got = desk.cache[k].got
             /\ \A v : SoundQuery(m, v, no, Shown(desk, k))
  <2>1. Shown(desk, k) \in BOOLEAN
    BY <1>0, Booleans
  <2> QED BY <1>0, <2>1, DeskIs, UnawareIs
<1>2. c = [k \in QueryKeys |-> [desk.cache[k] EXCEPT !.missed = desk.cache[k] # Query]]
  BY DEF Unaware
<1> HIDE DEF c
<1>3. \A k \in QueryKeys : c[k] = [desk.cache[k] EXCEPT !.missed = desk.cache[k] # Query]
  BY <1>2
<1>4. c \in [QueryKeys -> AnyQuery]
  BY <1>1, <1>2
<1>5. Aware(c)
  BY <1>1, <1>3, <1>4 DEF Aware
<1>6. \A k \in QueryKeys : \A v : SoundQuery(c[k], v, no, Shown(desk, k))
  BY <1>1, <1>3
<1> QED BY <1>5, <1>6 DEF c, no

\* What a query is once invalidated.
Told(q, visible) ==
  IF q = Query THEN q
  ELSE IF visible /\ (q.read = "no" \/ q.data # Unread)
  THEN [Send(q) EXCEPT !.old = TRUE, !.failed = @ /\ q.data # Unread]
  ELSE [q EXCEPT !.old = TRUE, !.missed = @ \/ q.read # "no"]

LEMMA ToldIs ==
  ASSUME NEW q \in AnyQuery, NEW v, NEW owed \in BOOLEAN, NEW visible \in BOOLEAN,
         SoundQuery(q, v, owed, visible)
  PROVE  /\ Told(q, visible) \in AnyQuery /\ Told(q, visible).data = q.data
         /\ Told(q, visible).got \in {q.got, Unread}
         /\ \A o \in BOOLEAN : SoundQuery(Told(q, visible), v, o, visible)
<1>1. CASE q = Query
  <2>1. Told(q, visible) = q
    BY <1>1 DEF Told
  <2> QED BY <1>1, <2>1, QueryIs DEF SoundQuery
<1>2. CASE q # Query /\ visible /\ (q.read = "no" \/ q.data # Unread)
  <2> DEFINE m == [Send(q) EXCEPT !.old = TRUE, !.failed = @ /\ q.data # Unread]
  <2>1. Told(q, visible) = m
    BY <1>2 DEF Told
  <2>2. m \in AnyQuery /\ m.read = "sent" /\ m.data = q.data /\ m.got = Unread
    BY SendIs DEF AnyQuery
  <2> HIDE DEF m
  <2> QED BY <2>1, <2>2, SentIsSound
<1>3. CASE q # Query /\ ~(visible /\ (q.read = "no" \/ q.data # Unread))
  <2> DEFINE m == [q EXCEPT !.old = TRUE, !.missed = @ \/ q.read # "no"]
  <2>1. Told(q, visible) = m
    BY <1>3 DEF Told
  <2>2. /\ m \in AnyQuery /\ m.read = q.read /\ m.data = q.data /\ m.got = q.got
        /\ m.failed = q.failed /\ m.old /\ (m.read # "no" => m.missed)
    BY DEF AnyQuery
  <2> HIDE DEF m
  <2> QED BY <1>3, <2>1, <2>2 DEF SoundQuery
<1> QED BY <1>1, <1>2, <1>3

LEMMA InvalidateWell ==
  ASSUME ScreenInv, NEW write,
         ~Owed(desk) \/ Under(write.clears, desk.panel.key)
  PROVE  /\ Aware(Invalidate(write))
         /\ \A k \in QueryKeys :
              SoundQuery(Invalidate(write)[k], ViewOf(desk.panel, desk.server, k), FALSE, Shown(desk, k))
<1> DEFINE c == Invalidate(write)
           no == FALSE
<1>0. desk \in Screen /\ desk.cache \in [QueryKeys -> AnyQuery] /\ no \in BOOLEAN
      /\ Owed(desk) \in BOOLEAN /\ ~no
  BY DeskIs, Booleans DEF Screen
<1>1. CASE ~Under(write.clears, desk.panel.key)
  <2>1. c = desk.cache /\ ~Owed(desk)
    BY <1>1 DEF Invalidate
  <2> HIDE DEF c
  <2>2. \A k \in QueryKeys :
          SoundQuery(c[k], ViewOf(desk.panel, desk.server, k), FALSE, Shown(desk, k))
    BY <2>1, DeskIs DEF SoundQuery
  <2>3. Aware(c)
    BY <1>0, <2>1 DEF Aware
  <2> QED BY <2>2, <2>3 DEF c
<1>2. CASE Under(write.clears, desk.panel.key)
  <2>1. c = [k \in QueryKeys |-> Told(desk.cache[k], desk.mounted /\ k = Key)]
    BY <1>2 DEF Invalidate, Told
  <2>2. \A k \in QueryKeys : (desk.mounted /\ k = Key) = Shown(desk, k)
    BY KeyInUse DEF Shown
  <2> HIDE DEF c, no
  <2>3. \A k \in QueryKeys : c[k] = Told(desk.cache[k], Shown(desk, k))
    BY <2>1, <2>2
  <2>4. ASSUME NEW k \in QueryKeys
        PROVE  LET m == Told(desk.cache[k], Shown(desk, k)) IN
               /\ m \in AnyQuery /\ m.data = desk.cache[k].data /\ m.got \in {desk.cache[k].got, Unread}
               /\ SoundQuery(m, ViewOf(desk.panel, desk.server, k), no, Shown(desk, k))
    <3> DEFINE q == desk.cache[k]
               v == ViewOf(desk.panel, desk.server, k)
               visible == Shown(desk, k)
    <3>1. q \in AnyQuery /\ visible \in BOOLEAN /\ SoundQuery(q, v, Owed(desk), visible)
      BY <1>0, DeskIs, Booleans
    <3> HIDE DEF q, v, visible
    <3>2. /\ Told(q, visible) \in AnyQuery /\ Told(q, visible).data = q.data
          /\ Told(q, visible).got \in {q.got, Unread} /\ SoundQuery(Told(q, visible), v, no, visible)
      BY <1>0, <3>1, ToldIs
    <3> QED BY <3>2 DEF q, v, visible
  <2>5. c \in [QueryKeys -> AnyQuery]
    BY <2>1, <2>2, <2>4
  <2>6. Aware(c)
    BY <2>3, <2>4, <2>5 DEF Aware
  <2>7. \A k \in QueryKeys :
          SoundQuery(c[k], ViewOf(desk.panel, desk.server, k), no, Shown(desk, k))
    BY <2>3, <2>4
  <2> QED BY <2>6, <2>7 DEF c, no
<1> QED BY <1>1, <1>2

LEMMA StartOk ==
  ASSUME ScreenInv, NEW write \in Writes, Start(write)
  PROVE  ScreenInv'
<1> DEFINE w == [write |-> write, waiting |-> TRUE, committed |-> FALSE]
           p == {w}
<1>0. ScreenOk(desk) /\ desk \in Screen
  BY DeskIs
<1>1. w \in AnyWrite /\ ~w.committed /\ w.write = write
  BY DEF AnyWrite
<1>2. /\ desk.pending = {} /\ Touched(write) \cap desk.panel.reads # {}
      /\ desk' = [desk EXCEPT !.pending = p]
  BY DEF Start
<1> HIDE DEF w
<1>3. p \in SUBSET AnyWrite /\ \A x \in p : x = w
  BY <1>1
<1> HIDE DEF p
<1>4. /\ desk' \in Screen /\ desk'.panel = desk.panel /\ desk'.server = desk.server
      /\ desk'.fewer = desk.fewer /\ desk'.filter = desk.filter /\ desk'.paging = desk.paging
      /\ desk'.mounted = desk.mounted /\ desk'.cache = desk.cache /\ desk'.pending = p
  BY <1>0, <1>2, <1>3 DEF Screen
<1>5. SoundWrites(desk') /\ Owed(desk') = Owed(desk)
  BY <1>1, <1>2, <1>3, <1>4 DEF SoundWrites, Owed
<1>6. SoundPages(desk') /\ (desk'.filter => desk'.panel.filtered)
  BY <1>0, <1>4, DeskIs, OkIs DEF SoundPages
<1>7. \A k : Shown(desk', k) = Shown(desk, k)
  BY <1>4 DEF Shown, KeyOf
<1>8. \A k \in QueryKeys :
        SoundQuery(desk'.cache[k], ViewOf(desk'.panel, desk'.server, k), Owed(desk'), Shown(desk', k))
  BY <1>4, <1>5, <1>7, DeskIs
<1> QED BY <1>4, <1>5, <1>6, <1>8 DEF ScreenInv, ScreenOk

\* What a step that tells, or does not, of a write must leave.
LEMMA WriteStep ==
  ASSUME ScreenInv, NEW e \in Screen, Aware(e.cache), e.panel = desk.panel,
         e.mounted = desk.mounted, e.filter = desk.filter, e.paging = desk.paging, SoundWrites(e),
         ~e.fewer => /\ ~desk.fewer
                     /\ desk.server.all <= e.server.all /\ desk.server.some <= e.server.some,
         \A k \in QueryKeys :
           SoundQuery(e.cache[k], ViewOf(e.panel, e.server, k), Owed(e), Shown(desk, k))
  PROVE  ScreenOk(e)
<1>0. ScreenOk(desk) /\ desk \in Screen /\ SoundPages(desk) /\ (desk.filter => desk.panel.filtered)
  BY DeskIs, OkIs
<1>1. Comes(desk, e)
  BY DEF Comes, Aware
<1>2. SoundPages(e)
  BY <1>0, <1>1, PagesStay
<1>3. \A k : Shown(e, k) = Shown(desk, k)
  BY DEF Shown, KeyOf
<1> QED BY <1>0, <1>2, <1>3 DEF ScreenOk

LEMMA AwareStays ==
  ASSUME ScreenInv
  PROVE  Aware(desk.cache)
BY DeskIs DEF Aware, Screen

LEMMA ServerGrows ==
  ASSUME ScreenInv
  PROVE  desk.server.all <= desk.server.all /\ desk.server.some <= desk.server.some
BY DeskIs, ScreensAssumption DEF Screen

\* The one write that is out.
LEMMA PendingIs ==
  ASSUME ScreenInv, NEW w \in desk.pending
  PROVE  /\ desk.pending = {w} /\ w \in AnyWrite /\ w.write \in Writes /\ (w.committed => w.waiting)
         /\ Touched(w.write) \cap desk.panel.reads # {}
         /\ Owed(desk) = w.committed
         /\ w.write = SaveProfile \/ Under(w.write.clears, desk.panel.key)
<1>1. SoundWrites(desk) /\ desk \in Screen
  BY DeskIs, OkIs
<1>2. desk.pending = {w} /\ w \in AnyWrite
  BY <1>1 DEF SoundWrites, Screen
<1>3. /\ w.write \in Writes /\ w.committed \in BOOLEAN /\ (w.committed => w.waiting)
      /\ Touched(w.write) \cap desk.panel.reads # {}
  BY <1>1, <1>2 DEF SoundWrites, AnyWrite
<1>4. Owed(desk) = w.committed
  BY <1>2, <1>3 DEF Owed
<1>5. desk.panel \in Panels
  BY <1>1 DEF Screen
<1> QED BY <1>2, <1>3, <1>4, <1>5, WhatIsTouchedIsTold

LEMMA AfterIs ==
  ASSUME ScreenInv, NEW write, NEW t \in After(write)
  PROVE  t \in [version : Nat, all : Nat, some : Nat]
<1>1. desk.server.version \in Nat /\ desk.server.all \in Int /\ desk.server.some \in Int
  BY DeskIs DEF Screen
<1>2. t.all \in 0..MostRows /\ t.some \in 0..t.all
  BY DEF After
<1>3. t.all \in Nat /\ t.some \in Nat
  BY <1>2, ScreensAssumption
<1>4. PICK a, b : t = [version |-> desk.server.version + 1, all |-> a, some |-> b]
  BY DEF After
<1> QED BY <1>1, <1>2, <1>3, <1>4

LEMMA CommitOk ==
  ASSUME ScreenInv, Commit
  PROVE  ScreenInv'
<1>0. desk \in Screen
  BY DeskIs
<1>1. PICK w \in desk.pending :
        /\ ~w.committed
        /\ \E s \in After(w.write) :
             desk' = [desk EXCEPT
               !.server = s,
               !.fewer = @ \/ s.all < desk.server.all \/ s.some < desk.server.some,
               !.pending = IF w.waiting THEN {[w EXCEPT !.committed = TRUE]} ELSE {},
               !.cache = IF w.waiting THEN @ ELSE Unaware(@)]
  BY DEF Commit
<1>2. PICK s \in After(w.write) :
        desk' = [desk EXCEPT
          !.server = s,
          !.fewer = @ \/ s.all < desk.server.all \/ s.some < desk.server.some,
          !.pending = IF w.waiting THEN {[w EXCEPT !.committed = TRUE]} ELSE {},
          !.cache = IF w.waiting THEN @ ELSE Unaware(@)]
  BY <1>1
<1>3. s \in [version : Nat, all : Nat, some : Nat]
  BY AfterIs
<1>4. w \in AnyWrite /\ Touched(w.write) \cap desk.panel.reads # {}
  BY PendingIs
<1> DEFINE fewer == desk.fewer \/ s.all < desk.server.all \/ s.some < desk.server.some
           x == [w EXCEPT !.committed = TRUE]
           p == IF w.waiting THEN {x} ELSE {}
           c == IF w.waiting THEN desk.cache ELSE Unaware(desk.cache)
           a == [desk EXCEPT !.server = s]
           b == [a EXCEPT !.fewer = fewer]
           e == [b EXCEPT !.pending = p]
<1>5. desk' = [e EXCEPT !.cache = c]
  BY <1>2
<1>6. x \in AnyWrite /\ x.committed /\ x.write = w.write /\ x.waiting = w.waiting
  BY <1>4 DEF AnyWrite
<1>7. Aware(c)
  BY UnawareWell, AwareStays
<1>8. fewer \in BOOLEAN
  OBVIOUS
<1>9. ~fewer => /\ ~desk.fewer /\ desk.server.all <= s.all /\ desk.server.some <= s.some
  <2>1. /\ desk.server.all \in Int /\ desk.server.some \in Int /\ s.all \in Int /\ s.some \in Int
    BY <1>0, <1>3, ScreensAssumption DEF Screen
  <2> QED BY <2>1
<1>10. ~w.waiting => \A k \in QueryKeys : \A v : SoundQuery(c[k], v, FALSE, Shown(desk, k))
  BY UnawareWell
<1>11. w.waiting => c = desk.cache
  OBVIOUS
<1> HIDE DEF fewer, c, x
<1>12. p \in SUBSET AnyWrite /\ (\A y \in p : y = x /\ w.waiting) /\ (w.waiting => x \in p)
  BY <1>6
<1> HIDE DEF p
<1>13. a \in Screen /\ a.panel = desk.panel /\ a.mounted = desk.mounted /\ a.filter = desk.filter
       /\ a.paging = desk.paging /\ a.server = s
  BY <1>0, <1>3 DEF Screen
<1> HIDE DEF a
<1>14. b \in Screen /\ b.panel = desk.panel /\ b.mounted = desk.mounted /\ b.filter = desk.filter
       /\ b.paging = desk.paging /\ b.server = s /\ b.fewer = fewer
  BY <1>8, <1>13 DEF Screen
<1> HIDE DEF b
<1>15. e \in Screen /\ e.panel = desk.panel /\ e.mounted = desk.mounted /\ e.filter = desk.filter
       /\ e.paging = desk.paging /\ e.server = s /\ e.fewer = fewer /\ e.pending = p
  BY <1>12, <1>14 DEF Screen
<1> HIDE DEF e
<1>16. /\ desk' \in Screen /\ desk'.panel = desk.panel /\ desk'.mounted = desk.mounted
       /\ desk'.filter = desk.filter /\ desk'.paging = desk.paging /\ desk'.server = s
       /\ desk'.fewer = fewer /\ desk'.pending = p /\ desk'.cache = c
  BY <1>5, <1>7, <1>15 DEF Screen, Aware
<1>17. SoundWrites(desk') /\ Owed(desk') = w.waiting
  BY <1>4, <1>6, <1>12, <1>16 DEF SoundWrites, Owed, AnyWrite
<1>18. \A k \in QueryKeys :
         SoundQuery(desk'.cache[k], ViewOf(desk'.panel, desk'.server, k), Owed(desk'), Shown(desk, k))
  <2>1. CASE w.waiting
    BY <1>11, <1>16, <1>17, <2>1, DeskIs DEF SoundQuery
  <2>2. CASE ~w.waiting
    <3>1. ~Owed(desk')
      BY <1>17, <2>2
    <3> QED BY <1>10, <1>16, <2>2, <3>1 DEF SoundQuery
  <2> QED BY <2>1, <2>2
<1> QED BY <1>7, <1>9, <1>16, <1>17, <1>18, WriteStep DEF ScreenInv
\* The write is over, and the browser has been told of it or not.
Settled(c) == [desk EXCEPT !.pending = {}, !.cache = c]

LEMMA SettledOk ==
  ASSUME ScreenInv, NEW c, Aware(c),
         \A k \in QueryKeys :
           SoundQuery(c[k], ViewOf(desk.panel, desk.server, k), FALSE, Shown(desk, k))
  PROVE  LET e == Settled(c) IN
         /\ ScreenOk(e) /\ e \in Screen /\ e.panel = desk.panel /\ e.mounted = desk.mounted
         /\ e.filter = desk.filter /\ e.paging = desk.paging /\ e.server = desk.server
         /\ e.fewer = desk.fewer /\ e.pending = {} /\ e.cache = c
<1> DEFINE a == [desk EXCEPT !.pending = {}]
           e == Settled(c)
<1>0. desk \in Screen
  BY DeskIs
<1>1. e = [a EXCEPT !.cache = c]
  BY DEF Settled
<1> HIDE DEF e
<1>2. /\ a \in Screen /\ a.panel = desk.panel /\ a.mounted = desk.mounted /\ a.filter = desk.filter
      /\ a.paging = desk.paging /\ a.server = desk.server /\ a.fewer = desk.fewer /\ a.pending = {}
  BY <1>0 DEF Screen
<1> HIDE DEF a
<1>3. /\ e \in Screen /\ e.panel = desk.panel /\ e.mounted = desk.mounted /\ e.filter = desk.filter
      /\ e.paging = desk.paging /\ e.server = desk.server /\ e.fewer = desk.fewer /\ e.pending = {}
      /\ e.cache = c
  BY <1>1, <1>2 DEF Screen, Aware
<1>4. SoundWrites(e) /\ ~Owed(e)
  BY <1>3 DEF SoundWrites, Owed
<1>5. \A k \in QueryKeys :
        SoundQuery(e.cache[k], ViewOf(e.panel, e.server, k), Owed(e), Shown(desk, k))
  BY <1>3, <1>4 DEF SoundQuery
<1>6. ScreenOk(e)
  BY <1>3, <1>4, <1>5, ServerGrows, WriteStep
<1> QED BY <1>3, <1>6 DEF e

LEMMA WriteAnsweredOk ==
  ASSUME ScreenInv, WriteAnswered
  PROVE  ScreenInv'
<1>1. PICK w \in desk.pending :
        /\ w.waiting
        /\ w.committed
        /\ LET first == desk.panel = OdometerTimeline /\ w.write = RecordMileage
               told == IF w.write \in Unannounced THEN Unaware(desk.cache) ELSE Invalidate(w.write)
               paging == [of |-> FALSE, page |-> 1]
           IN desk' = [desk EXCEPT
                !.pending = {},
                !.paging = IF first THEN paging ELSE @,
                !.cache = IF first /\ desk.mounted THEN [told EXCEPT ![<<FALSE, 1>>] = Mounts(@)]
                          ELSE told]
  BY DEF WriteAnswered
<1> DEFINE first == desk.panel = OdometerTimeline /\ w.write = RecordMileage
           told == IF w.write \in Unannounced THEN Unaware(desk.cache) ELSE Invalidate(w.write)
           no == FALSE
           paging == [of |-> no, page |-> 1]
           k == <<no, 1>>
           c == IF first /\ desk.mounted THEN [told EXCEPT ![k] = Mounts(@)] ELSE told
           p == IF first THEN paging ELSE desk.paging
           e == Settled(told)
<1>2. desk' = [desk EXCEPT !.pending = {}, !.paging = p, !.cache = c]
  BY <1>1
<1>3. /\ Aware(told)
      /\ \A j \in QueryKeys :
           SoundQuery(told[j], ViewOf(desk.panel, desk.server, j), FALSE, Shown(desk, j))
  <2>1. CASE w.write \in Unannounced
    BY <2>1, UnawareWell
  <2>2. CASE w.write \notin Unannounced
    <3>1. Under(w.write.clears, desk.panel.key)
      BY <2>2, PendingIs DEF Unannounced
    <3> QED BY <2>2, <3>1, InvalidateWell
  <2> QED BY <2>1, <2>2
<1>4. paging \in [of : BOOLEAN, page : 1..Pages(MostRows)] /\ paging.page = 1 /\ paging.of = no
  BY FirstPage
<1>5. k \in QueryKeys /\ k = <<no, 1>> /\ no = FALSE
  BY FirstPage DEF QueryKeys
<1> HIDE DEF told, no, paging, k
<1>6. /\ ScreenOk(e) /\ e \in Screen /\ e.panel = desk.panel /\ e.mounted = desk.mounted
      /\ e.filter = desk.filter /\ e.paging = desk.paging /\ e.server = desk.server
      /\ e.fewer = desk.fewer /\ e.pending = {} /\ e.cache = told
  BY <1>3, SettledOk
<1>7. desk \in Screen
  BY DeskIs
<1>8. CASE ~first
  <2>1. desk' = e
    BY <1>2, <1>7, <1>8 DEF Settled, Screen
  <2> QED BY <1>6, <2>1 DEF ScreenInv
<1>9. CASE first
  <2>1. c \in [QueryKeys -> AnyQuery]
    <3>1. Mounts(told[k]) \in AnyQuery
      BY <1>5, <1>6, MountsAt
    <3> QED BY <1>3, <3>1 DEF Aware
  <2>2. /\ desk' \in Screen /\ desk'.panel = desk.panel /\ desk'.mounted = desk.mounted
        /\ desk'.filter = desk.filter /\ desk'.paging = paging /\ desk'.server = desk.server
        /\ desk'.fewer = desk.fewer /\ desk'.pending = {} /\ desk'.cache = c
    <3> DEFINE a == [desk EXCEPT !.pending = {}]
               b == [a EXCEPT !.paging = paging]
    <3>1. desk' = [b EXCEPT !.cache = c]
      BY <1>2, <1>9
    <3> HIDE DEF c, first
    <3>2. /\ a \in Screen /\ a.panel = desk.panel /\ a.mounted = desk.mounted
          /\ a.filter = desk.filter /\ a.server = desk.server /\ a.fewer = desk.fewer
          /\ a.pending = {}
      BY <1>7 DEF Screen
    <3> HIDE DEF a
    <3>3. /\ b \in Screen /\ b.panel = desk.panel /\ b.mounted = desk.mounted
          /\ b.filter = desk.filter /\ b.server = desk.server /\ b.fewer = desk.fewer
          /\ b.pending = {} /\ b.paging = paging
      BY <1>4, <3>2 DEF Screen
    <3> HIDE DEF b
    <3> QED BY <2>1, <3>1, <3>3 DEF Screen
  <2>3. ~desk.filter
    BY <1>9, UnfilteredTimeline, DeskIs, OkIs
  <2>4. Steady(e, desk')
    BY <1>4, <1>6, <2>2, <2>3 DEF Steady
  <2>5. CASE desk.mounted
    <3>1. desk.filter = no
      BY <1>5, <1>7, <2>3 DEF Screen
    <3>2. KeyOf(desk') = k
      BY <1>4, <1>5, <2>2, <3>1 DEF KeyOf, PageFor
    <3>3. desk'.cache = [e.cache EXCEPT ![KeyOf(desk')] = Mounts(@)]
      BY <1>6, <1>9, <2>2, <2>5, <3>2
    <3> HIDE DEF e, c, first
    <3> QED BY <1>6, <2>2, <2>4, <3>3, TurnOk DEF ScreenInv
  <2>6. CASE ~desk.mounted
    <3>1. desk'.cache = e.cache
      BY <1>6, <2>2, <2>6
    <3> HIDE DEF e, c, first
    <3>2. Comes(e, desk')
      BY <3>1 DEF Comes
    <3>3. \A j \in QueryKeys :
            SoundQuery(desk'.cache[j], ViewOf(e.panel, e.server, j), Owed(e), Shown(desk', j))
      <4> TAKE j \in QueryKeys
      <4>1. ~Shown(desk', j) /\ ~Shown(e, j)
        BY <1>6, <2>2, <2>6 DEF Shown
      <4> QED BY <1>6, <3>1, <4>1, OkIs DEF SoundQuery
    <3> QED BY <1>6, <2>2, <2>4, <3>2, <3>3, SteadyStep DEF ScreenInv
  <2> QED BY <2>5, <2>6
<1> QED BY <1>8, <1>9
LEMMA QuietProfile == ~SaveProfile.always
BY DEF SaveProfile

LEMMA GiveUpOk ==
  ASSUME ScreenInv, GiveUp
  PROVE  ScreenInv'
<1>1. PICK w \in desk.pending, arrives \in BOOLEAN :
        /\ w.committed => ~arrives
        /\ LET told == IF w.write.always THEN Invalidate(w.write) ELSE desk.cache
           IN desk' = [desk EXCEPT
                !.pending = IF arrives THEN {[w EXCEPT !.waiting = FALSE]} ELSE {},
                !.cache = IF w.committed /\ ~w.write.always THEN Unaware(told) ELSE told]
  BY DEF GiveUp
<1> DEFINE x == [w EXCEPT !.waiting = FALSE]
           p == IF arrives THEN {x} ELSE {}
           told == IF w.write.always THEN Invalidate(w.write) ELSE desk.cache
           c == IF w.committed /\ ~w.write.always THEN Unaware(told) ELSE told
           a == [desk EXCEPT !.pending = p]
<1>2. desk' = [a EXCEPT !.cache = c]
  BY <1>1
<1>3. /\ w \in AnyWrite /\ Touched(w.write) \cap desk.panel.reads # {} /\ Owed(desk) = w.committed
      /\ w.write.always => Under(w.write.clears, desk.panel.key)
  BY PendingIs, QuietProfile
<1>4. x \in AnyWrite /\ x.committed = w.committed /\ x.write = w.write
  BY <1>3 DEF AnyWrite
<1>5. /\ Aware(c)
      /\ \A k \in QueryKeys :
           SoundQuery(c[k], ViewOf(desk.panel, desk.server, k), FALSE, Shown(desk, k))
  <2>1. CASE w.write.always
    <3>1. c = Invalidate(w.write)
      BY <2>1
    <3> HIDE DEF c
    <3> QED BY <1>3, <2>1, <3>1, InvalidateWell
  <2>2. CASE ~w.write.always /\ w.committed
    <3>1. c = Unaware(desk.cache)
      BY <2>2
    <3> HIDE DEF c
    <3> QED BY <3>1, UnawareWell
  <2>3. CASE ~w.write.always /\ ~w.committed
    <3>1. c = desk.cache
      BY <2>3
    <3> HIDE DEF c
    <3>2. ~Owed(desk)
      BY <1>3, <2>3
    <3> QED BY <3>1, <3>2, AwareStays, DeskIs DEF SoundQuery
  <2> QED BY <2>1, <2>2, <2>3
<1> HIDE DEF x, c
<1>6. p \in SUBSET AnyWrite /\ (\A y \in p : y = x) /\ (p # {} => ~x.committed)
  BY <1>1, <1>4
<1> HIDE DEF p
<1>7. desk \in Screen
  BY DeskIs
<1>8. /\ a \in Screen /\ a.panel = desk.panel /\ a.mounted = desk.mounted /\ a.filter = desk.filter
      /\ a.paging = desk.paging /\ a.server = desk.server /\ a.fewer = desk.fewer /\ a.pending = p
  BY <1>6, <1>7 DEF Screen
<1> HIDE DEF a
<1>9. /\ desk' \in Screen /\ desk'.panel = desk.panel /\ desk'.mounted = desk.mounted
      /\ desk'.filter = desk.filter /\ desk'.paging = desk.paging /\ desk'.server = desk.server
      /\ desk'.fewer = desk.fewer /\ desk'.pending = p /\ desk'.cache = c
  BY <1>2, <1>5, <1>8 DEF Screen, Aware
<1>10. SoundWrites(desk') /\ ~Owed(desk')
  BY <1>3, <1>4, <1>6, <1>9 DEF SoundWrites, Owed
<1>11. \A k \in QueryKeys :
         SoundQuery(desk'.cache[k], ViewOf(desk'.panel, desk'.server, k), Owed(desk'), Shown(desk, k))
  BY <1>5, <1>9, <1>10 DEF SoundQuery
<1> QED BY <1>5, <1>9, <1>10, <1>11, ServerGrows, WriteStep DEF ScreenInv

LEMMA SweepOk ==
  ASSUME ScreenInv, Sweep
  PROVE  ScreenInv'
<1> DEFINE s == [version |-> desk.server.version + 1, all |-> desk.server.all + 1,
                 some |-> desk.server.some + 1]
           c == Unaware(desk.cache)
           a == [desk EXCEPT !.server = s]
<1>0. desk \in Screen
  BY DeskIs
<1>1. desk' = [a EXCEPT !.cache = c] /\ desk.pending = {}
  BY DEF Sweep
<1>2. /\ s \in [version : Nat, all : Nat, some : Nat]
      /\ desk.server.all <= s.all /\ desk.server.some <= s.some
  <2>1. desk.server.version \in Nat /\ desk.server.all \in Nat /\ desk.server.some \in Nat
    BY <1>0 DEF Screen
  <2> QED BY <2>1
<1>3. Aware(c) /\ \A k \in QueryKeys : \A v : SoundQuery(c[k], v, FALSE, Shown(desk, k))
  BY UnawareWell
<1> HIDE DEF s, c
<1>4. /\ a \in Screen /\ a.panel = desk.panel /\ a.mounted = desk.mounted /\ a.filter = desk.filter
      /\ a.paging = desk.paging /\ a.server = s /\ a.fewer = desk.fewer /\ a.pending = {}
  BY <1>0, <1>1, <1>2 DEF Screen
<1> HIDE DEF a
<1>5. /\ desk' \in Screen /\ desk'.panel = desk.panel /\ desk'.mounted = desk.mounted
      /\ desk'.filter = desk.filter /\ desk'.paging = desk.paging /\ desk'.server = s
      /\ desk'.fewer = desk.fewer /\ desk'.pending = {} /\ desk'.cache = c
  BY <1>1, <1>3, <1>4 DEF Screen, Aware
<1>6. SoundWrites(desk') /\ ~Owed(desk')
  BY <1>5 DEF SoundWrites, Owed
<1>7. \A k \in QueryKeys :
        SoundQuery(desk'.cache[k], ViewOf(desk'.panel, desk'.server, k), Owed(desk'), Shown(desk, k))
  BY <1>3, <1>5, <1>6 DEF SoundQuery
<1> QED BY <1>2, <1>3, <1>5, <1>6, <1>7, WriteStep DEF ScreenInv

-----------------------------------------------------------------------------
LEMMA ScreensBegin == ScreensInit => ScreenInv
<1> SUFFICES ASSUME NEW panel \in Panels, NEW rows \in RowsAtFirst,
      desk = [kind |-> "screen", panel |-> panel, mounted |-> FALSE, filter |-> FALSE,
              paging |-> [of |-> FALSE, page |-> 1],
              server |-> [version |-> 0, all |-> rows[1],
                          some |-> IF panel.filtered THEN rows[2] ELSE rows[1]],
              cache |-> [k \in QueryKeys |-> Query],
              pending |-> {}, turns |-> 0, fewer |-> FALSE]
    PROVE ScreenInv
  BY DEF ScreensInit
<1> DEFINE s == [version |-> 0, all |-> rows[1], some |-> IF panel.filtered THEN rows[2] ELSE rows[1]]
           c == [k \in QueryKeys |-> Query]
           paging == [of |-> FALSE, page |-> 1]
<1>1. rows[1] \in Nat /\ rows[2] \in Nat
  BY ScreensAssumption
<1>2. s \in [version : Nat, all : Nat, some : Nat]
  BY <1>1
<1>3. c \in [QueryKeys -> AnyQuery] /\ \A k \in QueryKeys : c[k] = Query
  BY QueryIs
<1>4. paging \in [of : BOOLEAN, page : 1..Pages(MostRows)] /\ paging.page = 1
  BY FirstPage
<1> HIDE DEF s, c, paging
<1>5. desk = [kind |-> "screen", panel |-> panel, mounted |-> FALSE, filter |-> FALSE,
              paging |-> paging, server |-> s, cache |-> c, pending |-> {}, turns |-> 0,
              fewer |-> FALSE]
  BY DEF s, c, paging
<1>6. /\ desk \in Screen /\ ~desk.mounted /\ ~desk.filter /\ desk.paging = paging /\ desk.cache = c
      /\ desk.pending = {}
  BY <1>2, <1>3, <1>4, <1>5 DEF Screen
<1>7. SoundWrites(desk)
  BY <1>6 DEF SoundWrites
<1>8. SoundPages(desk)
  BY <1>3, <1>4, <1>6, QueryIs, UnreadIsView DEF SoundPages
<1>9. \A k \in QueryKeys :
        SoundQuery(desk.cache[k], ViewOf(desk.panel, desk.server, k), Owed(desk), Shown(desk, k))
  BY <1>3, <1>6, QueryIs DEF SoundQuery, Shown
<1> QED BY <1>6, <1>7, <1>8, <1>9 DEF ScreenInv, ScreenOk

LEMMA ScreenInvInductive == ScreenInv /\ [ScreensNext]_desk => ScreenInv'
<1> SUFFICES ASSUME ScreenInv, [ScreensNext]_desk PROVE ScreenInv'
  OBVIOUS
<1>1. CASE desk' = desk
  BY <1>1 DEF ScreenInv
<1>2. CASE Look \/ Leave \/ Forget \/ Age \/ ChangeFilter \/ TryAgain \/ Poll
  BY <1>2, LookOk, LeaveOk, ForgetOk, AgeOk, ChangeFilterOk, TryAgainOk, PollOk
<1>3. CASE \E page \in 1..Pages(MostRows) : GoToPage(page)
  BY <1>3, GoToPageOk
<1>4. CASE \E k \in QueryKeys : ReadServer(k) \/ Land(k) \/ FailToRead(k)
  BY <1>4, ReadServerOk, LandOk, FailToReadOk
<1>5. CASE \E write \in Writes : Start(write)
  BY <1>5, StartOk
<1>6. CASE Commit \/ WriteAnswered \/ GiveUp \/ Sweep
  BY <1>6, CommitOk, WriteAnsweredOk, GiveUpOk, SweepOk
<1> QED BY <1>1, <1>2, <1>3, <1>4, <1>5, <1>6 DEF ScreensNext

-----------------------------------------------------------------------------
(* What is promised of a screen at rest. *)

LEMMA ViewInUse ==
  ASSUME ScreenInv
  PROVE  LET n == Matching(desk.filter)
             p == Key[2]
         IN /\ n = RowsOf(desk.panel, desk.server, desk.filter) /\ n \in Nat /\ p \in Nat \ {0}
            /\ Key[1] = desk.filter
            /\ View(Key[1], Key[2]) = ViewOf(desk.panel, desk.server, Key)
            /\ ~desk.fewer => p = 1 \/ p <= Pages(n)
<1> DEFINE n == Matching(desk.filter)
<1>1. desk \in Screen /\ SoundPages(desk)
  BY DeskIs, OkIs
<1>2. n = RowsOf(desk.panel, desk.server, desk.filter)
  BY DEF Matching, RowsOf
<1>3. n \in Nat
  BY <1>1, <1>2, RowsAre
<1>4. /\ Key \in QueryKeys /\ Key[1] = desk.filter /\ Key[2] \in Nat \ {0}
      /\ Key[2] = PageFor(desk.paging, desk.filter)
  BY <1>1, KeyInUse, KeyIs
<1>5. View(Key[1], Key[2]) = ViewOf(desk.panel, desk.server, Key)
  BY <1>4, ViewIs
<1>6. ~desk.fewer => Key[2] = 1 \/ Key[2] <= Pages(n)
  BY <1>1, <1>2, <1>4 DEF SoundPages, PageFor
<1> QED BY <1>2, <1>3, <1>4, <1>5, <1>6

\* A page shows nothing only where there is nothing, while no rows went.
LEMMA NothingMeansNone ==
  ASSUME ScreenInv, ~desk.fewer, ~(View(Key[1], Key[2]).here > 0)
  PROVE  Matching(desk.filter) = 0
<1> DEFINE n == Matching(desk.filter)
           p == Key[2]
           before == (p - 1) * PageSize
           v == ViewOf(desk.panel, desk.server, Key)
<1>1. /\ n \in Nat /\ p \in Nat \ {0} /\ (p = 1 \/ p <= Pages(n)) /\ ~(v.here > 0)
      /\ n = RowsOf(desk.panel, desk.server, Key[1])
  BY ViewInUse
<1>2. v.here = IF desk.panel.paged
               THEN IF n > before THEN Within(PageSize, n - before) ELSE 0
               ELSE n
  BY <1>1 DEF ViewOf
<1>3. before \in Int
  BY <1>1, ScreensAssumption
<1> SUFFICES ASSUME n # 0 PROVE FALSE
  OBVIOUS
<1>4. before < n
  BY <1>1, PageHasRows
<1> HIDE DEF n, p, before, v
<1>5. CASE desk.panel.paged
  <2>1. v.here = Within(PageSize, n - before)
    BY <1>1, <1>2, <1>3, <1>4, <1>5
  <2>2. n - before \in Nat \ {0}
    BY <1>1, <1>3, <1>4
  <2> QED BY <1>1, <2>1, <2>2, ScreensAssumption DEF Within
<1>6. CASE ~desk.panel.paged
  BY <1>1, <1>2, <1>6
<1> QED BY <1>5, <1>6

LEMMA ScreenFollows == ScreenInv => ScreensFollow
<1> SUFFICES ASSUME ScreenInv, Quiet
             PROVE  /\ Current.failed => Says = "could not load" \/ desk.panel.silent
                    /\ ~Current.failed => Current.data = View(Key[1], Key[2])
                    /\ ~Current.failed /\ Says \in {"none match", "nothing yet"} =>
                         \/ Matching(desk.filter) = 0
                         \/ desk.fewer
                    /\ ~Current.failed /\ Says = "nothing yet" =>
                         desk.server.all = 0 \/ desk.fewer \/ AllArchived
  BY DEF ScreensFollow
<1>1. Current.failed => Says = "could not load" \/ desk.panel.silent
  BY DEF Says
<1>2. ~Current.failed => Current.data # Unread /\ Current.data = View(Key[1], Key[2])
  <2>1. desk.mounted /\ desk.pending = {} /\ Current.read = "no" /\ ~Current.missed
    BY DEF Quiet
  <2>2. ~Owed(desk) /\ Shown(desk, Key)
    BY <2>1, KeyInUse DEF Owed, Shown
  <2>3. SoundQuery(Current, ViewOf(desk.panel, desk.server, Key), Owed(desk), Shown(desk, Key))
    BY KeyInUse, DeskIs
  <2> QED BY <2>1, <2>2, <2>3, ViewInUse DEF SoundQuery
<1>3. ASSUME ~Current.failed, Says \in {"none match", "nothing yet"}
      PROVE  Matching(desk.filter) = 0 \/ desk.fewer
  <2>1. ~(Current.data.here > 0)
    BY <1>2, <1>3 DEF Says
  <2> QED BY <1>2, <1>3, <2>1, NothingMeansNone
<1>4. ASSUME ~Current.failed, Says = "nothing yet"
      PROVE  desk.server.all = 0 \/ desk.fewer \/ AllArchived
  <2>1. ~desk.filter
    BY <1>4 DEF Says
  <2>2. Matching(desk.filter) = 0 \/ desk.fewer
    BY <1>3, <1>4
  <2> QED BY <2>1, <2>2 DEF Matching, AllArchived
<1> QED BY <1>1, <1>2, <1>3, <1>4

\* Every list and card, at rest, shows what the server has: whichever form or
\* button wrote last and whatever was being read meanwhile.
THEOREM ScreensKeepUp == ScreensSpec => []ScreensFollow
<1>1. ScreensInit => ScreenInv
  BY ScreensBegin
<1>2. ScreenInv /\ [ScreensNext]_desk => ScreenInv'
  BY ScreenInvInductive
<1>3. ScreenInv => ScreensFollow
  BY ScreenFollows
<1> QED BY <1>1, <1>2, <1>3, PTL DEF ScreensSpec
=============================================================================
