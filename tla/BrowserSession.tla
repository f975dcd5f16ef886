--------------------------- MODULE BrowserSession ---------------------------
(***************************************************************************)
(* The browser's half of a session: session.ts and token-store.ts in every *)
(* tab, the 401 handling of client.ts, AuthProvider, and the one refresh    *)
(* cookie all tabs share.                                                  *)
(*                                                                         *)
(* A call carries the cookie and the bearer of the moment it is sent.  Its *)
(* answer, Set-Cookie included, arrives later, after those of other calls, *)
(* or never.  The server is AuthController and what Sessions shows of      *)
(* AuthService: a call takes effect in one step.  The code a tab runs when *)
(* an answer arrives, with every promise that settles in turn, is one step *)
(* too: no other event of the page can come in between.                    *)
(***************************************************************************)
EXTENDS Integers, FiniteSets

CONSTANTS
  Tab,
  Call,     \* calls on their way or waiting, of all tabs together: a bound
  Token,    \* refresh tokens, in the order of their issue: a bound
  Family,   \* sign-ins; their number bounds a run
  User,
  MaxDeeds, \* bound: what people do, in all tabs together
  NoTab, NoCall, NoToken, NoFamily, NoUser,
  Keep      \* an answer without a Set-Cookie

ASSUME BrowserAssumption ==
  /\ MaxDeeds \in Nat
  /\ Call \subseteq Nat /\ Token \subseteq Nat /\ 1..Cardinality(Tab) \subseteq Call
  /\ NoTab \notin Tab /\ NoCall \notin Call /\ NoUser \notin User /\ NoFamily \notin Family
  /\ NoToken \notin Token /\ Keep \notin Token \cup {NoToken}

VARIABLES
  token,      \* refresh_tokens: the family and what became of it
  owner,      \* the user of a family
  jar,        \* the refresh cookie of the browser
  access,     \* per tab: the access token in memory and the call it came with
  generation, \* per tab: how often its session has ended
  inFlight,   \* per tab: the refresh new callers join
  boot,       \* per tab: the refresh AuthProvider's first effect waits for
  status,     \* per tab: what AuthProvider shows
  shown,      \* per tab: the user AuthProvider shows
  call,       \* calls
  deeds,      \* how often somebody loaded a page, asked, signed in or out
  quiet       \* history: nothing that may end the cookie's session has happened

server == <<token, owner>>
tabs == <<access, generation, inFlight, boot, status, shown>>
vars == <<server, jar, tabs, call, deeds, quiet>>

Idle     == [kind |-> "none"]
NoAccess == [user |-> NoUser, via |-> "none", begun |-> 0]
Generation == 0..(2 * MaxDeeds + 1)
Kind     == {"refresh", "me", "data", "login", "logout"}

\* answer: whether it was a success, for which user, and its Set-Cookie.
Answers == [ok : BOOLEAN, user : User \cup {NoUser}, set : Token \cup {NoToken, Keep}]
Unanswered == [ok |-> FALSE, user |-> NoUser, set |-> Keep]

TypeOK ==
  /\ token \in [Token -> [family : Family \cup {NoFamily},
                          state : {"unissued", "live", "grace", "old"}]]
  /\ owner \in [Family -> User \cup {NoUser}]
  /\ jar \in Token \cup {NoToken}
  /\ access \in [Tab -> [user : User \cup {NoUser}, via : {"none", "login", "refresh"},
                         begun : Generation]]
  /\ generation \in [Tab -> Generation]
  /\ inFlight \in [Tab -> Call \cup {NoCall}]
  /\ boot \in [Tab -> Call \cup {NoCall}]
  /\ status \in [Tab -> {"loading", "authenticated", "unauthenticated"}]
  /\ shown \in [Tab -> User \cup {NoUser}]
  /\ call \in [Call -> {Idle} \cup
       [kind : Kind, tab : Tab \cup {NoTab}, pc : {"sent", "answered", "waiting"},
        gen : Generation, cookie : Token \cup {NoToken}, user : User \cup {NoUser},
        retried : BOOLEAN, on : Call \cup {NoCall}, answer : Answers]]
  /\ deeds \in 0..MaxDeeds
  /\ quiet \in BOOLEAN

-----------------------------------------------------------------------------
Lowest(S)   == {x \in S : \A y \in S : x <= y}
Free        == Lowest({c \in Call : call[c] = Idle})
Busy(t)     == {c \in Call : call[c] # Idle /\ call[c].tab = t}
At(c, kind, pc) == call[c] # Idle /\ call[c].kind = kind /\ call[c].pc = pc
Unissued    == Lowest({s \in Token : token[s].state = "unissued"})
FamilyLive(f) == \E s \in Token : token[s] = [family |-> f, state |-> "live"]

\* fetch: what it carries is read when it is sent.  Only the calls that end or
\* refresh a session read the cookie.
Sent(kind, t, user, gen, cookie) ==
  [kind |-> kind, tab |-> t, pc |-> "sent", user |-> user,
   gen |-> IF kind = "refresh" THEN gen ELSE 0,
   cookie |-> IF kind \in {"refresh", "logout"} THEN cookie ELSE NoToken,
   retried |-> FALSE, on |-> NoCall, answer |-> Unanswered]

-----------------------------------------------------------------------------
(* What the pages start. *)

Deed == deeds < MaxDeeds /\ deeds' = deeds + 1

\* A page that loads: nothing in memory, and AuthProvider asks for a refresh.
\* The calls of the page before it go on, with nobody there for the answer.
Load(t, c) ==
  /\ c \in Free
  /\ Deed
  /\ generation' = [generation EXCEPT ![t] = @ + 1]
  /\ access' = [access EXCEPT ![t] = NoAccess]
  /\ status' = [status EXCEPT ![t] = "loading"]
  /\ shown' = [shown EXCEPT ![t] = NoUser]
  /\ inFlight' = [inFlight EXCEPT ![t] = c]
  /\ boot' = [boot EXCEPT ![t] = c]
  /\ call' = [d \in Call |->
       IF d = c THEN Sent("refresh", t, NoUser, generation[t] + 1, jar)
       ELSE IF d \notin Busy(t) THEN call[d]
       ELSE IF call[d].pc = "sent" THEN [call[d] EXCEPT !.tab = NoTab]
       ELSE Idle]
  /\ UNCHANGED <<server, jar, quiet>>

\* A page asks for data, or saves something.
Ask(t, c) ==
  /\ c \in Free
  /\ Deed
  /\ status[t] = "authenticated"
  /\ \A d \in Busy(t) : call[d].kind \notin {"data", "logout"}
  /\ call' = [call EXCEPT ![c] = Sent("data", t, access[t].user, generation[t], jar)]
  /\ UNCHANGED <<server, jar, tabs, quiet>>

\* The login form and the register form; the form is disabled until the answer.
SignIn(t, c, u) ==
  /\ c \in Free
  /\ Deed
  /\ status[t] # "authenticated"
  /\ \A d \in Busy(t) : call[d].kind # "login"
  /\ call' = [call EXCEPT ![c] = Sent("login", t, u, generation[t], jar)]
  /\ UNCHANGED <<server, jar, tabs, quiet>>

\* The account menu.
SignOut(t, c) ==
  /\ c \in Free
  /\ Deed
  /\ status[t] = "authenticated"
  /\ \A d \in Busy(t) : call[d].kind # "logout"
  /\ call' = [call EXCEPT ![c] = Sent("logout", t, NoUser, generation[t], jar)]
  /\ UNCHANGED <<server, jar, tabs, quiet>>

\* The access token's fifteen minutes are over: it is worth no more than none.
AccessExpires(t) ==
  /\ access[t] # NoAccess
  /\ access' = [access EXCEPT ![t] = NoAccess]
  /\ UNCHANGED <<server, jar, generation, inFlight, boot, status, shown, call, deeds, quiet>>

-----------------------------------------------------------------------------
(* The server. *)

\* The answer of c; a page that has gone takes none.
Reply(c, ok, user, set) ==
  call' = [call EXCEPT ![c] =
    IF @.tab = NoTab THEN Idle
    ELSE [@ EXCEPT !.pc = "answered", !.answer = [ok |-> ok, user |-> user, set |-> set]]]

Ended(f) == [s \in Token |-> IF token[s].family = f /\ token[s].state = "live"
                             THEN [token[s] EXCEPT !.state = "grace"] ELSE token[s]]

\* Mutant: a spent token is a replay however young.
AcceptedAtOnce(s) == s # NoToken /\ token[s].state = "live"

\* A live token, or one spent moments ago by a rotation.
Accepted(s) ==
  /\ s # NoToken
  /\ token[s].state \in {"live", "grace"}
  /\ FamilyLive(token[s].family)

ServeRefresh(c) ==
  /\ At(c, "refresh", "sent")
  /\ LET s == call[c].cookie IN
     IF Accepted(s)
     THEN \E n \in Unissued :
            /\ token' = [token EXCEPT ![s].state = "grace",
                                      ![n] = [family |-> token[s].family, state |-> "live"]]
            /\ Reply(c, TRUE, owner[token[s].family], n)
     ELSE /\ Reply(c, FALSE, NoUser, NoToken)
          /\ token' = IF s # NoToken /\ token[s].state # "live" THEN Ended(token[s].family) ELSE token
  /\ UNCHANGED <<owner, jar, tabs, deeds, quiet>>

ServeLogin(c) ==
  /\ At(c, "login", "sent")
  /\ \E f \in Family, n \in Unissued :
       /\ owner[f] = NoUser
       /\ owner' = [owner EXCEPT ![f] = call[c].user]
       /\ token' = [token EXCEPT ![n] = [family |-> f, state |-> "live"]]
       /\ Reply(c, TRUE, call[c].user, n)
  /\ UNCHANGED <<jar, tabs, deeds, quiet>>

ServeLogout(c) ==
  /\ At(c, "logout", "sent")
  /\ LET s == call[c].cookie IN
     /\ token' = IF s = NoToken THEN token ELSE Ended(token[s].family)
     /\ quiet' = FALSE
  /\ Reply(c, TRUE, NoUser, NoToken)
  /\ UNCHANGED <<owner, jar, tabs, deeds>>

\* Any endpoint behind JwtAuthGuard, GET /auth/me among them.
ServeData(c) ==
  /\ At(c, "data", "sent") \/ At(c, "me", "sent")
  /\ Reply(c, call[c].user # NoUser, call[c].user, Keep)
  /\ UNCHANGED <<server, jar, tabs, deeds, quiet>>

\* Any other failure: a wrong password, a rate limit, the database away.  The
\* refresh endpoint drops the cookie whatever the error was.
ServeError(c) ==
  /\ call[c] # Idle
  /\ call[c].pc = "sent"
  /\ call[c].kind \in {"refresh", "login", "logout"}
  /\ Reply(c, FALSE, NoUser, IF call[c].kind = "refresh" THEN NoToken ELSE Keep)
  /\ quiet' = (quiet /\ call[c].kind # "refresh")
  /\ UNCHANGED <<server, jar, tabs, deeds>>

\* REFRESH_REUSE_GRACE_MS are over for a spent token.
GraceElapses(s) ==
  /\ token[s].state = "grace"
  /\ token' = [token EXCEPT ![s].state = "old"]
  /\ quiet' = (quiet /\ s # jar /\ \A c \in Call :
                 call[c] # Idle => call[c].pc # "sent" \/ call[c].cookie # s)
  /\ UNCHANGED <<owner, jar, tabs, call, deeds>>

-----------------------------------------------------------------------------
(* Answers. *)

\* Mutant: whatever a refresh brings is stored.
AnyRefresh(c) == TRUE

\* startedAt = generation: the session the refresh began in still runs.
StillOurs(c) == call[c].gen = generation[call[c].tab]

Retired(c) == IF call[c].gen = generation[call[c].tab] THEN NoCall ELSE inFlight[call[c].tab]

Waiters(c) == {w \in Call : call[w] # Idle /\ call[w].pc = "waiting" /\ call[w].on = c}

\* endSession, and what is shown afterwards.
EndSession(t, user, bootAfter) ==
  /\ generation' = [generation EXCEPT ![t] = @ + 1]
  /\ inFlight' = [inFlight EXCEPT ![t] = NoCall]
  /\ access' = [access EXCEPT ![t] = NoAccess]
  /\ status' = [status EXCEPT ![t] = "unauthenticated"]
  /\ shown' = [shown EXCEPT ![t] = user]
  /\ boot' = [boot EXCEPT ![t] = bootAfter]

\* The refresh c of tab t brought a token: those that wait for it go on.
Refreshed(c, t) ==
  LET user == call[c].answer.user IN
  /\ access' = [access EXCEPT ![t] = [user |-> user, via |-> "refresh", begun |-> call[c].gen]]
  /\ inFlight' = [inFlight EXCEPT ![t] = Retired(c)]
  /\ boot' = [boot EXCEPT ![t] = IF @ = c THEN NoCall ELSE @]
  /\ call' = [d \in Call |->
       IF d = c THEN (IF boot[t] = c THEN Sent("me", t, user, generation[t], jar') ELSE Idle)
       ELSE IF d \in Waiters(c)
         THEN [call[d] EXCEPT !.pc = "sent", !.on = NoCall, !.user = user]
       ELSE call[d]]
  /\ UNCHANGED <<generation, status, shown>>

\* It failed, or its session is over: those that wait for it fail.
NotRefreshed(c, t) ==
  LET failed == Waiters(c) IN
  /\ call' = [d \in Call |-> IF d \in failed \cup {c} THEN Idle ELSE call[d]]
  /\ IF \E d \in failed : call[d].kind = "me"
     THEN EndSession(t, shown[t], boot[t])
     ELSE /\ access' = [access EXCEPT ![t] = IF StillOurs(c) THEN NoAccess ELSE @]
          /\ inFlight' = [inFlight EXCEPT ![t] = Retired(c)]
          /\ status' = [status EXCEPT ![t] = IF boot[t] = c THEN "unauthenticated" ELSE @]
          /\ boot' = [boot EXCEPT ![t] = IF @ = c THEN NoCall ELSE @]
          /\ UNCHANGED <<generation, shown>>

SettleRefresh(c, ok) ==
  /\ call[c].kind = "refresh"
  /\ IF ok /\ StillOurs(c) THEN Refreshed(c, call[c].tab) ELSE NotRefreshed(c, call[c].tab)

SettleLogin(c, ok) ==
  LET t == call[c].tab IN
  /\ call[c].kind = "login"
  /\ call' = [call EXCEPT ![c] = Idle]
  /\ IF ok
     THEN /\ access' = [access EXCEPT ![t] = [user |-> call[c].answer.user, via |-> "login",
                                              begun |-> 0]]
          /\ status' = [status EXCEPT ![t] = "authenticated"]
          /\ shown' = [shown EXCEPT ![t] = call[c].answer.user]
     ELSE UNCHANGED <<access, status, shown>>
  /\ UNCHANGED <<generation, inFlight, boot>>

\* The local session ends whether the call went through or not.
SettleLogout(c) ==
  /\ call[c].kind = "logout"
  /\ call' = [call EXCEPT ![c] = Idle]
  /\ EndSession(call[c].tab, NoUser, boot[call[c].tab])

SettleData(c) ==
  /\ call[c].kind = "data"
  /\ call' = [call EXCEPT ![c] = Idle]
  /\ UNCHANGED tabs

\* GET /auth/me: the profile, or the session is given up.
SettleProfile(c, ok) ==
  LET t == call[c].tab IN
  /\ call[c].kind = "me"
  /\ call' = [call EXCEPT ![c] = Idle]
  /\ IF ok THEN /\ status' = [status EXCEPT ![t] = "authenticated"]
                /\ shown' = [shown EXCEPT ![t] = call[c].answer.user]
                /\ UNCHANGED <<access, generation, inFlight, boot>>
           ELSE EndSession(t, shown[t], boot[t])

Settle(c, ok) ==
  \/ SettleRefresh(c, ok)
  \/ SettleLogin(c, ok)
  \/ SettleLogout(c)
  \/ SettleData(c)
  \/ SettleProfile(c, ok)

\* Mutant: the refresh call retries its own 401 as well.
Retries(kind) == kind \in {"data", "me", "refresh"}

\* The calls without skipAuthRefresh.
RefreshesOn401(kind) == kind \in {"data", "me"}

\* Mutant: every caller starts a refresh of its own.
JoinsNever(t) == FALSE

\* inFlight ??= rotate(...)
Joins(t) == inFlight[t] # NoCall

\* client.ts after a first 401: it waits for refreshSession, which starts a
\* refresh unless one is in flight.
AwaitRefresh(c, d) ==
  LET t == call[c].tab
      joined == Joins(t)
  IN /\ call' = [e \in Call |->
          IF e = c THEN [call[c] EXCEPT !.pc = "waiting", !.retried = TRUE, !.answer = Unanswered,
                                        !.on = IF joined THEN inFlight[t] ELSE d]
          ELSE IF e = d /\ ~joined THEN Sent("refresh", t, NoUser, generation[t], jar')
          ELSE call[e]]
     /\ inFlight' = [inFlight EXCEPT ![t] = IF joined THEN @ ELSE d]
     /\ UNCHANGED <<access, generation, boot, status, shown>>

Unauthorized(c) ==
  /\ RefreshesOn401(call[c].kind)
  /\ ~call[c].retried
  /\ ~call[c].answer.ok

Deliver(c) ==
  /\ call[c] # Idle
  /\ call[c].pc = "answered"
  /\ jar' = IF call[c].answer.set = Keep THEN jar ELSE call[c].answer.set
  /\ quiet' = IF call[c].kind = "login" /\ call[c].answer.ok
              THEN \A d \in Call \ {c} :
                     call[d] = Idle \/ call[d].kind \notin {"refresh", "login", "logout"}
              ELSE quiet
  /\ IF Unauthorized(c) THEN \E d \in Free : AwaitRefresh(c, d)
                        ELSE Settle(c, call[c].answer.ok)
  /\ UNCHANGED <<server, deeds>>

\* The request or its answer is lost: fetch rejects.
Lose(c) ==
  /\ call[c] # Idle
  /\ call[c].pc \in {"sent", "answered"}
  /\ IF call[c].tab = NoTab
     THEN call' = [call EXCEPT ![c] = Idle] /\ UNCHANGED tabs
     ELSE Settle(c, FALSE)
  /\ UNCHANGED <<server, jar, deeds, quiet>>

-----------------------------------------------------------------------------
\* Tabs that load, with the cookie s of u's earlier visit or without one.
Opened(start, s, f, u, returning) ==
  /\ \A t1, t2 \in Tab : t1 # t2 => start[t1] # start[t2]
  /\ token = [n \in Token |-> IF returning /\ n = s THEN [family |-> f, state |-> "live"]
                              ELSE [family |-> NoFamily, state |-> "unissued"]]
  /\ owner = [g \in Family |-> IF returning /\ g = f THEN u ELSE NoUser]
  /\ jar = IF returning THEN s ELSE NoToken
  /\ access = [t \in Tab |-> NoAccess]
  /\ generation = [t \in Tab |-> 0]
  /\ inFlight = start
  /\ boot = start
  /\ status = [t \in Tab |-> "loading"]
  /\ shown = [t \in Tab |-> NoUser]
  /\ call = [c \in Call |-> IF \E t \in Tab : start[t] = c
               THEN Sent("refresh", CHOOSE t \in Tab : start[t] = c, NoUser, 0, jar) ELSE Idle]
  /\ deeds = 0
  /\ quiet = returning

Init ==
  \E start \in [Tab -> 1..Cardinality(Tab)], s \in Lowest(Token), f \in Family, u \in User,
     returning \in BOOLEAN : Opened(start, s, f, u, returning)

Serve(c) ==
  \/ ServeRefresh(c)
  \/ ServeLogin(c)
  \/ ServeLogout(c)
  \/ ServeData(c)
  \/ ServeError(c)

Next ==
  \/ \E t \in Tab, c \in Call : Load(t, c)
  \/ \E t \in Tab, c \in Call : Ask(t, c)
  \/ \E t \in Tab, c \in Call, u \in User : SignIn(t, c, u)
  \/ \E t \in Tab, c \in Call : SignOut(t, c)
  \/ \E t \in Tab : AccessExpires(t)
  \/ \E c \in Call : Serve(c)
  \/ \E s \in Token : GraceElapses(s)
  \/ \E c \in Call : Deliver(c)
  \/ \E c \in Call : Lose(c)

Spec == Init /\ [][Next]_vars

-----------------------------------------------------------------------------
\* A token that a refresh stored was asked for after the tab's session last
\* ended: what was in the air at a sign-out puts nothing back.  (session.ts:
\* generation, rotate)
StoredByOwnSession ==
  \A t \in Tab : access[t].via = "refresh" => access[t].begun = generation[t]

\* A tab has one refresh of its running session in the air: two would spend
\* one cookie twice.  (session.ts: inFlight)
OneRefreshInFlight ==
  \A t \in Tab :
    Cardinality({c \in Busy(t) : call[c].kind = "refresh" /\ call[c].gen = generation[t]}) <= 1

\* Tabs that refresh together, answers that come late, in any order or never,
\* and pages that reload do not end a session: unless somebody signs out or
\* in over it, the server fails, or a spent cookie is left to age, the cookie
\* in the browser is good for another token.  (AuthService.refresh and its
\* grace; session.ts)
QuietSessionLasts == 
  quiet => jar # NoToken /\ token[jar].state \in {"live", "grace"} /\ FamilyLive(token[jar].family)

\* Whoever waits, waits for a call that is on its way: a request that met a
\* 401 for a refresh of its tab, a page that loads for its refresh or its
\* profile.  No promise is left that nobody settles.  (client.ts: the single
\* retry; auth-api.ts: skipAuthRefresh; session.ts: inFlight and finally)
NobodyWaitsInVain ==
  LET OnItsWay(c, t) == c \in Busy(t) /\ call[c].kind = "refresh" /\ call[c].pc # "waiting"
  IN /\ \A t \in Tab, c \in Call :
          c \in Busy(t) /\ call[c].pc = "waiting" => OnItsWay(call[c].on, t)
     /\ \A t \in Tab :
          status[t] = "loading" =>
            \/ boot[t] # NoCall /\ OnItsWay(boot[t], t)
            \/ \E c \in Busy(t) : call[c].kind = "me"

=============================================================================
