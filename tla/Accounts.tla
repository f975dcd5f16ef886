------------------------------ MODULE Accounts ------------------------------
(***************************************************************************)
(* AccountEmailService, OAuthService and UsersService: how an account is   *)
(* made, how its address is proved, and the ways into it: a password, or an *)
(* identity at a provider.                                                 *)
(*                                                                         *)
(* An account is named by its address: users.email is unique and no        *)
(* endpoint changes it, so a link is always for the address its account    *)
(* still has, and accounts are never deleted.  Requests interleave between *)
(* their statements; a statement that meets a row of an open transaction   *)
(* waits, and looks again.                                                 *)
(***************************************************************************)
EXTENDS Integers, FiniteSets, Sequences

CONSTANTS
  Req,         \* requests in progress at once
  Address,     \* addresses people read
  Token,       \* emailed links; their number bounds a run
  Provider,    \* the providers of the registry
  Subject,     \* subject identifiers at a provider
  State,       \* OAuth flows; their number bounds a run
  Browser,
  MaxStarted,  \* bound: links and flows together
  NoReq, NoAddress, NoState

Identity == Provider \X Subject
Purpose  == {"verify", "reset"}

ASSUME AccountsAssumption ==
  MaxStarted \in Nat /\ NoReq \notin Req /\ NoAddress \notin Address /\ NoState \notin State

VARIABLES
  user,     \* users: is there a row, has it a passwordHash, an emailVerifiedAt
  link,     \* email_tokens: whose, what for, and what became of it
  held,     \* the request whose open transaction has locked the link's row
  account,  \* oauth_accounts: the account an identity is attached to
  reported, \* the verified address the provider gives for an identity
  flow,     \* oauth states in Redis
  cookie,   \* the flow whose nonce a browser keeps
  req,      \* what each request is doing
  proved,   \* history: addresses a person has shown to read
  replaced, \* history: links that were there when a newer one was issued
  uses,     \* history: how often a link changed something
  attached, \* history: identities an account's own session or creation attached
  entered,  \* history: identities that signed in, and where
  done      \* history: the browsers in which a flow got past the state check

rows == <<user, link, held, account>>
oauth == <<flow, cookie>>
history == <<proved, replaced, uses, attached, entered, done>>
vars == <<rows, reported, oauth, req, history>>

NoUser  == [made |-> FALSE, password |-> FALSE, verified |-> FALSE]
NoLink  == [user |-> NoAddress, purpose |-> "verify", status |-> "none"]
NoFlow  == [status |-> "none", browser |-> NoState, linkUser |-> NoAddress]
Idle    == [pc |-> "idle"]

LinkRequest == [pc : {"issuing", "retired"}, user : Address, purpose : Purpose,
                want : SUBSET Token]
UseRequest  == [pc : {"found", "consumed"}, token : Token]
FlowRequest == [pc : {"looking up", "known", "new", "creating", "linking", "confirming"},
                browser : Browser, identity : Identity, email : Address,
                linkUser : Address \cup {NoAddress}, owner : Address \cup {NoAddress}]
UnlinkRequest == [pc : {"counting", "unlinking"}, user : Address, provider : Provider,
                  password : BOOLEAN]

TypeOK ==
  /\ user \in [Address -> [made : BOOLEAN, password : BOOLEAN, verified : BOOLEAN]]
  /\ link \in [Token -> [user : Address \cup {NoAddress}, purpose : Purpose,
                         status : {"none", "unused", "used", "deleted"}]]
  /\ held \in [Token -> Req \cup {NoReq}]
  /\ account \in [Identity -> Address \cup {NoAddress}]
  /\ reported \in [Identity -> Address]
  /\ flow \in [State -> [status : {"none", "pending", "gone"},
                         browser : Browser \cup {NoState},
                         linkUser : Address \cup {NoAddress}]]
  /\ cookie \in [Browser -> State \cup {NoState}]
  /\ req \in [Req -> {Idle} \cup LinkRequest \cup UseRequest \cup FlowRequest
                     \cup UnlinkRequest]
  /\ proved \subseteq Address
  /\ replaced \subseteq Token
  /\ uses \in [Token -> Nat]
  /\ attached \subseteq Identity \X Address
  /\ entered \subseteq Identity \X Address
  /\ done \in [State -> Seq(Browser)]

Init ==
  /\ user = [a \in Address |-> NoUser]
  /\ link = [t \in Token |-> NoLink]
  /\ held = [t \in Token |-> NoReq]
  /\ account = [i \in Identity |-> NoAddress]
  /\ reported \in [Identity -> Address]
  /\ flow = [s \in State |-> NoFlow]
  /\ cookie = [b \in Browser |-> NoState]
  /\ req = [r \in Req |-> Idle]
  /\ proved = {} /\ replaced = {} /\ attached = {} /\ entered = {}
  /\ uses = [t \in Token |-> 0]
  /\ done = [s \in State |-> <<>>]

-----------------------------------------------------------------------------
At(r, pc)      == req[r].pc = pc
Next1(r, v)    == req' = [req EXCEPT ![r] = v]
Goto(r, pc)    == req' = [req EXCEPT ![r].pc = pc]
Release(r)     == held' = [t \in Token |-> IF held[t] = r THEN NoReq ELSE held[t]]
Free(S)        == \A t \in S : held[t] = NoReq
Unused(a, p)   == {t \in Token : link[t] = [user |-> a, purpose |-> p, status |-> "unused"]}
Linked(a)      == {i \in Identity : account[i] = a}

Started == Cardinality({t \in Token : link[t].status # "none"})
             + Cardinality({s \in State : flow[s].status # "none"})

-----------------------------------------------------------------------------
(* Emailed links. *)

\* The transaction of `replace` begins: its DELETE sees these rows.
Issuing(a, p) == [pc |-> "issuing", user |-> a, purpose |-> p, want |-> Unused(a, p)]

\* register: the unique index decides, and the first confirmation link follows.
Register(r, a) ==
  /\ At(r, "idle")
  /\ ~user[a].made
  /\ user' = [user EXCEPT ![a] = [made |-> TRUE, password |-> TRUE, verified |-> FALSE]]
  /\ Next1(r, Issuing(a, "verify"))
  /\ UNCHANGED <<link, held, account, reported, oauth, history>>

\* resendVerification of an account not yet confirmed; forgotPassword of any.
AskForLink(r, a, p) ==
  /\ At(r, "idle")
  /\ user[a].made
  /\ p = "verify" => ~user[a].verified
  /\ Next1(r, Issuing(a, p))
  /\ UNCHANGED <<rows, reported, oauth, history>>

\* Mutant: the links that were spent are retired, not the ones that were not.
RetireSpent(r) ==
  /\ At(r, "issuing")
  /\ Goto(r, "retired")
  /\ UNCHANGED <<rows, reported, oauth, history>>

\* The DELETE has waited for the links being spent, and locks what is left.
Retire(r) ==
  /\ At(r, "issuing")
  /\ Free(req[r].want)
  /\ held' = [t \in Token |->
       IF t \in req[r].want \cap Unused(req[r].user, req[r].purpose) THEN r ELSE held[t]]
  /\ Goto(r, "retired")
  /\ UNCHANGED <<user, link, account, reported, oauth, history>>

\* The INSERT commits with the DELETE; then the message leaves, or is lost.
CommitLink(r, t) ==
  /\ At(r, "retired")
  /\ Started < MaxStarted
  /\ link[t].status = "none"
  /\ link' = [u \in Token |->
       IF u = t THEN [user |-> req[r].user, purpose |-> req[r].purpose, status |-> "unused"]
       ELSE IF held[u] = r THEN [NoLink EXCEPT !.status = "deleted"]
       ELSE link[u]]
  /\ replaced' = replaced \cup req[r].want
  /\ Release(r)
  /\ Next1(r, Idle)
  /\ UNCHANGED <<user, account, reported, oauth, proved, uses, attached, entered, done>>

\* usable: the row is read and is there, for this purpose, unspent and in time;
\* one whose lifetime is over is a link nobody opens any more.
OpenLink(r, t) ==
  /\ At(r, "idle")
  /\ link[t].status = "unused"
  /\ Next1(r, [pc |-> "found", token |-> t])
  /\ UNCHANGED <<rows, reported, oauth, history>>

\* Mutant: the update matches the id alone.
ConsumeById(r) ==
  /\ At(r, "found")
  /\ held[req[r].token] = NoReq
  /\ link[req[r].token].status # "deleted"
  /\ held' = [held EXCEPT ![req[r].token] = r]
  /\ Goto(r, "consumed")
  /\ UNCHANGED <<user, link, account, reported, oauth, history>>

\* consume: the conditional update waits for the row and looks again.
Consume(r) ==
  /\ At(r, "found")
  /\ held[req[r].token] = NoReq
  /\ IF link[req[r].token].status = "unused"
       THEN /\ held' = [held EXCEPT ![req[r].token] = r]
            /\ Goto(r, "consumed")
       ELSE /\ held' = held
            /\ Next1(r, Idle)
  /\ UNCHANGED <<user, link, account, reported, oauth, history>>

\* verify and resetPassword commit: the link reached the inbox, so either
\* proves the address.
UseLink(r) ==
  /\ At(r, "consumed")
  /\ LET t == req[r].token
         a == link[t].user
     IN /\ link' = [link EXCEPT ![t].status = "used"]
        /\ user' = [user EXCEPT ![a].verified = TRUE,
                                ![a].password = @ \/ link[t].purpose = "reset"]
        /\ uses' = [uses EXCEPT ![t] = @ + 1]
        /\ proved' = proved \cup {a}
  /\ Release(r)
  /\ Next1(r, Idle)
  /\ UNCHANGED <<account, reported, oauth, replaced, attached, entered, done>>

-----------------------------------------------------------------------------
(* Signing in through a provider, and attaching one. *)

\* start: the flow is remembered in Redis, its nonce in the browser.  One that
\* expires is one nobody comes back from.
StartFlow(b, s, a) ==
  /\ Started < MaxStarted
  /\ flow[s].status = "none"
  /\ a # NoAddress => user[a].made
  /\ flow' = [flow EXCEPT ![s] = [status |-> "pending", browser |-> b, linkUser |-> a]]
  /\ cookie' = [cookie EXCEPT ![b] = s]
  /\ UNCHANGED <<rows, reported, req, history>>

\* Mutant: the entry is read, and deleted by another command later.
TakeFlowLater(s) == flow' = flow

\* GETDEL.
TakeFlow(s) == flow' = [flow EXCEPT ![s].status = "gone"]

NonceMatches(b, s) == cookie[b] = s

\* complete: the state is spent whatever comes of it; then the browser must be
\* the one that began, and the provider says who this is.
Callback(r, b, s, i) ==
  /\ At(r, "idle")
  /\ flow[s].status = "pending"
  /\ TakeFlow(s)
  /\ IF NonceMatches(b, s)
       THEN /\ Next1(r, [pc |-> "looking up", browser |-> b, identity |-> i,
                         email |-> reported[i], linkUser |-> flow[s].linkUser,
                         owner |-> NoAddress])
            /\ proved' = proved \cup {reported[i]}
            /\ done' = [done EXCEPT ![s] = Append(@, b)]
            /\ UNCHANGED cookie
       ELSE /\ cookie' = [cookie EXCEPT ![b] = NoState]
            /\ UNCHANGED <<req, proved, done>>
  /\ UNCHANGED <<rows, reported, replaced, uses, attached, entered>>

\* The answer clears the nonce, whatever flow it is of by now.
Answer(r) ==
  /\ cookie' = [cookie EXCEPT ![req[r].browser] = NoState]
  /\ Next1(r, Idle)

Enter(r, a) == entered' = entered \cup {<<req[r].identity, a>>}

\* Mutant: an identity nobody has is taken to be the account of its address.
OwnerByEmail(r) ==
  LET a == account[req[r].identity]
  IN IF a = NoAddress /\ user[req[r].email].made THEN req[r].email ELSE a

\* findByProviderAccount.
Owner(r) == account[req[r].identity]

LookUp(r) ==
  /\ At(r, "looking up")
  /\ CASE req[r].linkUser = NoAddress ->
            /\ req' = [req EXCEPT ![r].owner = Owner(r),
                                  ![r].pc = IF Owner(r) = NoAddress THEN "new" ELSE "known"]
            /\ UNCHANGED cookie
       [] req[r].linkUser # NoAddress /\ Owner(r) = NoAddress ->
            Goto(r, "linking") /\ UNCHANGED cookie
       [] OTHER -> Answer(r)  \* already attached: here, or to somebody else
  /\ UNCHANGED <<rows, reported, flow, history>>

\* Mutant: the provider vouches for the address, so the account is confirmed.
ConfirmAlways(r, a) == user' = [user EXCEPT ![a].verified = TRUE]

\* confirmEmailIfMatches.
Confirm(r, a) ==
  user' = [user EXCEPT ![a].verified = @ \/ req[r].email = a]

\* The identity is known: its account is confirmed if it may be, and entered.
EnterKnown(r) ==
  /\ At(r, "known")
  /\ Confirm(r, req[r].owner)
  /\ Enter(r, req[r].owner)
  /\ Answer(r)
  /\ UNCHANGED <<link, held, account, reported, flow, proved, replaced, uses, attached, done>>

\* findByEmail: an address that has an account is refused, not merged.
CheckEmail(r) ==
  /\ At(r, "new")
  /\ IF user[req[r].email].made THEN Answer(r)
     ELSE Goto(r, "creating") /\ UNCHANGED cookie
  /\ UNCHANGED <<rows, reported, flow, history>>

\* createUserWithAccount, unless either unique index says it is too late.
CreateUser(r) ==
  /\ At(r, "creating")
  /\ LET a == req[r].email
     IN IF user[a].made \/ account[req[r].identity] # NoAddress
          THEN UNCHANGED <<user, account, attached, entered>>
          ELSE /\ user' = [user EXCEPT ![a] = [made |-> TRUE, password |-> FALSE,
                                               verified |-> TRUE]]
               /\ account' = [account EXCEPT ![req[r].identity] = a]
               /\ attached' = attached \cup {<<req[r].identity, a>>}
               /\ Enter(r, a)
  /\ Answer(r)
  /\ UNCHANGED <<link, held, reported, flow, proved, replaced, uses, done>>

\* link: the insert, unless the identity was attached meanwhile.
AttachIdentity(r) ==
  /\ At(r, "linking")
  /\ IF account[req[r].identity] # NoAddress
       THEN Answer(r) /\ UNCHANGED <<account, attached>>
       ELSE /\ account' = [account EXCEPT ![req[r].identity] = req[r].linkUser]
            /\ attached' = attached \cup {<<req[r].identity, req[r].linkUser>>}
            /\ Goto(r, "confirming")
            /\ UNCHANGED cookie
  /\ UNCHANGED <<user, link, held, reported, flow, proved, replaced, uses, entered, done>>

ConfirmLinked(r) ==
  /\ At(r, "confirming")
  /\ Confirm(r, req[r].linkUser)
  /\ Answer(r)
  /\ UNCHANGED <<link, held, account, reported, flow, history>>

\* The person changes their address at the provider, which verifies it.
ChangeReported(i, a) ==
  /\ reported' = [reported EXCEPT ![i] = a]
  /\ UNCHANGED <<rows, oauth, req, history>>

-----------------------------------------------------------------------------
(* Disconnecting a provider. *)

Unlink(r, a, p) ==
  /\ At(r, "idle")
  /\ user[a].made
  /\ Next1(r, [pc |-> "counting", user |-> a, provider |-> p, password |-> user[a].password])
  /\ UNCHANGED <<rows, reported, oauth, history>>

\* Mutant: the provider being disconnected counts as what is left.
RemainsAny(r) == Linked(req[r].user) # {}

\* What is left without this provider.
Remains(r) == \E i \in Linked(req[r].user) : i[1] # req[r].provider

CountLinked(r) ==
  /\ At(r, "counting")
  /\ IF ~req[r].password /\ ~Remains(r) THEN Next1(r, Idle) ELSE Goto(r, "unlinking")
  /\ UNCHANGED <<rows, reported, oauth, history>>

\* deleteForUser takes every identity the account has at the provider.
DeleteLinked(r) ==
  /\ At(r, "unlinking")
  /\ account' = [i \in Identity |->
       IF account[i] = req[r].user /\ i[1] = req[r].provider THEN NoAddress ELSE account[i]]
  /\ Next1(r, Idle)
  /\ UNCHANGED <<user, link, held, reported, oauth, history>>

-----------------------------------------------------------------------------
\* The process dies, or the provider does not answer: an open transaction rolls
\* back, what was committed stays, and the browser keeps its cookie.
Crash(r) ==
  /\ ~At(r, "idle")
  /\ Release(r)
  /\ Next1(r, Idle)
  /\ UNCHANGED <<user, link, account, reported, oauth, history>>

Next ==
  \/ \E b \in Browser, s \in State, a \in Address \cup {NoAddress} : StartFlow(b, s, a)
  \/ \E i \in Identity, a \in Address : ChangeReported(i, a)
  \/ \E r \in Req :
       \/ \E a \in Address :
            \/ Register(r, a)
            \/ \E p \in Purpose : AskForLink(r, a, p)
            \/ \E p \in Provider : Unlink(r, a, p)
       \/ \E t \in Token : CommitLink(r, t) \/ OpenLink(r, t)
       \/ \E b \in Browser, s \in State, i \in Identity : Callback(r, b, s, i)
       \/ Retire(r) \/ Consume(r) \/ UseLink(r)
       \/ LookUp(r) \/ EnterKnown(r) \/ CheckEmail(r) \/ CreateUser(r)
       \/ AttachIdentity(r) \/ ConfirmLinked(r)
       \/ CountLinked(r) \/ DeleteLinked(r)
       \/ Crash(r)

Spec == Init /\ [][Next]_vars

-----------------------------------------------------------------------------
(* What the code promises. *)

\* Anyone can type someone else's address: an account is confirmed only when
\* its address was proved, by a link sent to it or by a provider that vouches
\* for that very address (verify, resetPassword, confirmEmailIfMatches).
ConfirmedMeansProved == \A a \in Address : user[a].verified => a \in proved

\* Nobody is locked out of their own account: it has a password or an identity,
\* whatever is disconnected, attached or reset at once (unlink).
WayIn == \A a \in Address : user[a].made => user[a].password \/ Linked(a) # {}

\* A link works once: of two clicks at once exactly one changes anything.
LinkWorksOnce == \A t \in Token : uses[t] <= 1

\* Issuing a link retires the earlier ones that were there: none of them works
\* after the newer one is committed, even one that was being opened (replace).
UsesLiveLink == \A r \in Req : UseLink(r) => req[r].token \notin replaced
OlderLinkIsDead == [][UsesLiveLink]_vars

\* A callback is honoured once, in the browser that began its flow, however
\* often and wherever it arrives.
FlowEndsWhereItBegan ==
  \A s \in State : Len(done[s]) <= 1 /\ \A n \in DOMAIN done[s] : done[s][n] = flow[s].browser

\* Refuse rather than merge: an identity signs in only to an account that it
\* created or that attached it, never to one that merely has its address.
EnteredOwnAccount == entered \subseteq attached

=============================================================================
