--------------------------- MODULE AccountsProofs ---------------------------
(***************************************************************************)
(* For any number of requests, links, flows, identities and browsers: what *)
(* Accounts promises.                                                      *)
(***************************************************************************)
EXTENDS Accounts, TLAPS

Request == {Idle} \cup LinkRequest \cup UseRequest \cup FlowRequest \cup UnlinkRequest
SigningIn == {"looking up", "known", "new", "creating", "linking", "confirming"}

\* A link is for somebody, works or is spent, and is spent for good once a
\* newer one has replaced it.
LinkSound(t) ==
  /\ link[t].status = "unused" => link[t].user \in Address
  /\ uses[t] = IF link[t].status = "used" THEN 1 ELSE 0
  /\ t \in replaced => link[t].status \in {"used", "deleted"}
  /\ held[t] # NoReq => link[t].status = "unused"

\* What a request knows of the links it means to retire, or to use.
Wanting(r)  == req[r].pc = "issuing" =>
  \A t \in req[r].want :
    /\ link[t].status # "none"
    /\ link[t].status = "unused" =>
         link[t].user = req[r].user /\ link[t].purpose = req[r].purpose
Retiring(r) == req[r].pc = "retired" =>
  \A t \in req[r].want :
    \/ link[t].status \in {"used", "deleted"}
    \/ link[t].status = "unused" /\ held[t] = r
Using(r)    == req[r].pc = "consumed" =>
  link[req[r].token].status = "unused" /\ held[req[r].token] = r

LinkInv ==
  /\ \A t \in Token : LinkSound(t)
  /\ \A r \in Req : Wanting(r) /\ Retiring(r) /\ Using(r)

\* What a sign-in knows, and what its account rests on.
Entering(r) ==
  /\ req[r].pc \in SigningIn => req[r].email \in proved
  /\ req[r].pc = "known" => <<req[r].identity, req[r].owner>> \in attached
  /\ req[r].pc \in {"linking", "confirming"} => req[r].linkUser \in Address
SignInInv ==
  /\ \A r \in Req : Entering(r)
  /\ \A i \in Identity : account[i] # NoAddress => <<i, account[i]>> \in attached
  /\ EnteredOwnAccount
  /\ ConfirmedMeansProved

\* A flow and the browser that keeps its nonce.
FlowInv ==
  /\ \A s \in State :
       /\ flow[s].status # "gone" => done[s] = <<>>
       /\ done[s] = <<>> \/ done[s] = <<flow[s].browser>>
  /\ \A b \in Browser :
       cookie[b] # NoState => flow[cookie[b]].status # "none" /\ flow[cookie[b]].browser = b

\* With one provider, only an account with a password is cut off from it.
Unlinking(r) ==
  /\ req[r].pc = "counting" /\ req[r].password =>
       user[req[r].user].made /\ user[req[r].user].password
  /\ req[r].pc = "unlinking" => user[req[r].user].made /\ user[req[r].user].password
WayInInv == WayIn /\ \A r \in Req : Unlinking(r)

-----------------------------------------------------------------------------
LEMMA RequestIs ==
  ASSUME NEW x \in Request
  PROVE  /\ x.pc \in {"issuing", "retired"} => x \in LinkRequest
         /\ x.pc \in {"found", "consumed"} => x \in UseRequest
         /\ x.pc \in SigningIn => x \in FlowRequest
         /\ x.pc \in {"counting", "unlinking"} => x \in UnlinkRequest
         /\ x.pc = "idle" => x = Idle
<1>1. x = Idle => x.pc = "idle"
  BY DEF Idle
<1>2. x \in LinkRequest => x.pc \in {"issuing", "retired"}
  BY DEF LinkRequest
<1>3. x \in UseRequest => x.pc \in {"found", "consumed"}
  BY DEF UseRequest
<1>4. x \in FlowRequest => x.pc \in SigningIn
  BY DEF FlowRequest, SigningIn
<1>5. x \in UnlinkRequest => x.pc \in {"counting", "unlinking"}
  BY DEF UnlinkRequest
<1> QED BY <1>1, <1>2, <1>3, <1>4, <1>5 DEF Request, SigningIn

LEMMA RequestsAre ==
  ASSUME TypeOK, NEW r \in Req
  PROVE  /\ req[r] \in Request
         /\ req[r].pc \in {"issuing", "retired"} => req[r] \in LinkRequest
         /\ req[r].pc \in {"found", "consumed"} => req[r] \in UseRequest
         /\ req[r].pc \in SigningIn => req[r] \in FlowRequest
         /\ req[r].pc \in {"counting", "unlinking"} => req[r] \in UnlinkRequest
<1>1. req[r] \in Request
  BY DEF TypeOK, Request
<1> QED BY <1>1, RequestIs

\* A request that moves on, as what it has become.
LEMMA StepIs ==
  ASSUME TypeOK, NEW r \in Req, NEW x \in Request, req' = [req EXCEPT ![r] = x]
  PROVE  /\ req' \in [Req -> Request]
         /\ req'[r] = x
         /\ \A q \in Req : q # r => req'[q] = req[q]
BY DEF TypeOK, Request

\* A request that only goes to another step of what it is doing.
LEMMA GotoIs ==
  ASSUME TypeOK, NEW r \in Req, NEW pc, Goto(r, pc),
         \/ req[r].pc \in {"issuing", "retired"} /\ pc \in {"issuing", "retired"}
         \/ req[r].pc \in {"found", "consumed"} /\ pc \in {"found", "consumed"}
         \/ req[r].pc \in SigningIn /\ pc \in SigningIn
         \/ req[r].pc \in {"counting", "unlinking"} /\ pc \in {"counting", "unlinking"}
  PROVE  /\ req' = [req EXCEPT ![r] = [req[r] EXCEPT !.pc = pc]]
         /\ [req[r] EXCEPT !.pc = pc] \in Request
         /\ [req[r] EXCEPT !.pc = pc].pc = pc
<1>1. req[r] \in Request /\ req' = [req EXCEPT ![r] = [req[r] EXCEPT !.pc = pc]]
  BY DEF Goto, TypeOK, Request
<1>2. /\ req[r].pc \in {"issuing", "retired"} => req[r] \in LinkRequest
      /\ req[r].pc \in {"found", "consumed"} => req[r] \in UseRequest
      /\ req[r].pc \in SigningIn => req[r] \in FlowRequest
      /\ req[r].pc \in {"counting", "unlinking"} => req[r] \in UnlinkRequest
  BY <1>1, RequestIs
<1>3. CASE req[r].pc \in {"issuing", "retired"} /\ pc \in {"issuing", "retired"}
  BY <1>1, <1>2, <1>3 DEF Request, LinkRequest
<1>4. CASE req[r].pc \in {"found", "consumed"} /\ pc \in {"found", "consumed"}
  BY <1>1, <1>2, <1>4 DEF Request, UseRequest
<1>5. CASE req[r].pc \in SigningIn /\ pc \in SigningIn
  BY <1>1, <1>2, <1>5 DEF Request, FlowRequest, SigningIn
<1>6. CASE req[r].pc \in {"counting", "unlinking"} /\ pc \in {"counting", "unlinking"}
  BY <1>1, <1>2, <1>6 DEF Request, UnlinkRequest
<1> QED BY <1>3, <1>4, <1>5, <1>6

IInv == TypeOK /\ LinkInv /\ SignInInv /\ FlowInv

Elsewhere(r) == \A q \in Req : q # r => req'[q] = req[q]

-----------------------------------------------------------------------------
(* What leaves a part of the invariant alone. *)

LEMMA LinksUndisturbed ==
  ASSUME LinkInv, NEW r \in Req, Elsewhere(r), UNCHANGED <<link, held, uses, replaced>>,
         req'[r] = req[r] \/ req'[r].pc \notin {"issuing", "retired", "consumed"}
  PROVE  LinkInv'
BY DEF LinkInv, LinkSound, Wanting, Retiring, Using, Elsewhere

LEMMA SignInsUndisturbed ==
  ASSUME SignInInv, NEW r \in Req, Elsewhere(r), UNCHANGED <<account, attached, entered>>,
         proved \subseteq proved',
         req'[r].pc \in SigningIn => Entering(r)',
         \A a \in Address : user'[a].verified => user[a].verified \/ a \in proved'
  PROVE  SignInInv'
<1>1. \A q \in Req : Entering(q)'
  BY DEF SignInInv, Entering, Elsewhere, SigningIn
<1>2. ConfirmedMeansProved'
  BY DEF SignInInv, ConfirmedMeansProved
<1> QED BY <1>1, <1>2 DEF SignInInv, EnteredOwnAccount

LEMMA FlowsUndisturbed ==
  ASSUME TypeOK, FlowInv, UNCHANGED <<flow, done>>,
         cookie' = cookie \/ \E b \in Browser : cookie' = [cookie EXCEPT ![b] = NoState]
  PROVE  FlowInv'
BY DEF TypeOK, FlowInv

-----------------------------------------------------------------------------
(* Links. *)

\* A request for a link begins.
LEMMA IssuingIsSound ==
  ASSUME IInv, NEW r \in Req, NEW a \in Address, NEW p \in Purpose, Next1(r, Issuing(a, p)),
         UNCHANGED <<link, held, account, reported, oauth, history>>,
         user' = user \/ user' = [user EXCEPT ![a] = [made |-> TRUE, password |-> TRUE,
                                                      verified |-> FALSE]]
  PROVE  IInv'
<1> DEFINE x == Issuing(a, p)
<1>1. x \in Request /\ x.pc = "issuing" /\ x.user = a /\ x.purpose = p /\ x.want = Unused(a, p)
  BY DEF Issuing, Request, LinkRequest, Unused
<1>2. req' \in [Req -> Request] /\ req'[r] = x /\ Elsewhere(r)
  BY <1>1, StepIs DEF IInv, Next1, Elsewhere
<1> HIDE DEF x
<1>3. /\ user' \in [Address -> [made : BOOLEAN, password : BOOLEAN, verified : BOOLEAN]]
      /\ \A b \in Address : user'[b].verified => user[b].verified
  <2>1. user \in [Address -> [made : BOOLEAN, password : BOOLEAN, verified : BOOLEAN]]
    BY DEF IInv, TypeOK
  <2>2. CASE user' = user
    BY <2>1, <2>2
  <2>3. CASE user' = [user EXCEPT ![a] = [made |-> TRUE, password |-> TRUE, verified |-> FALSE]]
    <3>1. \A b \in Address : user'[b] = IF b = a THEN [made |-> TRUE, password |-> TRUE,
                                                      verified |-> FALSE] ELSE user[b]
      BY <2>1, <2>3
    <3> QED BY <2>1, <2>3, <3>1
  <2> QED BY <2>2, <2>3
<1>4. TypeOK'
  BY <1>2, <1>3 DEF IInv, TypeOK, Request, history, oauth
<1>5. LinkInv'
  <2>1. Wanting(r)' /\ Retiring(r)' /\ Using(r)'
    BY <1>1, <1>2 DEF Wanting, Retiring, Using, Unused
  <2>2. \A q \in Req : q # r => Wanting(q)' /\ Retiring(q)' /\ Using(q)'
    BY <1>2 DEF IInv, LinkInv, Wanting, Retiring, Using, Elsewhere
  <2>3. \A t \in Token : LinkSound(t)'
    BY DEF IInv, LinkInv, LinkSound, history
  <2> QED BY <2>1, <2>2, <2>3 DEF LinkInv
<1>6. SignInInv'
  <2>1. req'[r].pc \notin SigningIn
    BY <1>1, <1>2 DEF SigningIn
  <2> QED BY <1>2, <1>3, <2>1, SignInsUndisturbed DEF IInv, history
<1>7. FlowInv'
  BY FlowsUndisturbed DEF IInv, history, oauth
<1> QED BY <1>4, <1>5, <1>6, <1>7 DEF IInv

LEMMA RetireIsSound ==
  ASSUME IInv, NEW r \in Req, Retire(r)
  PROVE  IInv'
<1> DEFINE x == [req[r] EXCEPT !.pc = "retired"]
<1>1. /\ req[r].pc = "issuing" /\ req[r] \in LinkRequest
      /\ req' = [req EXCEPT ![r] = x] /\ x \in Request /\ x.pc = "retired" /\ x.want = req[r].want
  <2>1. req[r].pc = "issuing" /\ Goto(r, "retired") /\ req[r] \in Request
    BY DEF Retire, At, IInv, TypeOK, Request
  <2>2. req[r] \in LinkRequest
    BY <2>1, RequestIs
  <2>3. x.want = req[r].want
    BY <2>2 DEF LinkRequest
  <2> QED BY <2>1, <2>2, <2>3, GotoIs DEF IInv
<1>2. req' \in [Req -> Request] /\ req'[r] = x /\ Elsewhere(r)
  BY <1>1, StepIs DEF IInv, Elsewhere
<1> HIDE DEF x
<1> DEFINE mine == req[r].want \cap Unused(req[r].user, req[r].purpose)
<1>3. /\ held' = [t \in Token |-> IF t \in mine THEN r ELSE held[t]]
      /\ \A t \in req[r].want : held[t] = NoReq
      /\ UNCHANGED <<user, link, account, reported, oauth, history>>
  BY DEF Retire, Free
<1>4. TypeOK'
  BY <1>2, <1>3 DEF IInv, TypeOK, Request, history, oauth
<1>5. LinkInv'
  <2>1. Retiring(r)'
    <3> SUFFICES ASSUME NEW t \in req[r].want
                 PROVE  \/ link'[t].status \in {"used", "deleted"}
                        \/ link'[t].status = "unused" /\ held'[t] = r
      BY <1>1, <1>2 DEF Retiring
    <3>1. /\ t \in Token /\ link[t].status \in {"unused", "used", "deleted"}
          /\ link[t] \in [user : Address \cup {NoAddress}, purpose : Purpose,
                          status : {"none", "unused", "used", "deleted"}]
          /\ link[t].status = "unused" =>
               link[t].user = req[r].user /\ link[t].purpose = req[r].purpose
      BY <1>1 DEF IInv, LinkInv, Wanting, TypeOK, LinkRequest
    <3>2. link[t].status = "unused" => t \in mine
      BY <3>1 DEF Unused
    <3> QED BY <1>3, <3>1, <3>2
  <2>2. Wanting(r)' /\ Using(r)'
    BY <1>1, <1>2 DEF Wanting, Using
  <2>3. ASSUME NEW q \in Req, q # r PROVE Wanting(q)' /\ Retiring(q)' /\ Using(q)'
    <3>1. req'[q] = req[q] /\ link' = link /\ q # NoReq
      BY <1>2, <1>3, <2>3, AccountsAssumption DEF Elsewhere
    <3>2. \A t \in Token : held[t] = q => held'[t] = q
      BY <1>3, <3>1
    <3>3. req[q].pc = "retired" => req[q].want \subseteq Token
      BY RequestsAre DEF IInv, LinkRequest
    <3>4. req[q].pc = "consumed" => req[q].token \in Token
      BY RequestsAre DEF IInv, UseRequest
    <3> QED BY <3>1, <3>2, <3>3, <3>4 DEF IInv, LinkInv, Wanting, Retiring, Using
  <2>4. \A t \in Token : LinkSound(t)'
    BY <1>3 DEF IInv, LinkInv, LinkSound, history, Unused
  <2> QED BY <2>1, <2>2, <2>3, <2>4 DEF LinkInv
<1>6. SignInInv'
  <2>1. req'[r].pc \notin SigningIn
    BY <1>1, <1>2 DEF SigningIn
  <2> QED BY <1>2, <1>3, <2>1, SignInsUndisturbed DEF IInv, history
<1>7. FlowInv'
  BY <1>3, FlowsUndisturbed DEF IInv, history, oauth
<1> QED BY <1>4, <1>5, <1>6, <1>7 DEF IInv

LEMMA IdleIs == Idle \in Request /\ Idle.pc = "idle" /\ "idle" \notin SigningIn
BY DEF Idle, Request, SigningIn

LEMMA CommitLinkIsSound ==
  ASSUME IInv, NEW r \in Req, NEW t \in Token, CommitLink(r, t)
  PROVE  IInv'
<1>1. /\ req[r].pc = "retired" /\ req[r] \in LinkRequest /\ link[t].status = "none"
      /\ req' = [req EXCEPT ![r] = Idle]
      /\ UNCHANGED <<user, account, reported, oauth, proved, uses, attached, entered, done>>
      /\ replaced' = replaced \cup req[r].want
  BY RequestsAre DEF CommitLink, At, Next1, IInv
<1>2. req' \in [Req -> Request] /\ req'[r] = Idle /\ Elsewhere(r)
  BY <1>1, IdleIs, StepIs DEF IInv, Elsewhere
<1> DEFINE new == [user |-> req[r].user, purpose |-> req[r].purpose, status |-> "unused"]
<1> DEFINE gone == [NoLink EXCEPT !.status = "deleted"]
<1>3. /\ \A u \in Token : link'[u] = IF u = t THEN new ELSE IF held[u] = r THEN gone ELSE link[u]
      /\ \A u \in Token : held'[u] = IF held[u] = r THEN NoReq ELSE held[u]
      /\ link' = [u \in Token |-> link'[u]] /\ held' = [u \in Token |-> held'[u]]
  BY DEF CommitLink, Release
<1>4. /\ new \in [user : Address \cup {NoAddress}, purpose : Purpose,
                  status : {"none", "unused", "used", "deleted"}]
      /\ gone \in [user : Address \cup {NoAddress}, purpose : Purpose,
                   status : {"none", "unused", "used", "deleted"}]
      /\ new.status = "unused" /\ new.user \in Address /\ gone.status = "deleted"
      /\ req[r].want \subseteq Token
  BY <1>1 DEF LinkRequest, NoLink, Purpose
<1> HIDE DEF new, gone
<1>5. TypeOK'
  <2>1. link' \in [Token -> [user : Address \cup {NoAddress}, purpose : Purpose,
                             status : {"none", "unused", "used", "deleted"}]]
    BY <1>3, <1>4 DEF IInv, TypeOK
  <2>2. held' \in [Token -> Req \cup {NoReq}]
    BY <1>3 DEF IInv, TypeOK
  <2>3. replaced' \subseteq Token
    BY <1>1, <1>4 DEF IInv, TypeOK
  <2> QED BY <1>1, <1>2, <2>1, <2>2, <2>3 DEF IInv, TypeOK, Request, oauth
<1>6. \A u \in req[r].want : /\ u # t
                             /\ \/ link[u].status \in {"used", "deleted"}
                                \/ link[u].status = "unused" /\ held[u] = r
  BY <1>1 DEF IInv, LinkInv, Retiring
<1>7. LinkInv'
  <2>1. ASSUME NEW u \in Token PROVE LinkSound(u)'
    <3>1. LinkSound(u) /\ held[t] = NoReq
      BY <1>1 DEF IInv, LinkInv, LinkSound
    <3>2. r # NoReq
      BY AccountsAssumption
    <3>3. CASE u = t
      BY <1>1, <1>3, <1>4, <1>6, <3>1, <3>3 DEF LinkSound
    <3>4. CASE u # t /\ held[u] = r
      BY <1>1, <1>3, <1>4, <3>1, <3>2, <3>4 DEF LinkSound
    <3>5. CASE u # t /\ held[u] # r
      BY <1>1, <1>3, <1>6, <3>1, <3>5 DEF LinkSound
    <3> QED BY <3>3, <3>4, <3>5
  <2>2. Wanting(r)' /\ Retiring(r)' /\ Using(r)'
    BY <1>2, IdleIs DEF Wanting, Retiring, Using
  <2>3. ASSUME NEW q \in Req, q # r PROVE Wanting(q)' /\ Retiring(q)' /\ Using(q)'
    <3>1. req'[q] = req[q] /\ q # NoReq
      BY <1>2, <2>3, AccountsAssumption DEF Elsewhere
    <3>2. Wanting(q) /\ Retiring(q) /\ Using(q)
      BY DEF IInv, LinkInv
    <3>3. \A u \in Token : held[u] = q => held'[u] = q /\ (u # t => link'[u] = link[u])
      BY <1>3, <2>3
    <3>4. \A u \in Token : u # t => \/ link'[u] = link[u]
                                    \/ link'[u].status = "deleted"
      BY <1>3, <1>4
    <3>5. Wanting(q)'
      <4>1. req[q].pc = "issuing" => req[q].want \subseteq Token
        BY RequestsAre DEF IInv, LinkRequest
      <4> QED BY <1>1, <3>1, <3>2, <3>4, <4>1 DEF Wanting
    <3>6. Retiring(q)'
      <4>1. req[q].pc = "retired" => req[q].want \subseteq Token
        BY RequestsAre DEF IInv, LinkRequest
      <4> QED BY <1>1, <3>1, <3>2, <3>3, <3>4, <4>1 DEF Retiring
    <3>7. Using(q)'
      <4>1. req[q].pc = "consumed" => req[q].token \in Token
        BY RequestsAre DEF IInv, UseRequest
      <4> QED BY <1>1, <3>1, <3>2, <3>3, <4>1 DEF Using
    <3> QED BY <3>5, <3>6, <3>7
  <2> QED BY <2>1, <2>2, <2>3 DEF LinkInv
<1>8. SignInInv'
  BY <1>1, <1>2, IdleIs, SignInsUndisturbed DEF IInv
<1>9. FlowInv'
  BY <1>1, FlowsUndisturbed DEF IInv, oauth
<1> QED BY <1>5, <1>7, <1>8, <1>9 DEF IInv

LEMMA OpenLinkIsSound ==
  ASSUME IInv, NEW r \in Req, NEW t \in Token, OpenLink(r, t)
  PROVE  IInv'
<1> DEFINE x == [pc |-> "found", token |-> t]
<1>1. x \in Request /\ x.pc = "found" /\ req' = [req EXCEPT ![r] = x]
  BY DEF OpenLink, Next1, Request, UseRequest
<1>2. req' \in [Req -> Request] /\ req'[r] = x /\ Elsewhere(r)
  BY <1>1, StepIs DEF IInv, Elsewhere
<1> HIDE DEF x
<1>3. UNCHANGED <<rows, reported, oauth, history>>
  BY DEF OpenLink
<1>4. TypeOK'
  BY <1>2, <1>3 DEF IInv, TypeOK, Request, rows, oauth, history
<1>5. LinkInv'
  BY <1>1, <1>2, <1>3, LinksUndisturbed DEF IInv, rows, history
<1>6. SignInInv'
  BY <1>1, <1>2, <1>3, SignInsUndisturbed DEF IInv, rows, history, SigningIn
<1>7. FlowInv'
  BY <1>3, FlowsUndisturbed DEF IInv, oauth, history
<1> QED BY <1>4, <1>5, <1>6, <1>7 DEF IInv

LEMMA ConsumeIsSound ==
  ASSUME IInv, NEW r \in Req, Consume(r)
  PROVE  IInv'
<1> DEFINE t == req[r].token
<1>1. req[r].pc = "found" /\ t \in Token /\ held[t] = NoReq
  BY RequestsAre DEF Consume, At, IInv, UseRequest
<1>2. UNCHANGED <<user, link, account, reported, oauth, history>>
  BY DEF Consume
<1>3. CASE link[t].status # "unused"
  <2>1. held' = held /\ req' = [req EXCEPT ![r] = Idle]
    BY <1>3 DEF Consume, Next1
  <2>2. req' \in [Req -> Request] /\ req'[r] = Idle /\ Elsewhere(r)
    BY <2>1, IdleIs, StepIs DEF IInv, Elsewhere
  <2>3. TypeOK'
    BY <1>2, <2>1, <2>2 DEF IInv, TypeOK, Request, oauth, history
  <2>4. LinkInv'
    BY <1>2, <2>1, <2>2, IdleIs, LinksUndisturbed DEF IInv, history
  <2>5. SignInInv'
    BY <1>2, <2>2, IdleIs, SignInsUndisturbed DEF IInv, history
  <2>6. FlowInv'
    BY <1>2, FlowsUndisturbed DEF IInv, oauth, history
  <2> QED BY <2>3, <2>4, <2>5, <2>6 DEF IInv
<1>4. CASE link[t].status = "unused"
  <2> DEFINE x == [req[r] EXCEPT !.pc = "consumed"]
  <2>1. held' = [held EXCEPT ![t] = r] /\ Goto(r, "consumed")
    BY <1>4 DEF Consume
  <2>2. req' = [req EXCEPT ![r] = x] /\ x \in Request /\ x.pc = "consumed"
    BY <1>1, <2>1, GotoIs DEF IInv
  <2>3. x.token = t
    BY <1>1, RequestsAre DEF IInv, UseRequest
  <2>4. req' \in [Req -> Request] /\ req'[r] = x /\ Elsewhere(r)
    BY <2>2, StepIs DEF IInv, Elsewhere
  <2> HIDE DEF x
  <2>5. /\ held'[t] = r /\ \A u \in Token : held[u] # NoReq => held'[u] = held[u]
        /\ \A u \in Token : u # t => held'[u] = held[u]
    BY <1>1, <2>1 DEF IInv, TypeOK
  <2>6. TypeOK'
    BY <1>1, <1>2, <2>1, <2>4 DEF IInv, TypeOK, Request, oauth, history
  <2>7. LinkInv'
    <3>1. \A u \in Token : LinkSound(u)'
      BY <1>2, <1>4, <2>5 DEF IInv, LinkInv, LinkSound, history
    <3>2. Wanting(r)' /\ Retiring(r)' /\ Using(r)'
      <4>1. req'[r].token = t /\ req'[r].pc = "consumed"
        BY <2>2, <2>3, <2>4
      <4>2. PICK u \in Token : u = t
        BY <1>1
      <4> QED BY <1>2, <1>4, <2>5, <4>1, <4>2 DEF Wanting, Retiring, Using
    <3>3. ASSUME NEW q \in Req, q # r PROVE Wanting(q)' /\ Retiring(q)' /\ Using(q)'
      <4>1. req'[q] = req[q] /\ link' = link /\ q # NoReq
        BY <1>2, <2>4, <3>3, AccountsAssumption DEF Elsewhere
      <4>2. Wanting(q) /\ Retiring(q) /\ Using(q)
        BY DEF IInv, LinkInv
      <4>3. req[q].pc = "retired" => req[q].want \subseteq Token
        BY RequestsAre DEF IInv, LinkRequest
      <4>4. req[q].pc = "consumed" => req[q].token \in Token
        BY RequestsAre DEF IInv, UseRequest
      <4> QED BY <2>5, <4>1, <4>2, <4>3, <4>4 DEF Wanting, Retiring, Using
    <3> QED BY <3>1, <3>2, <3>3 DEF LinkInv
  <2>8. SignInInv'
    BY <1>2, <2>2, <2>4, SignInsUndisturbed DEF IInv, history, SigningIn
  <2>9. FlowInv'
    BY <1>2, FlowsUndisturbed DEF IInv, oauth, history
  <2> QED BY <2>6, <2>7, <2>8, <2>9 DEF IInv
<1> QED BY <1>3, <1>4

\* A request that ends, and lets go of its locks.
LEMMA LettingGo ==
  ASSUME LinkInv, TypeOK, NEW r \in Req, Release(r), req'[r] = Idle, Elsewhere(r),
         UNCHANGED <<replaced>>, NEW t,
         \A u \in Token : u # t => link'[u] = link[u] /\ uses'[u] = uses[u],
         \/ t \in Token => link'[t] = link[t] /\ uses'[t] = uses[t]
         \/ /\ held[t] = r /\ link[t].status = "unused"
            /\ link'[t].status = "used" /\ uses'[t] = uses[t] + 1
  PROVE  LinkInv'
<1>1. \A u \in Token : held'[u] = IF held[u] = r THEN NoReq ELSE held[u]
  BY DEF Release
<1>2. ASSUME NEW u \in Token PROVE LinkSound(u)'
  <2>1. LinkSound(u)
    BY DEF LinkInv
  <2>2. CASE link'[u] = link[u] /\ uses'[u] = uses[u]
    BY <1>1, <2>1, <2>2 DEF LinkSound
  <2>3. CASE u = t /\ held[t] = r /\ link[t].status = "unused" /\ link'[t].status = "used"
                   /\ uses'[t] = uses[t] + 1
    BY <1>1, <2>1, <2>3 DEF LinkSound
  <2> QED BY <2>2, <2>3
<1>3. Wanting(r)' /\ Retiring(r)' /\ Using(r)'
  BY IdleIs DEF Wanting, Retiring, Using
<1>4. ASSUME NEW q \in Req, q # r PROVE Wanting(q)' /\ Retiring(q)' /\ Using(q)'
  <2>1. req'[q] = req[q] /\ q # NoReq
    BY <1>4, AccountsAssumption DEF Elsewhere
  <2>2. Wanting(q) /\ Retiring(q) /\ Using(q)
    BY DEF LinkInv
  <2>3. \A u \in Token : held[u] = q => held'[u] = q /\ link'[u] = link[u]
    BY <1>1, <1>4
  <2>4. \A u \in Token : link'[u] = link[u] \/ link'[u].status = "used"
    OBVIOUS
  <2>5. Wanting(q)'
    <3>1. req[q].pc = "issuing" => req[q].want \subseteq Token
      BY RequestsAre DEF LinkRequest
    <3> QED BY <2>1, <2>2, <2>4, <3>1 DEF Wanting
  <2>6. Retiring(q)'
    <3>1. req[q].pc = "retired" => req[q].want \subseteq Token
      BY RequestsAre DEF LinkRequest
    <3> QED BY <2>1, <2>2, <2>3, <2>4, <3>1 DEF Retiring
  <2>7. Using(q)'
    <3>1. req[q].pc = "consumed" => req[q].token \in Token
      BY RequestsAre DEF UseRequest
    <3> QED BY <2>1, <2>2, <2>3, <3>1 DEF Using
  <2> QED BY <2>5, <2>6, <2>7
<1> QED BY <1>2, <1>3, <1>4 DEF LinkInv

LEMMA UseLinkIsSound ==
  ASSUME IInv, NEW r \in Req, UseLink(r)
  PROVE  IInv'
<1>1. PICK t \in Token : /\ t = req[r].token /\ held[t] = r /\ link[t].status = "unused"
                         /\ link[t].user \in Address
  BY RequestsAre DEF UseLink, At, IInv, UseRequest, LinkInv, LinkSound, Using
<1>2. PICK a \in Address : a = link[t].user
  BY <1>1
<1>3. /\ link' = [link EXCEPT ![t].status = "used"]
      /\ user' = [user EXCEPT ![a].verified = TRUE,
                              ![a].password = @ \/ link[t].purpose = "reset"]
      /\ uses' = [uses EXCEPT ![t] = @ + 1]
      /\ proved' = proved \cup {a}
      /\ Release(r) /\ req' = [req EXCEPT ![r] = Idle]
      /\ UNCHANGED <<account, reported, oauth, replaced, attached, entered, done>>
  BY <1>1, <1>2 DEF UseLink, Next1
<1>4. req' \in [Req -> Request] /\ req'[r] = Idle /\ Elsewhere(r)
  BY <1>3, IdleIs, StepIs DEF IInv, Elsewhere
<1>5. /\ user' \in [Address -> [made : BOOLEAN, password : BOOLEAN, verified : BOOLEAN]]
      /\ \A b \in Address : user'[b].verified => user[b].verified \/ b \in proved'
  <2>1. user \in [Address -> [made : BOOLEAN, password : BOOLEAN, verified : BOOLEAN]]
    BY DEF IInv, TypeOK
  <2>2. (user[a].password \/ link[t].purpose = "reset") \in BOOLEAN
    OBVIOUS
  <2>3. /\ user'[a].made = user[a].made /\ user'[a] \in [made : BOOLEAN, password : BOOLEAN,
                                                          verified : BOOLEAN]
        /\ user' = [user EXCEPT ![a] = user'[a]]
        /\ \A b \in Address : b # a => user'[b] = user[b]
    BY <1>3, <2>1, <2>2
  <2> QED BY <1>3, <2>1, <2>3
<1>6. TypeOK'
  <2>1. link' \in [Token -> [user : Address \cup {NoAddress}, purpose : Purpose,
                             status : {"none", "unused", "used", "deleted"}]]
    <3>1. link[t] \in [user : Address \cup {NoAddress}, purpose : Purpose,
                       status : {"none", "unused", "used", "deleted"}]
      BY DEF IInv, TypeOK
    <3>2. [link[t] EXCEPT !.status = "used"] \in [user : Address \cup {NoAddress},
             purpose : Purpose, status : {"none", "unused", "used", "deleted"}]
      BY <3>1
    <3> QED BY <1>3, <3>2 DEF IInv, TypeOK
  <2>2. held' \in [Token -> Req \cup {NoReq}]
    BY <1>3 DEF IInv, TypeOK, Release
  <2>3. uses' \in [Token -> Nat]
    BY <1>3 DEF IInv, TypeOK
  <2> QED BY <1>3, <1>4, <1>5, <2>1, <2>2, <2>3 DEF IInv, TypeOK, Request, oauth
<1>7. LinkInv'
  <2>1. /\ \A u \in Token : u # t => link'[u] = link[u] /\ uses'[u] = uses[u]
        /\ link'[t].status = "used" /\ uses'[t] = uses[t] + 1
    BY <1>3 DEF IInv, TypeOK
  <2> QED BY <1>1, <1>3, <1>4, <2>1, LettingGo DEF IInv
<1>8. SignInInv'
  BY <1>3, <1>4, <1>5, IdleIs, SignInsUndisturbed DEF IInv
<1>9. FlowInv'
  BY <1>3, FlowsUndisturbed DEF IInv, oauth
<1> QED BY <1>6, <1>7, <1>8, <1>9 DEF IInv

LEMMA CrashIsSound ==
  ASSUME IInv, NEW r \in Req, Crash(r)
  PROVE  IInv'
<1>1. /\ Release(r) /\ req' = [req EXCEPT ![r] = Idle]
      /\ UNCHANGED <<user, link, account, reported, oauth, history>>
  BY DEF Crash, Next1
<1>2. req' \in [Req -> Request] /\ req'[r] = Idle /\ Elsewhere(r)
  BY <1>1, IdleIs, StepIs DEF IInv, Elsewhere
<1>3. TypeOK'
  <2>1. held' \in [Token -> Req \cup {NoReq}]
    BY <1>1 DEF IInv, TypeOK, Release
  <2> QED BY <1>1, <1>2, <2>1 DEF IInv, TypeOK, Request, oauth, history
<1>4. LinkInv'
  <2>1. PICK t : TRUE
    OBVIOUS
  <2>2. UNCHANGED replaced /\ \A u \in Token : link'[u] = link[u] /\ uses'[u] = uses[u]
    BY <1>1 DEF history
  <2> QED BY <1>1, <1>2, <2>1, <2>2, LettingGo DEF IInv
<1>5. SignInInv'
  BY <1>1, <1>2, IdleIs, SignInsUndisturbed DEF IInv, history
<1>6. FlowInv'
  BY <1>1, FlowsUndisturbed DEF IInv, oauth, history
<1> QED BY <1>3, <1>4, <1>5, <1>6 DEF IInv

-----------------------------------------------------------------------------
(* Signing in. *)

\* A step of a request that leaves the links and the flows alone.
LEMMA LinksAside ==
  ASSUME IInv, NEW r \in Req, NEW x \in Request, req' = [req EXCEPT ![r] = x],
         x.pc \notin {"issuing", "retired", "consumed"},
         UNCHANGED <<link, held, uses, replaced, reported, flow, done>>,
         cookie' = cookie \/ \E b \in Browser : cookie' = [cookie EXCEPT ![b] = NoState],
         user' \in [Address -> [made : BOOLEAN, password : BOOLEAN, verified : BOOLEAN]],
         account' \in [Identity -> Address \cup {NoAddress}],
         proved' \subseteq Address, attached' \subseteq Identity \X Address,
         entered' \subseteq Identity \X Address
  PROVE  /\ TypeOK' /\ LinkInv' /\ FlowInv'
         /\ req'[r] = x /\ Elsewhere(r)
<1>1. req' \in [Req -> Request] /\ req'[r] = x /\ Elsewhere(r)
  BY StepIs DEF IInv, Elsewhere
<1>2. TypeOK'
  <2>1. cookie' \in [Browser -> State \cup {NoState}]
    BY DEF IInv, TypeOK
  <2> QED BY <1>1, <2>1 DEF IInv, TypeOK, Request
<1>3. LinkInv'
  BY <1>1, LinksUndisturbed DEF IInv
<1>4. FlowInv'
  BY FlowsUndisturbed DEF IInv
<1> QED BY <1>1, <1>2, <1>3, <1>4

LEMMA StartFlowIsSound ==
  ASSUME IInv, NEW b \in Browser, NEW s \in State, NEW a \in Address \cup {NoAddress},
         StartFlow(b, s, a)
  PROVE  IInv'
<1>1. /\ flow[s].status = "none"
      /\ flow' = [flow EXCEPT ![s] = [status |-> "pending", browser |-> b, linkUser |-> a]]
      /\ cookie' = [cookie EXCEPT ![b] = s]
      /\ UNCHANGED <<rows, reported, req, history>>
  BY DEF StartFlow
<1>2. TypeOK'
  BY <1>1 DEF IInv, TypeOK, rows, history
<1>3. LinkInv' /\ SignInInv'
  BY <1>1 DEF IInv, LinkInv, LinkSound, Wanting, Retiring, Using, SignInInv, Entering,
              EnteredOwnAccount, ConfirmedMeansProved, rows, history
<1>4. FlowInv'
  <2>1. /\ flow'[s].status = "pending" /\ flow'[s].browser = b
        /\ \A u \in State : u # s => flow'[u] = flow[u]
        /\ cookie'[b] = s /\ \A c \in Browser : c # b => cookie'[c] = cookie[c]
        /\ done' = done
    BY <1>1 DEF IInv, TypeOK, history
  <2>2. \A u \in State : /\ flow'[u].status # "gone" => done'[u] = <<>>
                         /\ done'[u] = <<>> \/ done'[u] = <<flow'[u].browser>>
    BY <1>1, <2>1 DEF IInv, FlowInv
  <2>3. \A c \in Browser : cookie'[c] # NoState =>
          flow'[cookie'[c]].status # "none" /\ flow'[cookie'[c]].browser = c
    BY <1>1, <2>1 DEF IInv, FlowInv, TypeOK
  <2> QED BY <2>2, <2>3 DEF FlowInv
<1> QED BY <1>2, <1>3, <1>4 DEF IInv

LEMMA ChangeReportedIsSound ==
  ASSUME IInv, NEW i \in Identity, NEW a \in Address, ChangeReported(i, a)
  PROVE  IInv'
<1>1. UNCHANGED <<rows, oauth, req, history>> /\ reported' = [reported EXCEPT ![i] = a]
  BY DEF ChangeReported
<1>2. TypeOK'
  BY <1>1 DEF IInv, TypeOK, rows, oauth, history
<1>3. LinkInv' /\ SignInInv' /\ FlowInv'
  BY <1>1 DEF IInv, LinkInv, LinkSound, Wanting, Retiring, Using, SignInInv, Entering, FlowInv,
              EnteredOwnAccount, ConfirmedMeansProved, rows, oauth, history
<1> QED BY <1>2, <1>3 DEF IInv

LEMMA CallbackIsSound ==
  ASSUME IInv, NEW r \in Req, NEW b \in Browser, NEW s \in State, NEW i \in Identity,
         Callback(r, b, s, i)
  PROVE  IInv'
<1>1. /\ flow[s].status = "pending" /\ flow' = [flow EXCEPT ![s].status = "gone"]
      /\ UNCHANGED <<rows, reported, replaced, uses, attached, entered>>
  BY DEF Callback, TakeFlow
<1>2. done[s] = <<>> /\ reported[i] \in Address
  BY <1>1 DEF IInv, FlowInv, TypeOK
<1>3. /\ flow' \in [State -> [status : {"none", "pending", "gone"},
                              browser : Browser \cup {NoState},
                              linkUser : Address \cup {NoAddress}]]
      /\ flow'[s].status = "gone" /\ flow'[s].browser = flow[s].browser
      /\ \A u \in State : u # s => flow'[u] = flow[u]
  <2>1. /\ flow[s] \in [status : {"none", "pending", "gone"}, browser : Browser \cup {NoState},
                        linkUser : Address \cup {NoAddress}]
    BY DEF IInv, TypeOK
  <2>2. LET f == [flow[s] EXCEPT !.status = "gone"]
        IN  /\ f \in [status : {"none", "pending", "gone"}, browser : Browser \cup {NoState},
                      linkUser : Address \cup {NoAddress}]
            /\ f.status = "gone" /\ f.browser = flow[s].browser
    BY <2>1
  <2> QED BY <1>1, <2>2 DEF IInv, TypeOK
<1>4. CASE NonceMatches(b, s)
  <2> DEFINE x == [pc |-> "looking up", browser |-> b, identity |-> i, email |-> reported[i],
                   linkUser |-> flow[s].linkUser, owner |-> NoAddress]
  <2>1. /\ req' = [req EXCEPT ![r] = x] /\ proved' = proved \cup {reported[i]}
        /\ done' = [done EXCEPT ![s] = Append(@, b)] /\ cookie' = cookie
    BY <1>4 DEF Callback, Next1
  <2>2. flow[s].linkUser \in Address \cup {NoAddress}
    BY DEF IInv, TypeOK
  <2>3. x \in Request /\ x.pc = "looking up" /\ x.email = reported[i]
    BY <1>2, <2>2 DEF Request, FlowRequest
  <2>4. req' \in [Req -> Request] /\ req'[r] = x /\ Elsewhere(r)
    BY <2>1, <2>3, StepIs DEF IInv, Elsewhere
  <2> HIDE DEF x
  <2>5. /\ done' \in [State -> Seq(Browser)] /\ done'[s] = <<b>>
        /\ \A u \in State : u # s => done'[u] = done[u]
    <3>1. Append(done[s], b) = <<b>> /\ <<b>> \in Seq(Browser)
      BY <1>2
    <3> QED BY <2>1, <3>1 DEF IInv, TypeOK
  <2>6. TypeOK'
    BY <1>1, <1>2, <1>3, <2>1, <2>4, <2>5 DEF IInv, TypeOK, Request, rows
  <2>7. LinkInv'
    BY <1>1, <2>3, <2>4, LinksUndisturbed DEF IInv, rows
  <2>8. SignInInv'
    <3>1. Entering(r)'
      BY <2>1, <2>3, <2>4 DEF Entering
    <3> QED BY <1>1, <2>1, <2>4, <3>1, SignInsUndisturbed DEF IInv, rows
  <2>9. FlowInv'
    <3>1. flow[s].browser = b
      BY <1>4, AccountsAssumption DEF IInv, FlowInv, NonceMatches
    <3>2. \A u \in State : /\ flow'[u].status # "gone" => done'[u] = <<>>
                           /\ done'[u] = <<>> \/ done'[u] = <<flow'[u].browser>>
      BY <1>3, <2>5, <3>1 DEF IInv, FlowInv
    <3>3. \A c \in Browser : cookie'[c] # NoState =>
            flow'[cookie'[c]].status # "none" /\ flow'[cookie'[c]].browser = c
      BY <1>3, <2>1 DEF IInv, FlowInv, TypeOK
    <3> QED BY <3>2, <3>3 DEF FlowInv
  <2> QED BY <2>6, <2>7, <2>8, <2>9 DEF IInv
<1>5. CASE ~NonceMatches(b, s)
  <2>1. cookie' = [cookie EXCEPT ![b] = NoState] /\ UNCHANGED <<req, proved, done>>
    BY <1>5 DEF Callback
  <2>2. TypeOK'
    BY <1>1, <1>3, <2>1 DEF IInv, TypeOK, rows
  <2>3. LinkInv' /\ SignInInv'
    BY <1>1, <2>1 DEF IInv, LinkInv, LinkSound, Wanting, Retiring, Using, SignInInv, Entering,
                EnteredOwnAccount, ConfirmedMeansProved, rows
  <2>4. FlowInv'
    <3>1. \A u \in State : /\ flow'[u].status # "gone" => done'[u] = <<>>
                           /\ done'[u] = <<>> \/ done'[u] = <<flow'[u].browser>>
      BY <1>3, <2>1 DEF IInv, FlowInv
    <3>2. \A c \in Browser : cookie'[c] # NoState =>
            flow'[cookie'[c]].status # "none" /\ flow'[cookie'[c]].browser = c
      <4>1. /\ cookie'[b] = NoState
            /\ \A c \in Browser : c # b => cookie'[c] = cookie[c]
            /\ \A c \in Browser : cookie[c] \in State \cup {NoState}
        BY <2>1 DEF IInv, TypeOK
      <4>2. \A c \in Browser : cookie[c] # NoState =>
              flow'[cookie[c]].status # "none" /\ flow'[cookie[c]].browser = c
        BY <1>3, <4>1 DEF IInv, FlowInv
      <4> QED BY <4>1, <4>2
    <3> QED BY <3>1, <3>2 DEF FlowInv
  <2> QED BY <2>2, <2>3, <2>4 DEF IInv
<1> QED BY <1>4, <1>5

\* What a request that signs somebody in has at hand.
LEMMA SigningInIs ==
  ASSUME IInv, NEW r \in Req, req[r].pc \in SigningIn
  PROVE  /\ req[r] \in FlowRequest /\ req[r].browser \in Browser /\ req[r].identity \in Identity
         /\ req[r].email \in Address /\ req[r].email \in proved
         /\ account[req[r].identity] \in Address \cup {NoAddress}
<1>1. req[r] \in FlowRequest /\ req[r].email \in proved
  BY RequestsAre DEF IInv, SignInInv, Entering
<1> QED BY <1>1 DEF FlowRequest, IInv, TypeOK

\* The answer to a request that signs somebody in ends it.
LEMMA AnswerIs ==
  ASSUME IInv, NEW r \in Req, req[r].pc \in SigningIn, Answer(r)
  PROVE  /\ req' = [req EXCEPT ![r] = Idle]
         /\ \E b \in Browser : cookie' = [cookie EXCEPT ![b] = NoState]
BY SigningInIs DEF Answer, Next1

LEMMA LookUpIsSound ==
  ASSUME IInv, NEW r \in Req, LookUp(r)
  PROVE  IInv'
<1>1. req[r].pc = "looking up" /\ req[r].pc \in SigningIn
  BY DEF LookUp, At, SigningIn
<1>2. UNCHANGED <<rows, reported, flow, history>>
  BY DEF LookUp
<1>3. \E x \in Request : /\ req' = [req EXCEPT ![r] = x]
                         /\ x.pc \in {"new", "known", "linking", "idle"}
                         /\ x.pc # "idle" => x.email = req[r].email
                         /\ x.pc = "known" => <<x.identity, x.owner>> \in attached
                         /\ x.pc = "linking" => x.linkUser \in Address
                         /\ cookie' = cookie \/ \E b \in Browser : cookie' = [cookie EXCEPT ![b] = NoState]
  <2>1. CASE req[r].linkUser = NoAddress
    <3> DEFINE x == [req[r] EXCEPT !.owner = Owner(r),
                                   !.pc = IF Owner(r) = NoAddress THEN "new" ELSE "known"]
    <3>1. req' = [req EXCEPT ![r] = x] /\ cookie' = cookie
      BY <2>1 DEF LookUp, IInv, TypeOK
    <3>2. Owner(r) \in Address \cup {NoAddress} /\ req[r] \in FlowRequest
      BY <1>1, SigningInIs DEF Owner
    <3>3. /\ x \in FlowRequest /\ x.pc \in {"new", "known"} /\ x.email = req[r].email
          /\ x.identity = req[r].identity /\ x.owner = Owner(r)
          /\ x.pc = "known" => Owner(r) # NoAddress
      BY <3>2 DEF FlowRequest
    <3>4. Owner(r) # NoAddress => <<req[r].identity, Owner(r)>> \in attached
      BY <1>1, SigningInIs DEF Owner, IInv, SignInInv
    <3>5. x \in Request
      BY <3>3 DEF Request
    <3> HIDE DEF x
    <3> QED BY <3>1, <3>3, <3>4, <3>5
  <2>2. CASE req[r].linkUser # NoAddress /\ Owner(r) = NoAddress
    <3> DEFINE x == [req[r] EXCEPT !.pc = "linking"]
    <3>1. Goto(r, "linking") /\ cookie' = cookie
      BY <2>2 DEF LookUp
    <3>2. req' = [req EXCEPT ![r] = x] /\ x \in Request /\ x.pc = "linking"
      BY <1>1, <3>1, GotoIs DEF IInv, SigningIn
    <3>3. x.email = req[r].email /\ x.linkUser = req[r].linkUser /\ x.linkUser \in Address
      BY <1>1, <2>2, SigningInIs DEF FlowRequest
    <3> HIDE DEF x
    <3> QED BY <3>1, <3>2, <3>3
  <2>3. CASE req[r].linkUser # NoAddress /\ Owner(r) # NoAddress
    <3>1. Answer(r)
      BY <2>3 DEF LookUp
    <3> QED BY <1>1, <3>1, AnswerIs, IdleIs
  <2> QED BY <2>1, <2>2, <2>3
<1>4. PICK x \in Request : /\ req' = [req EXCEPT ![r] = x]
                           /\ x.pc \in {"new", "known", "linking", "idle"}
                           /\ x.pc # "idle" => x.email = req[r].email
                           /\ x.pc = "known" => <<x.identity, x.owner>> \in attached
                           /\ x.pc = "linking" => x.linkUser \in Address
  BY <1>3
<1>5. TypeOK' /\ LinkInv' /\ FlowInv' /\ req'[r] = x /\ Elsewhere(r)
  BY <1>2, <1>3, <1>4, LinksAside DEF rows, history, IInv, TypeOK
<1>6. Entering(r)'
  <2>1. proved' = proved /\ attached' = attached /\ req[r].email \in proved
    BY <1>1, <1>2, SigningInIs DEF history
  <2>2. x.pc \in SigningIn => x.pc # "idle"
    BY DEF SigningIn
  <2> QED BY <1>4, <1>5, <2>1, <2>2 DEF Entering
<1> QED BY <1>2, <1>5, <1>6, SignInsUndisturbed DEF IInv, rows, history

\* confirmEmailIfMatches, for an account of a proved address or not.
LEMMA ConfirmIs ==
  ASSUME IInv, NEW r \in Req, NEW a \in Address, Confirm(r, a)
  PROVE  /\ user' \in [Address -> [made : BOOLEAN, password : BOOLEAN, verified : BOOLEAN]]
         /\ \A b \in Address : /\ user'[b].made = user[b].made /\ user'[b].password = user[b].password
                               /\ user'[b].verified => user[b].verified \/ b = req[r].email
<1>1. user \in [Address -> [made : BOOLEAN, password : BOOLEAN, verified : BOOLEAN]]
  BY DEF IInv, TypeOK
<1>2. PICK v \in BOOLEAN : v = (user[a].verified \/ req[r].email = a)
  OBVIOUS
<1>3. user' = [user EXCEPT ![a] = [user[a] EXCEPT !.verified = v]]
  BY <1>1, <1>2 DEF Confirm
<1>4. LET u == [user[a] EXCEPT !.verified = v]
      IN  /\ u \in [made : BOOLEAN, password : BOOLEAN, verified : BOOLEAN]
          /\ u.made = user[a].made /\ u.password = user[a].password /\ u.verified = v
  BY <1>1
<1>5. v => user[a].verified \/ a = req[r].email
  BY <1>2
<1> QED BY <1>1, <1>3, <1>4, <1>5

LEMMA EnterKnownIsSound ==
  ASSUME IInv, NEW r \in Req, EnterKnown(r)
  PROVE  IInv'
<1>1. req[r].pc = "known" /\ req[r].pc \in SigningIn
  BY DEF EnterKnown, At, SigningIn
<1>2. /\ Confirm(r, req[r].owner) /\ entered' = entered \cup {<<req[r].identity, req[r].owner>>}
      /\ Answer(r)
      /\ UNCHANGED <<link, held, account, reported, flow, proved, replaced, uses, attached, done>>
  BY DEF EnterKnown, Enter
<1>3. <<req[r].identity, req[r].owner>> \in attached /\ req[r].owner \in Address
  BY <1>1 DEF IInv, SignInInv, Entering, TypeOK
<1>4. /\ user' \in [Address -> [made : BOOLEAN, password : BOOLEAN, verified : BOOLEAN]]
      /\ \A b \in Address : user'[b].verified => user[b].verified \/ b = req[r].email
  BY <1>2, <1>3, ConfirmIs
<1>5. /\ req' = [req EXCEPT ![r] = Idle]
      /\ \E b \in Browser : cookie' = [cookie EXCEPT ![b] = NoState]
  BY <1>1, <1>2, AnswerIs
<1>6. TypeOK' /\ LinkInv' /\ FlowInv' /\ req'[r] = Idle /\ Elsewhere(r)
  BY <1>2, <1>3, <1>4, <1>5, IdleIs, LinksAside DEF IInv, TypeOK
<1>7. SignInInv'
  <2>1. req[r].email \in proved
    BY <1>1, SigningInIs
  <2>2. \A q \in Req : Entering(q)'
    BY <1>2, <1>6, IdleIs DEF Entering, IInv, SignInInv, Elsewhere
  <2>3. EnteredOwnAccount' /\ ConfirmedMeansProved'
    BY <1>2, <1>3, <1>4, <2>1 DEF IInv, SignInInv, EnteredOwnAccount, ConfirmedMeansProved
  <2> QED BY <1>2, <2>2, <2>3 DEF IInv, SignInInv
<1> QED BY <1>6, <1>7 DEF IInv

LEMMA CheckEmailIsSound ==
  ASSUME IInv, NEW r \in Req, CheckEmail(r)
  PROVE  IInv'
<1>1. req[r].pc = "new" /\ req[r].pc \in SigningIn
  BY DEF CheckEmail, At, SigningIn
<1>2. UNCHANGED <<rows, reported, flow, history>>
  BY DEF CheckEmail
<1>3. \E x \in Request : /\ req' = [req EXCEPT ![r] = x]
                         /\ x.pc \in {"creating", "idle"}
                         /\ x.pc # "idle" => x.email = req[r].email
                         /\ cookie' = cookie \/ \E b \in Browser : cookie' = [cookie EXCEPT ![b] = NoState]
  <2>1. CASE user[req[r].email].made
    <3>1. Answer(r)
      BY <2>1 DEF CheckEmail
    <3> QED BY <1>1, <3>1, AnswerIs, IdleIs
  <2>2. CASE ~user[req[r].email].made
    <3> DEFINE x == [req[r] EXCEPT !.pc = "creating"]
    <3>1. Goto(r, "creating") /\ cookie' = cookie
      BY <2>2 DEF CheckEmail
    <3>2. req' = [req EXCEPT ![r] = x] /\ x \in Request /\ x.pc = "creating"
      BY <1>1, <3>1, GotoIs DEF IInv, SigningIn
    <3>3. x.email = req[r].email
      BY <1>1, SigningInIs DEF FlowRequest
    <3> HIDE DEF x
    <3> QED BY <3>1, <3>2, <3>3
  <2> QED BY <2>1, <2>2
<1>4. PICK x \in Request : /\ req' = [req EXCEPT ![r] = x]
                           /\ x.pc \in {"creating", "idle"}
                           /\ x.pc # "idle" => x.email = req[r].email
  BY <1>3
<1>5. TypeOK' /\ LinkInv' /\ FlowInv' /\ req'[r] = x /\ Elsewhere(r)
  BY <1>2, <1>3, <1>4, LinksAside DEF rows, history, IInv, TypeOK
<1>6. Entering(r)'
  <2>1. proved' = proved /\ req[r].email \in proved
    BY <1>1, <1>2, SigningInIs DEF history
  <2>2. x.pc \in SigningIn => x.pc # "idle"
    BY DEF SigningIn
  <2> QED BY <1>4, <1>5, <2>1, <2>2 DEF Entering
<1> QED BY <1>2, <1>5, <1>6, SignInsUndisturbed DEF IInv, rows, history

\* An identity nobody had is attached to a.
LEMMA AttachedIs ==
  ASSUME IInv, NEW i \in Identity, NEW a \in Address, account' = [account EXCEPT ![i] = a],
         attached' = attached \cup {<<i, a>>}
  PROVE  /\ account' \in [Identity -> Address \cup {NoAddress}]
         /\ attached' \subseteq Identity \X Address
         /\ \A j \in Identity : account'[j] # NoAddress => <<j, account'[j]>> \in attached'
<1>1. account'[i] = a /\ \A j \in Identity : j # i => account'[j] = account[j]
  BY DEF IInv, TypeOK
<1> QED BY <1>1 DEF IInv, TypeOK, SignInInv

LEMMA CreateUserIsSound ==
  ASSUME IInv, NEW r \in Req, CreateUser(r)
  PROVE  IInv'
<1>1. req[r].pc = "creating" /\ req[r].pc \in SigningIn
  BY DEF CreateUser, At, SigningIn
<1>2. PICK a \in Address, i \in Identity : a = req[r].email /\ i = req[r].identity /\ a \in proved
  BY <1>1, SigningInIs
<1>3. /\ Answer(r)
      /\ UNCHANGED <<link, held, reported, flow, proved, replaced, uses, done>>
  BY DEF CreateUser
<1>4. /\ req' = [req EXCEPT ![r] = Idle]
      /\ \E b \in Browser : cookie' = [cookie EXCEPT ![b] = NoState]
  BY <1>1, <1>3, AnswerIs
<1>5. CASE user[a].made \/ account[i] # NoAddress
  <2>1. UNCHANGED <<user, account, attached, entered>>
    BY <1>2, <1>5 DEF CreateUser
  <2>2. TypeOK' /\ LinkInv' /\ FlowInv' /\ req'[r] = Idle /\ Elsewhere(r)
    BY <1>3, <1>4, <2>1, IdleIs, LinksAside DEF IInv, TypeOK
  <2> QED BY <1>3, <2>1, <2>2, IdleIs, SignInsUndisturbed DEF IInv
<1>6. CASE ~user[a].made /\ account[i] = NoAddress
  <2>1. /\ user' = [user EXCEPT ![a] = [made |-> TRUE, password |-> FALSE, verified |-> TRUE]]
        /\ account' = [account EXCEPT ![i] = a]
        /\ attached' = attached \cup {<<i, a>>}
        /\ entered' = entered \cup {<<i, a>>}
    BY <1>2, <1>6 DEF CreateUser, Enter
  <2>2. /\ user' \in [Address -> [made : BOOLEAN, password : BOOLEAN, verified : BOOLEAN]]
        /\ \A b \in Address : user'[b].verified => user[b].verified \/ b = a
    BY <2>1 DEF IInv, TypeOK
  <2>3. /\ account' \in [Identity -> Address \cup {NoAddress}]
        /\ attached' \subseteq Identity \X Address
        /\ \A j \in Identity : account'[j] # NoAddress => <<j, account'[j]>> \in attached'
    BY <2>1, AttachedIs
  <2>4. TypeOK' /\ LinkInv' /\ FlowInv' /\ req'[r] = Idle /\ Elsewhere(r)
    BY <1>3, <1>4, <2>1, <2>2, <2>3, IdleIs, LinksAside DEF IInv, TypeOK
  <2>5. \A q \in Req : Entering(q)'
    BY <1>3, <2>1, <2>4, IdleIs DEF Entering, IInv, SignInInv, Elsewhere
  <2>6. EnteredOwnAccount' /\ ConfirmedMeansProved'
    BY <1>2, <1>3, <2>1, <2>2 DEF IInv, SignInInv, EnteredOwnAccount, ConfirmedMeansProved
  <2> QED BY <2>3, <2>4, <2>5, <2>6 DEF IInv, SignInInv
<1> QED BY <1>5, <1>6

LEMMA AttachIdentityIsSound ==
  ASSUME IInv, NEW r \in Req, AttachIdentity(r)
  PROVE  IInv'
<1>1. req[r].pc = "linking" /\ req[r].pc \in SigningIn
  BY DEF AttachIdentity, At, SigningIn
<1>2. PICK a \in Address, i \in Identity : a = req[r].linkUser /\ i = req[r].identity
  BY <1>1, SigningInIs DEF IInv, SignInInv, Entering
<1>3. UNCHANGED <<user, link, held, reported, flow, proved, replaced, uses, entered, done>>
  BY DEF AttachIdentity
<1>4. CASE account[i] # NoAddress
  <2>1. Answer(r) /\ UNCHANGED <<account, attached>>
    BY <1>2, <1>4 DEF AttachIdentity
  <2>2. /\ req' = [req EXCEPT ![r] = Idle]
        /\ \E b \in Browser : cookie' = [cookie EXCEPT ![b] = NoState]
    BY <1>1, <2>1, AnswerIs
  <2>3. TypeOK' /\ LinkInv' /\ FlowInv' /\ req'[r] = Idle /\ Elsewhere(r)
    BY <1>3, <2>1, <2>2, IdleIs, LinksAside DEF IInv, TypeOK
  <2> QED BY <1>3, <2>1, <2>3, IdleIs, SignInsUndisturbed DEF IInv
<1>5. CASE account[i] = NoAddress
  <2> DEFINE x == [req[r] EXCEPT !.pc = "confirming"]
  <2>1. /\ account' = [account EXCEPT ![i] = a] /\ attached' = attached \cup {<<i, a>>}
        /\ Goto(r, "confirming") /\ cookie' = cookie
    BY <1>2, <1>5 DEF AttachIdentity
  <2>2. req' = [req EXCEPT ![r] = x] /\ x \in Request /\ x.pc = "confirming"
    BY <1>1, <2>1, GotoIs DEF IInv, SigningIn
  <2>3. x.email = req[r].email /\ x.linkUser = a
    BY <1>1, <1>2, SigningInIs DEF FlowRequest
  <2> HIDE DEF x
  <2>4. /\ account' \in [Identity -> Address \cup {NoAddress}]
        /\ attached' \subseteq Identity \X Address
        /\ \A j \in Identity : account'[j] # NoAddress => <<j, account'[j]>> \in attached'
    BY <2>1, AttachedIs
  <2>5. TypeOK' /\ LinkInv' /\ FlowInv' /\ req'[r] = x /\ Elsewhere(r)
    BY <1>3, <2>1, <2>2, <2>4, LinksAside DEF IInv, TypeOK
  <2>6. Entering(r)'
    BY <1>1, <1>3, <2>2, <2>3, <2>5, SigningInIs DEF Entering
  <2>7. \A q \in Req : Entering(q)'
    BY <1>3, <2>1, <2>5, <2>6 DEF Entering, IInv, SignInInv, Elsewhere
  <2>8. EnteredOwnAccount' /\ ConfirmedMeansProved'
    BY <1>3, <2>1 DEF IInv, SignInInv, EnteredOwnAccount, ConfirmedMeansProved
  <2> QED BY <2>4, <2>5, <2>7, <2>8 DEF IInv, SignInInv
<1> QED BY <1>4, <1>5

LEMMA ConfirmLinkedIsSound ==
  ASSUME IInv, NEW r \in Req, ConfirmLinked(r)
  PROVE  IInv'
<1>1. req[r].pc = "confirming" /\ req[r].pc \in SigningIn
  BY DEF ConfirmLinked, At, SigningIn
<1>2. req[r].linkUser \in Address /\ req[r].email \in proved
  BY <1>1, SigningInIs DEF IInv, SignInInv, Entering
<1>3. /\ Confirm(r, req[r].linkUser) /\ Answer(r)
      /\ UNCHANGED <<link, held, account, reported, flow, history>>
  BY DEF ConfirmLinked
<1>4. /\ user' \in [Address -> [made : BOOLEAN, password : BOOLEAN, verified : BOOLEAN]]
      /\ \A b \in Address : user'[b].verified => user[b].verified \/ b = req[r].email
  BY <1>2, <1>3, ConfirmIs
<1>5. /\ req' = [req EXCEPT ![r] = Idle]
      /\ \E b \in Browser : cookie' = [cookie EXCEPT ![b] = NoState]
  BY <1>1, <1>3, AnswerIs
<1>6. TypeOK' /\ LinkInv' /\ FlowInv' /\ req'[r] = Idle /\ Elsewhere(r)
  BY <1>3, <1>4, <1>5, IdleIs, LinksAside DEF IInv, TypeOK, history
<1> QED BY <1>2, <1>3, <1>4, <1>6, IdleIs, SignInsUndisturbed DEF IInv, history

-----------------------------------------------------------------------------
(* Disconnecting a provider. *)

LEMMA UnlinkIsSound ==
  ASSUME IInv, NEW r \in Req, NEW a \in Address, NEW p \in Provider, Unlink(r, a, p)
  PROVE  IInv'
<1> DEFINE x == [pc |-> "counting", user |-> a, provider |-> p, password |-> user[a].password]
<1>1. x \in Request /\ x.pc = "counting"
  BY DEF IInv, TypeOK, Request, UnlinkRequest
<1>2. req' = [req EXCEPT ![r] = x] /\ UNCHANGED <<rows, reported, oauth, history>>
  BY DEF Unlink, Next1
<1> HIDE DEF x
<1>3. TypeOK' /\ LinkInv' /\ FlowInv' /\ req'[r] = x /\ Elsewhere(r)
  BY <1>1, <1>2, LinksAside DEF IInv, TypeOK, rows, oauth, history
<1>4. req'[r].pc \notin SigningIn
  BY <1>1, <1>3 DEF SigningIn
<1> QED BY <1>2, <1>3, <1>4, SignInsUndisturbed DEF IInv, rows, history

LEMMA CountLinkedIsSound ==
  ASSUME IInv, NEW r \in Req, CountLinked(r)
  PROVE  IInv'
<1>1. req[r].pc = "counting" /\ UNCHANGED <<rows, reported, oauth, history>>
  BY DEF CountLinked, At
<1>2. PICK x \in Request : /\ req' = [req EXCEPT ![r] = x]
                           /\ x.pc \in {"idle", "unlinking"}
  <2>1. CASE Next1(r, Idle)
    BY <2>1, IdleIs DEF Next1
  <2>2. CASE Goto(r, "unlinking")
    <3>1. /\ req' = [req EXCEPT ![r] = [req[r] EXCEPT !.pc = "unlinking"]]
          /\ [req[r] EXCEPT !.pc = "unlinking"] \in Request
          /\ [req[r] EXCEPT !.pc = "unlinking"].pc = "unlinking"
      BY <1>1, <2>2, GotoIs DEF IInv
    <3> QED BY <3>1
  <2>3. Next1(r, Idle) \/ Goto(r, "unlinking")
    BY Zenon DEF CountLinked
  <2> QED BY <2>1, <2>2, <2>3
<1>3. TypeOK' /\ LinkInv' /\ FlowInv' /\ req'[r] = x /\ Elsewhere(r)
  BY <1>1, <1>2, LinksAside DEF IInv, TypeOK, rows, oauth, history
<1>4. req'[r].pc \notin SigningIn
  BY <1>2, <1>3 DEF SigningIn
<1> QED BY <1>1, <1>3, <1>4, SignInsUndisturbed DEF IInv, rows, history

LEMMA DeleteLinkedIsSound ==
  ASSUME IInv, NEW r \in Req, DeleteLinked(r)
  PROVE  IInv'
<1>1. /\ account' = [i \in Identity |->
           IF account[i] = req[r].user /\ i[1] = req[r].provider THEN NoAddress ELSE account[i]]
      /\ req' = [req EXCEPT ![r] = Idle]
      /\ UNCHANGED <<user, link, held, reported, oauth, history>>
  BY DEF DeleteLinked, Next1
<1>2. /\ account' \in [Identity -> Address \cup {NoAddress}]
      /\ \A i \in Identity : account'[i] = NoAddress \/ account'[i] = account[i]
  BY <1>1 DEF IInv, TypeOK
<1>3. TypeOK' /\ LinkInv' /\ FlowInv' /\ req'[r] = Idle /\ Elsewhere(r)
  BY <1>1, <1>2, IdleIs, LinksAside DEF IInv, TypeOK, oauth, history
<1>4. \A q \in Req : Entering(q)'
  BY <1>1, <1>3, IdleIs DEF Entering, IInv, SignInInv, Elsewhere, history
<1>5. /\ \A i \in Identity : account'[i] # NoAddress => <<i, account'[i]>> \in attached'
      /\ EnteredOwnAccount' /\ ConfirmedMeansProved'
  BY <1>1, <1>2 DEF IInv, SignInInv, EnteredOwnAccount, ConfirmedMeansProved, history
<1> QED BY <1>3, <1>4, <1>5 DEF IInv, SignInInv

-----------------------------------------------------------------------------
LEMMA BeginsSound == Init => IInv
<1> SUFFICES ASSUME Init PROVE IInv
  OBVIOUS
<1>1. \A r \in Req : req[r] = Idle /\ req[r].pc = "idle"
  BY IdleIs DEF Init
<1>2. TypeOK
  BY DEF Init, TypeOK, NoUser, NoLink, NoFlow, Purpose
<1>3. LinkInv
  BY <1>1 DEF Init, LinkInv, LinkSound, Wanting, Retiring, Using, NoLink
<1>4. SignInInv
  BY <1>1, IdleIs DEF Init, SignInInv, Entering, EnteredOwnAccount, ConfirmedMeansProved, NoUser
<1>5. FlowInv
  BY DEF Init, FlowInv
<1> QED BY <1>2, <1>3, <1>4, <1>5 DEF IInv

LEMMA StepsSound == IInv /\ [Next]_vars => IInv'
<1> SUFFICES ASSUME IInv, [Next]_vars PROVE IInv'
  OBVIOUS
<1>1. CASE UNCHANGED vars
  BY <1>1 DEF IInv, TypeOK, LinkInv, LinkSound, Wanting, Retiring, Using, SignInInv, Entering,
              EnteredOwnAccount, ConfirmedMeansProved, FlowInv, vars, rows, oauth, history
<1>2. ASSUME NEW b \in Browser, NEW s \in State, NEW a \in Address \cup {NoAddress},
             StartFlow(b, s, a)
      PROVE  IInv'
  BY <1>2, StartFlowIsSound
<1>3. ASSUME NEW i \in Identity, NEW a \in Address, ChangeReported(i, a) PROVE IInv'
  BY <1>3, ChangeReportedIsSound
<1>4. ASSUME NEW r \in Req, NEW a \in Address,
             \/ Register(r, a)
             \/ \E p \in Purpose : AskForLink(r, a, p)
             \/ \E p \in Provider : Unlink(r, a, p)
      PROVE  IInv'
  <2>1. CASE Register(r, a)
    BY <2>1, IssuingIsSound DEF Register, Purpose, rows
  <2>2. ASSUME NEW p \in Purpose, AskForLink(r, a, p) PROVE IInv'
    BY <2>2, IssuingIsSound DEF AskForLink, rows
  <2>3. ASSUME NEW p \in Provider, Unlink(r, a, p) PROVE IInv'
    BY <2>3, UnlinkIsSound
  <2> QED BY <1>4, <2>1, <2>2, <2>3
<1>5. ASSUME NEW r \in Req, NEW t \in Token, CommitLink(r, t) \/ OpenLink(r, t) PROVE IInv'
  BY <1>5, CommitLinkIsSound, OpenLinkIsSound
<1>6. ASSUME NEW r \in Req, NEW b \in Browser, NEW s \in State, NEW i \in Identity,
             Callback(r, b, s, i)
      PROVE  IInv'
  BY <1>6, CallbackIsSound
<1>7. ASSUME NEW r \in Req, Retire(r) \/ Consume(r) \/ UseLink(r) \/ Crash(r) PROVE IInv'
  BY <1>7, RetireIsSound, ConsumeIsSound, UseLinkIsSound, CrashIsSound
<1>8. ASSUME NEW r \in Req, \/ LookUp(r) \/ EnterKnown(r) \/ CheckEmail(r) \/ CreateUser(r)
                            \/ AttachIdentity(r) \/ ConfirmLinked(r)
      PROVE  IInv'
  BY <1>8, LookUpIsSound, EnterKnownIsSound, CheckEmailIsSound, CreateUserIsSound,
     AttachIdentityIsSound, ConfirmLinkedIsSound
<1>9. ASSUME NEW r \in Req, CountLinked(r) \/ DeleteLinked(r) PROVE IInv'
  BY <1>9, CountLinkedIsSound, DeleteLinkedIsSound
<1> QED BY <1>1, <1>2, <1>3, <1>4, <1>5, <1>6, <1>7, <1>8, <1>9 DEF Next

LEMMA Invariant == Spec => []IInv
BY BeginsSound, StepsSound, PTL DEF Spec

\* Every row, flow and request keeps its shape.
THEOREM AccountsAreTypeCorrect == Spec => []TypeOK
<1>1. IInv => TypeOK
  BY DEF IInv
<1> QED BY <1>1, Invariant, PTL

\* An account is confirmed only when its address was proved (verify,
\* resetPassword, confirmEmailIfMatches).
THEOREM ConfirmedAddressIsProved == Spec => []ConfirmedMeansProved
<1>1. IInv => ConfirmedMeansProved
  BY DEF IInv, SignInInv
<1> QED BY <1>1, Invariant, PTL

\* However many requests open a link at once, it changes one thing (consume).
THEOREM LinkChangesOnce == Spec => []LinkWorksOnce
<1>1. IInv => LinkWorksOnce
  <2> SUFFICES ASSUME IInv, NEW t \in Token PROVE uses[t] <= 1
    BY DEF LinkWorksOnce
  <2>1. uses[t] = 0 \/ uses[t] = 1
    BY DEF IInv, LinkInv, LinkSound
  <2> QED BY <2>1
<1> QED BY <1>1, Invariant, PTL

\* Once a newer link is committed no earlier one changes anything (replace).
THEOREM ReplacedLinkIsDead == Spec => OlderLinkIsDead
<1>1. IInv /\ [Next]_vars => [UsesLiveLink]_vars
  <2> SUFFICES ASSUME IInv, NEW r \in Req, UseLink(r) PROVE req[r].token \notin replaced
    BY DEF UsesLiveLink
  <2>1. req[r].pc = "consumed" /\ req[r].token \in Token
    BY RequestsAre DEF UseLink, At, IInv, UseRequest
  <2>2. link[req[r].token].status = "unused"
    BY <2>1 DEF IInv, LinkInv, Using
  <2> QED BY <2>1, <2>2 DEF IInv, LinkInv, LinkSound
<1> QED BY <1>1, Invariant, PTL DEF Spec, OlderLinkIsDead

\* A callback is honoured at most once, where its flow began (complete).
THEOREM FlowEndsInItsBrowser == Spec => []FlowEndsWhereItBegan
<1>1. IInv => FlowEndsWhereItBegan
  <2> SUFFICES ASSUME IInv, NEW s \in State
               PROVE  /\ Len(done[s]) <= 1
                      /\ \A n \in DOMAIN done[s] : done[s][n] = flow[s].browser
    BY DEF FlowEndsWhereItBegan
  <2>1. CASE done[s] = <<>>
    BY <2>1
  <2>2. CASE done[s] = <<flow[s].browser>>
    <3>1. PICK b : b = flow[s].browser
      OBVIOUS
    <3>2. done[s] = <<b>>
      BY <2>2, <3>1
    <3>3. Len(<<b>>) = 1 /\ DOMAIN <<b>> = {1} /\ <<b>>[1] = b
      OBVIOUS
    <3> QED BY <3>1, <3>2, <3>3
  <2> QED BY <2>1, <2>2 DEF IInv, FlowInv
<1> QED BY <1>1, Invariant, PTL

\* An identity signs in only where it was created or attached (complete).
THEOREM SignInsAreOwn == Spec => []EnteredOwnAccount
<1>1. IInv => EnteredOwnAccount
  BY DEF IInv, SignInInv
<1> QED BY <1>1, Invariant, PTL

-----------------------------------------------------------------------------
(* Nobody is locked out, while the registry has a single provider. *)

\* A step of a request that is not about disconnecting, as what it becomes.
Ordinary(r) ==
  \E x \in Request : /\ req' = [req EXCEPT ![r] = x]
                     /\ x.pc \notin {"counting", "unlinking"}

LEMMA AnsweringIsOrdinary ==
  ASSUME NEW r \in Req, Next1(r, Idle) \/ Answer(r)
  PROVE  Ordinary(r)
BY IdleIs DEF Ordinary, Next1, Answer

LEMMA GoingOnIsOrdinary ==
  ASSUME IInv, NEW r \in Req, NEW pc, Goto(r, pc),
         \/ req[r].pc \in {"issuing", "retired"} /\ pc \in {"issuing", "retired"}
         \/ req[r].pc \in {"found", "consumed"} /\ pc \in {"found", "consumed"}
         \/ req[r].pc \in SigningIn /\ pc \in SigningIn
  PROVE  Ordinary(r)
<1>1. /\ req' = [req EXCEPT ![r] = [req[r] EXCEPT !.pc = pc]]
      /\ [req[r] EXCEPT !.pc = pc] \in Request
      /\ [req[r] EXCEPT !.pc = pc].pc = pc
  BY GotoIs DEF IInv
<1>2. pc \notin {"counting", "unlinking"}
  BY DEF SigningIn
<1> QED BY <1>1, <1>2 DEF Ordinary

\* Accounts stay made, and keep their password.
UsersStay ==
  \A a \in Address : user[a].made =>
    user'[a].made /\ (user[a].password => user'[a].password)
IdentitiesStay ==
  \A i \in Identity : account[i] # NoAddress => account'[i] = account[i]

\* An account that is new has a way in.
NewHasWayIn ==
  \A a \in Address : user'[a].made =>
    user[a].made \/ user'[a].password \/ \E i \in Identity : account'[i] = a

LEMMA WayInUndisturbed ==
  ASSUME IInv, WayInInv, UsersStay, IdentitiesStay, NewHasWayIn
  PROVE  WayIn'
<1> SUFFICES ASSUME NEW a \in Address, user'[a].made, ~user'[a].password
             PROVE  \E i \in Identity : account'[i] = a
  BY DEF WayIn, Linked
<1>1. CASE ~user[a].made
  BY <1>1 DEF NewHasWayIn
<1>2. CASE user[a].made
  <2>1. PICK i \in Identity : account[i] = a
    BY <1>2 DEF WayInInv, WayIn, Linked, UsersStay
  <2>2. account[i] # NoAddress
    BY <2>1, AccountsAssumption
  <2> QED BY <2>1, <2>2 DEF IdentitiesStay
<1> QED BY <1>1, <1>2

LEMMA OrdinaryStep ==
  ASSUME IInv, WayInInv, NEW r \in Req, Ordinary(r), UsersStay, IdentitiesStay, NewHasWayIn
  PROVE  WayInInv'
<1>1. PICK x \in Request : /\ req' = [req EXCEPT ![r] = x]
                           /\ x.pc \notin {"counting", "unlinking"}
  BY DEF Ordinary
<1>2. req'[r] = x /\ Elsewhere(r)
  BY <1>1, StepIs DEF IInv, Elsewhere
<1>3. ASSUME NEW q \in Req PROVE Unlinking(q)'
  <2>1. CASE q = r
    BY <1>1, <1>2, <2>1 DEF Unlinking
  <2>2. CASE q # r /\ req[q].pc \in {"counting", "unlinking"}
    <3>1. req[q].user \in Address /\ req'[q] = req[q]
      BY <1>2, <2>2, RequestsAre DEF IInv, UnlinkRequest, Elsewhere
    <3> QED BY <3>1 DEF WayInInv, Unlinking, UsersStay
  <2>3. CASE q # r /\ req[q].pc \notin {"counting", "unlinking"}
    BY <1>2, <2>3 DEF Unlinking, Elsewhere
  <2> QED BY <2>1, <2>2, <2>3
<1> QED BY <1>3, WayInUndisturbed DEF WayInInv

\* A step that leaves the rows alone.
LEMMA RowsStay ==
  ASSUME UNCHANGED <<user, account>>
  PROVE  UsersStay /\ IdentitiesStay /\ NewHasWayIn
BY DEF UsersStay, IdentitiesStay, NewHasWayIn

\* A step that makes no account and takes no password.
LEMMA SameUsersStay ==
  ASSUME account' = account,
         \A b \in Address : /\ user'[b].made = user[b].made
                            /\ user[b].password => user'[b].password
  PROVE  UsersStay /\ IdentitiesStay /\ NewHasWayIn
BY DEF UsersStay, IdentitiesStay, NewHasWayIn

LEMMA LinksKeepWayIn ==
  ASSUME IInv, WayInInv, NEW r \in Req,
         \/ \E a \in Address : Register(r, a) \/ \E p \in Purpose : AskForLink(r, a, p)
         \/ \E t \in Token : CommitLink(r, t) \/ OpenLink(r, t)
         \/ Retire(r) \/ Consume(r) \/ UseLink(r) \/ Crash(r)
  PROVE  WayInInv'
<1>1. ASSUME NEW a \in Address, NEW p \in Purpose, Next1(r, Issuing(a, p)) PROVE Ordinary(r)
  <2>1. Issuing(a, p) \in Request /\ Issuing(a, p).pc = "issuing"
    BY DEF Issuing, Request, LinkRequest, Unused
  <2> QED BY <1>1, <2>1 DEF Ordinary, Next1
<1>2. ASSUME NEW a \in Address, Register(r, a) PROVE WayInInv'
  <2>1. user' = [user EXCEPT ![a] = [made |-> TRUE, password |-> TRUE, verified |-> FALSE]]
        /\ account' = account /\ Ordinary(r)
    BY <1>1, <1>2 DEF Register, Purpose
  <2>2. \A b \in Address : user'[b] = IF b = a THEN [made |-> TRUE, password |-> TRUE,
                                                    verified |-> FALSE] ELSE user[b]
    BY <2>1 DEF IInv, TypeOK
  <2>3. UsersStay /\ IdentitiesStay /\ NewHasWayIn
    BY <2>1, <2>2 DEF UsersStay, IdentitiesStay, NewHasWayIn
  <2> QED BY <2>1, <2>3, OrdinaryStep
<1>3. ASSUME NEW a \in Address, NEW p \in Purpose, AskForLink(r, a, p) PROVE WayInInv'
  BY <1>1, <1>3, RowsStay, OrdinaryStep DEF AskForLink, rows
<1>4. ASSUME NEW t \in Token, CommitLink(r, t) PROVE WayInInv'
  BY <1>4, AnsweringIsOrdinary, RowsStay, OrdinaryStep DEF CommitLink
<1>5. ASSUME NEW t \in Token, OpenLink(r, t) PROVE WayInInv'
  <2>1. Ordinary(r)
    <3>1. [pc |-> "found", token |-> t] \in Request
      BY DEF Request, UseRequest
    <3> QED BY <1>5, <3>1 DEF OpenLink, Ordinary, Next1
  <2> QED BY <1>5, <2>1, RowsStay, OrdinaryStep DEF OpenLink, rows
<1>6. CASE Retire(r)
  BY <1>6, GoingOnIsOrdinary, RowsStay, OrdinaryStep DEF Retire, At
<1>7. CASE Consume(r)
  BY <1>7, AnsweringIsOrdinary, GoingOnIsOrdinary, RowsStay, OrdinaryStep DEF Consume, At
<1>8. CASE UseLink(r)
  <2>1. PICK t \in Token, a \in Address : t = req[r].token /\ a = link[t].user
    <3>1. req[r].pc = "consumed" /\ req[r].token \in Token
      BY <1>8, RequestsAre DEF UseLink, At, IInv, UseRequest
    <3>2. link[req[r].token].user \in Address
      BY <3>1 DEF IInv, LinkInv, Using, LinkSound
    <3> QED BY <3>1, <3>2
  <2>2. PICK reset \in BOOLEAN : reset = (link[t].purpose = "reset")
    OBVIOUS
  <2>3. user' = [user EXCEPT ![a].verified = TRUE, ![a].password = @ \/ reset]
    BY <1>8, <2>1, <2>2 DEF UseLink
  <2>4. \A b \in Address : /\ user'[b].made = user[b].made
                           /\ user[b].password => user'[b].password
    BY <2>3 DEF IInv, TypeOK
  <2>5. Ordinary(r) /\ account' = account
    BY <1>8, AnsweringIsOrdinary DEF UseLink
  <2> QED BY <2>4, <2>5, SameUsersStay, OrdinaryStep
<1>9. CASE Crash(r)
  BY <1>9, AnsweringIsOrdinary, RowsStay, OrdinaryStep DEF Crash
<1> QED BY <1>2, <1>3, <1>4, <1>5, <1>6, <1>7, <1>8, <1>9

LEMMA SignInsKeepWayIn ==
  ASSUME IInv, WayInInv, NEW r \in Req,
         \/ \E b \in Browser, s \in State, i \in Identity : Callback(r, b, s, i)
         \/ LookUp(r) \/ EnterKnown(r) \/ CheckEmail(r) \/ CreateUser(r)
         \/ AttachIdentity(r) \/ ConfirmLinked(r)
  PROVE  WayInInv'
<1>1. ASSUME NEW b \in Browser, NEW s \in State, NEW i \in Identity, Callback(r, b, s, i)
      PROVE  WayInInv'
  <2>1. CASE NonceMatches(b, s)
    <3> DEFINE x == [pc |-> "looking up", browser |-> b, identity |-> i, email |-> reported[i],
                     linkUser |-> flow[s].linkUser, owner |-> NoAddress]
    <3>1. req' = [req EXCEPT ![r] = x] /\ UNCHANGED <<user, account>>
      BY <1>1, <2>1 DEF Callback, Next1, rows
    <3>2. x \in Request /\ x.pc = "looking up"
      BY DEF IInv, TypeOK, Request, FlowRequest
    <3> HIDE DEF x
    <3>3. Ordinary(r)
      BY <3>1, <3>2 DEF Ordinary
    <3> QED BY <3>1, <3>3, RowsStay, OrdinaryStep
  <2>2. CASE ~NonceMatches(b, s)
    <3>1. UNCHANGED <<user, account, req>>
      BY <1>1, <2>2 DEF Callback, rows
    <3>2. WayIn'
      BY <3>1, RowsStay, WayInUndisturbed
    <3> QED BY <3>1, <3>2 DEF WayInInv, Unlinking
  <2> QED BY <2>1, <2>2
<1>2. CASE LookUp(r)
  <2>1. req[r].pc = "looking up" /\ req[r].pc \in SigningIn /\ UNCHANGED <<user, account>>
    BY <1>2 DEF LookUp, At, SigningIn, rows
  <2>2. CASE req[r].linkUser = NoAddress
    <3>1. PICK o \in Address \cup {NoAddress}, pc \in {"new", "known"} :
            o = Owner(r) /\ pc = IF Owner(r) = NoAddress THEN "new" ELSE "known"
      BY <2>1, SigningInIs DEF Owner
    <3> DEFINE x == [req[r] EXCEPT !.owner = o, !.pc = pc]
    <3>2. req' = [req EXCEPT ![r] = x]
      BY <1>2, <2>2, <3>1 DEF LookUp, IInv, TypeOK
    <3>3. x \in Request /\ x.pc = pc
      BY <2>1, <3>1, SigningInIs DEF Request, FlowRequest
    <3> HIDE DEF x
    <3>4. Ordinary(r)
      BY <3>1, <3>2, <3>3 DEF Ordinary
    <3> QED BY <2>1, <3>4, RowsStay, OrdinaryStep
  <2>3. CASE req[r].linkUser # NoAddress
    <3>1. Goto(r, "linking") \/ Answer(r)
      BY <1>2, <2>3 DEF LookUp
    <3>2. Ordinary(r)
      BY <2>1, <3>1, AnsweringIsOrdinary, GoingOnIsOrdinary DEF SigningIn
    <3> QED BY <2>1, <3>2, RowsStay, OrdinaryStep
  <2> QED BY <2>2, <2>3
<1>3. CASE EnterKnown(r)
  <2>1. req[r].pc = "known" /\ Confirm(r, req[r].owner) /\ Answer(r) /\ account' = account
    BY <1>3 DEF EnterKnown, At
  <2>2. req[r].owner \in Address
    BY <2>1 DEF IInv, TypeOK, SignInInv, Entering
  <2> QED BY <2>1, <2>2, ConfirmIs, SameUsersStay, AnsweringIsOrdinary, OrdinaryStep
<1>4. CASE CheckEmail(r)
  <2>1. req[r].pc = "new" /\ (Answer(r) \/ Goto(r, "creating")) /\ UNCHANGED <<user, account>>
    BY <1>4 DEF CheckEmail, At, rows
  <2>2. Ordinary(r)
    BY <2>1, AnsweringIsOrdinary, GoingOnIsOrdinary DEF SigningIn
  <2> QED BY <2>1, <2>2, RowsStay, OrdinaryStep
<1>5. CASE CreateUser(r)
  <2>1. req[r].pc \in SigningIn /\ Answer(r)
    BY <1>5 DEF CreateUser, At, SigningIn
  <2>2. PICK a \in Address, i \in Identity : a = req[r].email /\ i = req[r].identity
    BY <2>1, SigningInIs
  <2>3. Ordinary(r)
    BY <2>1, AnsweringIsOrdinary
  <2>4. CASE user[a].made \/ account[i] # NoAddress
    <3>1. UNCHANGED <<user, account>>
      BY <1>5, <2>2, <2>4 DEF CreateUser
    <3> QED BY <2>3, <3>1, RowsStay, OrdinaryStep
  <2>5. CASE ~user[a].made /\ account[i] = NoAddress
    <3>1. /\ user' = [user EXCEPT ![a] = [made |-> TRUE, password |-> FALSE, verified |-> TRUE]]
          /\ account' = [account EXCEPT ![i] = a]
      BY <1>5, <2>2, <2>5 DEF CreateUser
    <3>2. UsersStay /\ IdentitiesStay /\ NewHasWayIn
      BY <2>5, <3>1 DEF UsersStay, IdentitiesStay, NewHasWayIn, IInv, TypeOK
    <3> QED BY <2>3, <3>2, OrdinaryStep
  <2> QED BY <2>4, <2>5
<1>6. CASE AttachIdentity(r)
  <2>1. req[r].pc = "linking" /\ req[r].pc \in SigningIn /\ user' = user
    BY <1>6 DEF AttachIdentity, At, SigningIn
  <2>2. Ordinary(r)
    BY <1>6, <2>1, AnsweringIsOrdinary, GoingOnIsOrdinary DEF AttachIdentity, SigningIn
  <2>3. IdentitiesStay
    BY <1>6, <2>1, SigningInIs DEF AttachIdentity, IdentitiesStay, IInv, TypeOK
  <2> QED BY <2>1, <2>2, <2>3, OrdinaryStep DEF UsersStay, NewHasWayIn
<1>7. CASE ConfirmLinked(r)
  <2>1. /\ req[r].pc = "confirming" /\ Confirm(r, req[r].linkUser) /\ Answer(r)
        /\ account' = account
    BY <1>7 DEF ConfirmLinked, At
  <2>2. req[r].linkUser \in Address
    BY <2>1 DEF IInv, SignInInv, Entering
  <2> QED BY <2>1, <2>2, ConfirmIs, SameUsersStay, AnsweringIsOrdinary, OrdinaryStep
<1> QED BY <1>1, <1>2, <1>3, <1>4, <1>5, <1>6, <1>7

LEMMA UnlinkingKeepsWayIn ==
  ASSUME \A p, q \in Provider : p = q,
         IInv, WayInInv, NEW r \in Req,
         \/ \E a \in Address, p \in Provider : Unlink(r, a, p)
         \/ CountLinked(r) \/ DeleteLinked(r)
  PROVE  WayInInv'
<1>1. ASSUME NEW x \in Request, req' = [req EXCEPT ![r] = x], user' = user, Unlinking(r)'
      PROVE  \A q \in Req : Unlinking(q)'
  <2>1. \A q \in Req : q # r => req'[q] = req[q]
    BY <1>1, StepIs DEF IInv
  <2> QED BY <1>1, <2>1 DEF WayInInv, Unlinking
<1>2. ASSUME NEW a \in Address, NEW p \in Provider, Unlink(r, a, p) PROVE WayInInv'
  <2> DEFINE x == [pc |-> "counting", user |-> a, provider |-> p, password |-> user[a].password]
  <2>1. /\ x \in Request /\ x.pc = "counting" /\ x.user = a /\ x.password = user[a].password
    BY DEF IInv, TypeOK, Request, UnlinkRequest
  <2>2. req' = [req EXCEPT ![r] = x] /\ user' = user /\ account' = account /\ user[a].made
    BY <1>2 DEF Unlink, Next1, rows
  <2> HIDE DEF x
  <2>3. req'[r] = x
    BY <2>1, <2>2, StepIs DEF IInv
  <2>4. Unlinking(r)'
    BY <2>1, <2>2, <2>3 DEF Unlinking
  <2>5. WayIn'
    BY <2>2, RowsStay, WayInUndisturbed
  <2> QED BY <1>1, <2>1, <2>2, <2>4, <2>5 DEF WayInInv
<1>3. CASE CountLinked(r)
  <2>1. /\ req[r].pc = "counting" /\ req[r] \in UnlinkRequest
        /\ user' = user /\ account' = account
    BY <1>3, RequestsAre DEF CountLinked, At, IInv, rows
  <2>2. WayIn'
    BY <2>1, RowsStay, WayInUndisturbed
  <2>3. CASE Next1(r, Idle)
    <3>1. req' = [req EXCEPT ![r] = Idle] /\ req'[r] = Idle
      BY <2>3, IdleIs, StepIs DEF IInv, Next1
    <3>2. Unlinking(r)'
      BY <3>1, IdleIs DEF Unlinking
    <3> QED BY <1>1, <2>1, <2>2, <3>1, <3>2, IdleIs DEF WayInInv
  <2>4. CASE Goto(r, "unlinking") /\ (req[r].password \/ Remains(r))
    <3> DEFINE x == [req[r] EXCEPT !.pc = "unlinking"]
    <3>1. ~Remains(r)
      <4> SUFFICES ASSUME NEW i \in Identity PROVE i[1] = req[r].provider
        BY DEF Remains, Linked
      <4>1. i[1] \in Provider /\ req[r].provider \in Provider
        BY <2>1 DEF Identity, UnlinkRequest
      <4> QED BY <4>1
    <3>2. user[req[r].user].made /\ user[req[r].user].password
      BY <2>1, <2>4, <3>1 DEF WayInInv, Unlinking
    <3>3. req' = [req EXCEPT ![r] = x] /\ x \in Request /\ x.pc = "unlinking"
      BY <2>1, <2>4, GotoIs DEF IInv
    <3>4. x.user = req[r].user
      BY <2>1 DEF UnlinkRequest
    <3> HIDE DEF x
    <3>5. req'[r] = x
      BY <3>3, StepIs DEF IInv
    <3>6. Unlinking(r)'
      BY <2>1, <3>2, <3>3, <3>4, <3>5 DEF Unlinking
    <3> QED BY <1>1, <2>1, <2>2, <3>3, <3>6 DEF WayInInv
  <2>5. \/ Next1(r, Idle)
        \/ Goto(r, "unlinking") /\ (req[r].password \/ Remains(r))
    BY <1>3, Zenon DEF CountLinked
  <2> QED BY <2>3, <2>4, <2>5
<1>4. CASE DeleteLinked(r)
  <2>1. /\ req[r].pc = "unlinking" /\ req' = [req EXCEPT ![r] = Idle] /\ user' = user
        /\ \A i \in Identity : account[i] # req[r].user => account'[i] = account[i]
    BY <1>4 DEF DeleteLinked, At, Next1
  <2>2. req'[r] = Idle
    BY <2>1, IdleIs, StepIs DEF IInv
  <2>3. user[req[r].user].password
    BY <2>1 DEF WayInInv, Unlinking
  <2>4. WayIn'
    BY <2>1, <2>3 DEF WayInInv, WayIn, Linked
  <2>5. Unlinking(r)'
    BY <2>2, IdleIs DEF Unlinking
  <2> QED BY <1>1, <2>1, <2>4, <2>5, IdleIs DEF WayInInv
<1> QED BY <1>2, <1>3, <1>4

\* Whatever is disconnected, attached or reset at once, an account keeps a
\* password or an identity (unlink), while the registry has the one provider
\* it has: two disconnected at once could each count on the other.
THEOREM WayInIsKept == (\A p, q \in Provider : p = q) => (Spec => []WayIn)
<1> SUFFICES ASSUME \A p, q \in Provider : p = q PROVE Spec => []WayIn
  OBVIOUS
<1>1. Init => WayInInv
  <2> SUFFICES ASSUME Init PROVE WayInInv
    OBVIOUS
  <2>1. \A r \in Req : req[r].pc = "idle"
    BY IdleIs DEF Init
  <2> QED BY <2>1 DEF Init, WayInInv, WayIn, Unlinking, NoUser
<1>2. IInv /\ WayInInv /\ [Next]_vars => WayInInv'
  <2> SUFFICES ASSUME IInv, WayInInv, [Next]_vars PROVE WayInInv'
    OBVIOUS
  <2>1. CASE UNCHANGED vars
    BY <2>1 DEF WayInInv, WayIn, Linked, Unlinking, vars, rows
  <2>2. ASSUME UNCHANGED <<user, account, req>> PROVE WayInInv'
    BY <2>2 DEF WayInInv, WayIn, Linked, Unlinking
  <2>3. ASSUME NEW b \in Browser, NEW s \in State, NEW a \in Address \cup {NoAddress},
               StartFlow(b, s, a)
        PROVE  WayInInv'
    BY <2>2, <2>3 DEF StartFlow, rows
  <2>4. ASSUME NEW i \in Identity, NEW a \in Address, ChangeReported(i, a) PROVE WayInInv'
    BY <2>2, <2>4 DEF ChangeReported, rows
  <2>5. ASSUME NEW r \in Req, NEW a \in Address,
               Register(r, a) \/ \E p \in Purpose : AskForLink(r, a, p)
        PROVE  WayInInv'
    BY <2>5, LinksKeepWayIn
  <2>6. ASSUME NEW r \in Req, NEW t \in Token, CommitLink(r, t) \/ OpenLink(r, t)
        PROVE  WayInInv'
    BY <2>6, LinksKeepWayIn
  <2>7. ASSUME NEW r \in Req, Retire(r) \/ Consume(r) \/ UseLink(r) \/ Crash(r)
        PROVE  WayInInv'
    BY <2>7, LinksKeepWayIn
  <2>8. ASSUME NEW r \in Req, NEW b \in Browser, NEW s \in State, NEW i \in Identity,
               Callback(r, b, s, i)
        PROVE  WayInInv'
    BY <2>8, SignInsKeepWayIn
  <2>9. ASSUME NEW r \in Req, \/ LookUp(r) \/ EnterKnown(r) \/ CheckEmail(r) \/ CreateUser(r)
                              \/ AttachIdentity(r) \/ ConfirmLinked(r)
        PROVE  WayInInv'
    BY <2>9, SignInsKeepWayIn
  <2>10. ASSUME NEW r \in Req, NEW a \in Address, NEW p \in Provider, Unlink(r, a, p)
         PROVE  WayInInv'
    BY <2>10, UnlinkingKeepsWayIn
  <2>11. ASSUME NEW r \in Req, CountLinked(r) \/ DeleteLinked(r) PROVE WayInInv'
    BY <2>11, UnlinkingKeepsWayIn
  <2> QED BY <2>1, <2>3, <2>4, <2>5, <2>6, <2>7, <2>8, <2>9, <2>10, <2>11 DEF Next
<1>3. WayInInv => WayIn
  BY DEF WayInInv
<1> QED BY <1>1, <1>2, <1>3, Invariant, PTL DEF Spec

=============================================================================
