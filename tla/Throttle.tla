------------------------------ MODULE Throttle ------------------------------
(***************************************************************************)
(* The rate limits of one route: every attempt is counted by its address   *)
(* and, where the body has one, by its email, each in a sliding window     *)
(* kept by Redis.                                                          *)
(***************************************************************************)
EXTENDS Desk, Sequences, FiniteSets

CONSTANTS
  Addresses, Emails,
  NoEmail,        \* a body that names no email
  ByAddress, ByEmail,   \* the two rules, each [limit, window]
  LastMoment, MaxAttempts   \* bounds: the clock, attempts

ASSUME ThrottleAssumption ==
  /\ \A rule \in {ByAddress, ByEmail} : rule.limit \in Nat \ {0} /\ rule.window \in Nat \ {0}
  /\ Addresses \cap (Emails \cup {NoEmail}) = {} /\ NoEmail \notin Emails
  /\ LastMoment \in Nat /\ MaxAttempts \in Nat

\* log: every attempt made, newest last; since: how many there were when Redis
\* last lost its counts.
ThrottleInit ==
  desk = [kind |-> "throttle", now |-> 0, up |-> TRUE, counted |-> {}, log |-> <<>>,
          since |-> 0]

\* ZREMRANGEBYSCORE and ZCARD: entries are [key, at, nr].
Aged(key, window) == {e \in desk.counted : e.key = key /\ e.at <= desk.now - window}

Count(key, window) == Cardinality({e \in desk.counted : e.key = key} \ Aged(key, window))

\* Mutant: one more than the limit.
ConsumeOneMore(key, rule) ==
  LET n == Count(key, rule.window) IN
  [allowed |-> n <= rule.limit, remaining |-> IF n < rule.limit THEN rule.limit - n ELSE 0,
   dropped |-> Aged(key, rule.window)]

\* One run of the script, or its absence: it fails open.
Consume(key, rule) ==
  LET n == Count(key, rule.window) IN
  IF ~desk.up THEN [allowed |-> TRUE, remaining |-> rule.limit, dropped |-> {}]
  ELSE IF n >= rule.limit THEN [allowed |-> FALSE, remaining |-> 0, dropped |-> Aged(key, rule.window)]
  ELSE [allowed |-> TRUE, remaining |-> rule.limit - (n + 1), dropped |-> Aged(key, rule.window)]

\* The verdict reported is the one with the least remaining, the first of two
\* that have equally little.
Tightest(first, second) == IF second.remaining < first.remaining THEN second ELSE first

Entry(key) == [key |-> key, at |-> desk.now, nr |-> Len(desk.log)]

\* Each script is atomic on its key.  Both are one step here: what another
\* attempt does between the two is left out.
Attempt(address, email) ==
  /\ Len(desk.log) < MaxAttempts
  /\ LET byAddress == Consume(address, ByAddress)
         asked == byAddress.allowed /\ email # NoEmail
         byEmail == Consume(email, ByEmail)
         verdict == IF asked THEN Tightest(byAddress, byEmail) ELSE byAddress
         new == {Entry(key) : key \in (IF desk.up /\ byAddress.allowed THEN {address} ELSE {})
                                      \cup (IF desk.up /\ asked /\ byEmail.allowed THEN {email} ELSE {})}
     IN desk' = [desk EXCEPT
          !.counted = ((@ \ byAddress.dropped) \ (IF asked THEN byEmail.dropped ELSE {})) \cup new,
          !.log = Append(@, [address |-> address, email |-> email, at |-> desk.now, up |-> desk.up,
                             admitted |-> verdict.allowed,
                             lastOfAddress |-> byAddress.allowed /\ byAddress.remaining = 0])]

Elapse ==
  /\ desk.now < LastMoment
  /\ desk' = [desk EXCEPT !.now = @ + 1]

RedisFails == desk.up /\ desk' = [desk EXCEPT !.up = FALSE]

\* Back, with what it had written or with nothing.
RedisReturns(kept) ==
  /\ ~desk.up
  /\ desk' = [desk EXCEPT !.up = TRUE, !.counted = IF kept THEN @ ELSE {},
                          !.since = IF kept THEN @ ELSE Len(desk.log)]

ThrottleNext ==
  \/ \E address \in Addresses, email \in Emails \cup {NoEmail} : Attempt(address, email)
  \/ Elapse
  \/ RedisFails
  \/ \E kept \in BOOLEAN : RedisReturns(kept)

ThrottleSpec == ThrottleInit /\ [][ThrottleNext]_desk

-----------------------------------------------------------------------------
Mentions(attempt, key) == key \in {attempt.address, attempt.email}

\* The attempts under a key in the window that ends with attempt i.
InWindow(i, key, rule) ==
  {j \in 1..i : Mentions(desk.log[j], key) /\ desk.log[j].up
                /\ desk.log[j].at > desk.log[i].at - rule.window}

Admitted(S) == {j \in S : desk.log[j].admitted}

\* While Redis keeps what it counted, no window of any length lets more through
\* than its limit, a window that straddles two others included; an email's own
\* limit gives way only to an attempt that was the last its address had left,
\* which the verdict with equally little remaining hides.  And nobody is
\* refused but for attempts that were made within the window.
\* (rate-limit.service.ts:16, "double the intended rate, exactly at the
\* boundary"; rate-limit.guard.ts:59)
LimitsHold ==
  On("throttle") =>
    \A i \in DOMAIN desk.log :
      LET made == desk.log[i]
          kept(S) == {j \in S : j > desk.since}
          ofAddress == InWindow(i, made.address, ByAddress)
          ofEmail == InWindow(i, made.email, ByEmail)
      IN IF ~made.up THEN made.admitted
         ELSE IF made.admitted
         THEN /\ Cardinality(Admitted(kept(ofAddress))) <= ByAddress.limit
              /\ made.email # NoEmail /\ ~made.lastOfAddress =>
                   Cardinality({j \in Admitted(kept(ofEmail)) : ~desk.log[j].lastOfAddress})
                     <= ByEmail.limit
         ELSE \/ Cardinality(ofAddress) > ByAddress.limit
              \/ made.email # NoEmail /\ Cardinality(Admitted(ofEmail)) >= ByEmail.limit
=============================================================================
