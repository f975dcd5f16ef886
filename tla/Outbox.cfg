SPECIFICATION FairSpec
CONSTANTS
  User = {u1}
  Alert = {a1, a2}
  Sweeper = {s1}
  Digester = {d1, d2}
  NoUser = NoUser
  MaxFailures = 1
INVARIANTS
  MailedOnce
  SentMeansMailed
PROPERTIES
  NoMailWithoutConsent
  OwedIsSettled
