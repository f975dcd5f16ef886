------------------------------ MODULE Documents -----------------------------
(***************************************************************************)
(* The documents of one vehicle: rows in Postgres, files in an object      *)
(* store, and nothing that commits both.  A document belongs to an         *)
(* expense, to a reminder, or to the vehicle itself as one of its papers.  *)
(*                                                                         *)
(* DocumentsService creates, confirms and removes documents.  Deleting an  *)
(* owner takes its documents along by cascade; the service that deletes it *)
(* reads their storage keys first and purges the files after the commit.   *)
(* The object store is external: a client PUTs through a signed URL        *)
(* whenever it likes.                                                      *)
(***************************************************************************)
EXTENDS FiniteSets, Integers

CONSTANTS
  Proc, NoProc,
  Doc,      \* documents; the number of them bounds a run
  Plain,    \* expenses entered by hand and reminders: removed under their own lock
  Derived,  \* expenses of a fill or a service: removed under the record's lock
  Vehicle,  \* the vehicle, the owner of its papers
  NoOwner,
  Limit     \* MAX_ATTACHMENTS_PER_EXPENSE, MAX_ATTACHMENTS_PER_REMINDER, MAX_CAR_PAPERS

Owner == Plain \cup Derived \cup {Vehicle}

ASSUME DocumentsAssumption ==
  /\ NoProc \notin Proc
  /\ Plain \cap Derived = {}
  /\ Vehicle \notin Plain \cup Derived
  /\ NoOwner \notin Owner
  /\ Limit \in Nat /\ IsFiniteSet(Doc)

VARIABLES
  present,    \* the owners that have a row
  ownerOf,    \* documents.expenseId, reminderId or vehicleId; NoOwner: none yet
  status,     \* documents.status
  object,     \* what the store holds under the document's key
  url,        \* documents with a signed upload URL
  lock,       \* owner rows locked FOR UPDATE, and by whom
  proc,       \* what each request is doing
  collected   \* history: keys read by the transaction that deleted their row

vars == <<present, ownerOf, status, object, url, lock, proc, collected>>

Idle == [pc |-> "idle", owner |-> NoOwner, keys |-> {}]

TypeOK ==
  /\ present \subseteq Owner
  /\ ownerOf \in [Doc -> Owner \cup {NoOwner}]
  /\ status \in [Doc -> {"new", "PENDING_UPLOAD", "READY", "FAILED", "deleted"}]
  /\ object \in [Doc -> {"absent", "declared", "other"}]
  /\ url \subseteq Doc
  /\ lock \in [Owner -> Proc \cup {NoProc}]
  /\ proc \in [Proc -> [pc : {"idle", "counted", "found", "matches", "differs", "key read",
                              "keys read", "vehicle locked", "purging"},
                        owner : Owner \cup {NoOwner}, keys : SUBSET Doc]]
  /\ collected \subseteq Doc

Init ==
  /\ present = Owner
  /\ ownerOf = [d \in Doc |-> NoOwner]
  /\ status = [d \in Doc |-> "new"]
  /\ object = [d \in Doc |-> "absent"]
  /\ url = {}
  /\ lock = [o \in Owner |-> NoProc]
  /\ proc = [p \in Proc |-> Idle]
  /\ collected = {}

-----------------------------------------------------------------------------
At(p, pc)     == proc[p].pc = pc
Goto(p, pc)   == proc' = [proc EXCEPT ![p].pc = pc]
Finish(p)     == proc' = [proc EXCEPT ![p] = Idle]
Unlocked(p)   == [o \in Owner |-> IF lock[o] = p THEN NoProc ELSE lock[o]]
Rows          == {d \in Doc : status[d] \notin {"new", "deleted"}}
DocsOf(o)     == {d \in Rows : ownerOf[d] = o}

\* Attachments that hold, or may yet hold, a file.
LiveDocs(o) == {d \in DocsOf(o) : status[d] \in {"PENDING_UPLOAD", "READY"}}

\* The rows of D are gone; ownerOf remembers whose they were.
Deleted(D) == status' = [d \in Doc |-> IF d \in D THEN "deleted" ELSE status[d]]

-----------------------------------------------------------------------------
(* requestUpload. *)

\* Mutant: count, then insert, with no lock between two requests.
CountOwner(p, o) ==
  /\ At(p, "idle")
  /\ o \in present
  /\ Cardinality(LiveDocs(o)) < Limit
  /\ proc' = [proc EXCEPT ![p] = [pc |-> "counted", owner |-> o, keys |-> {}]]
  /\ UNCHANGED <<present, ownerOf, status, object, url, lock, collected>>

\* createWithinLimit locks the owner and counts.  A missing owner (for a paper, a
\* vehicle its insert finds nothing to point at) and a reached limit are refused
\* with nothing changed.
LockOwner(p, o) ==
  /\ At(p, "idle")
  /\ lock[o] = NoProc
  /\ o \in present
  /\ Cardinality(LiveDocs(o)) < Limit
  /\ lock' = [lock EXCEPT ![o] = p]
  /\ proc' = [proc EXCEPT ![p] = [pc |-> "counted", owner |-> o, keys |-> {}]]
  /\ UNCHANGED <<present, ownerOf, status, object, url, collected>>

\* The insert shares the rows its foreign keys name, so it waits for whoever has
\* locked them; then it commits and the URL is signed.  The vehicle is there: its
\* deletion needs the owner's row too.
InsertDocument(p, d) ==
  /\ At(p, "counted")
  /\ status[d] = "new"
  /\ lock[Vehicle] \in {NoProc, p}
  /\ ownerOf' = [ownerOf EXCEPT ![d] = proc[p].owner]
  /\ status' = [status EXCEPT ![d] = "PENDING_UPLOAD"]
  /\ url' = url \cup {d}
  /\ lock' = Unlocked(p)
  /\ Finish(p)
  /\ UNCHANGED <<present, object, collected>>

\* The browser PUTs the file, or some other bytes, for as long as the URL lives:
\* also again, and also after the document is gone.
Put(d, bytes) ==
  /\ d \in url
  /\ object[d] # bytes
  /\ object' = [object EXCEPT ![d] = bytes]
  /\ UNCHANGED <<present, ownerOf, status, url, lock, proc, collected>>

UrlExpires(d) ==
  /\ d \in url
  /\ url' = url \ {d}
  /\ UNCHANGED <<present, ownerOf, status, object, lock, proc, collected>>

-----------------------------------------------------------------------------
(* confirm. *)

\* Only a pending document goes further; a READY one is returned as it is.
Confirm(p, d) ==
  /\ At(p, "idle")
  /\ status[d] = "PENDING_UPLOAD"
  /\ proc' = [proc EXCEPT ![p] = [pc |-> "found", owner |-> NoOwner, keys |-> {d}]]
  /\ UNCHANGED <<present, ownerOf, status, object, url, lock, collected>>

\* HEAD: nothing there leaves the document pending.
Head(p) ==
  /\ At(p, "found")
  /\ \E d \in proc[p].keys :
       CASE object[d] = "absent"   -> Finish(p)
         [] object[d] = "declared" -> Goto(p, "matches")
         [] object[d] = "other"    -> Goto(p, "differs")
  /\ UNCHANGED <<present, ownerOf, status, object, url, lock, collected>>

\* Mutant: settle whatever the document has become.
Overrule(p, to) ==
  /\ \E d \in proc[p].keys :
       IF d \in Rows
       THEN /\ status' = [status EXCEPT ![d] = to]
            /\ IF to = "FAILED" THEN Goto(p, "purging") ELSE Finish(p)
       ELSE /\ status' = status
            /\ Finish(p)
  /\ UNCHANGED <<present, ownerOf, object, url, lock, collected>>

\* The conditional transition: only the confirm that made it acts on it, the
\* loser reports what the winner decided.
Settle(p, to) ==
  /\ \E d \in proc[p].keys :
       IF status[d] = "PENDING_UPLOAD"
       THEN /\ status' = [status EXCEPT ![d] = to]
            /\ IF to = "FAILED" THEN Goto(p, "purging") ELSE Finish(p)
       ELSE /\ status' = status
            /\ Finish(p)
  /\ UNCHANGED <<present, ownerOf, object, url, lock, collected>>

SettleReady(p)  == At(p, "matches") /\ Settle(p, "READY")
SettleFailed(p) == At(p, "differs") /\ Settle(p, "FAILED")

-----------------------------------------------------------------------------
(* Removing documents and their owners. *)

\* DocumentsService.remove reads the row, and deletes it by a later statement;
\* a row that went in between is an error, and nothing is purged.
FindDocument(p, d) ==
  /\ At(p, "idle")
  /\ d \in Rows
  /\ proc' = [proc EXCEPT ![p] = [pc |-> "key read", owner |-> NoOwner, keys |-> {d}]]
  /\ UNCHANGED <<present, ownerOf, status, object, url, lock, collected>>

DeleteDocument(p) ==
  /\ At(p, "key read")
  /\ IF proc[p].keys \subseteq Rows
       THEN /\ Deleted(proc[p].keys)
            /\ collected' = collected \cup proc[p].keys
            /\ Goto(p, "purging")
       ELSE /\ Finish(p)
            /\ UNCHANGED <<status, collected>>
  /\ UNCHANGED <<present, ownerOf, object, url, lock>>

\* q has locked the fill or the service of the expense o.
RecordHeld(o, q) == /\ o \in Derived
                    /\ proc[q].owner = o
                    /\ proc[q].pc \in {"keys read", "vehicle locked"}

\* Mutant: the keys are read before the row is locked.
ReadKeysUnlocked(p, o) ==
  /\ At(p, "idle")
  /\ o \in Plain \cap present
  /\ proc' = [proc EXCEPT ![p] = [pc |-> "keys read", owner |-> o, keys |-> DocsOf(o)]]
  /\ UNCHANGED <<present, ownerOf, status, object, url, lock, collected>>

\* ExpensesService.remove and RemindersService.remove lock the owner's row and
\* read its keys.
LockPlain(p, o) ==
  /\ At(p, "idle")
  /\ o \in Plain \cap present
  /\ lock[o] = NoProc
  /\ lock' = [lock EXCEPT ![o] = p]
  /\ proc' = [proc EXCEPT ![p] = [pc |-> "keys read", owner |-> o, keys |-> DocsOf(o)]]
  /\ UNCHANGED <<present, ownerOf, status, object, url, collected>>

\* FuelService.remove and MaintenanceService.remove lock the fill or the
\* service, a row no upload asks for, and read the keys of its expense.
LockRecord(p, o) ==
  /\ At(p, "idle")
  /\ o \in Derived \cap present
  /\ \A q \in Proc : ~RecordHeld(o, q)
  /\ proc' = [proc EXCEPT ![p] = [pc |-> "keys read", owner |-> o, keys |-> DocsOf(o)]]
  /\ UNCHANGED <<present, ownerOf, status, object, url, lock, collected>>

\* removeForSource locks the vehicle: always for a fill or a service, and for an
\* expense that carries a mileage.
LockVehicleForReading(p) ==
  /\ At(p, "keys read")
  /\ proc[p].owner # Vehicle
  /\ lock[Vehicle] = NoProc
  /\ Vehicle \in present
  /\ lock' = [lock EXCEPT ![Vehicle] = p]
  /\ Goto(p, "vehicle locked")
  /\ UNCHANGED <<present, ownerOf, status, object, url, collected>>

\* deleteReturningDocumentKeys locks the vehicle and reads every key.
LockVehicle(p) ==
  /\ At(p, "idle")
  /\ Vehicle \in present
  /\ lock[Vehicle] = NoProc
  /\ lock' = [lock EXCEPT ![Vehicle] = p]
  /\ proc' = [proc EXCEPT ![p] = [pc |-> "keys read", owner |-> Vehicle, keys |-> Rows]]
  /\ UNCHANGED <<present, ownerOf, status, object, url, collected>>

\* The owners that go with o.
Cascade(o) == IF o = Vehicle THEN Owner ELSE {o}

\* A row the DELETE of p needs is held by q.
CascadeBlockedBy(q, p) ==
  /\ q # p
  /\ \E o \in Cascade(proc[p].owner) : lock[o] = q \/ RecordHeld(o, q)

ReadyToDelete(p) ==
  \/ At(p, "vehicle locked")
  \/ At(p, "keys read") /\ proc[p].owner \notin Derived

\* The DELETE waits for the rows it cascades to, takes every document that is
\* there by then, and commits.
DeleteOwner(p) ==
  /\ ReadyToDelete(p)
  /\ \A q \in Proc : ~CascadeBlockedBy(q, p)
  /\ present' = present \ Cascade(proc[p].owner)
  /\ Deleted({d \in Rows : ownerOf[d] \in Cascade(proc[p].owner)})
  /\ collected' = collected \cup proc[p].keys
  /\ lock' = Unlocked(p)
  /\ Goto(p, "purging")
  /\ UNCHANGED <<ownerOf, object, url>>

\* purgeObjects, after the commit; a failure is logged and leaves the files.
Purge(p, done) ==
  /\ At(p, "purging")
  /\ object' = [d \in Doc |-> IF done /\ d \in proc[p].keys THEN "absent" ELSE object[d]]
  /\ Finish(p)
  /\ UNCHANGED <<present, ownerOf, status, url, lock, collected>>

-----------------------------------------------------------------------------
(* Failures. *)

\* Postgres breaks a cycle by aborting one of its transactions; a process or a
\* connection may die at any time.  Either way the transaction rolls back.
Abort(p) ==
  /\ ~At(p, "idle")
  /\ lock' = Unlocked(p)
  /\ Finish(p)
  /\ UNCHANGED <<present, ownerOf, status, object, url, collected>>

Next ==
  \/ \E p \in Proc :
       \/ \E o \in Owner : LockOwner(p, o)
       \/ \E d \in Doc : InsertDocument(p, d)
       \/ \E d \in Doc : Confirm(p, d)
       \/ Head(p)
       \/ SettleReady(p)
       \/ SettleFailed(p)
       \/ \E d \in Doc : FindDocument(p, d)
       \/ DeleteDocument(p)
       \/ \E o \in Owner : LockPlain(p, o)
       \/ \E o \in Owner : LockRecord(p, o)
       \/ LockVehicleForReading(p)
       \/ LockVehicle(p)
       \/ DeleteOwner(p)
       \/ \E done \in BOOLEAN : Purge(p, done)
       \/ Abort(p)
  \/ \E d \in Doc, bytes \in {"declared", "other"} : Put(d, bytes)
  \/ \E d \in Doc : UrlExpires(d)

Spec == Init /\ [][Next]_vars

-----------------------------------------------------------------------------
(* What the code promises. *)

\* Two requests at once cannot both see room for one: an owner never holds more
\* live documents than its limit (createWithinLimit).
WithinLimit == \A o \in Owner : Cardinality(LiveDocs(o)) <= Limit

\* A document is READY only while its file is in the store: racing confirms that
\* saw different bytes do not mark it READY and delete its file (confirm).
ReadyHasFile == \A d \in Doc : status[d] = "READY" => object[d] # "absent"

\* An upload cannot slip in after the keys were read: no document of an expense
\* entered by hand, of a reminder or of the vehicle is deleted without its key
\* having been read by the transaction that deletes it.
LostKeys == {d \in Doc : status[d] = "deleted" /\ d \notin collected}
PlainKeysCollected == \A d \in LostKeys : ownerOf[d] \in Derived

=============================================================================
