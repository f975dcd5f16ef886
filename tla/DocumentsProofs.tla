--------------------------- MODULE DocumentsProofs ---------------------------
(***************************************************************************)
(* For any number of requests, owners and documents and for any limit: the *)
(* lock on the owner's row keeps two uploads from sharing its last place,  *)
(* a READY document's file is purged by nobody, and an upload cannot slip  *)
(* in between the keys a deletion reads and the rows it deletes, except    *)
(* where the lock is not the one an upload takes.                          *)
(***************************************************************************)
EXTENDS Documents, FiniteSetTheorems, TLAPS

Pcs == {"idle", "counted", "found", "matches", "differs", "key read", "keys read",
        "vehicle locked", "purging"}
Statuses == {"new", "PENDING_UPLOAD", "READY", "FAILED", "deleted"}
AnyProc == [pc : Pcs, owner : Owner \cup {NoOwner}, keys : SUBSET Doc]

Reading(p) == proc[p].pc \in {"keys read", "vehicle locked"}

\* A document is where its request found it, or further on.
KeysKnown(p) == \A d \in proc[p].keys : status[d] # "new"

\* A confirm is about one document, and what it found pending has a file.
OneConfirmed(p) ==
  proc[p].pc \in {"found", "matches", "differs"} => \E d \in Doc : proc[p].keys = {d}
FileSeen(p) ==
  proc[p].pc = "matches" =>
    \A d \in proc[p].keys : status[d] = "PENDING_UPLOAD" => object[d] # "absent"

\* What is purged is done with.
PurgedIsGone(p) ==
  proc[p].pc = "purging" => \A d \in proc[p].keys : status[d] \in {"FAILED", "deleted"}

\* An upload that counted holds its owner's row, and there is room.
RoomIsHeld(p) ==
  proc[p].pc = "counted" =>
    /\ proc[p].owner \in Owner
    /\ lock[proc[p].owner] = p
    /\ Cardinality(LiveDocs(proc[p].owner)) < Limit

\* A deletion has keys its cascade will take, and where it holds the owner's row, all.
KeysAreOwners(p) ==
  Reading(p) => /\ proc[p].owner \in Owner
                /\ \A d \in proc[p].keys : ownerOf[d] \in Cascade(proc[p].owner)
KeysAreAll(p) ==
  Reading(p) /\ proc[p].owner \notin Derived =>
    /\ lock[proc[p].owner] = p
    /\ \A d \in Rows : ownerOf[d] \in Cascade(proc[p].owner) => d \in proc[p].keys

Sound(p) ==
  /\ KeysKnown(p) /\ OneConfirmed(p) /\ FileSeen(p) /\ PurgedIsGone(p)
  /\ RoomIsHeld(p) /\ KeysAreOwners(p) /\ KeysAreAll(p)

\* A document that is there has an owner.
Owned == \A d \in Doc : status[d] # "new" => ownerOf[d] \in Owner

AllSound == \A p \in Proc : Sound(p)
Promises == WithinLimit /\ ReadyHasFile /\ PlainKeysCollected
IInv == TypeOK /\ Owned /\ AllSound /\ Promises

\* What a step of the others may do to what request q relies on.
Harmless(q) ==
  /\ \A d \in Doc :
       /\ status[d] # "new" => status'[d] # "new" /\ ownerOf'[d] = ownerOf[d]
       /\ status[d] = "deleted" => status'[d] = "deleted"
       /\ status[d] = "FAILED" => status'[d] \in {"FAILED", "deleted"}
       /\ status[d] # "new" /\ status'[d] = "PENDING_UPLOAD" =>
            /\ status[d] = "PENDING_UPLOAD"
            /\ object'[d] = object[d] \/ object'[d] # "absent"
       /\ status[d] = "new" /\ status'[d] # "new" =>
            lock[ownerOf'[d]] # q /\ lock[Vehicle] # q
  /\ \A o \in Owner : lock[o] = q => lock'[o] = q

-----------------------------------------------------------------------------
LEMMA TypeIsParts ==
  TypeOK <=> /\ present \subseteq Owner
             /\ ownerOf \in [Doc -> Owner \cup {NoOwner}]
             /\ status \in [Doc -> Statuses]
             /\ object \in [Doc -> {"absent", "declared", "other"}]
             /\ url \subseteq Doc
             /\ lock \in [Owner -> Proc \cup {NoProc}]
             /\ proc \in [Proc -> AnyProc]
             /\ collected \subseteq Doc
BY DEF TypeOK, Statuses, Pcs, AnyProc

LEMMA IdleIsProc == Idle \in AnyProc /\ Idle.pc = "idle" /\ Idle.keys = {} /\ Idle.owner = NoOwner
BY DEF Idle, AnyProc, Pcs

LEMMA LiveIsFinite ==
  ASSUME NEW o PROVE IsFiniteSet(LiveDocs(o)) /\ LiveDocs(o) \subseteq Doc
<1>1. LiveDocs(o) \subseteq Doc
  BY DEF LiveDocs, DocsOf, Rows
<1> QED BY <1>1, FS_Subset, DocumentsAssumption

\* A request moves on, with its owner and keys.
LEMMA Goes ==
  ASSUME TypeOK, NEW p \in Proc, NEW pc \in Pcs, Goto(p, pc)
  PROVE  /\ proc' \in [Proc -> AnyProc]
         /\ proc'[p].pc = pc /\ proc'[p].owner = proc[p].owner /\ proc'[p].keys = proc[p].keys
         /\ \A q \in Proc : q # p => proc'[q] = proc[q]
<1> DEFINE r == [proc[p] EXCEPT !.pc = pc]
<1>1. proc \in [Proc -> AnyProc]
  BY TypeIsParts
<1>2. r \in AnyProc /\ r.pc = pc /\ r.owner = proc[p].owner /\ r.keys = proc[p].keys
  BY <1>1 DEF AnyProc
<1>3. proc' = [proc EXCEPT ![p] = r]
  BY <1>1 DEF Goto
<1> HIDE DEF r
<1> QED BY <1>1, <1>2, <1>3

\* A request takes up r.
LEMMA Takes ==
  ASSUME TypeOK, NEW p \in Proc, NEW r \in AnyProc, proc' = [proc EXCEPT ![p] = r]
  PROVE  /\ proc' \in [Proc -> AnyProc] /\ proc'[p] = r
         /\ \A q \in Proc : q # p => proc'[q] = proc[q]
BY TypeIsParts

LEMMA Finishes ==
  ASSUME TypeOK, NEW p \in Proc, Finish(p)
  PROVE  /\ proc' \in [Proc -> AnyProc] /\ proc'[p] = Idle
         /\ \A q \in Proc : q # p => proc'[q] = proc[q]
BY Takes, IdleIsProc DEF Finish

LEMMA Bystander ==
  ASSUME TypeOK, TypeOK', Owned, NEW q \in Proc, Sound(q), Harmless(q), proc'[q] = proc[q]
  PROVE  Sound(q)'
<1>0. proc[q] \in AnyProc /\ proc[q].keys \subseteq Doc
  BY TypeIsParts DEF AnyProc
<1>1. KeysKnown(q)' /\ OneConfirmed(q)' /\ FileSeen(q)' /\ PurgedIsGone(q)'
  BY <1>0 DEF Sound, Harmless, KeysKnown, OneConfirmed, FileSeen, PurgedIsGone
<1>2. KeysAreOwners(q)'
  BY <1>0 DEF Sound, Harmless, KeysKnown, KeysAreOwners, Reading
<1>3. RoomIsHeld(q)'
  <2>1. SUFFICES ASSUME proc[q].pc = "counted"
                 PROVE  /\ proc[q].owner \in Owner
                        /\ lock'[proc[q].owner] = q
                        /\ Cardinality(LiveDocs(proc[q].owner)') < Limit
    BY DEF RoomIsHeld, LiveDocs, DocsOf, Rows
  <2> DEFINE o == proc[q].owner
  <2>2. o \in Owner /\ lock[o] = q /\ Cardinality(LiveDocs(o)) < Limit
    BY <2>1 DEF Sound, RoomIsHeld
  <2>3. LiveDocs(o)' \subseteq LiveDocs(o)
    <3>1. SUFFICES ASSUME NEW d \in Doc, status'[d] \in {"PENDING_UPLOAD", "READY"},
                          ownerOf'[d] = o
                   PROVE  status[d] \in {"PENDING_UPLOAD", "READY"} /\ ownerOf[d] = o
      BY DEF LiveDocs, DocsOf, Rows
    <3>2. status[d] # "new"
      BY <2>2, <3>1 DEF Harmless
    <3>3. status[d] \in Statuses
      BY TypeIsParts
    <3> QED BY <3>1, <3>2, <3>3 DEF Harmless, Statuses
  <2>4. Cardinality(LiveDocs(o)') <= Cardinality(LiveDocs(o))
    BY <2>3, LiveIsFinite, FS_Subset
  <2>5. Cardinality(LiveDocs(o)') \in Nat /\ Cardinality(LiveDocs(o)) \in Nat
    BY <2>3, LiveIsFinite, FS_Subset, FS_CardinalityType
  <2> QED BY <2>2, <2>4, <2>5, DocumentsAssumption DEF Harmless
<1>4. KeysAreAll(q)'
  <2>1. SUFFICES ASSUME Reading(q), proc[q].owner \notin Derived
                 PROVE  /\ lock'[proc[q].owner] = q
                        /\ \A d \in Rows' :
                             ownerOf'[d] \in Cascade(proc[q].owner) => d \in proc[q].keys
    BY DEF KeysAreAll, Reading
  <2>2. proc[q].owner \in Owner /\ lock[proc[q].owner] = q
    BY <2>1 DEF Sound, KeysAreOwners, KeysAreAll
  <2>3. ASSUME NEW d \in Rows', ownerOf'[d] \in Cascade(proc[q].owner)
        PROVE  d \in proc[q].keys
    <3>1. d \in Doc /\ status'[d] \notin {"new", "deleted"}
      BY <2>3 DEF Rows
    <3>2. status[d] # "new"
      <4>1. CASE proc[q].owner = Vehicle
        BY <2>2, <3>1, <4>1 DEF Harmless
      <4>2. CASE proc[q].owner # Vehicle
        <5>1. ownerOf'[d] = proc[q].owner
          BY <2>3, <4>2 DEF Cascade
        <5> QED BY <2>2, <3>1, <5>1 DEF Harmless
      <4> QED BY <4>1, <4>2
    <3>3. status[d] # "deleted" /\ ownerOf'[d] = ownerOf[d]
      BY <3>1, <3>2 DEF Harmless
    <3> QED BY <2>1, <2>3, <3>1, <3>2, <3>3 DEF Sound, KeysAreAll, Rows
  <2> QED BY <2>2, <2>3 DEF Harmless
<1> QED BY <1>1, <1>2, <1>3, <1>4 DEF Sound


\* Nothing happens to the documents: only locks come and go.
LEMMA LocksOnly ==
  ASSUME NEW q \in Proc, UNCHANGED <<status, ownerOf, object>>,
         \A o \in Owner : lock[o] = q => lock'[o] = q
  PROVE  Harmless(q)
BY DEF Harmless

LEMMA PromisesStay ==
  ASSUME TypeOK, Owned, Promises, UNCHANGED <<status, ownerOf, object>>, collected \subseteq collected'
  PROVE  Owned' /\ Promises'
<1>1. Owned' /\ ReadyHasFile'
  BY DEF Owned, Promises, ReadyHasFile
<1>2. WithinLimit'
  BY DEF Promises, WithinLimit, LiveDocs, DocsOf, Rows
<1>3. PlainKeysCollected'
  BY DEF Promises, PlainKeysCollected, LostKeys
<1> QED BY <1>1, <1>2, <1>3 DEF Promises

\* p lets its own locks go.
LEMMA LocksKept ==
  ASSUME NEW p \in Proc, NEW q \in Proc, q # p
  PROVE  \A o \in Owner : lock[o] = q => Unlocked(p)[o] = q
BY DEF Unlocked

LEMMA UnlockedTyped ==
  ASSUME TypeOK, NEW p \in Proc
  PROVE  Unlocked(p) \in [Owner -> Proc \cup {NoProc}]
BY TypeIsParts DEF Unlocked

LEMMA IdleIsSound ==
  ASSUME NEW p \in Proc, proc'[p] = Idle
  PROVE  Sound(p)'
<1>1. proc'[p].pc = "idle" /\ proc'[p].keys = {}
  BY IdleIsProc
<1> QED BY <1>1 DEF Sound, KeysKnown, OneConfirmed, FileSeen, PurgedIsGone, RoomIsHeld,
           KeysAreOwners, KeysAreAll, Reading

\* A request that takes up or goes on with what changes no document.
LEMMA QuietStep ==
  ASSUME IInv, TypeOK', NEW p \in Proc, UNCHANGED <<status, ownerOf, object, collected>>,
         \A q \in Proc : q # p => proc'[q] = proc[q],
         \A q \in Proc : q # p => \A o \in Owner : lock[o] = q => lock'[o] = q,
         Sound(p)'
  PROVE  IInv'
<1>1. \A q \in Proc : q # p => Sound(q)'
  BY LocksOnly, Bystander DEF IInv, AllSound
<1>2. Owned' /\ Promises'
  BY PromisesStay DEF IInv
<1> QED BY <1>1, <1>2 DEF IInv, AllSound

-----------------------------------------------------------------------------
LEMMA LockOwnerKeeps ==
  ASSUME IInv, NEW p \in Proc, NEW o \in Owner, LockOwner(p, o)
  PROVE  IInv'
<1> DEFINE r == [pc |-> "counted", owner |-> o, keys |-> {}]
<1>1. r \in AnyProc /\ r.pc = "counted" /\ r.owner = o /\ r.keys = {}
  BY DEF AnyProc, Pcs
<1>2. proc' = [proc EXCEPT ![p] = r]
  BY DEF LockOwner
<1> HIDE DEF r
<1>3. proc' \in [Proc -> AnyProc] /\ proc'[p] = r /\ \A q \in Proc : q # p => proc'[q] = proc[q]
  BY <1>1, <1>2, Takes DEF IInv
<1>4. lock' \in [Owner -> Proc \cup {NoProc}] /\ lock'[o] = p
      /\ \A q \in Proc : q # p => \A w \in Owner : lock[w] = q => lock'[w] = q
  BY TypeIsParts, DocumentsAssumption DEF IInv, LockOwner
<1>5. TypeOK'
  BY <1>3, <1>4 DEF IInv, TypeOK, LockOwner, AnyProc, Pcs
<1>6. LiveDocs(o)' = LiveDocs(o)
  BY DEF LockOwner, LiveDocs, DocsOf, Rows
<1>7. Sound(p)'
  BY <1>1, <1>3, <1>4, <1>6 DEF LockOwner, Sound, KeysKnown, OneConfirmed, FileSeen, PurgedIsGone,
     RoomIsHeld, KeysAreOwners, KeysAreAll, Reading
<1> QED BY <1>3, <1>4, <1>5, <1>7, QuietStep DEF LockOwner

LEMMA InsertKeeps ==
  ASSUME IInv, NEW p \in Proc, NEW d \in Doc, InsertDocument(p, d)
  PROVE  IInv'
<1> DEFINE o == proc[p].owner
<1>0. TypeOK /\ Owned /\ Promises /\ Sound(p) /\ o \in Owner /\ lock[o] = p
      /\ Cardinality(LiveDocs(o)) < Limit /\ status[d] = "new"
  BY DEF IInv, AllSound, Sound, RoomIsHeld, InsertDocument, At
<1>1. proc' \in [Proc -> AnyProc] /\ proc'[p] = Idle /\ \A q \in Proc : q # p => proc'[q] = proc[q]
  BY <1>0, Finishes DEF InsertDocument
<1>2. /\ status' \in [Doc -> Statuses] /\ ownerOf' \in [Doc -> Owner \cup {NoOwner}]
      /\ status'[d] = "PENDING_UPLOAD" /\ ownerOf'[d] = o
      /\ \A e \in Doc : e # d => status'[e] = status[e] /\ ownerOf'[e] = ownerOf[e]
  BY <1>0, TypeIsParts DEF InsertDocument, Statuses
<1>3. TypeOK'
  BY <1>0, <1>1, <1>2, UnlockedTyped DEF InsertDocument, TypeOK, AnyProc, Pcs, Statuses
<1>4. ASSUME NEW q \in Proc, q # p PROVE Sound(q)'
  <2>1. lock[Vehicle] # q
    BY <1>4, DocumentsAssumption DEF InsertDocument
  <2>2. Harmless(q)
    BY <1>0, <1>2, <1>4, <2>1, LocksKept DEF InsertDocument, Harmless
  <2> QED BY <1>0, <1>1, <1>3, <1>4, <2>2, Bystander DEF IInv, AllSound
<1>5. Sound(p)'
  BY <1>1, IdleIsSound
<1>6. Owned'
  BY <1>0, <1>2 DEF Owned
<1>7. WithinLimit'
  <2>1. SUFFICES ASSUME NEW w \in Owner PROVE Cardinality(LiveDocs(w)') <= Limit
    BY DEF WithinLimit, LiveDocs, DocsOf, Rows
  <2>2. CASE w = o
    <3>1. LiveDocs(w)' \subseteq LiveDocs(o) \cup {d}
      BY <1>2, <2>2 DEF LiveDocs, DocsOf, Rows
    <3>2. IsFiniteSet(LiveDocs(o) \cup {d}) /\ IsFiniteSet(LiveDocs(o))
      BY LiveIsFinite, FS_AddElement
    <3>3. Cardinality(LiveDocs(o) \cup {d}) <= Cardinality(LiveDocs(o)) + 1
      BY <3>2, FS_AddElement, FS_CardinalityType
    <3>4. Cardinality(LiveDocs(w)') <= Cardinality(LiveDocs(o) \cup {d})
          /\ Cardinality(LiveDocs(w)') \in Nat
      BY <3>1, <3>2, FS_Subset, FS_CardinalityType
    <3>5. Cardinality(LiveDocs(o)) \in Nat /\ Cardinality(LiveDocs(o) \cup {d}) \in Nat
      BY <3>2, FS_CardinalityType
    <3> QED BY <1>0, <3>3, <3>4, <3>5, DocumentsAssumption
  <2>3. CASE w # o
    <3>1. LiveDocs(w)' = LiveDocs(w)
      BY <1>0, <1>2, <2>3 DEF LiveDocs, DocsOf, Rows
    <3> QED BY <1>0, <3>1 DEF Promises, WithinLimit
  <2> QED BY <2>2, <2>3
<1>8. ReadyHasFile' /\ PlainKeysCollected'
  BY <1>0, <1>2 DEF InsertDocument, Promises, ReadyHasFile, PlainKeysCollected, LostKeys
<1> QED BY <1>3, <1>4, <1>5, <1>6, <1>7, <1>8 DEF IInv, AllSound, Promises

\* Bytes arrive, or the URL expires.
LEMMA StoreKeeps ==
  ASSUME IInv, NEW d \in Doc,
         UrlExpires(d) \/ \E bytes \in {"declared", "other"} : Put(d, bytes)
  PROVE  IInv'
<1>1. UNCHANGED <<present, ownerOf, status, lock, proc, collected>> /\ url' \subseteq url
  BY DEF UrlExpires, Put
<1>2. /\ object' \in [Doc -> {"absent", "declared", "other"}]
      /\ \A e \in Doc : object'[e] = object[e] \/ object'[e] # "absent"
  BY TypeIsParts DEF IInv, UrlExpires, Put
<1>3. TypeOK'
  BY <1>1, <1>2 DEF IInv, TypeOK
<1>4. ASSUME NEW q \in Proc PROVE Sound(q)'
  <2>1. Harmless(q)
    BY <1>1, <1>2 DEF Harmless
  <2> QED BY <1>1, <1>3, <2>1, Bystander DEF IInv, AllSound
<1>5. Owned' /\ WithinLimit' /\ PlainKeysCollected'
  BY <1>1 DEF IInv, Promises, Owned, WithinLimit, LiveDocs, DocsOf, Rows, PlainKeysCollected, LostKeys
<1>6. ReadyHasFile'
  BY <1>1, <1>2 DEF IInv, Promises, ReadyHasFile
<1> QED BY <1>3, <1>4, <1>5, <1>6 DEF IInv, AllSound, Promises

\* A request reads a document's row.
LEMMA ReadKeeps ==
  ASSUME IInv, NEW p \in Proc, NEW d \in Doc, Confirm(p, d) \/ FindDocument(p, d)
  PROVE  IInv'
<1>1. PICK pc \in {"found", "key read"} :
        proc' = [proc EXCEPT ![p] = [pc |-> pc, owner |-> NoOwner, keys |-> {d}]]
  BY DEF Confirm, FindDocument
<1> DEFINE r == [pc |-> pc, owner |-> NoOwner, keys |-> {d}]
<1>2. r \in AnyProc /\ r.pc = pc /\ r.keys = {d}
  BY DEF AnyProc, Pcs
<1>3. proc' = [proc EXCEPT ![p] = r]
  BY <1>1
<1> HIDE DEF r
<1>4. proc' \in [Proc -> AnyProc] /\ proc'[p] = r /\ \A q \in Proc : q # p => proc'[q] = proc[q]
  BY <1>2, <1>3, Takes DEF IInv
<1>5. UNCHANGED <<present, ownerOf, status, object, url, lock, collected>> /\ status[d] # "new"
  BY DEF Confirm, FindDocument, Rows
<1>6. TypeOK'
  BY <1>4, <1>5 DEF IInv, TypeOK, AnyProc, Pcs
<1>7. Sound(p)'
  BY <1>2, <1>4, <1>5 DEF Sound, KeysKnown, OneConfirmed, FileSeen, PurgedIsGone,
     RoomIsHeld, KeysAreOwners, KeysAreAll, Reading
<1> QED BY <1>4, <1>5, <1>6, <1>7, QuietStep

LEMMA HeadKeeps ==
  ASSUME IInv, NEW p \in Proc, Head(p)
  PROVE  IInv'
<1>0. TypeOK /\ Sound(p) /\ proc[p].pc = "found" /\ proc[p].keys \subseteq Doc
  BY TypeIsParts DEF IInv, AllSound, Head, At, AnyProc
<1>1. UNCHANGED <<present, ownerOf, status, object, url, lock, collected>>
  BY DEF Head
<1>2. PICK d \in Doc : proc[p].keys = {d}
  BY <1>0 DEF Sound, OneConfirmed
<1>3. object[d] \in {"absent", "declared", "other"}
  BY <1>0, TypeIsParts
<1>4. CASE object[d] = "absent"
  <2>1. Finish(p)
    BY <1>2, <1>4 DEF Head
  <2>2. proc' \in [Proc -> AnyProc] /\ proc'[p] = Idle /\ \A q \in Proc : q # p => proc'[q] = proc[q]
    BY <1>0, <2>1, Finishes
  <2>3. TypeOK'
    BY <1>0, <1>1, <2>2 DEF TypeOK, AnyProc, Pcs
  <2> QED BY <1>1, <2>2, <2>3, IdleIsSound, QuietStep
<1>5. CASE object[d] # "absent"
  <2>1. PICK pc \in {"matches", "differs"} : Goto(p, pc)
    BY <1>2, <1>3, <1>5 DEF Head
  <2>2. /\ proc' \in [Proc -> AnyProc]
        /\ proc'[p].pc = pc /\ proc'[p].owner = proc[p].owner /\ proc'[p].keys = proc[p].keys
        /\ \A q \in Proc : q # p => proc'[q] = proc[q]
    BY <1>0, <2>1, Goes DEF Pcs
  <2>3. TypeOK'
    BY <1>0, <1>1, <2>2 DEF TypeOK, AnyProc, Pcs
  <2>4. Sound(p)'
    BY <1>0, <1>1, <1>2, <1>5, <2>2 DEF Sound, KeysKnown, OneConfirmed, FileSeen, PurgedIsGone,
       RoomIsHeld, KeysAreOwners, KeysAreAll, Reading
  <2> QED BY <1>1, <2>2, <2>3, <2>4, QuietStep
<1> QED BY <1>4, <1>5

LEMMA SettleKeeps ==
  ASSUME IInv, NEW p \in Proc, SettleReady(p) \/ SettleFailed(p)
  PROVE  IInv'
<1>0. TypeOK /\ Sound(p) /\ Owned /\ Promises
  BY DEF IInv, AllSound
<1>1. PICK to \in {"READY", "FAILED"} :
        Settle(p, to) /\ proc[p].pc = IF to = "READY" THEN "matches" ELSE "differs"
  BY DEF SettleReady, SettleFailed, At
<1>2. PICK d \in Doc : proc[p].keys = {d}
  BY <1>0, <1>1 DEF Sound, OneConfirmed
<1>3. UNCHANGED <<present, ownerOf, object, url, lock, collected>>
  BY <1>1 DEF Settle
<1>4. CASE status[d] # "PENDING_UPLOAD"
  <2>1. Finish(p) /\ status' = status
    BY <1>1, <1>2, <1>4 DEF Settle
  <2>2. proc' \in [Proc -> AnyProc] /\ proc'[p] = Idle /\ \A q \in Proc : q # p => proc'[q] = proc[q]
    BY <1>0, <2>1, Finishes
  <2>3. TypeOK'
    BY <1>0, <1>3, <2>1, <2>2 DEF TypeOK, AnyProc, Pcs
  <2> QED BY <1>3, <2>1, <2>2, <2>3, IdleIsSound, QuietStep
<1>5. CASE status[d] = "PENDING_UPLOAD"
  <2>1. /\ status' = [status EXCEPT ![d] = to]
        /\ IF to = "FAILED" THEN Goto(p, "purging") ELSE Finish(p)
    BY <1>1, <1>2, <1>5 DEF Settle
  <2>2. /\ status' \in [Doc -> Statuses] /\ status'[d] = to
        /\ \A e \in Doc : e # d => status'[e] = status[e]
    BY <1>0, <2>1, TypeIsParts DEF Statuses
  <2>3. proc' \in [Proc -> AnyProc] /\ \A q \in Proc : q # p => proc'[q] = proc[q]
    BY <1>0, <2>1, Goes, Finishes DEF Pcs
  <2>4. TypeOK'
    BY <1>0, <1>3, <2>2, <2>3 DEF TypeOK, AnyProc, Pcs, Statuses
  <2>5. ASSUME NEW q \in Proc, q # p PROVE Sound(q)'
    <3>1. Harmless(q)
      BY <1>3, <1>5, <2>2 DEF Harmless
    <3> QED BY <1>0, <2>3, <2>4, <2>5, <3>1, Bystander DEF IInv, AllSound
  <2>6. Sound(p)'
    <3>1. CASE to = "READY"
      BY <1>0, <2>1, <3>1, Finishes, IdleIsSound
    <3>2. CASE to = "FAILED"
      <4>1. proc'[p].pc = "purging" /\ proc'[p].keys = {d}
        BY <1>0, <1>2, <2>1, <3>2, Goes DEF Pcs
      <4> QED BY <2>2, <3>2, <4>1 DEF Sound, KeysKnown, OneConfirmed, FileSeen, PurgedIsGone,
              RoomIsHeld, KeysAreOwners, KeysAreAll, Reading
    <3> QED BY <3>1, <3>2
  <2>7. Owned'
    BY <1>0, <1>3, <1>5, <2>2 DEF Owned
  <2>8. WithinLimit'
    <3>1. \A o \in Owner : LiveDocs(o)' \subseteq LiveDocs(o)
      BY <1>3, <1>5, <2>2 DEF LiveDocs, DocsOf, Rows
    <3>2. \A o \in Owner : /\ Cardinality(LiveDocs(o)') <= Cardinality(LiveDocs(o))
                           /\ Cardinality(LiveDocs(o)') \in Nat
                           /\ Cardinality(LiveDocs(o)) \in Nat
      BY <3>1, LiveIsFinite, FS_Subset, FS_CardinalityType
    <3>3. \A o \in Owner : Cardinality(LiveDocs(o)') <= Limit
      BY <1>0, <3>2, DocumentsAssumption DEF Promises, WithinLimit
    <3> QED BY <3>3 DEF WithinLimit
  <2>9. ReadyHasFile'
    <3>1. to = "READY" => object[d] # "absent"
      BY <1>0, <1>1, <1>2, <1>5 DEF Sound, FileSeen
    <3> QED BY <1>0, <1>3, <2>2, <3>1 DEF Promises, ReadyHasFile
  <2>10. PlainKeysCollected'
    BY <1>0, <1>3, <2>2 DEF Promises, PlainKeysCollected, LostKeys
  <2> QED BY <2>4, <2>5, <2>6, <2>7, <2>8, <2>9, <2>10 DEF IInv, AllSound, Promises
<1> QED BY <1>4, <1>5

-----------------------------------------------------------------------------
\* The rows of D go, and the keys of those that must be known are collected.
LEMMA RowsGo ==
  ASSUME IInv, TypeOK', NEW p \in Proc, NEW D \in SUBSET Rows, Deleted(D),
         UNCHANGED <<ownerOf, object>>,
         \A q \in Proc : q # p => proc'[q] = proc[q],
         \A q \in Proc : q # p => \A o \in Owner : lock[o] = q => lock'[o] = q,
         collected \subseteq collected',
         \A d \in D : d \in collected' \/ ownerOf[d] \in Derived,
         Sound(p)'
  PROVE  IInv'
<1>0. TypeOK /\ Owned /\ Promises
  BY DEF IInv
<1>1. \A d \in Doc : status'[d] = IF d \in D THEN "deleted" ELSE status[d]
  BY DEF Deleted
<1>2. \A d \in D : status[d] # "new"
  BY DEF Rows
<1>3. ASSUME NEW q \in Proc, q # p PROVE Sound(q)'
  <2>1. Harmless(q)
    BY <1>1, <1>2, <1>3 DEF Harmless
  <2> QED BY <1>0, <1>3, <2>1, Bystander DEF IInv, AllSound
<1>4. Owned'
  BY <1>0, <1>1, <1>2 DEF Owned
<1>5. WithinLimit'
  <2>1. \A o \in Owner : LiveDocs(o)' \subseteq LiveDocs(o)
    BY <1>1 DEF LiveDocs, DocsOf, Rows
  <2>2. \A o \in Owner : /\ Cardinality(LiveDocs(o)') <= Cardinality(LiveDocs(o))
                         /\ Cardinality(LiveDocs(o)') \in Nat
                         /\ Cardinality(LiveDocs(o)) \in Nat
    BY <2>1, LiveIsFinite, FS_Subset, FS_CardinalityType
  <2>3. \A o \in Owner : Cardinality(LiveDocs(o)') <= Limit
    BY <1>0, <2>2, DocumentsAssumption DEF Promises, WithinLimit
  <2> QED BY <2>3 DEF WithinLimit
<1>6. ReadyHasFile'
  BY <1>0, <1>1 DEF Promises, ReadyHasFile
<1>7. PlainKeysCollected'
  BY <1>0, <1>1 DEF Promises, PlainKeysCollected, LostKeys
<1> QED BY <1>3, <1>4, <1>5, <1>6, <1>7 DEF IInv, AllSound, Promises

LEMMA DeletedTyped ==
  ASSUME TypeOK, NEW D, Deleted(D)
  PROVE  status' \in [Doc -> Statuses]
BY TypeIsParts DEF Deleted, Statuses

LEMMA DeleteDocumentKeeps ==
  ASSUME IInv, NEW p \in Proc, DeleteDocument(p)
  PROVE  IInv'
<1>0. TypeOK /\ Sound(p) /\ proc[p].keys \subseteq Doc /\ collected \subseteq Doc
      /\ UNCHANGED <<present, ownerOf, object, url, lock>>
  BY TypeIsParts DEF IInv, AllSound, AnyProc, DeleteDocument
<1>1. CASE proc[p].keys \subseteq Rows
  <2>1. /\ Deleted(proc[p].keys) /\ Goto(p, "purging")
        /\ collected' = collected \cup proc[p].keys
    BY <1>1 DEF DeleteDocument
  <2>2. /\ proc' \in [Proc -> AnyProc]
        /\ proc'[p].pc = "purging" /\ proc'[p].keys = proc[p].keys
        /\ \A q \in Proc : q # p => proc'[q] = proc[q]
    BY <1>0, <2>1, Goes DEF Pcs
  <2>3. TypeOK'
    BY <1>0, <2>1, <2>2, DeletedTyped DEF TypeOK, AnyProc, Pcs, Statuses
  <2>4. \A d \in proc[p].keys : status'[d] = "deleted"
    BY <1>0, <2>1 DEF Deleted
  <2>5. Sound(p)'
    BY <2>2, <2>4 DEF Sound, KeysKnown, OneConfirmed, FileSeen, PurgedIsGone,
       RoomIsHeld, KeysAreOwners, KeysAreAll, Reading
  <2> QED BY <1>0, <1>1, <2>1, <2>2, <2>3, <2>5, RowsGo
<1>2. CASE ~(proc[p].keys \subseteq Rows)
  <2>1. Finish(p) /\ UNCHANGED <<status, collected>>
    BY <1>2 DEF DeleteDocument
  <2>2. proc' \in [Proc -> AnyProc] /\ proc'[p] = Idle /\ \A q \in Proc : q # p => proc'[q] = proc[q]
    BY <1>0, <2>1, Finishes
  <2>3. TypeOK'
    BY <1>0, <2>1, <2>2 DEF TypeOK, AnyProc, Pcs
  <2> QED BY <1>0, <2>1, <2>2, <2>3, IdleIsSound, QuietStep
<1> QED BY <1>1, <1>2

\* A deletion reads the keys: with the owner's row locked, or with the record's.
LEMMA KeysReadKeeps ==
  ASSUME IInv, NEW p \in Proc, NEW o \in Owner, NEW K \in SUBSET Rows,
         \/ (LockPlain(p, o) \/ LockRecord(p, o)) /\ K = DocsOf(o)
         \/ LockVehicle(p) /\ o = Vehicle /\ K = Rows
  PROVE  IInv'
<1> DEFINE r == [pc |-> "keys read", owner |-> o, keys |-> K]
<1>1. r \in AnyProc /\ r.pc = "keys read" /\ r.owner = o /\ r.keys = K
  BY DEF AnyProc, Pcs, Rows
<1>2. proc' = [proc EXCEPT ![p] = r]
  BY DEF LockPlain, LockRecord, LockVehicle
<1> HIDE DEF r
<1>3. proc' \in [Proc -> AnyProc] /\ proc'[p] = r /\ \A q \in Proc : q # p => proc'[q] = proc[q]
  BY <1>1, <1>2, Takes DEF IInv
<1>4. UNCHANGED <<present, ownerOf, status, object, url, collected>>
  BY DEF LockPlain, LockRecord, LockVehicle
<1>5. /\ lock' \in [Owner -> Proc \cup {NoProc}]
      /\ \A q \in Proc : q # p => \A w \in Owner : lock[w] = q => lock'[w] = q
      /\ o \notin Derived => lock'[o] = p
  <2>1. lock \in [Owner -> Proc \cup {NoProc}]
    BY TypeIsParts DEF IInv
  <2>2. CASE lock[o] = NoProc /\ lock' = [lock EXCEPT ![o] = p]
    BY <2>1, <2>2, DocumentsAssumption
  <2>3. CASE o \in Derived /\ lock' = lock
    BY <2>1, <2>3
  <2> QED BY <2>2, <2>3 DEF LockPlain, LockRecord, LockVehicle
<1>6. TypeOK'
  BY <1>3, <1>4, <1>5 DEF IInv, TypeOK, AnyProc, Pcs
<1>7. \A d \in K : status[d] # "new" /\ ownerOf[d] \in Cascade(o)
  BY DEF IInv, Owned, Rows, DocsOf, Cascade, LockPlain, LockRecord
<1>8. o \notin Derived => \A d \in Rows : ownerOf[d] \in Cascade(o) => d \in K
  BY DocumentsAssumption DEF DocsOf, Cascade, LockPlain, LockRecord
<1>9. Rows' = Rows
  BY <1>4 DEF Rows
<1>10. Sound(p)'
  BY <1>1, <1>3, <1>4, <1>5, <1>7, <1>8, <1>9 DEF Sound, KeysKnown, OneConfirmed, FileSeen,
     PurgedIsGone, RoomIsHeld, KeysAreOwners, KeysAreAll, Reading
<1> QED BY <1>3, <1>4, <1>5, <1>6, <1>10, QuietStep

LEMMA LockForReadingKeeps ==
  ASSUME IInv, NEW p \in Proc, LockVehicleForReading(p)
  PROVE  IInv'
<1>0. TypeOK /\ Sound(p) /\ proc[p].pc = "keys read" /\ UNCHANGED <<present, ownerOf, status, object, url, collected>>
  BY DEF IInv, AllSound, LockVehicleForReading, At
<1>1. /\ proc' \in [Proc -> AnyProc]
      /\ proc'[p].pc = "vehicle locked" /\ proc'[p].owner = proc[p].owner
      /\ proc'[p].keys = proc[p].keys
      /\ \A q \in Proc : q # p => proc'[q] = proc[q]
  BY <1>0, Goes DEF LockVehicleForReading, Pcs
<1>2. /\ lock' \in [Owner -> Proc \cup {NoProc}]
      /\ \A q \in Proc : \A w \in Owner : lock[w] = q => lock'[w] = q
  BY <1>0, TypeIsParts, DocumentsAssumption DEF LockVehicleForReading, Owner
<1>3. TypeOK'
  BY <1>0, <1>1, <1>2 DEF TypeOK, AnyProc, Pcs
<1>4. Rows' = Rows
  BY <1>0 DEF Rows
<1>5. KeysAreOwners(p)'
  BY <1>0, <1>1 DEF Sound, KeysAreOwners, Reading
<1>6. KeysAreAll(p)'
  <2>1. SUFFICES ASSUME proc[p].owner \notin Derived
                 PROVE  /\ lock'[proc[p].owner] = p
                        /\ \A d \in Rows : ownerOf[d] \in Cascade(proc[p].owner) => d \in proc[p].keys
    BY <1>0, <1>1, <1>4 DEF KeysAreAll
  <2>2. proc[p].owner \in Owner
    BY <1>0 DEF Sound, KeysAreOwners, Reading
  <2> QED BY <1>0, <1>2, <2>1, <2>2 DEF Sound, KeysAreAll, Reading
<1>7. KeysKnown(p)' /\ OneConfirmed(p)' /\ FileSeen(p)' /\ PurgedIsGone(p)' /\ RoomIsHeld(p)'
  BY <1>0, <1>1 DEF Sound, KeysKnown, OneConfirmed, FileSeen, PurgedIsGone, RoomIsHeld
<1>8. Sound(p)'
  BY <1>5, <1>6, <1>7 DEF Sound
<1> QED BY <1>0, <1>1, <1>2, <1>3, <1>8, QuietStep

LEMMA DeleteOwnerKeeps ==
  ASSUME IInv, NEW p \in Proc, DeleteOwner(p)
  PROVE  IInv'
<1> DEFINE D == {d \in Rows : ownerOf[d] \in Cascade(proc[p].owner)}
<1>0. /\ TypeOK /\ Sound(p) /\ Reading(p) /\ proc[p].keys \subseteq Doc /\ collected \subseteq Doc
      /\ UNCHANGED <<ownerOf, object, url>>
      /\ Deleted(D) /\ Goto(p, "purging") /\ lock' = Unlocked(p)
      /\ collected' = collected \cup proc[p].keys /\ present' \subseteq present
  BY TypeIsParts DEF IInv, AllSound, AnyProc, DeleteOwner, ReadyToDelete, At, Reading
<1>1. /\ proc' \in [Proc -> AnyProc]
      /\ proc'[p].pc = "purging" /\ proc'[p].keys = proc[p].keys
      /\ \A q \in Proc : q # p => proc'[q] = proc[q]
  BY <1>0, Goes DEF Pcs
<1>2. TypeOK'
  BY <1>0, <1>1, DeletedTyped, UnlockedTyped DEF TypeOK, AnyProc, Pcs, Statuses
<1>3. \A d \in proc[p].keys : status'[d] = "deleted"
  BY <1>0 DEF Deleted, Rows, Sound, KeysKnown, KeysAreOwners
<1>4. Sound(p)'
  BY <1>1, <1>3 DEF Sound, KeysKnown, OneConfirmed, FileSeen, PurgedIsGone,
     RoomIsHeld, KeysAreOwners, KeysAreAll, Reading
<1>5. \A d \in D : d \in collected' \/ ownerOf[d] \in Derived
  <2>1. CASE proc[p].owner \in Derived
    BY <2>1, DocumentsAssumption DEF Cascade
  <2>2. CASE proc[p].owner \notin Derived
    BY <1>0, <2>2 DEF Sound, KeysAreAll
  <2> QED BY <2>1, <2>2
<1>6. D \in SUBSET Rows /\ collected \subseteq collected'
  BY <1>0
<1>7. \A q \in Proc : q # p => \A o \in Owner : lock[o] = q => lock'[o] = q
  BY <1>0, LocksKept
<1> HIDE DEF D
<1> QED BY <1>0, <1>1, <1>2, <1>4, <1>5, <1>6, <1>7, RowsGo

LEMMA PurgeKeeps ==
  ASSUME IInv, NEW p \in Proc, NEW done \in BOOLEAN, Purge(p, done)
  PROVE  IInv'
<1>0. TypeOK /\ Owned /\ Sound(p) /\ proc[p].pc = "purging"
      /\ UNCHANGED <<present, ownerOf, status, url, lock, collected>>
  BY DEF IInv, AllSound, Purge, At
<1>1. proc' \in [Proc -> AnyProc] /\ proc'[p] = Idle /\ \A q \in Proc : q # p => proc'[q] = proc[q]
  BY <1>0, Finishes DEF Purge
<1>2. /\ object' \in [Doc -> {"absent", "declared", "other"}]
      /\ \A d \in Doc : object'[d] = object[d] \/ status[d] \in {"FAILED", "deleted"}
  BY <1>0, TypeIsParts DEF Purge, Sound, PurgedIsGone
<1>3. TypeOK'
  BY <1>0, <1>1, <1>2 DEF TypeOK, AnyProc, Pcs
<1>4. ASSUME NEW q \in Proc, q # p PROVE Sound(q)'
  <2>1. Harmless(q)
    BY <1>0, <1>2 DEF Harmless
  <2> QED BY <1>0, <1>1, <1>3, <1>4, <2>1, Bystander DEF IInv, AllSound
<1>5. Sound(p)'
  BY <1>1, IdleIsSound
<1>6. Owned' /\ WithinLimit' /\ PlainKeysCollected'
  BY <1>0 DEF IInv, Promises, Owned, WithinLimit, LiveDocs, DocsOf, Rows, PlainKeysCollected, LostKeys
<1>7. ReadyHasFile'
  BY <1>0, <1>2 DEF IInv, Promises, ReadyHasFile
<1> QED BY <1>3, <1>4, <1>5, <1>6, <1>7 DEF IInv, AllSound, Promises

LEMMA AbortKeeps ==
  ASSUME IInv, NEW p \in Proc, Abort(p)
  PROVE  IInv'
<1>1. proc' \in [Proc -> AnyProc] /\ proc'[p] = Idle /\ \A q \in Proc : q # p => proc'[q] = proc[q]
  BY Finishes DEF IInv, Abort
<1>2. TypeOK'
  BY <1>1, UnlockedTyped DEF IInv, Abort, TypeOK, AnyProc, Pcs
<1>3. \A q \in Proc : q # p => \A o \in Owner : lock[o] = q => lock'[o] = q
  BY LocksKept DEF Abort
<1> QED BY <1>1, <1>2, <1>3, IdleIsSound, QuietStep DEF Abort

-----------------------------------------------------------------------------
LEMMA Initial == Init => IInv
<1> SUFFICES ASSUME Init PROVE IInv
  OBVIOUS
<1>1. TypeOK
  BY IdleIsProc, TypeIsParts DEF Init, Statuses
<1>2. AllSound
  BY IdleIsProc DEF Init, AllSound, Sound, KeysKnown, OneConfirmed, FileSeen, PurgedIsGone,
     RoomIsHeld, KeysAreOwners, KeysAreAll, Reading
<1>3. \A o \in Owner : LiveDocs(o) = {}
  BY DEF Init, LiveDocs, DocsOf, Rows
<1>4. WithinLimit
  BY <1>3, FS_EmptySet, DocumentsAssumption DEF WithinLimit
<1>5. Owned /\ ReadyHasFile /\ PlainKeysCollected
  BY DEF Init, Owned, ReadyHasFile, PlainKeysCollected, LostKeys
<1> QED BY <1>1, <1>2, <1>4, <1>5 DEF IInv, Promises

LEMMA Inductive == IInv /\ [Next]_vars => IInv'
<1> SUFFICES ASSUME IInv, [Next]_vars PROVE IInv'
  OBVIOUS
<1>1. ASSUME NEW p \in Proc, NEW o \in Owner, LockPlain(p, o) \/ LockRecord(p, o) PROVE IInv'
  <2>1. DocsOf(o) \in SUBSET Rows
    BY DEF DocsOf
  <2> QED BY <1>1, <2>1, KeysReadKeeps
<1>2. ASSUME NEW p \in Proc, LockVehicle(p) PROVE IInv'
  <2>1. Vehicle \in Owner /\ Rows \in SUBSET Rows
    BY DEF Owner
  <2> QED BY <1>2, <2>1, KeysReadKeeps
<1>3. CASE UNCHANGED vars
  <2>0. TypeOK'
    BY <1>3 DEF vars, IInv, TypeOK
  <2>1. Owned' /\ Promises'
    BY <1>3, PromisesStay DEF vars, IInv
  <2>2. ASSUME NEW q \in Proc PROVE Sound(q)'
    <3>1. Harmless(q)
      BY <1>3, LocksOnly DEF vars
    <3> QED BY <1>3, <2>0, <3>1, Bystander DEF vars, IInv, AllSound
  <2> QED BY <2>0, <2>1, <2>2 DEF IInv, AllSound
<1>4. ASSUME NEW p \in Proc, NEW d \in Doc,
             InsertDocument(p, d) \/ Confirm(p, d) \/ FindDocument(p, d)
      PROVE  IInv'
  BY <1>4, InsertKeeps, ReadKeeps
<1>5. ASSUME NEW p \in Proc,
             \/ Head(p) \/ SettleReady(p) \/ SettleFailed(p) \/ DeleteDocument(p)
             \/ LockVehicleForReading(p) \/ DeleteOwner(p) \/ Abort(p)
      PROVE  IInv'
  BY <1>5, HeadKeeps, SettleKeeps, DeleteDocumentKeeps, LockForReadingKeeps, DeleteOwnerKeeps,
     AbortKeeps
<1>6. ASSUME NEW d \in Doc,
             UrlExpires(d) \/ \E bytes \in {"declared", "other"} : Put(d, bytes)
      PROVE  IInv'
  BY <1>6, StoreKeeps
<1>7. CASE Next
  BY <1>1, <1>2, <1>4, <1>5, <1>6, <1>7, LockOwnerKeeps, PurgeKeeps DEF Next
<1> QED BY <1>3, <1>7

LEMMA Invariant == Spec => []IInv
BY Initial, Inductive, PTL DEF Spec

\* Whatever the requests do to one vehicle's documents, and whichever of them die.
THEOREM DocumentsAreTypeCorrect == Spec => []TypeOK
BY Invariant, PTL DEF IInv

\* No owner holds more live documents than its limit.
THEOREM LimitIsKept == Spec => []WithinLimit
BY Invariant, PTL DEF IInv, Promises

\* A READY document has its file.
THEOREM ReadyKeepsItsFile == Spec => []ReadyHasFile
BY Invariant, PTL DEF IInv, Promises

\* Only the expense of a fill or a service can lose the key of a document.
THEOREM PlainKeysAreRead == Spec => []PlainKeysCollected
BY Invariant, PTL DEF IInv, Promises

=============================================================================
