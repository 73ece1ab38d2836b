----------------------------- MODULE EditorDOProof -----------------------------
(***************************************************************************)
(* The commit protocol of EditorDO, for every number of versions, opIds,   *)
(* batches and failures: EditorInv is inductive, and with it receipts are  *)
(* true, an unfinished version can always be settled, and the session      *)
(* implements CommitLog.  RecentInv and ContentInv extend it to the        *)
(* remembered opIds and to the document that is served.                    *)
(***************************************************************************)
EXTENDS EditorDO, WellFoundedInduction, TLAPS

--------------------------------------------------------------------------------
(* Tables *)

(* A row whose version is not below any other is the newest one. *)
LEMMA NewestIs ==
    ASSUME NEW t, NEW n \in Nat, n \in DOMAIN t, DOMAIN t \subseteq Nat,
           \A w \in DOMAIN t : w <= n
    PROVE  Newest(t) = n
<1>1. \A v \in DOMAIN t : (\A w \in DOMAIN t : w <= v) => v = n
  OBVIOUS
<1>2. QED
  BY <1>1 DEF Newest

(* A table whose rows are 1 .. n has n as its newest version. *)
LEMMA NewestOfLog ==
    ASSUME NEW t, NEW n \in Nat, DOMAIN t = 1 .. n
    PROVE  Newest(t) = n
<1>1. CASE n = 0
  BY <1>1 DEF Newest
<1>2. CASE n > 0
  BY <1>2, NewestIs
<1>3. QED
  BY <1>1, <1>2

(* INSERT OR REPLACE changes one row. *)
LEMMA WithRow ==
    ASSUME NEW t, NEW v, NEW x
    PROVE  /\ DOMAIN With(t, v, x) = DOMAIN t \cup {v}
           /\ With(t, v, x)[v] = x
           /\ \A w \in DOMAIN t : w # v => With(t, v, x)[w] = t[w]
BY DEF With

(* A row after the others is the newest one. *)
LEMMA NewestWith ==
    ASSUME NEW t, NEW v \in Nat, NEW x, DOMAIN t \subseteq Nat,
           \A w \in DOMAIN t : w <= v
    PROVE  Newest(With(t, v, x)) = v
<1> DEFINE u == With(t, v, x)
<1>1. DOMAIN u = DOMAIN t \cup {v}
  BY WithRow
<1>2. v \in DOMAIN u /\ DOMAIN u \subseteq Nat /\ \A w \in DOMAIN u : w <= v
  BY <1>1
<1> HIDE DEF u
<1>3. Newest(u) = v
  BY <1>2, NewestIs
<1>4. QED
  BY <1>3 DEF u

--------------------------------------------------------------------------------
(* Root references *)

(* The counts of the root references are natural numbers. *)
LEMMA CountType ==
    ASSUME TypeOK, NEW h
    PROVE  Count(h) \in Nat
BY DEF TypeOK, Count

(* An update that the store takes for the first time adds its changes. *)
LEMMA UpdateAdds ==
    ASSUME TypeOK, NEW id, NEW changes,
           \A h \in DOMAIN changes : changes[h] \in {1, -1},
           id \notin DOMAIN requests,
           updateRootRefs(id, changes)
    PROVE  /\ \A h : Count(h)' = Count(h) + Change(changes, h)
           /\ \A h \in DOMAIN roots' : roots'[h] \in Nat \ {0}
           /\ DOMAIN requests' = DOMAIN requests \cup {id}
           /\ requests'[id] = changes
           /\ \A i \in DOMAIN requests : requests'[i] = requests[i]
<1>1. \A h : Count(h) \in Nat
  BY CountType
<1>2. \A h : Change(changes, h) \in {0, 1, -1}
  BY DEF Change
<1>3. \A h : Count(h) + Change(changes, h) >= 0
  BY <1>1 DEF updateRootRefs, UpdateAccepted, Change
<1>4. roots' = [h \in {g \in DOMAIN roots \cup DOMAIN changes :
                         Count(g) + Change(changes, g) > 0}
                  |-> Count(h) + Change(changes, h)]
  BY DEF updateRootRefs
<1>5. requests' = [i \in DOMAIN requests \cup {id} |->
                     IF i = id THEN changes ELSE requests[i]]
  BY DEF updateRootRefs
<1>6. ASSUME NEW h PROVE Count(h)' = Count(h) + Change(changes, h)
  <2>1. CASE h \in DOMAIN roots'
    <3>1. Count(h)' = roots'[h]
      BY <2>1 DEF Count
    <3>2. QED
      BY <2>1, <3>1, <1>4
  <2>2. CASE h \notin DOMAIN roots'
    <3>1. Count(h)' = 0
      BY <2>2 DEF Count
    <3>2. CASE h \in DOMAIN roots \cup DOMAIN changes
      BY <2>2, <3>1, <3>2, <1>1, <1>2, <1>3, <1>4
    <3>3. CASE h \notin DOMAIN roots \cup DOMAIN changes
      BY <3>1, <3>3 DEF Count, Change
    <3>4. QED
      BY <3>2, <3>3
  <2>3. QED
    BY <2>1, <2>2
<1>7. \A h \in DOMAIN roots' : roots'[h] \in Nat \ {0}
  BY <1>1, <1>2, <1>3, <1>4
<1>8. QED
  BY <1>5, <1>6, <1>7

(* A transition changes a count by one, and only where the two sides differ. *)
LEMMA TransitionChanges ==
    ASSUME NEW p
    PROVE  LET changes == rootTransitionChanges(p)
           IN  /\ \A h \in DOMAIN changes : changes[h] \in {1, -1}
               /\ \A h \in Acquired(p) \ Released(p) : Change(changes, h) = 1
               /\ \A h : h \notin Released(p) \/ h \in Acquired(p) => Change(changes, h) >= 0
               /\ \A h : (h \in Acquired(p) <=> h \in Released(p)) => Change(changes, h) = 0
BY DEF rootTransitionChanges, Change

--------------------------------------------------------------------------------
(* Steps that leave the tables and the store alone *)

(* What the tables and the store determine. *)
DurableInv == OutboxInv /\ RequestsInv /\ AuthorInv /\ RootsHeld /\ ReceiptsHonest

(* Everything but the handler and the memory depends on the tables alone. *)
LEMMA DurableSame ==
    ASSUME UNCHANGED <<dbVars, casVars, author>>
    PROVE  /\ DurableInv => DurableInv'
           /\ latestVersion' = latestVersion
           /\ latestSnapshotVersion' = latestSnapshotVersion
           /\ HasPending' = HasPending
           /\ UpdateApplied' = UpdateApplied
           /\ PendingIntents' = PendingIntents
           /\ rootTransitionChanges(pending)' = rootTransitionChanges(pending)
           /\ \A h : Count(h)' = Count(h)
<1> USE DEF dbVars, casVars
<1>1. /\ latestVersion' = latestVersion
      /\ latestSnapshotVersion' = latestSnapshotVersion
      /\ HasPending' = HasPending
      /\ PendingIntents' = PendingIntents
      /\ \A h : Count(h)' = Count(h)
  BY DEF latestVersion, latestSnapshotVersion, HasPending, PendingIntents, Count
<1>2. /\ latestDeltaRoots' = latestDeltaRoots
      /\ latestSnapshotRoots' = latestSnapshotRoots
  BY <1>1 DEF latestDeltaRoots, latestSnapshotRoots
<1>3. /\ Acquired(pending)' = Acquired(pending)
      /\ Released(pending)' = Released(pending)
      /\ RequestId(pending)' = RequestId(pending)
      /\ IntentMatches(pending)' = IntentMatches(pending)
  BY <1>2 DEF Acquired, Released, RequestId, IntentMatches
<1>4. rootTransitionChanges(pending)' = rootTransitionChanges(pending)
  BY <1>3 DEF rootTransitionChanges
<1>5. UpdateApplied' = UpdateApplied
  BY <1>1, <1>3 DEF UpdateApplied
<1>6. HeldRoots' = HeldRoots
  BY <1>2, <1>3, <1>5 DEF HeldRoots
<1>7. OutboxInv => OutboxInv'
  BY <1>1, <1>3 DEF OutboxInv
<1>8. RequestsInv => RequestsInv'
  BY <1>1, <1>3, <1>4, <1>5 DEF RequestsInv
<1>9. AuthorInv => AuthorInv'
  BY <1>1 DEF AuthorInv
<1>10. RootsHeld => RootsHeld'
  BY <1>1, <1>6 DEF RootsHeld
<1>11. ReceiptsHonest => ReceiptsHonest'
  BY DEF ReceiptsHonest
<1>12. QED
  BY <1>1, <1>4, <1>5, <1>7, <1>8, <1>9, <1>10, <1>11 DEF DurableInv

(* Loading keeps memory behind the log. *)
LEMMA LoadKeepsMemory ==
    ASSUME EditorInv, ensureLoaded, UNCHANGED <<dbVars, casVars, author>>
    PROVE  /\ MemoryInv'
           /\ version' \in Nat /\ loaded' \in BOOLEAN
           /\ latestVersion = 0 => version' = 0
<1>1. latestVersion' = latestVersion /\ latestVersion \in Nat /\ version \in Nat
  BY DurableSame DEF EditorInv, TypeOK
<1>2. QED
  BY <1>1 DEF EditorInv, MemoryInv, ensureLoaded

(* A request that is taken up without touching the tables. *)
LEMMA TakeKeeps ==
    ASSUME EditorInv, ensureLoaded, UNCHANGED <<dbVars, casVars, author, boundVars>>,
           req = Idle,
           NEW kind \in Kinds \ {"none"}, NEW op \in OpIds \cup {NoOp}, NEW base \in Nat,
           NEW arg, NEW at \in {"recover", "handle"},
           Take(kind, op, base, arg, at),
           IF kind = "create" THEN at = "handle" /\ ~identity
                              ELSE at = "recover" /\ identity,
           IF kind = "explicit"
           THEN /\ op \in OpIds
                /\ journal[op].state # "none"
                /\ journal[op].base = base /\ journal[op].batch = arg
           ELSE PendingIntents = {}
    PROVE  EditorInv'
<1> DEFINE r == [kind |-> kind, op |-> op, base |-> base, arg |-> arg, doc |-> NoDoc, at |-> at]
<1>1. req' = r
  BY DEF Take
<1>2. /\ DurableInv' /\ latestVersion' = latestVersion
      /\ latestSnapshotVersion' = latestSnapshotVersion
      /\ HasPending' = HasPending /\ PendingIntents' = PendingIntents
  BY DurableSame DEF EditorInv, DurableInv
<1>3. /\ MemoryInv' /\ version' \in Nat /\ loaded' \in BOOLEAN
      /\ latestVersion = 0 => version' = 0
  BY LoadKeepsMemory DEF vars
<1>4. /\ r.kind = kind /\ r.op = op /\ r.base = base /\ r.arg = arg /\ r.at = at
      /\ r.doc = NoDoc
      /\ r = [kind |-> r.kind, op |-> r.op, base |-> r.base, arg |-> r.arg,
              doc |-> r.doc, at |-> r.at]
  OBVIOUS
<1> HIDE DEF r
<1>5. TypeOK'
  BY <1>1, <1>2, <1>3, <1>4 DEF EditorInv, TypeOK, Steps, dbVars, casVars, boundVars
<1>6. kind = "create" => ~HasPending /\ latestVersion = 0
  BY DEF EditorInv, OutboxInv
<1>7. HandlerInv'
  BY <1>1, <1>2, <1>3, <1>4, <1>6 DEF HandlerInv, Kinds, dbVars
<1>8. QED
  BY <1>2, <1>3, <1>5, <1>7 DEF EditorInv, DurableInv

(* A request that ends, with memory no further ahead than it was. *)
LEMMA EndKeeps ==
    ASSUME EditorInv, UNCHANGED <<dbVars, casVars, author>>, req' = Idle,
           ensures' \in Nat, faults' \in Nat, loaded' \in BOOLEAN,
           version' \in Nat, MemoryInv'
    PROVE  EditorInv'
<1>1. /\ DurableInv' /\ latestVersion' = latestVersion
      /\ latestSnapshotVersion' = latestSnapshotVersion
  BY DurableSame DEF EditorInv, DurableInv
<1>2. TypeOK'
  BY <1>1 DEF EditorInv, TypeOK, Steps, Kinds, Idle, dbVars, casVars
<1>3. HandlerInv'
  BY DEF HandlerInv, Idle
<1>4. QED
  BY <1>1, <1>2, <1>3 DEF EditorInv, DurableInv

(* Reads and requests that are taken up. *)
LEMMA ArriveKeeps ==
    ASSUME EditorInv, Arrive, \A o \in OpIds, base \in 1 .. MaxVersion, b \in Batches :
                                 ~applyExplicit(o, base, b)
    PROVE  EditorInv'
<1> USE BoundAssumption
<1>1. CASE ReadDocument
  <2>1. MemoryInv' /\ version' \in Nat /\ loaded' \in BOOLEAN
    BY <1>1, LoadKeepsMemory DEF ReadDocument
  <2>2. QED
    BY <1>1, <2>1, EndKeeps DEF ReadDocument, boundVars, EditorInv, TypeOK
<1>2. ASSUME NEW d \in InitialDocs, Create(d) PROVE EditorInv'
  <2>1. PendingIntents = {}
    BY <1>2 DEF EditorInv, OutboxInv, Create
  <2>2. QED
    BY <1>2, <2>1, TakeKeeps DEF Create, Kinds
<1>3. ASSUME NEW kind \in {"apply", "rollback", "snapshot", "blob"},
             NEW op \in OpIds \cup {NoOp}, NEW base \in Nat, NEW arg,
             Write(kind, op, base, arg)
      PROVE  EditorInv'
  BY <1>3, TakeKeeps DEF Write, Kinds
<1>4. ASSUME NEW o \in OpIds, commitRecover(o) PROVE EditorInv'
  <2>1. journal[o].base \in Nat
    BY DEF EditorInv, TypeOK
  <2>2. QED
    BY <1>4, <2>1, TakeKeeps DEF commitRecover, Kinds
<1>5. ASSUME NEW op \in OpIds \cup {NoOp}, NEW base \in 1 .. MaxVersion, NEW b \in Batches,
             ApplyRequest(op, base, b)
      PROVE  EditorInv'
  BY <1>3, <1>5 DEF ApplyRequest
<1>6. ASSUME NEW target \in 1 .. MaxVersion, RollbackRequest(target) PROVE EditorInv'
  BY <1>3, <1>6 DEF RollbackRequest
<1>7. ASSUME SnapshotRequest PROVE EditorInv'
  BY <1>3, <1>7 DEF SnapshotRequest
<1>8. ASSUME BlobRequest PROVE EditorInv'
  BY <1>3, <1>8 DEF BlobRequest
<1>9. QED
  BY <1>1, <1>2, <1>4, <1>5, <1>6, <1>7, <1>8 DEF Arrive

(* A step of the handler that changes only the place it is at. *)
LEMMA MoveTo ==
    ASSUME EditorInv, NEW at \in Steps, req' = [req EXCEPT !.at = at]
    PROVE  /\ req'.kind = req.kind /\ req'.op = req.op /\ req'.base = req.base
           /\ req'.arg = req.arg /\ req'.doc = req.doc /\ req'.at = at
           /\ req' = [kind |-> req'.kind, op |-> req'.op, base |-> req'.base, arg |-> req'.arg,
                      doc |-> req'.doc, at |-> req'.at]
<1> DEFINE r == [kind |-> req.kind, op |-> req.op, base |-> req.base, arg |-> req.arg,
                 doc |-> req.doc, at |-> req.at]
<1>1. req = r
  BY DEF EditorInv, TypeOK
<1>2. req' = [r EXCEPT !.at = at]
  BY <1>1
<1>3. QED
  BY <1>2

(* The end of a request that failed. *)
LEMMA ErrorKeepsMemory ==
    ASSUME EditorInv, EndWithError, latestVersion' = latestVersion
    PROVE  MemoryInv' /\ version' \in Nat /\ loaded' \in BOOLEAN
BY DEF EditorInv, TypeOK, MemoryInv, EndWithError, memVars

(* Failures are counted up to their bound. *)
LEMMA FaultType ==
    ASSUME EditorInv, Fault
    PROVE  ensures' \in Nat /\ faults' \in Nat
BY DEF EditorInv, TypeOK, Fault

(* Answers, failures, restarts and what recovery does to the memory write no *)
(* version.                                                                 *)
LEMMA QuietKeeps ==
    ASSUME EditorInv,
           recoverPending \/ storeIdentity \/ AnswerOnly \/ RequestFails \/ Restart
    PROVE  EditorInv'
<1>1. CASE AnswerOnly
  <2>1. UNCHANGED <<dbVars, memVars, casVars, author, boundVars>> /\ req' = Idle
    BY <1>1 DEF AnswerOnly
  <2>2. latestVersion' = latestVersion
    BY <2>1, DurableSame
  <2>3. MemoryInv'
    BY <2>1, <2>2 DEF EditorInv, MemoryInv, memVars
  <2>4. QED
    BY <2>1, <2>3, EndKeeps DEF EditorInv, TypeOK, memVars, boundVars
<1>2. CASE RequestFails
  <2>1. latestVersion' = latestVersion
    BY <1>2, DurableSame DEF RequestFails
  <2>2. QED
    BY <1>2, <2>1, ErrorKeepsMemory, FaultType, EndKeeps DEF RequestFails, EndWithError
<1>3. CASE Restart
  <2>1. latestVersion' = latestVersion /\ latestVersion \in Nat
    BY <1>3, DurableSame DEF Restart, EditorInv, TypeOK
  <2>2. MemoryInv'
    BY <1>3, <2>1 DEF Restart, MemoryInv
  <2>3. QED
    BY <1>3, <2>2, FaultType, EndKeeps DEF Restart
<1>4. CASE recoverPending
  <2>1. UNCHANGED <<dbVars, casVars, author>> /\ req' = [req EXCEPT !.at = "handle"]
    BY <1>4 DEF recoverPending
  <2>2. /\ DurableInv' /\ latestVersion' = latestVersion
        /\ latestSnapshotVersion' = latestSnapshotVersion
        /\ HasPending' = HasPending /\ PendingIntents' = PendingIntents
    BY <2>1, DurableSame DEF EditorInv, DurableInv
  <2>3. /\ req'.kind = req.kind /\ req'.op = req.op /\ req'.base = req.base
        /\ req'.arg = req.arg /\ req'.doc = req.doc /\ req'.at = "handle"
        /\ req' = [kind |-> req'.kind, op |-> req'.op, base |-> req'.base, arg |-> req'.arg,
                   doc |-> req'.doc, at |-> req'.at]
    BY <2>1, MoveTo DEF Steps
  <2>4. version' = latestVersion /\ latestVersion \in Nat /\ version \in Nat
    BY <1>4 DEF recoverPending, EditorInv, TypeOK
  <2>5. MemoryInv'
    BY <1>4, <2>2, <2>4 DEF recoverPending, EditorInv, MemoryInv
  <2>6. TypeOK'
    BY <1>4, <2>1, <2>2, <2>3, <2>4
    DEF recoverPending, EditorInv, TypeOK, Steps, dbVars, casVars, boundVars
  <2>7. HandlerInv'
    BY <1>4, <2>1, <2>2, <2>3, <2>4 DEF recoverPending, EditorInv, HandlerInv, dbVars
  <2>8. QED
    BY <2>2, <2>5, <2>6, <2>7 DEF EditorInv, DurableInv
<1>5. CASE storeIdentity
  <2>1. /\ UNCHANGED <<deltas, snapshots, pending, journal, casVars, author>>
        /\ UNCHANGED <<memVars, boundVars>>
        /\ req' = [req EXCEPT !.at = "create"] /\ identity'
    BY <1>5 DEF storeIdentity
  <2>2. /\ DurableInv' /\ latestVersion' = latestVersion
        /\ latestSnapshotVersion' = latestSnapshotVersion
        /\ HasPending' = HasPending /\ PendingIntents' = PendingIntents
    BY <2>1 DEF EditorInv, DurableInv, OutboxInv, RequestsInv, AuthorInv, RootsHeld, ReceiptsHonest,
       latestVersion, latestSnapshotVersion, HasPending, PendingIntents, casVars, UpdateApplied,
       HeldRoots, latestDeltaRoots, latestSnapshotRoots, Count, Acquired, Released,
       rootTransitionChanges, RequestId, IntentMatches
  <2>3. /\ req'.kind = req.kind /\ req'.op = req.op /\ req'.base = req.base
        /\ req'.arg = req.arg /\ req'.doc = req.doc /\ req'.at = "create"
        /\ req' = [kind |-> req'.kind, op |-> req'.op, base |-> req'.base, arg |-> req'.arg,
                   doc |-> req'.doc, at |-> req'.at]
    BY <2>1, MoveTo DEF Steps
  <2>4. MemoryInv'
    BY <2>1, <2>2 DEF EditorInv, MemoryInv, memVars
  <2>5. TypeOK'
    BY <2>1, <2>2, <2>3 DEF EditorInv, TypeOK, Steps, casVars, memVars, boundVars
  <2>6. HandlerInv'
    BY <1>5, <2>1, <2>2, <2>3 DEF storeIdentity, Handling, EditorInv, HandlerInv, memVars
  <2>7. QED
    BY <2>2, <2>4, <2>5, <2>6 DEF EditorInv, DurableInv
<1>6. QED
  BY <1>1, <1>2, <1>3, <1>4, <1>5

--------------------------------------------------------------------------------
(* The journal *)

(* What the tables and the store determine when only the journal changes. *)
LEMMA JournalOnly ==
    ASSUME UNCHANGED <<deltas, snapshots, pending, casVars>>
    PROVE  /\ latestVersion' = latestVersion
           /\ latestSnapshotVersion' = latestSnapshotVersion
           /\ HasPending' = HasPending
           /\ UpdateApplied' = UpdateApplied
           /\ rootTransitionChanges(pending)' = rootTransitionChanges(pending)
           /\ RequestId(pending)' = RequestId(pending)
           /\ HeldRoots' = HeldRoots
           /\ \A h : Count(h)' = Count(h)
BY DEF latestVersion, latestSnapshotVersion, HasPending, casVars, UpdateApplied, HeldRoots,
       latestDeltaRoots, latestSnapshotRoots, Count, Acquired, Released,
       rootTransitionChanges, RequestId

(* A new intent, or the same one again. *)
LEMMA ExplicitKeeps ==
    ASSUME EditorInv, NEW o \in OpIds, NEW base \in Nat, NEW b, applyExplicit(o, base, b)
    PROVE  EditorInv'
<1> DEFINE intent == [state |-> "pending", base |-> base, batch |-> b]
<1>1. CASE journal[o] = intent /\ UNCHANGED journal
  <2>1. /\ ensureLoaded /\ req = Idle /\ identity
        /\ UNCHANGED <<dbVars, casVars, author, boundVars>>
        /\ Take("explicit", o, base, b, "recover")
    BY <1>1 DEF applyExplicit, dbVars
  <2>2. QED
    BY <1>1, <2>1, TakeKeeps DEF Kinds
<1>2. CASE /\ journal[o].state = "none" /\ PendingIntents = {}
           /\ journal' = [journal EXCEPT ![o] = intent]
  <2>1. /\ UNCHANGED <<identity, deltas, snapshots, pending, casVars, author, boundVars>>
        /\ ensureLoaded /\ identity
    BY DEF applyExplicit
  <2>2. /\ DOMAIN journal' = OpIds
        /\ journal'[o].state = "pending" /\ journal'[o].base = base /\ journal'[o].batch = b
        /\ journal'[o] = intent
        /\ \A p \in OpIds : p # o => journal'[p] = journal[p]
    BY <1>2 DEF EditorInv, TypeOK
  <2>3. ~HasPending
    BY <1>2 DEF applyExplicit, EditorInv, OutboxInv, IntentMatches, PendingIntents, TypeOK
  <2>4. /\ latestVersion' = latestVersion
        /\ latestSnapshotVersion' = latestSnapshotVersion
        /\ HasPending' = HasPending
        /\ UpdateApplied' = UpdateApplied
        /\ rootTransitionChanges(pending)' = rootTransitionChanges(pending)
        /\ RequestId(pending)' = RequestId(pending)
        /\ HeldRoots' = HeldRoots
        /\ \A h : Count(h)' = Count(h)
    BY <2>1, JournalOnly
  <2>5. /\ req'.kind = "explicit" /\ req'.op = o /\ req'.base = base /\ req'.arg = b
        /\ req'.at = "recover"
        /\ req' = [kind |-> req'.kind, op |-> req'.op, base |-> req'.base, arg |-> req'.arg,
                   doc |-> req'.doc, at |-> req'.at]
    BY DEF applyExplicit, Take
  <2>6. /\ MemoryInv' /\ version' \in Nat /\ loaded' \in BOOLEAN
    BY <2>1, <2>4 DEF ensureLoaded, EditorInv, MemoryInv, TypeOK
  <2>7. TypeOK'
    <3>1. \A p \in OpIds :
            /\ journal'[p] = [state |-> journal'[p].state, base |-> journal'[p].base,
                              batch |-> journal'[p].batch]
            /\ journal'[p].state \in {"none", "pending", "committed", "rejected"}
            /\ journal'[p].base \in Nat
      BY <2>2 DEF EditorInv, TypeOK
    <3>2. QED
      BY <2>1, <2>2, <2>4, <2>5, <2>6, <3>1
      DEF EditorInv, TypeOK, Steps, Kinds, casVars, boundVars
  <2>8. OutboxInv'
    <3>1. PendingIntents' = {o}
      BY <1>2, <2>2 DEF PendingIntents
    <3>2. QED
      BY <2>1, <2>3, <2>4, <3>1 DEF EditorInv, OutboxInv
  <2>9. HandlerInv'
    BY <2>1, <2>2, <2>5 DEF HandlerInv
  <2>10. RequestsInv'
    BY <1>2, <2>1, <2>2, <2>3, <2>4 DEF EditorInv, RequestsInv, TypeOK, casVars
  <2>11. AuthorInv'
    BY <2>1, <2>3, <2>4 DEF EditorInv, AuthorInv
  <2>12. RootsHeld'
    BY <2>4 DEF EditorInv, RootsHeld
  <2>13. ReceiptsHonest'
    BY <1>2, <2>1, <2>2 DEF EditorInv, ReceiptsHonest, AuthorInv
  <2>14. QED
    BY <2>6, <2>7, <2>8, <2>9, <2>10, <2>11, <2>12, <2>13 DEF EditorInv
<1>3. QED
  BY <1>1, <1>2 DEF applyExplicit, begin

(* The final receipt "rejected". *)
LEMMA RejectKeeps ==
    ASSUME EditorInv, rejectExplicit \/ ApplyBreaks
    PROVE  EditorInv'
<1> DEFINE o == req.op
<1>1. /\ req.at = "handle" /\ req.kind = "explicit" /\ journal[o].state = "pending"
      /\ journal' = [journal EXCEPT ![o].state = "rejected"]
      /\ req' = Idle
      /\ UNCHANGED <<identity, deltas, snapshots, pending, memVars, casVars, author>>
  BY DEF rejectExplicit, ApplyBreaks, Handling
<1>2. o \in OpIds /\ ~HasPending
  BY <1>1 DEF EditorInv, HandlerInv
<1>3. ensures' \in Nat /\ faults' \in Nat
  BY DEF rejectExplicit, ApplyBreaks, Fault, boundVars, EditorInv, TypeOK
<1>4. /\ DOMAIN journal' = OpIds
      /\ journal'[o].state = "rejected" /\ journal'[o].base = journal[o].base
      /\ journal'[o].batch = journal[o].batch
      /\ journal'[o] = [state |-> "rejected", base |-> journal[o].base, batch |-> journal[o].batch]
      /\ \A p \in OpIds : p # o => journal'[p] = journal[p]
  <2>1. /\ DOMAIN journal = OpIds
        /\ journal[o] = [state |-> journal[o].state, base |-> journal[o].base,
                         batch |-> journal[o].batch]
    BY <1>2 DEF EditorInv, TypeOK
  <2>2. journal' = [journal EXCEPT ![o] = [journal[o] EXCEPT !.state = "rejected"]]
    BY <1>1
  <2>3. [journal[o] EXCEPT !.state = "rejected"] =
           [state |-> "rejected", base |-> journal[o].base, batch |-> journal[o].batch]
    BY <2>1
  <2>4. journal' = [journal EXCEPT ![o] = [state |-> "rejected", base |-> journal[o].base,
                                           batch |-> journal[o].batch]]
    BY <2>2, <2>3
  <2>5. QED
    BY <1>2, <2>1, <2>4
<1>5. /\ latestVersion' = latestVersion
      /\ latestSnapshotVersion' = latestSnapshotVersion
      /\ HasPending' = HasPending
      /\ UpdateApplied' = UpdateApplied
      /\ rootTransitionChanges(pending)' = rootTransitionChanges(pending)
      /\ RequestId(pending)' = RequestId(pending)
      /\ HeldRoots' = HeldRoots
      /\ \A h : Count(h)' = Count(h)
  BY <1>1, JournalOnly
<1> HIDE DEF o
<1>6. MemoryInv'
  BY <1>1, <1>5 DEF EditorInv, MemoryInv, memVars
<1>7. TypeOK'
  <2>1. \A p \in OpIds :
          /\ journal'[p] = [state |-> journal'[p].state, base |-> journal'[p].base,
                            batch |-> journal'[p].batch]
          /\ journal'[p].state \in {"none", "pending", "committed", "rejected"}
          /\ journal'[p].base \in Nat
    BY <1>2, <1>4 DEF EditorInv, TypeOK
  <2>2. QED
    BY <1>1, <1>3, <1>4, <1>5, <2>1
    DEF EditorInv, TypeOK, Steps, Kinds, Idle, casVars, memVars
<1>8. OutboxInv'
  <2>1. PendingIntents' \subseteq PendingIntents
    BY <1>2, <1>4 DEF PendingIntents
  <2>2. QED
    BY <1>1, <1>2, <1>5, <2>1 DEF EditorInv, OutboxInv
<1>9. HandlerInv'
  BY <1>1 DEF HandlerInv, Idle
<1>10. RequestsInv'
  BY <1>1, <1>2, <1>4, <1>5 DEF EditorInv, RequestsInv, TypeOK, casVars, o
<1>11. AuthorInv'
  BY <1>1, <1>2, <1>5 DEF EditorInv, AuthorInv
<1>12. RootsHeld'
  BY <1>5 DEF EditorInv, RootsHeld
<1>13. ReceiptsHonest'
  BY <1>1, <1>2, <1>4 DEF EditorInv, ReceiptsHonest, AuthorInv, o
<1>14. QED
  BY <1>6, <1>7, <1>8, <1>9, <1>10, <1>11, <1>12, <1>13 DEF EditorInv

--------------------------------------------------------------------------------
(* The outbox *)

(* What #commit does, whether or not it takes a snapshot. *)
Commits(d, delta, op) ==
    /\ pending'.version = version + 1 /\ pending'.delta = delta /\ pending'.op = op
    /\ author' = With(author, version + 1, [kind |-> req.kind, op |-> req.op])
    /\ req' = [req EXCEPT !.doc = d, !.at = "settle"]

(* The pending row is written: its root update is one the store has not     *)
(* seen, so the store still holds what it held.                             *)
LEMMA CommitKeeps ==
    ASSUME EditorInv, req.at \in {"handle", "create"}, identity,
           NEW d, NEW delta, delta.kind \in {"apply", "restore"},
           NEW op \in OpIds \cup {NoOp}, Commits(d, delta, op),
           UNCHANGED <<identity, deltas, snapshots, journal, memVars, casVars, boundVars>>,
           IF op = NoOp THEN req.kind \notin {"none", "explicit"}
           ELSE /\ req.kind = "explicit" /\ req.op = op
                /\ journal[op].state = "pending"
                /\ req.base = version
                /\ delta = ApplyDelta(req.arg)
    PROVE  EditorInv' /\ HeldRoots' = HeldRoots
<1> DEFINE next == version + 1
<1>1. /\ version = latestVersion /\ version \in Nat /\ ~HasPending
      /\ DOMAIN deltas = 1 .. latestVersion
  BY DEF EditorInv, HandlerInv, TypeOK, OutboxInv
<1>2. /\ pending'.version = next /\ pending'.delta = delta /\ pending'.op = op
      /\ author' = With(author, next, [kind |-> req.kind, op |-> req.op])
      /\ req' = [req EXCEPT !.doc = d, !.at = "settle"]
  BY DEF Commits
<1>3. /\ req'.kind = req.kind /\ req'.op = req.op /\ req'.base = req.base
      /\ req'.arg = req.arg /\ req'.at = "settle"
      /\ req' = [kind |-> req'.kind, op |-> req'.op, base |-> req'.base, arg |-> req'.arg,
                 doc |-> req'.doc, at |-> req'.at]
  <2> DEFINE r == [kind |-> req.kind, op |-> req.op, base |-> req.base, arg |-> req.arg,
                   doc |-> req.doc, at |-> req.at]
  <2>1. req = r
    BY DEF EditorInv, TypeOK
  <2>2. req' = [r EXCEPT !.doc = d, !.at = "settle"]
    BY <1>2, <2>1
  <2>3. QED
    BY <2>2
<1>4. /\ DOMAIN author' = DOMAIN author \cup {next}
      /\ author'[next] = [kind |-> req.kind, op |-> req.op]
      /\ author'[next].kind = req.kind /\ author'[next].op = req.op
      /\ \A v \in DOMAIN author : v # next => author'[v] = author[v]
  <2> DEFINE by == [kind |-> req.kind, op |-> req.op]
  <2>1. by.kind = req.kind /\ by.op = req.op
    OBVIOUS
  <2>2. author' = With(author, next, by)
    BY <1>2
  <2> HIDE DEF by, next
  <2>3. /\ DOMAIN author' = DOMAIN author \cup {next}
        /\ author'[next] = by
        /\ \A v \in DOMAIN author : v # next => author'[v] = author[v]
    BY <2>2 DEF With
  <2>4. QED
    BY <2>1, <2>3 DEF by
<1>5. /\ latestVersion' = latestVersion
      /\ latestSnapshotVersion' = latestSnapshotVersion
      /\ latestDeltaRoots' = latestDeltaRoots
      /\ latestSnapshotRoots' = latestSnapshotRoots
      /\ PendingIntents' = PendingIntents
      /\ \A h : Count(h)' = Count(h)
  BY DEF latestVersion, latestSnapshotVersion, latestDeltaRoots, latestSnapshotRoots,
         PendingIntents, Count, casVars
<1>6. HasPending'
  BY <1>1, <1>2 DEF HasPending
<1>7. RequestId(pending)' \notin DOMAIN requests
  <2>1. CASE op = NoOp
    <3>1. RequestId(pending)' = <<"version", latestVersion + 1>>
      BY <1>1, <1>2, <2>1 DEF RequestId
    <3>2. \A r \in DOMAIN requests : r[1] = "version" => r[2] <= latestVersion
      BY <1>1 DEF EditorInv, RequestsInv
    <3>3. QED
      BY <1>1, <3>1, <3>2
  <2>2. CASE op # NoOp
    <3>1. RequestId(pending)' = <<"commit", op>>
      BY <1>2, <2>2 DEF RequestId
    <3>2. \A r \in DOMAIN requests : r[1] = "commit" => journal[r[2]].state = "committed"
      BY <1>1 DEF EditorInv, RequestsInv
    <3>3. QED
      BY <2>2, <3>1, <3>2
  <2>3. QED
    BY <2>1, <2>2
<1>8. ~UpdateApplied' /\ ~UpdateApplied
  BY <1>1, <1>7 DEF UpdateApplied, casVars
<1>9. HeldRoots' = HeldRoots
  BY <1>5, <1>8 DEF HeldRoots
<1>10. IntentMatches(pending)'
  <2>1. CASE op = NoOp
    BY <1>2, <2>1 DEF IntentMatches
  <2>2. CASE op # NoOp
    <3>1. journal[op].base = req.base /\ journal[op].batch = req.arg
      BY <2>2 DEF EditorInv, HandlerInv
    <3>2. QED
      BY <1>2, <2>2, <3>1 DEF IntentMatches
  <2>3. QED
    BY <2>1, <2>2
<1>11. TypeOK'
  BY <1>1, <1>2, <1>3, <1>4, <1>5
  DEF EditorInv, TypeOK, Steps, casVars, memVars, boundVars
<1>12. OutboxInv'
  <2>1. op = NoOp => PendingIntents = {}
    BY DEF EditorInv, HandlerInv
  <2>2. QED
    BY <1>1, <1>2, <1>5, <1>10, <2>1 DEF EditorInv, OutboxInv
<1>13. MemoryInv'
  BY <1>5 DEF EditorInv, MemoryInv, memVars
<1>14. HandlerInv'
  BY <1>3, <1>5, <1>6 DEF EditorInv, HandlerInv
<1>15. RequestsInv'
  BY <1>1, <1>5, <1>8 DEF EditorInv, RequestsInv, casVars
<1>16. AuthorInv'
  <2>1. req.kind = "explicit" => req.op \in OpIds
    BY DEF EditorInv, HandlerInv
  <2>2. \A v \in DOMAIN author' : author'[v].kind = "explicit" => author'[v].op \in OpIds
    BY <1>4, <2>1 DEF EditorInv, AuthorInv
  <2>3. DOMAIN deltas' \subseteq DOMAIN author'
    BY <1>4 DEF EditorInv, AuthorInv
  <2>4. /\ pending'.version \in DOMAIN author'
        /\ IF pending'.op = NoOp THEN author'[pending'.version].kind # "explicit"
           ELSE author'[pending'.version] = [kind |-> "explicit", op |-> pending'.op]
    BY <1>2, <1>4
  <2>5. QED
    BY <2>2, <2>3, <2>4 DEF AuthorInv
<1>17. RootsHeld'
  BY <1>5, <1>9 DEF EditorInv, RootsHeld
<1>18. ReceiptsHonest'
  <2>1. \A v \in DOMAIN deltas : v \in DOMAIN author /\ author'[v] = author[v]
    BY <1>1, <1>4 DEF EditorInv, AuthorInv
  <2>2. QED
    BY <2>1 DEF EditorInv, ReceiptsHonest
<1>19. QED
  BY <1>9, <1>11, <1>12, <1>13, <1>14, <1>15, <1>16, <1>17, <1>18 DEF EditorInv

(* The four handlers that write a pending row. *)
LEMMA CommittersKeep ==
    ASSUME EditorInv, commitCreated \/ apply \/ rollback \/ commitExplicit
    PROVE  EditorInv' /\ HeldRoots' = HeldRoots
<1> USE ValueAssumption
<1>0. /\ \A d : RestoreDelta(d).kind = "restore"
      /\ \A b : ApplyDelta(b).kind = "apply"
  BY DEF RestoreDelta, ApplyDelta
<1>1. CASE commitCreated
  <2>1. req.kind = "create" /\ identity
    BY <1>1 DEF commitCreated, EditorInv, HandlerInv
  <2>2. Commits(req.arg, RestoreDelta(req.arg), NoOp)
    BY <1>1 DEF commitCreated, commit, Commits
  <2>3. QED
    BY <1>0, <1>1, <2>1, <2>2, CommitKeeps DEF commitCreated
<1>2. CASE apply
  <2>1. identity
    BY <1>2 DEF apply, Handling, EditorInv, HandlerInv
  <2>2. Commits(Append(doc, req.arg), ApplyDelta(req.arg), NoOp)
    BY <1>2 DEF apply, commit, Commits
  <2>3. QED
    BY <1>0, <1>2, <2>1, <2>2, CommitKeeps DEF apply, Handling
<1>3. CASE rollback
  <2>1. identity
    BY <1>3 DEF rollback, Handling, EditorInv, HandlerInv
  <2> DEFINE d == reconstruct(req.base)
  <2>2. commit(d, RestoreDelta(d), TRUE, NoOp)
    BY <1>3 DEF rollback
  <2> HIDE DEF d
  <2>3. Commits(d, RestoreDelta(d), NoOp)
    BY <2>2 DEF commit, Commits
  <2>4. QED
    BY <1>0, <1>3, <2>1, <2>3, CommitKeeps DEF rollback, Handling
<1>4. CASE commitExplicit
  <2>1. identity /\ req.op \in OpIds
    BY <1>4 DEF commitExplicit, Handling, EditorInv, HandlerInv
  <2>2. Commits(Append(doc, req.arg), ApplyDelta(req.arg), req.op)
    BY <1>4 DEF commitExplicit, commit, Commits
  <2>3. QED
    BY <1>0, <1>4, <2>1, <2>2, CommitKeeps DEF commitExplicit, Handling
<1>5. QED
  BY <1>1, <1>2, <1>3, <1>4

(* The store moves the roots, for the first time or again: afterwards it    *)
(* holds what the pending row asks for.                                     *)
LEMMA MoveRootsKeeps ==
    ASSUME EditorInv, HasPending, moveRoots, UNCHANGED <<dbVars, author>>
    PROVE  /\ DurableInv'
           /\ \A h \in DOMAIN roots' : roots'[h] \in Nat \ {0}
           /\ DOMAIN requests' \subseteq ({"version", "snapshot"} \X Nat) \cup ({"commit"} \X OpIds)
           /\ UpdateApplied' \/ DOMAIN rootTransitionChanges(pending)' = {}
<1> DEFINE changes == rootTransitionChanges(pending)
           id == RequestId(pending)
<1>1. CASE UNCHANGED casVars /\ (UpdateApplied \/ DOMAIN changes = {})
  BY <1>1, DurableSame DEF EditorInv, DurableInv, TypeOK, casVars
<1>2. CASE updateRootRefs(id, changes) /\ id \notin DOMAIN requests
  <2>1. /\ latestVersion' = latestVersion
        /\ latestDeltaRoots' = latestDeltaRoots
        /\ latestSnapshotRoots' = latestSnapshotRoots
        /\ HasPending' /\ PendingIntents' = PendingIntents
        /\ IntentMatches(pending)' = IntentMatches(pending)
        /\ RequestId(pending)' = id
        /\ Acquired(pending)' = Acquired(pending) /\ Released(pending)' = Released(pending)
        /\ pending' = pending
    BY DEF dbVars, latestVersion, latestDeltaRoots, latestSnapshotRoots, latestSnapshotVersion,
           HasPending, PendingIntents, IntentMatches, RequestId, Acquired, Released
  <2>2. rootTransitionChanges(pending)' = changes
    BY <2>1 DEF rootTransitionChanges
  <2>3. \A h \in DOMAIN changes : changes[h] \in {1, -1}
    BY TransitionChanges
  <2> HIDE DEF changes, id
  <2>4. /\ \A h : Count(h)' = Count(h) + Change(changes, h)
        /\ \A h \in DOMAIN roots' : roots'[h] \in Nat \ {0}
        /\ DOMAIN requests' = DOMAIN requests \cup {id}
        /\ requests'[id] = changes
        /\ \A i \in DOMAIN requests : requests'[i] = requests[i]
    BY <1>2, <2>3, UpdateAdds DEF EditorInv
  <2>5. ~UpdateApplied /\ UpdateApplied'
    BY <1>2, <2>1, <2>4 DEF UpdateApplied, id
  <2>6. id \in ({"version", "snapshot"} \X Nat) \cup ({"commit"} \X OpIds)
    BY DEF id, RequestId, EditorInv, TypeOK
  <2>7. DOMAIN requests' \subseteq ({"version", "snapshot"} \X Nat) \cup ({"commit"} \X OpIds)
    BY <2>4, <2>6 DEF EditorInv, TypeOK
  <2>8. OutboxInv'
    BY <2>1 DEF EditorInv, OutboxInv, dbVars
  <2>9. AuthorInv'
    BY <2>1 DEF EditorInv, AuthorInv, dbVars, HasPending
  <2>10. ReceiptsHonest'
    BY DEF EditorInv, ReceiptsHonest, dbVars
  <2>11. RequestsInv'
    <3>1. /\ id[1] = "version" => pending.op = NoOp /\ id[2] = pending.version
          /\ id[1] = "commit" => pending.op = id[2]
          /\ id[1] # "snapshot"
      BY DEF id, RequestId
    <3>2. \A r \in DOMAIN requests' :
            /\ r[1] = "version" => \/ r[2] <= latestVersion
                                   \/ HasPending /\ pending.op = NoOp /\ r[2] = pending.version
            /\ r[1] = "commit" => \/ journal[r[2]].state = "committed"
                                  \/ HasPending /\ pending.op = r[2]
            /\ r[1] = "snapshot" => r[2] <= latestVersion
      BY <2>4, <3>1 DEF EditorInv, RequestsInv
    <3>3. requests'[RequestId(pending)'] = rootTransitionChanges(pending)'
      BY <2>1, <2>2, <2>4
    <3>4. QED
      BY <2>1, <2>5, <3>2, <3>3 DEF RequestsInv, dbVars
  <2>12. RootsHeld'
    <3>1. \A h : Count(h) \in Nat
      BY CountType DEF EditorInv
    <3>2. \A h \in latestDeltaRoots \cup latestSnapshotRoots : Count(h) >= 1
      BY <2>5 DEF EditorInv, RootsHeld, HeldRoots
    <3>3. /\ \A h \in Acquired(pending) \ Released(pending) : Change(changes, h) = 1
          /\ \A h : (h \in Acquired(pending) <=> h \in Released(pending)) => Change(changes, h) = 0
      BY TransitionChanges DEF changes
    <3>4. Released(pending) \subseteq latestDeltaRoots \cup latestSnapshotRoots
      BY DEF Released
    <3>5. ASSUME NEW h \in Acquired(pending) PROVE Count(h)' >= 1
      <4>1. CASE h \in Released(pending)
        BY <2>4, <3>1, <3>2, <3>3, <3>4, <4>1
      <4>2. CASE h \notin Released(pending)
        BY <2>4, <3>1, <3>3, <4>2
      <4>3. QED
        BY <4>1, <4>2
    <3>6. ASSUME pending.snapshot = NoDoc, NEW h \in latestSnapshotRoots PROVE Count(h)' >= 1
      <4>1. h.kind = "snapshot"
        BY DEF latestSnapshotRoots, SnapshotRoot
      <4>2. pending.delta.kind # "snapshot"
        BY DEF EditorInv, OutboxInv
      <4>3. \A g \in latestDeltaRoots : g.kind # "snapshot"
        BY DEF latestDeltaRoots, EditorInv, OutboxInv, TypeOK
      <4>4. h \notin Acquired(pending) /\ h \notin Released(pending)
        BY <3>6, <4>1, <4>2, <4>3 DEF Acquired, Released, RootsOf
      <4>5. QED
        BY <2>4, <3>1, <3>2, <3>3, <4>4
    <3>7. HeldRoots' = Acquired(pending) \cup
                       (IF pending.snapshot = NoDoc THEN latestSnapshotRoots ELSE {})
      BY <2>1, <2>5 DEF HeldRoots
    <3>8. QED
      BY <3>5, <3>6, <3>7 DEF RootsHeld
  <2>13. QED
    BY <2>4, <2>5, <2>7, <2>8, <2>9, <2>10, <2>11, <2>12 DEF DurableInv
<1>3. QED
  BY <1>1, <1>2 DEF moveRoots, updateRootRefs, UpdateApplied

(* #settlePending up to the store's answer, and a lost answer. *)
LEMMA SettleKeeps ==
    ASSUME EditorInv, settlePending
    PROVE  EditorInv'
<1> DEFINE at == IF req.at = "recover" THEN "recovered" ELSE "settled"
<1>1. /\ UNCHANGED <<dbVars, memVars, author, boundVars>>
      /\ HasPending /\ moveRoots /\ req.at \in {"recover", "settle"}
      /\ req' = [req EXCEPT !.at = at]
  BY DEF settlePending
<1>2. /\ DurableInv'
      /\ \A h \in DOMAIN roots' : roots'[h] \in Nat \ {0}
      /\ DOMAIN requests' \subseteq ({"version", "snapshot"} \X Nat) \cup ({"commit"} \X OpIds)
      /\ UpdateApplied' \/ DOMAIN rootTransitionChanges(pending)' = {}
  BY <1>1, MoveRootsKeeps
<1>3. at \in {"recovered", "settled"} /\ (at = "recovered" => req.at = "recover")
  OBVIOUS
<1> HIDE DEF at
<1>4. /\ req'.kind = req.kind /\ req'.op = req.op /\ req'.base = req.base
      /\ req'.arg = req.arg /\ req'.doc = req.doc /\ req'.at = at
      /\ req' = [kind |-> req'.kind, op |-> req'.op, base |-> req'.base, arg |-> req'.arg,
                 doc |-> req'.doc, at |-> req'.at]
  BY <1>1, <1>3, MoveTo DEF Steps
<1>5. /\ latestVersion' = latestVersion /\ latestSnapshotVersion' = latestSnapshotVersion
      /\ HasPending' /\ PendingIntents' = PendingIntents
  BY <1>1 DEF dbVars, latestVersion, latestSnapshotVersion, HasPending, PendingIntents
<1>6. TypeOK'
  BY <1>1, <1>2, <1>3, <1>4, <1>5 DEF EditorInv, TypeOK, Steps, dbVars, memVars, boundVars
<1>7. MemoryInv'
  BY <1>1, <1>5 DEF EditorInv, MemoryInv, memVars
<1>8. HandlerInv'
  BY <1>1, <1>2, <1>3, <1>4, <1>5 DEF EditorInv, HandlerInv, dbVars
<1>9. QED
  BY <1>2, <1>6, <1>7, <1>8 DEF EditorInv, DurableInv

(* The snapshot route's root update. *)
LEMMA RetainKeeps ==
    ASSUME EditorInv, Handling("snapshot"), doc # NoDoc,
           updateRootRefs(<<"snapshot", version>>, ensureChanges),
           UNCHANGED <<dbVars, author>>
    PROVE  /\ DurableInv'
           /\ \A h \in DOMAIN roots' : roots'[h] \in Nat \ {0}
           /\ DOMAIN requests' \subseteq ({"version", "snapshot"} \X Nat) \cup ({"commit"} \X OpIds)
           /\ \A h : h = SnapshotRoot(doc) => Count(h)' >= 1
<1> DEFINE id == <<"snapshot", version>>
           changes == ensureChanges
           root == SnapshotRoot(doc)
<1>1. ~HasPending /\ version = latestVersion /\ version \in Nat /\ ~UpdateApplied
  BY DEF Handling, EditorInv, HandlerInv, TypeOK, UpdateApplied
<1>2. /\ DOMAIN changes = {root} /\ changes[root] = 1
  BY DEF ensureChanges
<1>3. \A h : Count(h) \in Nat
  BY CountType DEF EditorInv
<1>4. CASE id \in DOMAIN requests
  <2>1. UNCHANGED casVars /\ requests[id] = changes
    BY <1>4 DEF updateRootRefs, UpdateAccepted
  <2>2. Count(root) >= 1
    BY <1>1, <1>2, <1>4, <2>1 DEF EditorInv, RequestsInv
  <2>3. \A h : h = root => Count(h)' >= 1
    BY <2>1, <2>2 DEF Count, casVars
  <2>4. QED
    BY <2>1, <2>3, DurableSame DEF EditorInv, DurableInv, TypeOK, casVars
<1>5. CASE id \notin DOMAIN requests
  <2>1. /\ latestVersion' = latestVersion
        /\ latestDeltaRoots' = latestDeltaRoots
        /\ latestSnapshotRoots' = latestSnapshotRoots
        /\ ~HasPending' /\ PendingIntents' = PendingIntents
    BY <1>1 DEF dbVars, latestVersion, latestDeltaRoots, latestSnapshotRoots,
                latestSnapshotVersion, HasPending, PendingIntents
  <2>2. \A h \in DOMAIN changes : changes[h] \in {1, -1}
    BY <1>2
  <2>3. updateRootRefs(id, changes)
    OBVIOUS
  <2>4. \A h : Change(changes, h) \in {0, 1}
    BY <1>2 DEF Change
  <2>5. Change(changes, root) = 1
    BY <1>2 DEF Change
  <2>6. id[1] = "snapshot" /\ id[2] = version /\ id \in {"snapshot"} \X Nat
    BY <1>1
  <2> HIDE DEF changes, id, root
  <2>7. /\ \A h : Count(h)' = Count(h) + Change(changes, h)
        /\ \A h \in DOMAIN roots' : roots'[h] \in Nat \ {0}
        /\ DOMAIN requests' = DOMAIN requests \cup {id}
        /\ requests'[id] = changes
        /\ \A i \in DOMAIN requests : requests'[i] = requests[i]
    BY <1>5, <2>2, <2>3, UpdateAdds DEF EditorInv
  <2>8. \A h : Count(h)' >= Count(h) /\ Count(h)' \in Nat
    BY <1>3, <2>4, <2>7
  <2>9. \A h : h = root => Count(h)' >= 1
    BY <1>3, <2>5, <2>7
  <2>10. OutboxInv'
    BY <2>1 DEF EditorInv, OutboxInv, dbVars
  <2>11. AuthorInv'
    BY <1>1, <2>1 DEF EditorInv, AuthorInv, dbVars
  <2>12. ReceiptsHonest'
    BY DEF EditorInv, ReceiptsHonest, dbVars
  <2>13. ~UpdateApplied'
    BY <2>1 DEF UpdateApplied
  <2>14. RootsHeld'
    <3>1. HeldRoots' = HeldRoots
      BY <1>1, <2>1, <2>13 DEF HeldRoots
    <3>2. QED
      BY <1>3, <2>8, <3>1 DEF EditorInv, RootsHeld
  <2>15. RequestsInv'
    <3>1. \A r \in DOMAIN requests' :
            /\ r[1] = "version" => r[2] <= latestVersion
            /\ r[1] = "commit" => journal[r[2]].state = "committed"
            /\ r[1] = "snapshot" => r[2] <= latestVersion
      BY <1>1, <2>6, <2>7 DEF EditorInv, RequestsInv
    <3>2. id = <<"snapshot", latestVersion>>
      BY <1>1 DEF id
    <3>3. \A h \in DOMAIN requests'[<<"snapshot", latestVersion>>] : Count(h)' >= 1
      BY <1>2, <2>7, <2>9, <3>2 DEF changes, root
    <3>4. QED
      BY <2>1, <2>13, <3>1, <3>3 DEF RequestsInv, dbVars
  <2>16. \A h : h = SnapshotRoot(doc) => Count(h)' >= 1
    BY <2>9 DEF root
  <2>17. QED
    BY <2>6, <2>7, <2>10, <2>11, <2>12, <2>14, <2>15, <2>16 DEF EditorInv, TypeOK, DurableInv
<1>6. QED
  BY <1>4, <1>5

(* The two steps around the snapshot route's row. *)
LEMMA SnapshotKeeps ==
    ASSUME EditorInv, retainSnapshot \/ recordSnapshot
    PROVE  EditorInv'
<1>1. CASE retainSnapshot
  <2>1. /\ Handling("snapshot") /\ doc # NoDoc
        /\ updateRootRefs(<<"snapshot", version>>, ensureChanges)
        /\ UNCHANGED <<dbVars, memVars, author, faults>>
        /\ ensures' = ensures + 1
        /\ req' = [req EXCEPT !.at = "retained"]
    BY <1>1 DEF retainSnapshot
  <2>2. /\ DurableInv'
        /\ \A h \in DOMAIN roots' : roots'[h] \in Nat \ {0}
        /\ DOMAIN requests' \subseteq ({"version", "snapshot"} \X Nat) \cup ({"commit"} \X OpIds)
        /\ \A h : h = SnapshotRoot(doc) => Count(h)' >= 1
    BY <2>1, RetainKeeps
  <2>3. /\ req'.kind = req.kind /\ req'.op = req.op /\ req'.base = req.base
        /\ req'.arg = req.arg /\ req'.doc = req.doc /\ req'.at = "retained"
        /\ req' = [kind |-> req'.kind, op |-> req'.op, base |-> req'.base, arg |-> req'.arg,
                   doc |-> req'.doc, at |-> req'.at]
    BY <2>1, MoveTo DEF Steps
  <2>4. /\ latestVersion' = latestVersion /\ latestSnapshotVersion' = latestSnapshotVersion
        /\ HasPending' = HasPending /\ PendingIntents' = PendingIntents
    BY <2>1 DEF dbVars, latestVersion, latestSnapshotVersion, HasPending, PendingIntents
  <2>5. Count(SnapshotRoot(doc))' >= 1
    BY <2>1, <2>2 DEF SnapshotRoot, Count, memVars
  <2>6. TypeOK'
    BY <2>1, <2>2, <2>3, <2>4 DEF EditorInv, TypeOK, Steps, dbVars, memVars
  <2>7. MemoryInv'
    BY <2>1, <2>4 DEF EditorInv, MemoryInv, memVars
  <2>8. HandlerInv'
    BY <2>1, <2>3, <2>4, <2>5 DEF EditorInv, HandlerInv, Handling, dbVars, memVars
  <2>9. QED
    BY <2>2, <2>6, <2>7, <2>8 DEF EditorInv, DurableInv
<1>2. CASE recordSnapshot
  <2>1. /\ snapshots' = With(snapshots, version, doc) /\ req' = Idle
        /\ UNCHANGED <<identity, deltas, pending, journal, memVars, casVars, author, boundVars>>
    BY <1>2 DEF recordSnapshot
  <2>2. /\ ~HasPending /\ version = latestVersion /\ doc # NoDoc
        /\ Count(SnapshotRoot(doc)) >= 1
        /\ version \in Nat /\ version > 0 /\ ~UpdateApplied
    BY <1>2 DEF recordSnapshot, EditorInv, HandlerInv, MemoryInv, TypeOK, UpdateApplied
  <2>3. /\ DOMAIN deltas = 1 .. version /\ DOMAIN snapshots \subseteq 1 .. version
        /\ DOMAIN snapshots \subseteq Nat
    BY <2>2 DEF EditorInv, OutboxInv, TypeOK
  <2>4. /\ DOMAIN snapshots' = DOMAIN snapshots \cup {version}
        /\ snapshots'[version] = doc
    BY <2>1 DEF With
  <2>5. latestSnapshotVersion' = version
    <3>1. \A w \in DOMAIN snapshots : w <= version
      BY <2>2, <2>3
    <3>2. Newest(With(snapshots, version, doc)) = version
      BY <2>2, <2>3, <3>1, NewestWith
    <3>3. QED
      BY <2>1, <3>2 DEF latestSnapshotVersion
  <2>6. /\ latestVersion' = latestVersion /\ latestDeltaRoots' = latestDeltaRoots
        /\ ~HasPending' /\ PendingIntents' = PendingIntents
        /\ \A h : Count(h)' = Count(h)
    BY <2>1, <2>2 DEF latestVersion, latestDeltaRoots, HasPending, PendingIntents, Count, casVars
  <2>7. latestSnapshotRoots' = {SnapshotRoot(doc)}
    BY <2>2, <2>4, <2>5 DEF latestSnapshotRoots
  <2>8. ~UpdateApplied'
    BY <2>6 DEF UpdateApplied
  <2>9. RootsHeld'
    BY <2>2, <2>6, <2>7, <2>8 DEF EditorInv, RootsHeld, HeldRoots
  <2>10. OutboxInv'
    BY <2>1, <2>2, <2>3, <2>4, <2>6 DEF EditorInv, OutboxInv
  <2>11. AuthorInv'
    BY <2>1, <2>6 DEF EditorInv, AuthorInv
  <2>12. ReceiptsHonest'
    BY <2>1 DEF EditorInv, ReceiptsHonest
  <2>13. RequestsInv'
    BY <2>1, <2>2, <2>6, <2>8 DEF EditorInv, RequestsInv, casVars
  <2>14. MemoryInv'
    BY <2>1, <2>6 DEF EditorInv, MemoryInv, memVars
  <2>15. TypeOK'
    BY <2>1, <2>2, <2>4, <2>5, <2>6
    DEF EditorInv, TypeOK, Steps, Kinds, Idle, memVars, casVars, boundVars
  <2>16. HandlerInv'
    BY <2>1 DEF HandlerInv, Idle
  <2>17. QED
    BY <2>9, <2>10, <2>11, <2>12, <2>13, <2>14, <2>15, <2>16 DEF EditorInv
<1>3. QED
  BY <1>1, <1>2

(* The store moved the roots and nobody heard of it. *)
LEMMA AnswerLostKeeps ==
    ASSUME EditorInv, AnswerLost
    PROVE  EditorInv'
<1>1. UNCHANGED <<dbVars, author>> /\ EndWithError /\ Fault /\ req' = Idle
  BY DEF AnswerLost, EndWithError
<1>2. /\ DurableInv'
      /\ \A h \in DOMAIN roots' : roots'[h] \in Nat \ {0}
      /\ DOMAIN requests' \subseteq ({"version", "snapshot"} \X Nat) \cup ({"commit"} \X OpIds)
  <2>1. CASE HasPending /\ moveRoots
    BY <1>1, <2>1, MoveRootsKeeps
  <2>2. CASE /\ Handling("snapshot") /\ doc # NoDoc
             /\ updateRootRefs(<<"snapshot", version>>, ensureChanges)
    BY <1>1, <2>2, RetainKeeps
  <2>3. QED
    BY <2>1, <2>2 DEF AnswerLost
<1>3. latestVersion' = latestVersion /\ latestSnapshotVersion' = latestSnapshotVersion
  BY <1>1 DEF dbVars, latestVersion, latestSnapshotVersion
<1>4. MemoryInv' /\ version' \in Nat /\ loaded' \in BOOLEAN
  BY <1>1, <1>3, ErrorKeepsMemory
<1>5. ensures' \in Nat /\ faults' \in Nat
  BY <1>1, FaultType
<1>6. TypeOK'
  BY <1>1, <1>2, <1>3, <1>4, <1>5 DEF EditorInv, TypeOK, Steps, Kinds, Idle, dbVars
<1>7. HandlerInv'
  BY <1>1 DEF HandlerInv, Idle
<1>8. QED
  BY <1>2, <1>4, <1>6, <1>7 DEF EditorInv, DurableInv

(* The final transaction: the version becomes the newest one, its intent is *)
(* committed with it, and the store already holds its roots.                *)
LEMMA FinalizeKeeps ==
    ASSUME EditorInv, req.at \in {"recovered", "settled"}, finalize,
           UNCHANGED <<casVars, author>>
    PROVE  /\ DurableInv'
           /\ HasPending /\ ~HasPending'
           /\ latestVersion' = pending.version /\ pending.version = latestVersion + 1
           /\ latestSnapshotVersion' \in Nat
           /\ DOMAIN deltas' \subseteq Nat \ {0} /\ DOMAIN snapshots' \subseteq Nat \ {0}
           /\ DOMAIN journal' = OpIds
           /\ \A o \in OpIds :
                /\ journal'[o] = [state |-> journal'[o].state, base |-> journal'[o].base,
                                  batch |-> journal'[o].batch]
                /\ journal'[o].state \in {"none", "pending", "committed", "rejected"}
                /\ journal'[o].base = journal[o].base /\ journal'[o].batch = journal[o].batch
                /\ journal[o].state # "none" => journal'[o].state # "none"
           /\ PendingIntents' \subseteq PendingIntents
           /\ \A v \in DOMAIN deltas : v \in DOMAIN deltas' /\ deltas'[v] = deltas[v]
           /\ pending' = NoPending
           /\ HeldRoots' = HeldRoots
<1> DEFINE v == pending.version
           o == pending.op
<1>1. /\ HasPending /\ v = latestVersion + 1 /\ latestVersion \in Nat
      /\ pending.delta.kind \in {"apply", "restore"} /\ IntentMatches(pending)
      /\ DOMAIN deltas = 1 .. latestVersion /\ DOMAIN snapshots \subseteq 1 .. latestVersion
      /\ o \in OpIds \cup {NoOp}
  BY DEF EditorInv, HandlerInv, OutboxInv, TypeOK
<1>2. UpdateApplied \/ DOMAIN rootTransitionChanges(pending) = {}
  BY DEF EditorInv, HandlerInv
<1>3. /\ DOMAIN deltas' = 1 .. v /\ deltas'[v] = pending.delta
      /\ \A w \in DOMAIN deltas : w # v /\ deltas'[w] = deltas[w]
  BY <1>1 DEF finalize, With
<1>4. latestVersion' = v
  BY <1>1, <1>3, NewestOfLog DEF latestVersion
<1>5. ~HasPending' /\ ~UpdateApplied' /\ pending' = NoPending
  BY DEF finalize, NoPending, HasPending, UpdateApplied
<1>7. /\ DOMAIN snapshots' \subseteq 1 .. v
      /\ latestSnapshotVersion' \in Nat
      /\ latestSnapshotRoots' = IF pending.snapshot = NoDoc THEN latestSnapshotRoots
                                ELSE RootsOf(pending.snapshot)
  <2>1. CASE pending.snapshot = NoDoc
    <3>1. snapshots' = snapshots
      BY <2>1 DEF finalize
    <3>2. /\ latestSnapshotVersion' = latestSnapshotVersion
          /\ latestSnapshotRoots' = latestSnapshotRoots
      BY <3>1 DEF latestSnapshotRoots, latestSnapshotVersion
    <3>3. QED
      BY <1>1, <2>1, <3>1, <3>2 DEF EditorInv, TypeOK
  <2>2. CASE pending.snapshot # NoDoc
    <3>1. snapshots' = With(snapshots, v, pending.snapshot)
      BY <2>2 DEF finalize
    <3>2. DOMAIN snapshots' = DOMAIN snapshots \cup {v} /\ snapshots'[v] = pending.snapshot
      BY <3>1 DEF With
    <3>3. v \in Nat /\ v > 0 /\ DOMAIN snapshots \subseteq Nat
          /\ \A w \in DOMAIN snapshots : w <= v
      BY <1>1
    <3>4. latestSnapshotVersion' = v
      BY <3>1, <3>3, NewestWith DEF latestSnapshotVersion
    <3>5. latestSnapshotRoots' = {SnapshotRoot(pending.snapshot)}
      BY <3>2, <3>3, <3>4 DEF latestSnapshotRoots, SnapshotRoot
    <3>6. QED
      BY <1>1, <2>2, <3>2, <3>3, <3>4, <3>5 DEF RootsOf
  <2>3. QED
    BY <2>1, <2>2
<1>8. latestDeltaRoots' = {pending.delta}
  BY <1>1, <1>3, <1>4 DEF latestDeltaRoots
<1>9. /\ DOMAIN journal' = OpIds
      /\ \A p \in OpIds :
           /\ journal'[p] = [state |-> journal'[p].state, base |-> journal'[p].base,
                             batch |-> journal'[p].batch]
           /\ journal'[p].base = journal[p].base /\ journal'[p].batch = journal[p].batch
           /\ journal'[p].state = IF p = o THEN "committed" ELSE journal[p].state
  <2>1. CASE o = NoOp
    BY <2>1, ValueAssumption DEF finalize, EditorInv, TypeOK
  <2>2. CASE o # NoOp
    <3> DEFINE c == [state |-> "committed", base |-> journal[o].base, batch |-> journal[o].batch]
    <3>1. /\ o \in OpIds /\ DOMAIN journal = OpIds
          /\ journal[o] = [state |-> journal[o].state, base |-> journal[o].base,
                           batch |-> journal[o].batch]
      BY <1>1, <2>2 DEF EditorInv, TypeOK
    <3>2. journal' = [journal EXCEPT ![o] = [journal[o] EXCEPT !.state = "committed"]]
      BY <2>2 DEF finalize
    <3>3. [journal[o] EXCEPT !.state = "committed"] = c
      BY <3>1
    <3>4. journal' = [journal EXCEPT ![o] = c]
      BY <3>2, <3>3
    <3>5. /\ c.state = "committed" /\ c.base = journal[o].base /\ c.batch = journal[o].batch
          /\ c = [state |-> c.state, base |-> c.base, batch |-> c.batch]
      OBVIOUS
    <3> HIDE DEF c, o
    <3>6. /\ DOMAIN journal' = OpIds /\ journal'[o] = c
          /\ \A p \in OpIds : p # o => journal'[p] = journal[p]
      BY <3>1, <3>4
    <3>7. QED
      BY <3>5, <3>6 DEF EditorInv, TypeOK
  <2>3. QED
    BY <2>1, <2>2
<1>10. PendingIntents' \subseteq PendingIntents
  BY <1>9 DEF PendingIntents
<1> HIDE DEF v, o
<1>11. OutboxInv'
  <2>1. \A w \in DOMAIN deltas' : deltas'[w].kind \in {"apply", "restore"}
    <3>1. \A w \in DOMAIN deltas' : w = v \/ w \in DOMAIN deltas
      BY <1>1, <1>3 DEF v
    <3>2. QED
      BY <1>1, <1>3, <3>1 DEF EditorInv, OutboxInv
  <2>2. identity' /\ identity
    BY <1>1 DEF finalize, EditorInv, OutboxInv
  <2>3. QED
    BY <1>3, <1>4, <1>5, <1>7, <1>10, <2>1, <2>2 DEF EditorInv, OutboxInv
<1>12. AuthorInv'
  BY <1>1, <1>3, <1>5 DEF EditorInv, AuthorInv, v
<1>13. ReceiptsHonest'
  <2>1. \A w \in DOMAIN deltas' : w = v \/ w \in DOMAIN deltas
    BY <1>1, <1>3 DEF v
  <2>2. o # NoOp => /\ o \in OpIds /\ journal[o].base + 1 = v
                    /\ ApplyDelta(journal[o].batch) = pending.delta
                    /\ author[v] = [kind |-> "explicit", op |-> o]
                    /\ author[v].kind = "explicit" /\ author[v].op = o
    BY <1>1 DEF IntentMatches, v, o, EditorInv, AuthorInv
  <2>3. o = NoOp => author[v].kind # "explicit"
    BY <1>1 DEF v, o, EditorInv, AuthorInv
  <2>4. ASSUME NEW p \in OpIds, journal'[p].state = "committed"
        PROVE  LET w == journal'[p].base + 1
               IN  /\ w \in DOMAIN deltas' /\ deltas'[w] = ApplyDelta(journal'[p].batch)
                   /\ author[w] = [kind |-> "explicit", op |-> p]
    <3>1. CASE p = o
      <4>1. o # NoOp
        BY <3>1, ValueAssumption
      <4>2. v \in DOMAIN deltas'
        BY <1>1, <1>3 DEF v
      <4>3. QED
        BY <1>3, <1>9, <2>2, <3>1, <4>1, <4>2
    <3>2. CASE p # o
      <4>1. journal[p].state = "committed"
        BY <1>9, <2>4, <3>2
      <4>2. LET w == journal[p].base + 1
            IN  /\ w \in DOMAIN deltas /\ deltas[w] = ApplyDelta(journal[p].batch)
                /\ author[w] = [kind |-> "explicit", op |-> p]
        BY <4>1 DEF EditorInv, ReceiptsHonest
      <4>3. DOMAIN deltas \subseteq DOMAIN deltas'
        BY <1>1, <1>3 DEF v
      <4>4. QED
        BY <1>3, <1>9, <4>2, <4>3
    <3>3. QED
      BY <3>1, <3>2
  <2>5. ASSUME NEW w \in DOMAIN deltas', author[w].kind = "explicit"
        PROVE  /\ journal'[author[w].op].state = "committed"
               /\ journal'[author[w].op].base + 1 = w
    <3>1. CASE w = v
      BY <1>9, <2>2, <2>3, <2>5, <3>1
    <3>2. CASE w \in DOMAIN deltas
      <4>1. /\ journal[author[w].op].state = "committed"
            /\ journal[author[w].op].base + 1 = w
            /\ author[w].op \in OpIds
        BY <2>5, <3>2 DEF EditorInv, ReceiptsHonest, AuthorInv
      <4>2. QED
        BY <1>9, <4>1
    <3>3. QED
      BY <2>1, <3>1, <3>2
  <2>6. QED
    BY <2>4, <2>5 DEF ReceiptsHonest
<1>14. RequestsInv'
  <2>1. \A r \in DOMAIN requests :
          /\ r[1] = "version" => r[2] <= v
          /\ r[1] = "commit" => journal'[r[2]].state = "committed"
          /\ r[1] = "snapshot" => r[2] <= latestVersion
    <3>1. ASSUME NEW r \in DOMAIN requests, r[1] = "version" PROVE r[2] <= v
      <4>1. r[2] \in Nat
        BY <3>1 DEF EditorInv, TypeOK
      <4>2. QED
        BY <1>1, <3>1, <4>1 DEF EditorInv, RequestsInv, v
    <3>2. ASSUME NEW r \in DOMAIN requests, r[1] = "commit"
          PROVE  journal'[r[2]].state = "committed"
      <4>1. r[2] \in OpIds
        BY <3>2 DEF EditorInv, TypeOK
      <4>2. QED
        BY <1>9, <3>2, <4>1 DEF EditorInv, RequestsInv, o
    <3>3. QED
      BY <3>1, <3>2 DEF EditorInv, RequestsInv
  <2>2. <<"snapshot", v>> \notin DOMAIN requests
    BY <1>1, <2>1 DEF v
  <2>3. \A r \in DOMAIN requests : r[1] = "snapshot" => r[2] <= v
    <3>1. \A r \in DOMAIN requests : r[1] = "snapshot" => r[2] \in Nat
      BY DEF EditorInv, TypeOK
    <3>2. QED
      BY <1>1, <2>1, <3>1 DEF v
  <2>4. QED
    BY <1>4, <1>5, <2>1, <2>2, <2>3 DEF RequestsInv, casVars
<1>15. HeldRoots' = HeldRoots
  <2>1. HeldRoots' = Acquired(pending) \cup
                     (IF pending.snapshot = NoDoc THEN latestSnapshotRoots ELSE {})
    BY <1>5, <1>7, <1>8 DEF HeldRoots, Acquired, RootsOf
  <2>2. CASE UpdateApplied
    BY <2>1, <2>2 DEF HeldRoots
  <2>3. CASE ~UpdateApplied /\ DOMAIN rootTransitionChanges(pending) = {}
    <3>1. Acquired(pending) = Released(pending)
      BY <2>3 DEF rootTransitionChanges
    <3>2. QED
      BY <2>1, <2>3, <3>1 DEF HeldRoots, Released
  <2>4. QED
    BY <1>2, <2>2, <2>3
<1>16. RootsHeld'
  <2>1. \A h : Count(h)' = Count(h)
    BY DEF Count, casVars
  <2>2. QED
    BY <1>15, <2>1 DEF EditorInv, RootsHeld
<1>17. /\ DOMAIN deltas' \subseteq Nat \ {0} /\ DOMAIN snapshots' \subseteq Nat \ {0}
       /\ \A w \in DOMAIN deltas : w \in DOMAIN deltas' /\ deltas'[w] = deltas[w]
  BY <1>1, <1>3, <1>7 DEF v
<1>18. \A p \in OpIds : /\ journal'[p].state \in {"none", "pending", "committed", "rejected"}
                        /\ journal[p].state # "none" => journal'[p].state # "none"
  BY <1>9 DEF EditorInv, TypeOK
<1>19. QED
  BY <1>1, <1>4, <1>5, <1>7, <1>9, <1>10, <1>11, <1>12, <1>13, <1>14, <1>15, <1>16, <1>17, <1>18
  DEF DurableInv, v

(* The final transaction during recovery, and at the end of a commit. *)
LEMMA FinalizersKeep ==
    ASSUME EditorInv, finalizeRecovered \/ finalizeCommitted
    PROVE  EditorInv'
<1>0. /\ req.at \in {"recovered", "settled"} /\ finalize
      /\ UNCHANGED <<casVars, author, boundVars, identity, loaded>>
  BY DEF finalizeRecovered, finalizeCommitted, finalize, memVars
<1>1. /\ DurableInv'
      /\ HasPending /\ ~HasPending'
      /\ latestVersion' = pending.version /\ pending.version = latestVersion + 1
      /\ latestSnapshotVersion' \in Nat
      /\ DOMAIN deltas' \subseteq Nat \ {0} /\ DOMAIN snapshots' \subseteq Nat \ {0}
      /\ DOMAIN journal' = OpIds
      /\ \A o \in OpIds :
           /\ journal'[o] = [state |-> journal'[o].state, base |-> journal'[o].base,
                             batch |-> journal'[o].batch]
           /\ journal'[o].state \in {"none", "pending", "committed", "rejected"}
           /\ journal'[o].base = journal[o].base /\ journal'[o].batch = journal[o].batch
           /\ journal[o].state # "none" => journal'[o].state # "none"
      /\ PendingIntents' \subseteq PendingIntents
      /\ pending' = NoPending
  BY <1>0, FinalizeKeeps
<1>2. latestVersion \in Nat /\ version \in Nat /\ version <= latestVersion
  BY DEF EditorInv, TypeOK, MemoryInv
<1>3. /\ DOMAIN author' \subseteq Nat \ {0}
      /\ pending'.version \in Nat /\ pending'.op \in OpIds \cup {NoOp}
      /\ \A o \in OpIds : journal'[o].base \in Nat
      /\ \A h \in DOMAIN roots' : roots'[h] \in Nat \ {0}
      /\ DOMAIN requests' \subseteq ({"version", "snapshot"} \X Nat) \cup ({"commit"} \X OpIds)
      /\ ensures' \in Nat /\ faults' \in Nat /\ identity' \in BOOLEAN /\ loaded' \in BOOLEAN
  BY <1>0, <1>1 DEF NoPending, EditorInv, TypeOK, casVars, boundVars
<1>4. CASE finalizeRecovered
  <2>1. /\ req.at = "recovered" /\ UNCHANGED memVars /\ req' = [req EXCEPT !.at = "recover"]
    BY <1>4 DEF finalizeRecovered
  <2>2. /\ req'.kind = req.kind /\ req'.op = req.op /\ req'.base = req.base
        /\ req'.arg = req.arg /\ req'.doc = req.doc /\ req'.at = "recover"
        /\ req' = [kind |-> req'.kind, op |-> req'.op, base |-> req'.base, arg |-> req'.arg,
                   doc |-> req'.doc, at |-> req'.at]
    BY <2>1, MoveTo DEF Steps
  <2>3. MemoryInv'
    BY <1>1, <1>2, <2>1 DEF EditorInv, MemoryInv, memVars
  <2>4. TypeOK'
    <3>1. /\ req'.kind \in Kinds /\ req'.at \in Steps /\ req'.op \in OpIds \cup {NoOp}
          /\ req'.base \in Nat
      BY <2>2 DEF EditorInv, TypeOK, Steps
    <3>2. version' \in Nat /\ latestVersion' \in Nat
      BY <1>1, <1>2, <2>1 DEF memVars
    <3>3. QED
      BY <1>1, <1>3, <2>2, <3>1, <3>2 DEF TypeOK
  <2>5. HandlerInv'
    BY <1>0, <1>1, <2>1, <2>2 DEF EditorInv, HandlerInv
  <2>6. QED
    BY <1>1, <2>3, <2>4, <2>5 DEF EditorInv, DurableInv
<1>5. CASE finalizeCommitted
  <2>1. version' = pending.version /\ req' = Idle
    BY <1>5 DEF finalizeCommitted
  <2>2. MemoryInv'
    BY <1>1, <1>2, <2>1 DEF MemoryInv
  <2>3. TypeOK'
    <3>1. /\ Idle = [kind |-> Idle.kind, op |-> Idle.op, base |-> Idle.base, arg |-> Idle.arg,
                     doc |-> Idle.doc, at |-> Idle.at]
          /\ Idle.kind \in Kinds /\ Idle.at \in Steps /\ Idle.op \in OpIds \cup {NoOp}
          /\ Idle.base \in Nat
      BY DEF Idle, Kinds, Steps
    <3>2. version' \in Nat /\ latestVersion' \in Nat
      BY <1>1, <1>2, <2>1
    <3>3. QED
      BY <1>1, <1>3, <2>1, <3>1, <3>2 DEF TypeOK
  <2>4. HandlerInv'
    BY <2>1 DEF HandlerInv, Idle
  <2>5. QED
    BY <1>1, <2>2, <2>3, <2>4 DEF EditorInv, DurableInv
<1>6. QED
  BY <1>4, <1>5

--------------------------------------------------------------------------------
(* The theorems *)

(* A session without tables, memory or roots. *)
LEMMA InitInv == Init => EditorInv
<1> SUFFICES ASSUME Init PROVE EditorInv
  OBVIOUS
<1>1. DOMAIN deltas = {} /\ DOMAIN snapshots = {} /\ DOMAIN author = {}
      /\ DOMAIN requests = {} /\ DOMAIN roots = {}
  BY DEF Init
<1>2. latestVersion = 0 /\ latestSnapshotVersion = 0
  BY <1>1 DEF latestVersion, latestSnapshotVersion, Newest
<1>3. ~HasPending /\ PendingIntents = {} /\ ~UpdateApplied
  BY DEF Init, NoPending, NoIntent, HasPending, PendingIntents, UpdateApplied
<1>4. TypeOK
  BY <1>1, <1>2 DEF Init, TypeOK, NoPending, NoIntent, Idle, Kinds, Steps
<1>5. OutboxInv /\ MemoryInv
  BY <1>1, <1>2, <1>3 DEF Init, OutboxInv, MemoryInv
<1>6. HandlerInv
  BY DEF Init, HandlerInv, Idle
<1>7. RequestsInv /\ AuthorInv /\ ReceiptsHonest
  BY <1>1, <1>3 DEF Init, RequestsInv, AuthorInv, ReceiptsHonest, NoIntent
<1>8. RootsHeld
  BY <1>2, <1>3 DEF RootsHeld, HeldRoots, latestDeltaRoots, latestSnapshotRoots
<1>9. QED
  BY <1>4, <1>5, <1>6, <1>7, <1>8 DEF EditorInv

(* Every action of the session keeps the invariant. *)
LEMMA StepKeeps == EditorInv /\ [Next]_vars => EditorInv'
<1> SUFFICES ASSUME EditorInv, [Next]_vars PROVE EditorInv'
  OBVIOUS
<1> USE BoundAssumption
<1>1. CASE Arrive
  <2>1. ASSUME NEW o \in OpIds, NEW base \in 1 .. MaxVersion, NEW b \in Batches,
               applyExplicit(o, base, b)
        PROVE  EditorInv'
    <3>1. base \in Nat
      OBVIOUS
    <3>2. QED
      BY <2>1, <3>1, ExplicitKeeps
  <2>2. QED
    BY <1>1, <2>1, ArriveKeeps
<1>2. CASE Handle
  BY <1>2, SettleKeeps, FinalizersKeep, QuietKeeps, CommittersKeep, RejectKeeps, SnapshotKeeps
  DEF Handle
<1>3. CASE RequestFails \/ Restart
  BY <1>3, QuietKeeps
<1>4. CASE AnswerLost
  BY <1>4, AnswerLostKeeps
<1>5. CASE ApplyBreaks
  BY <1>5, RejectKeeps
<1>6. CASE UNCHANGED vars
  <2>1. UNCHANGED <<dbVars, memVars, casVars, req, author, boundVars>>
    BY <1>6 DEF vars
  <2>2. /\ DurableInv' /\ latestVersion' = latestVersion
        /\ latestSnapshotVersion' = latestSnapshotVersion
        /\ HasPending' = HasPending /\ UpdateApplied' = UpdateApplied
        /\ PendingIntents' = PendingIntents
        /\ rootTransitionChanges(pending)' = rootTransitionChanges(pending)
        /\ \A h : Count(h)' = Count(h)
    BY <2>1, DurableSame DEF EditorInv, DurableInv
  <2>3. Count(SnapshotRoot(doc))' = Count(SnapshotRoot(doc))
    BY <2>1 DEF Count, SnapshotRoot, casVars, memVars
  <2>4. TypeOK'
    BY <2>1, <2>2 DEF EditorInv, TypeOK, dbVars, memVars, casVars, boundVars
  <2>5. MemoryInv'
    BY <2>1, <2>2 DEF EditorInv, MemoryInv, memVars
  <2>6. HandlerInv'
    BY <2>1, <2>2, <2>3 DEF EditorInv, HandlerInv, dbVars, memVars
  <2>7. QED
    BY <2>2, <2>4, <2>5, <2>6 DEF EditorInv, DurableInv
<1>7. QED
  BY <1>1, <1>2, <1>3, <1>4, <1>5, <1>6 DEF Next

(* EditorInv holds in every reachable state: through restarts, failed calls *)
(* and lost answers between the pending row, the store and the final        *)
(* transaction (#commit, #settlePending, #recoverPending), the log has no   *)
(* gaps, the outbox holds at most its next version, and the newest delta    *)
(* and snapshot stay referenced in the store.                               *)
THEOREM EditorCorrect == Spec => []EditorInv
BY InitInv, StepKeeps, PTL DEF Spec

(* A receipt is never wrong: an intent says "committed" exactly when the    *)
(* version after its base carries its operations (SqliteCommitJournal       *)
(* .settle inside the transaction of #settlePending), and a rejected intent *)
(* never becomes a version.                                                 *)
THEOREM ReceiptsTrue == Spec => []ReceiptsHonest
<1>1. EditorInv => ReceiptsHonest
  BY DEF EditorInv
<1>2. QED
  BY <1>1, EditorCorrect, PTL

(* The pending row never becomes one that #settlePending would refuse or    *)
(* the store would reject, so the outbox cannot block the session for ever. *)
THEOREM PendingAlwaysSettles == Spec => []PendingSettleable
<1>1. EditorInv => PendingSettleable
  <2> SUFFICES ASSUME EditorInv, HasPending
               PROVE  /\ IntentMatches(pending)
                      /\ UpdateAccepted(RequestId(pending), rootTransitionChanges(pending))
    BY DEF PendingSettleable
  <2> DEFINE changes == rootTransitionChanges(pending)
             id == RequestId(pending)
  <2>1. IntentMatches(pending)
    BY DEF EditorInv, OutboxInv
  <2>2. CASE id \in DOMAIN requests
    <3>1. UpdateApplied
      BY <2>2 DEF UpdateApplied
    <3>2. requests[id] = changes
      BY <3>1 DEF EditorInv, RequestsInv
    <3> HIDE DEF id, changes
    <3>3. UpdateAccepted(id, changes)
      BY <2>2, <3>2 DEF UpdateAccepted
    <3>4. QED
      BY <2>1, <3>3 DEF id, changes
  <2>3. CASE id \notin DOMAIN requests
    <3>1. \A h \in latestDeltaRoots \cup latestSnapshotRoots : Count(h) >= 1
      BY <2>3 DEF EditorInv, RootsHeld, HeldRoots, UpdateApplied
    <3>2. \A h : Count(h) \in Nat
      BY CountType DEF EditorInv
    <3>3. Released(pending) \subseteq latestDeltaRoots \cup latestSnapshotRoots
      BY DEF Released
    <3>4. \A h \in DOMAIN changes : changes[h] = 1 \/ (changes[h] = -1 /\ h \in Released(pending))
      <4>1. changes = [h \in (Acquired(pending) \ Released(pending))
                             \cup (Released(pending) \ Acquired(pending)) |->
                         IF h \in Acquired(pending) THEN 1 ELSE -1]
        BY DEF rootTransitionChanges
      <4> HIDE DEF changes
      <4>2. ASSUME NEW h \in DOMAIN changes
            PROVE  changes[h] = 1 \/ (changes[h] = -1 /\ h \in Released(pending))
        <5>1. CASE h \in Acquired(pending)
          BY <4>1, <5>1
        <5>2. CASE h \notin Acquired(pending)
          BY <4>1, <5>2
        <5>3. QED
          BY <5>1, <5>2
      <4>3. QED
        BY <4>2
    <3> HIDE DEF id, changes
    <3>5. \A h \in DOMAIN changes : Count(h) + changes[h] >= 0
      BY <3>1, <3>2, <3>3, <3>4
    <3>6. UpdateAccepted(id, changes)
      BY <2>3, <3>5 DEF UpdateAccepted
    <3>7. QED
      BY <2>1, <3>6 DEF id, changes
  <2>4. QED
    BY <2>2, <2>3
<1>2. QED
  BY <1>1, EditorCorrect, PTL

(* The receipt of an operation is its row of the journal. *)
LEMMA ReceiptRow ==
    \A o \in OpIds : /\ Receipts[o].state = journal[o].state
                     /\ Receipts[o].base = journal[o].base
                     /\ Receipts[o].row = ApplyDelta(journal[o].batch)
                     /\ Receipts'[o].state = journal'[o].state
BY DEF Receipts

(* The final transaction is a plain write, or commits the one pending intent. *)
LEMMA FinalizeCommits ==
    ASSUME EditorInv, req.at \in {"recovered", "settled"}, finalize,
           UNCHANGED <<casVars, author>>
    PROVE  Promise!AbsNext
<1> DEFINE v == pending.version
           o == pending.op
<1>1. /\ HasPending /\ v = latestVersion + 1 /\ latestVersion \in Nat
      /\ IntentMatches(pending) /\ DOMAIN deltas = 1 .. latestVersion
      /\ o \in OpIds \cup {NoOp} /\ (o = NoOp => PendingIntents = {})
  BY DEF EditorInv, HandlerInv, OutboxInv, TypeOK
<1>2. /\ DOMAIN deltas' = 1 .. v /\ deltas'[v] = pending.delta
      /\ \A w \in DOMAIN deltas : deltas'[w] = deltas[w]
  BY <1>1 DEF finalize, With
<1>3. latestVersion = v - 1 /\ v \in Nat /\ v \in DOMAIN deltas'
  BY <1>1, <1>2
<1>4. Promise!Extends(v)
  BY <1>1, <1>2, <1>3 DEF Promise!Extends
<1>5. CASE o = NoOp
  <2>1. journal' = journal
    BY <1>5 DEF finalize
  <2>2. Receipts' = Receipts
    BY <2>1 DEF Receipts
  <2>3. \A p \in OpIds : Receipts[p].state = journal[p].state
    BY ReceiptRow
  <2>4. Promise!Undecided = {}
    BY <1>1, <1>5, <2>3 DEF Promise!Undecided, PendingIntents
  <2>5. Promise!Write
    BY <1>3, <1>4, <2>2, <2>4 DEF Promise!Write
  <2>6. QED
    BY <2>5 DEF Promise!AbsNext
<1>6. CASE o # NoOp
  <2>1. o \in OpIds
    BY <1>1, <1>6
  <2>2. /\ journal[o].state = "pending" /\ journal[o].base + 1 = v
        /\ ApplyDelta(journal[o].batch) = pending.delta
    BY <1>1, <1>6 DEF IntentMatches
  <2>3. journal' = [journal EXCEPT ![o].state = "committed"]
    BY <1>6 DEF finalize
  <2>4. Receipts' = [Receipts EXCEPT ![o].state = "committed"]
    BY <2>1, <2>3 DEF EditorInv, TypeOK, Receipts
  <2>5. Receipts[o].state = "pending" /\ Receipts[o].base + 1 = v /\ Receipts[o].row = pending.delta
    BY <2>1, <2>2, ReceiptRow
  <2>6. Promise!Commit(o)
    BY <1>2, <1>4, <2>1, <2>4, <2>5 DEF Promise!Commit, Promise!Undecided, Promise!Becomes
  <2>7. QED
    BY <2>1, <2>6 DEF Promise!AbsNext
<1>7. QED
  BY <1>5, <1>6

(* An intent is registered when none is pending. *)
LEMMA BeginRegisters ==
    ASSUME EditorInv, NEW o \in OpIds, NEW base \in Nat, NEW b, begin(o, base, b), UNCHANGED deltas
    PROVE  Promise!AbsNext \/ UNCHANGED Promise!absVars
<1>1. CASE UNCHANGED journal
  BY <1>1 DEF Promise!absVars, Receipts
<1> DEFINE intent == [state |-> "pending", base |-> base, batch |-> b]
<1>2. CASE journal[o].state = "none" /\ PendingIntents = {} /\ journal' = [journal EXCEPT ![o] = intent]
  <2>1. DOMAIN journal = OpIds
    BY DEF EditorInv, TypeOK
  <2>2. journal'[o] = intent /\ \A p \in OpIds \ {o} : journal'[p] = journal[p]
    BY <1>2, <2>1
  <2>3. Receipts' = [Receipts EXCEPT ![o] = Receipts'[o]]
    BY <2>2 DEF Receipts
  <2>4. Receipts'[o].state = "pending" /\ Receipts[o].state = "none"
    BY <1>2, <2>2, ReceiptRow
  <2>5. \A p \in OpIds : Receipts[p].state = journal[p].state
    BY ReceiptRow
  <2>6. Promise!Undecided = {}
    BY <1>2, <2>5 DEF Promise!Undecided, PendingIntents
  <2>7. Promise!Register(o)
    BY <2>3, <2>4, <2>6 DEF Promise!Register
  <2>8. QED
    BY <2>7 DEF Promise!AbsNext
<1>3. QED
  BY <1>1, <1>2 DEF begin

(* A rejection decides a pending intent. *)
LEMMA RejectDecides ==
    ASSUME EditorInv, NEW o \in OpIds, journal[o].state = "pending", UNCHANGED deltas,
           journal' = [journal EXCEPT ![o].state = "rejected"]
    PROVE  Promise!AbsNext
<1>1. Receipts' = [Receipts EXCEPT ![o].state = "rejected"]
  BY DEF EditorInv, TypeOK, Receipts
<1>2. Receipts[o].state = "pending"
  BY ReceiptRow
<1>3. Promise!Reject(o)
  BY <1>1, <1>2 DEF Promise!Reject, Promise!Undecided, Promise!Becomes
<1>4. QED
  BY <1>3 DEF Promise!AbsNext

(* Every step is a step of the log of commits or changes nothing there. *)
LEMMA PromiseStep ==
    ASSUME EditorInv, [Next]_vars
    PROVE  Promise!AbsNext \/ UNCHANGED Promise!absVars
<1>1. CASE UNCHANGED <<deltas, journal>>
  BY <1>1 DEF Promise!absVars, Receipts
<1>2. CASE finalizeRecovered \/ finalizeCommitted
  <2>1. /\ req.at \in {"recovered", "settled"} /\ finalize
        /\ UNCHANGED <<casVars, author>>
    BY <1>2 DEF finalizeRecovered, finalizeCommitted
  <2>2. QED
    BY <2>1, FinalizeCommits
<1>3. ASSUME NEW o \in OpIds, NEW base \in 1 .. MaxVersion, NEW b \in Batches, applyExplicit(o, base, b)
      PROVE  Promise!AbsNext \/ UNCHANGED Promise!absVars
  <2>1. begin(o, base, b) /\ UNCHANGED deltas /\ base \in Nat
    BY <1>3, BoundAssumption DEF applyExplicit
  <2>2. QED
    BY <2>1, BeginRegisters
<1>4. CASE rejectExplicit \/ ApplyBreaks
  <2>1. /\ req.kind = "explicit" /\ journal[req.op].state = "pending" /\ UNCHANGED deltas
        /\ journal' = [journal EXCEPT ![req.op].state = "rejected"]
    BY <1>4 DEF rejectExplicit, ApplyBreaks, Handling
  <2>2. req.op \in OpIds
    BY <2>1 DEF EditorInv, HandlerInv
  <2>3. QED
    BY <2>1, <2>2, RejectDecides
<1>5. Arrive => \/ UNCHANGED <<deltas, journal>>
                \/ \E o \in OpIds, base \in 1 .. MaxVersion, b \in Batches : applyExplicit(o, base, b)
  BY DEF Arrive, ReadDocument, Create, ApplyRequest, RollbackRequest, SnapshotRequest,
         BlobRequest, Write, commitRecover, dbVars
<1>6. RequestFails \/ AnswerLost \/ Restart => UNCHANGED <<deltas, journal>>
  BY DEF RequestFails, AnswerLost, Restart, dbVars
<1>7. \/ settlePending \/ recoverPending \/ storeIdentity \/ commitCreated \/ apply
      \/ rollback \/ commitExplicit \/ retainSnapshot \/ recordSnapshot \/ AnswerOnly
      => UNCHANGED <<deltas, journal>>
  BY DEF settlePending, recoverPending, storeIdentity, commitCreated, apply, rollback,
         commitExplicit, retainSnapshot, recordSnapshot, AnswerOnly, dbVars
<1>8. UNCHANGED vars => UNCHANGED <<deltas, journal>>
  BY DEF vars, dbVars
<1>9. QED
  BY <1>1, <1>2, <1>3, <1>4, <1>5, <1>6, <1>7, <1>8 DEF Next, Handle

(* The session implements the log of commits, for every number of versions,  *)
(* opIds, failures and restarts: the outbox, its recovery and the journal    *)
(* together make an explicit commit one atomic decision (#commit,            *)
(* #settlePending, #resumeExplicit).                                         *)
THEOREM CommitLogImplemented == Spec => KeepsCommitLog
<1>1. Init => Promise!AbsInit
  <2>1. Init => \A o \in OpIds : Receipts[o].state = "none"
    BY ReceiptRow DEF Init, NoIntent
  <2>2. QED
    BY <2>1 DEF Init, Promise!AbsInit
<1>2. EditorInv /\ [Next]_vars => [Promise!AbsNext]_(Promise!absVars)
  BY PromiseStep
<1>3. QED
  BY <1>1, <1>2, EditorCorrect, PTL DEF Spec, KeepsCommitLog, Promise!AbsSpec

--------------------------------------------------------------------------------
(* Sessions whose snapshot route is not used *)

(* Exactly the roots of the pending row are held once the store moved them. *)
LEMMA MoveRootsExact ==
    ASSUME EditorInv, HasPending, RootsExact, moveRoots, UNCHANGED <<dbVars, author>>
    PROVE  RootsExact'
<1> DEFINE changes == rootTransitionChanges(pending)
           id == RequestId(pending)
           kept == IF pending.snapshot = NoDoc THEN latestSnapshotRoots ELSE {}
<1>1. CASE UNCHANGED casVars
  <2>1. HeldRoots' = HeldRoots
    BY <1>1, JournalOnly DEF dbVars
  <2>2. QED
    BY <1>1, <2>1 DEF RootsExact, casVars
<1>2. CASE updateRootRefs(id, changes) /\ id \notin DOMAIN requests
  <2>1. roots' = [h \in {g \in DOMAIN roots \cup DOMAIN changes :
                           Count(g) + Change(changes, g) > 0}
                    |-> Count(h) + Change(changes, h)]
    BY <1>2 DEF updateRootRefs
  <2>2. HeldRoots = Released(pending) \cup kept
    BY <1>2 DEF HeldRoots, UpdateApplied, Released
  <2>3. HeldRoots' = Acquired(pending) \cup kept
    <3>1. id \in DOMAIN requests'
      BY <1>2 DEF updateRootRefs
    <3>2. UpdateApplied'
      BY <3>1 DEF UpdateApplied, HasPending, RequestId, dbVars
    <3>3. /\ Acquired(pending)' = Acquired(pending) /\ pending' = pending
          /\ latestSnapshotRoots' = latestSnapshotRoots
      BY DEF Acquired, latestSnapshotRoots, latestSnapshotVersion, dbVars
    <3>4. QED
      BY <3>2, <3>3 DEF HeldRoots
  <2>4. \A h \in kept : h \notin Acquired(pending) /\ h \notin Released(pending)
    <3>1. \A h \in latestSnapshotRoots : h.kind = "snapshot"
      BY DEF latestSnapshotRoots, SnapshotRoot
    <3>2. pending.delta.kind # "snapshot"
      BY DEF EditorInv, OutboxInv
    <3>3. \A g \in latestDeltaRoots : g.kind # "snapshot"
      BY DEF latestDeltaRoots, EditorInv, OutboxInv, TypeOK
    <3>4. QED
      BY <3>1, <3>2, <3>3 DEF Acquired, Released, RootsOf
  <2>5. \A h : Count(h) = IF h \in Released(pending) \cup kept THEN 1 ELSE 0
    BY <2>2 DEF RootsExact, Count
  <2>6. \A h : Change(changes, h) = IF h \in Acquired(pending) \ Released(pending) THEN 1
                                    ELSE IF h \in Released(pending) \ Acquired(pending) THEN -1
                                    ELSE 0
    BY DEF rootTransitionChanges, Change
  <2>7. DOMAIN roots = Released(pending) \cup kept
    BY <2>2 DEF RootsExact
  <2>8. DOMAIN changes = (Acquired(pending) \ Released(pending))
                           \cup (Released(pending) \ Acquired(pending))
    BY DEF rootTransitionChanges
  <2> HIDE DEF changes, id, kept
  <2>9. \A h : Count(h) + Change(changes, h) = IF h \in Acquired(pending) \cup kept THEN 1 ELSE 0
    <3>1. ASSUME NEW h
          PROVE  Count(h) + Change(changes, h) = IF h \in Acquired(pending) \cup kept THEN 1 ELSE 0
      <4>1. CASE h \in kept
        BY <2>4, <2>5, <2>6, <4>1
      <4>2. CASE h \notin kept
        BY <2>5, <2>6, <4>2
      <4>3. QED
        BY <4>1, <4>2
    <3>2. QED
      BY <3>1
  <2>10. {g \in DOMAIN roots \cup DOMAIN changes : Count(g) + Change(changes, g) > 0}
           = Acquired(pending) \cup kept
    BY <2>7, <2>8, <2>9
  <2>11. roots' = [h \in Acquired(pending) \cup kept |-> 1]
    BY <2>1, <2>9, <2>10
  <2>12. QED
    BY <2>3, <2>11 DEF RootsExact
<1>3. QED
  BY <1>1, <1>2 DEF moveRoots, updateRootRefs

(* As long as the snapshot route has retained nothing, the session holds    *)
(* its newest delta and its newest snapshot once each and nothing else: no  *)
(* commit, rollback, recovery, failed or repeated root update leaks a       *)
(* reference (rootTransitionChanges).                                       *)
THEOREM RootsNeverLeak == Spec => []RootsExactUntilEnsured
<1> DEFINE ExactInv == /\ Ensured \/ RootsExact
                       /\ req.at = "retained" => Ensured
<1>1. Init => ExactInv
  <2> SUFFICES ASSUME Init PROVE ExactInv
    OBVIOUS
  <2>1. latestVersion = 0 /\ latestSnapshotVersion = 0 /\ ~HasPending
    BY DEF Init, latestVersion, latestSnapshotVersion, Newest, HasPending, NoPending
  <2>2. HeldRoots = {}
    BY <2>1 DEF HeldRoots, UpdateApplied, latestDeltaRoots, latestSnapshotRoots
  <2>3. roots = [h \in HeldRoots |-> 1]
    BY <2>2 DEF Init
  <2>4. QED
    BY <2>3 DEF Init, Idle, RootsExact
<1>2. EditorInv /\ ExactInv /\ [Next]_vars => ExactInv'
  <2> SUFFICES ASSUME EditorInv, ExactInv, [Next]_vars
               PROVE  ExactInv'
    OBVIOUS
  <2>1. ASSUME NEW id, NEW changes, updateRootRefs(id, changes)
        PROVE  DOMAIN requests \subseteq DOMAIN requests' /\ id \in DOMAIN requests'
    BY <2>1 DEF updateRootRefs, casVars
  <2>2. DOMAIN requests \subseteq DOMAIN requests'
    <3>1. CASE settlePending \/ AnswerLost
      BY <2>1, <3>1 DEF settlePending, AnswerLost, moveRoots, casVars
    <3>2. CASE retainSnapshot
      BY <2>1, <3>2 DEF retainSnapshot
    <3>3. CASE UNCHANGED casVars
      BY <3>3 DEF casVars
    <3>4. UNCHANGED casVars \/ settlePending \/ AnswerLost \/ retainSnapshot
      BY DEF Next, Arrive, Handle, ReadDocument, Create, ApplyRequest, RollbackRequest,
             SnapshotRequest, BlobRequest, Write, applyExplicit, commitRecover,
             finalizeRecovered, finalizeCommitted, commitCreated, apply, rollback, rejectExplicit,
             commitExplicit, recoverPending, storeIdentity, recordSnapshot, AnswerOnly,
             RequestFails, ApplyBreaks, Restart, vars
    <3>5. QED
      BY <3>1, <3>2, <3>3, <3>4
  <2>3. CASE Ensured
    BY <2>2, <2>3 DEF Ensured
  <2>4. CASE retainSnapshot
    <3>1. <<"snapshot", version>> \in DOMAIN requests'
      BY <2>1, <2>4 DEF retainSnapshot
    <3>2. QED
      BY <3>1 DEF Ensured
  <2>5. ASSUME ~Ensured, ~Ensured', ~retainSnapshot
        PROVE  RootsExact' /\ req'.at # "retained"
    <3>1. RootsExact /\ req.at # "retained"
      BY <2>5
    <3>2. ASSUME HeldRoots' = HeldRoots, UNCHANGED casVars PROVE RootsExact'
      BY <3>1, <3>2 DEF RootsExact, casVars
    <3>3. ASSUME UNCHANGED <<deltas, snapshots, pending, casVars>> PROVE RootsExact'
      BY <3>2, <3>3, JournalOnly
    <3>4. ASSUME NEW at \in Steps, req' = [req EXCEPT !.at = at] PROVE req'.at = at
      BY <3>4, MoveTo
    <3>5. Idle.at # "retained"
      BY DEF Idle
    <3>6. CASE Arrive
      <4>1. UNCHANGED <<deltas, snapshots, pending, casVars>>
        BY <3>6 DEF Arrive, ReadDocument, Create, ApplyRequest, RollbackRequest, SnapshotRequest,
                    BlobRequest, Write, applyExplicit, commitRecover, dbVars
      <4>2. req'.at # "retained"
        BY <3>1, <3>6 DEF Arrive, ReadDocument, Create, ApplyRequest, RollbackRequest,
                    SnapshotRequest, BlobRequest, Write, applyExplicit, commitRecover, Take
      <4>3. QED
        BY <3>3, <4>1, <4>2
    <3>7. CASE settlePending
      <4>1. req'.at # "retained"
        BY <3>4, <3>7 DEF settlePending, Steps
      <4>2. QED
        BY <3>1, <3>7, <4>1, MoveRootsExact DEF settlePending
    <3>8. CASE finalizeRecovered \/ finalizeCommitted
      <4>1. /\ req.at \in {"recovered", "settled"} /\ finalize
            /\ UNCHANGED <<casVars, author>>
        BY <3>8 DEF finalizeRecovered, finalizeCommitted
      <4>2. HeldRoots' = HeldRoots
        BY <4>1, FinalizeKeeps
      <4>3. req'.at # "retained"
        BY <3>4, <3>5, <3>8 DEF finalizeRecovered, finalizeCommitted, Steps
      <4>4. QED
        BY <3>2, <4>1, <4>2, <4>3
    <3>9. CASE commitCreated \/ apply \/ rollback \/ commitExplicit
      <4>1. HeldRoots' = HeldRoots /\ UNCHANGED casVars
        BY <3>9, CommittersKeep DEF commitCreated, apply, rollback, commitExplicit
      <4>2. \E d : req' = [req EXCEPT !.doc = d, !.at = "settle"]
        BY <3>9 DEF commitCreated, apply, rollback, commitExplicit, commit
      <4>3. req'.at # "retained"
        <5> DEFINE r == [kind |-> req.kind, op |-> req.op, base |-> req.base, arg |-> req.arg,
                         doc |-> req.doc, at |-> req.at]
        <5>1. req = r
          BY DEF EditorInv, TypeOK
        <5>2. \E d : req' = [r EXCEPT !.doc = d, !.at = "settle"]
          BY <4>2, <5>1
        <5>3. QED
          BY <5>2
      <4>4. QED
        BY <3>2, <4>1, <4>3
    <3>10. CASE recoverPending \/ storeIdentity
      <4>1. UNCHANGED <<deltas, snapshots, pending, casVars>>
        BY <3>10 DEF recoverPending, storeIdentity, dbVars
      <4>2. req'.at # "retained"
        BY <3>4, <3>10 DEF recoverPending, storeIdentity, Steps
      <4>3. QED
        BY <3>3, <4>1, <4>2
    <3>11. CASE rejectExplicit \/ AnswerOnly \/ RequestFails \/ ApplyBreaks \/ Restart
      <4>1. UNCHANGED <<deltas, snapshots, pending, casVars>> /\ req' = Idle
        BY <3>11 DEF rejectExplicit, AnswerOnly, RequestFails, ApplyBreaks, Restart, EndWithError,
                     dbVars
      <4>2. QED
        BY <3>3, <3>5, <4>1
    <3>12. ~recordSnapshot
      BY <3>1 DEF recordSnapshot
    <3>13. CASE AnswerLost
      <4>1. req.at \in {"recover", "settle"} /\ HasPending /\ moveRoots
        BY <2>1, <2>5, <3>13 DEF AnswerLost, Ensured
      <4>2. UNCHANGED <<dbVars, author>> /\ req' = Idle
        BY <3>13 DEF AnswerLost, EndWithError
      <4>3. QED
        BY <3>1, <3>5, <4>1, <4>2, MoveRootsExact
    <3>14. CASE UNCHANGED vars
      BY <3>1, <3>3, <3>14 DEF vars, dbVars
    <3>15. QED
      BY <2>5, <3>6, <3>7, <3>8, <3>9, <3>10, <3>11, <3>12, <3>13, <3>14 DEF Next, Handle
  <2>6. ASSUME ~Ensured, Ensured' PROVE ExactInv'
    BY <2>6
  <2>7. QED
    BY <2>3, <2>4, <2>5, <2>6
<1>3. ExactInv => RootsExactUntilEnsured
  BY DEF RootsExactUntilEnsured
<1> HIDE DEF ExactInv
<1>4. QED
  BY <1>1, <1>2, <1>3, EditorCorrect, PTL DEF Spec

--------------------------------------------------------------------------------
(* Remembered opIds *)

(* A remembered opId names its own version, and the version that is being    *)
(* committed has the request as its author.                                  *)
RecentInv ==
    /\ recentOps \in Seq([op : OpIds, version : Nat])
    /\ RecentOpsHonest
    /\ req.at \in {"settle", "settled"} =>
         author[pending.version] = [kind |-> req.kind, op |-> req.op]

(* The steps that neither commit nor finish a version leave the log, its     *)
(* authors and the outbox alone, and do not enter the middle of a commit.    *)
QuietSteps ==
    \/ Arrive \/ recoverPending \/ storeIdentity \/ rejectExplicit \/ retainSnapshot
    \/ recordSnapshot \/ AnswerOnly \/ RequestFails \/ AnswerLost \/ ApplyBreaks

CommitSteps == commitCreated \/ apply \/ rollback \/ commitExplicit

(* What the quiet steps leave alone. *)
LEMMA QuietLog ==
    ASSUME EditorInv, QuietSteps
    PROVE  /\ UNCHANGED <<deltas, pending, author, recentOps>>
           /\ req' = req \/ req'.at \notin {"settle", "settled"}
<1>1. CASE Arrive
  BY <1>1 DEF Arrive, ReadDocument, Create, ApplyRequest, RollbackRequest, SnapshotRequest,
           BlobRequest, Write, applyExplicit, commitRecover, dbVars, Take, ensureLoaded
<1>2. CASE recoverPending \/ storeIdentity \/ retainSnapshot
  <2>1. req' = [req EXCEPT !.at = req'.at] /\ req'.at \in {"handle", "create", "retained"}
    BY <1>2 DEF EditorInv, TypeOK, recoverPending, storeIdentity, retainSnapshot
  <2>2. QED
    BY <1>2, <2>1 DEF recoverPending, storeIdentity, retainSnapshot, dbVars, memVars
<1>3. CASE rejectExplicit \/ recordSnapshot \/ AnswerOnly \/ ApplyBreaks
  BY <1>3 DEF rejectExplicit, recordSnapshot, AnswerOnly, ApplyBreaks, dbVars, memVars, Idle
<1>4. CASE RequestFails \/ AnswerLost
  BY <1>4 DEF RequestFails, AnswerLost, EndWithError, dbVars, memVars, Idle
<1>5. QED
  BY <1>1, <1>2, <1>3, <1>4 DEF QuietSteps

(* A commit writes the pending row of the version after the log's last.      *)
LEMMA CommitWrites ==
    ASSUME EditorInv, CommitSteps
    PROVE  /\ UNCHANGED <<deltas, snapshots, journal, recentOps, version, doc>>
           /\ pending'.version = latestVersion + 1
           /\ author' = With(author, latestVersion + 1, [kind |-> req.kind, op |-> req.op])
           /\ req'.at = "settle" /\ req'.kind = req.kind /\ req'.op = req.op
           /\ req'.arg = req.arg
           /\ ~HasPending /\ version = latestVersion
<1>1. PICK d, delta, force, op : commit(d, delta, force, op)
  BY DEF CommitSteps, commitCreated, apply, rollback, commitExplicit
<1>2. UNCHANGED <<deltas, snapshots, journal, recentOps, version, doc>>
  BY DEF CommitSteps, commitCreated, apply, rollback, commitExplicit, memVars
<1>3. req.at \in {"handle", "create"}
  BY DEF CommitSteps, commitCreated, apply, rollback, commitExplicit, Handling
<1>4. ~HasPending /\ version = latestVersion
  BY <1>3 DEF EditorInv, HandlerInv
<1>5. req = [kind |-> req.kind, op |-> req.op, base |-> req.base, arg |-> req.arg,
             doc |-> req.doc, at |-> req.at]
  BY DEF EditorInv, TypeOK
<1>6. req'.at = "settle" /\ req'.kind = req.kind /\ req'.op = req.op /\ req'.arg = req.arg
  BY <1>1, <1>5 DEF commit
<1>7. QED
  BY <1>1, <1>2, <1>4, <1>6 DEF commit

(* Every step preserves RecentInv. *)
LEMMA RecentStep == EditorInv /\ RecentInv /\ [Next]_vars => RecentInv'
<1> SUFFICES ASSUME EditorInv, RecentInv, [Next]_vars PROVE RecentInv'
  OBVIOUS
<1>0. recentOps \in Seq([op : OpIds, version : Nat]) /\ RecentOpsHonest
  BY DEF RecentInv
<1>1. CASE QuietSteps \/ UNCHANGED vars
  <2>1. /\ UNCHANGED <<deltas, pending, author, recentOps>>
        /\ req' = req \/ req'.at \notin {"settle", "settled"}
    BY <1>1, QuietLog DEF vars, dbVars, memVars
  <2>2. QED
    BY <2>1 DEF RecentInv, RecentOpsHonest
<1>2. CASE CommitSteps
  <2>1. /\ UNCHANGED <<deltas, recentOps>>
        /\ pending'.version = latestVersion + 1
        /\ author' = With(author, latestVersion + 1, [kind |-> req.kind, op |-> req.op])
        /\ req'.kind = req.kind /\ req'.op = req.op
    BY <1>2, CommitWrites
  <2>2. DOMAIN deltas = 1 .. latestVersion /\ latestVersion \in Nat /\ DOMAIN deltas \subseteq DOMAIN author
    BY DEF EditorInv, OutboxInv, TypeOK, AuthorInv
  <2>3. \A v \in DOMAIN deltas : author'[v] = author[v]
    BY <2>1, <2>2 DEF With
  <2>4. author'[pending'.version] = [kind |-> req'.kind, op |-> req'.op]
    BY <2>1 DEF With
  <2>5. RecentOpsHonest'
    BY <1>0, <2>1, <2>3 DEF RecentOpsHonest
  <2>6. QED
    BY <1>0, <2>1, <2>4, <2>5 DEF RecentInv
<1>3. CASE settlePending
  <2>1. /\ UNCHANGED <<deltas, pending, author, recentOps>>
        /\ req'.kind = req.kind /\ req'.op = req.op
        /\ req'.at \in {"settle", "settled"} => req.at = "settle"
    BY <1>3 DEF settlePending, dbVars, memVars, EditorInv, TypeOK
  <2>2. QED
    BY <2>1 DEF RecentInv, RecentOpsHonest
<1>4. CASE finalizeRecovered \/ finalizeCommitted
  <2>1. /\ req.at \in {"recovered", "settled"} /\ finalize
        /\ UNCHANGED <<casVars, author>>
    BY <1>4 DEF finalizeRecovered, finalizeCommitted
  <2>2. \A v \in DOMAIN deltas : v \in DOMAIN deltas' /\ deltas'[v] = deltas[v]
    BY <2>1, FinalizeKeeps
  <2>3. pending.version \in DOMAIN deltas' /\ pending.version \in Nat
    BY <2>1 DEF With, finalize, EditorInv, TypeOK
  <2>4. req'.at \notin {"settle", "settled"}
    BY <1>4 DEF finalizeRecovered, finalizeCommitted, Idle, EditorInv, TypeOK
  <2>5. CASE UNCHANGED recentOps
    BY <1>0, <2>1, <2>2, <2>4, <2>5 DEF RecentInv, RecentOpsHonest
  <2>6. CASE finalizeCommitted /\ req.kind = "apply" /\ req.op # NoOp
    <3> DEFINE e == [op |-> req.op, version |-> pending.version]
               longer == Append(recentOps, e)
    <3>1. e \in [op : OpIds, version : Nat]
      BY <2>3, <2>6 DEF EditorInv, TypeOK
    <3>2. author[pending.version] = [kind |-> "apply", op |-> req.op]
      BY <2>6 DEF RecentInv, finalizeCommitted
    <3>3. recentOps' = IF Len(longer) > RECENT_OP_LIMIT THEN Tail(longer) ELSE longer
      BY <2>6 DEF finalizeCommitted, rememberOp
    <3>4. e.op = req.op /\ e.version = pending.version
      OBVIOUS
    <3> HIDE DEF e
    <3>5. longer \in Seq([op : OpIds, version : Nat])
      BY <1>0, <3>1
    <3>6. \A i \in DOMAIN longer : longer[i] = e \/ \E j \in DOMAIN recentOps : longer[i] = recentOps[j]
      BY <1>0, <3>1
    <3> HIDE DEF longer
    <3>7. /\ recentOps' \in Seq([op : OpIds, version : Nat])
          /\ \A i \in DOMAIN recentOps' : \E j \in DOMAIN longer : recentOps'[i] = longer[j]
      <4>1. CASE Len(longer) > RECENT_OP_LIMIT
        <5>1. longer # <<>> /\ recentOps' = Tail(longer)
          BY <3>3, <3>5, <4>1, BoundAssumption
        <5>2. Tail(longer) \in Seq([op : OpIds, version : Nat])
          BY <3>5, <5>1
        <5>3. ASSUME NEW i \in DOMAIN Tail(longer)
              PROVE  i + 1 \in DOMAIN longer /\ Tail(longer)[i] = longer[i + 1]
          BY <3>5, <5>1
        <5>4. QED
          BY <5>1, <5>2, <5>3
      <4>2. CASE ~(Len(longer) > RECENT_OP_LIMIT)
        BY <3>3, <3>5, <4>2
      <4>3. QED
        BY <4>1, <4>2
    <3>8. \A i \in DOMAIN recentOps' : recentOps'[i] = e \/ \E j \in DOMAIN recentOps : recentOps'[i] = recentOps[j]
      BY <3>6, <3>7
    <3>9. ASSUME NEW i \in DOMAIN recentOps'
          PROVE  /\ recentOps'[i].version \in DOMAIN deltas'
                 /\ author'[recentOps'[i].version] = [kind |-> "apply", op |-> recentOps'[i].op]
      <4>1. CASE recentOps'[i] = e
        BY <2>1, <2>3, <3>2, <3>4, <4>1
      <4>2. ASSUME NEW j \in DOMAIN recentOps, recentOps'[i] = recentOps[j]
            PROVE  /\ recentOps'[i].version \in DOMAIN deltas'
                   /\ author'[recentOps'[i].version] = [kind |-> "apply", op |-> recentOps'[i].op]
        BY <1>0, <2>1, <2>2, <4>2 DEF RecentOpsHonest
      <4>3. QED
        BY <3>8, <4>1, <4>2
    <3>10. RecentOpsHonest'
      BY <3>9 DEF RecentOpsHonest
    <3>11. QED
      BY <2>4, <3>7, <3>10 DEF RecentInv
  <2>7. QED
    BY <1>4, <2>5, <2>6 DEF finalizeRecovered, finalizeCommitted, memVars
<1>5. CASE Restart
  <2>1. recentOps' = <<>> /\ req'.at = "idle"
    BY <1>5 DEF Restart, Idle
  <2>2. QED
    BY <2>1 DEF RecentInv, RecentOpsHonest
<1>6. QED
  BY <1>1, <1>2, <1>3, <1>4, <1>5 DEF Next, Handle, QuietSteps, CommitSteps

(* The opId memory (#recentOps) never sends a repeated apply to a version    *)
(* that another request created: for every order of commits, recoveries,     *)
(* lost answers and restarts, a remembered opId names a committed version    *)
(* whose author is the apply with that opId.                                 *)
THEOREM RememberedOpsTrue == Spec => []RecentOpsHonest
<1>1. Init => RecentInv
  <2> SUFFICES ASSUME Init PROVE RecentInv
    OBVIOUS
  <2>1. recentOps = <<>> /\ req.at = "idle"
    BY DEF Init, Idle
  <2>2. QED
    BY <2>1 DEF RecentInv, RecentOpsHonest
<1>2. RecentInv => RecentOpsHonest
  BY DEF RecentInv
<1>3. QED
  BY <1>1, <1>2, RecentStep, EditorCorrect, PTL DEF Spec

--------------------------------------------------------------------------------
(* Replay *)

(* A set of numbers has a least one. *)
LEMMA LeastNat ==
    ASSUME NEW T, T \subseteq Nat, T # {}
    PROVE  \E n \in T : \A m \in T : n <= m
<1>1. IsWellFoundedOn(OpToRel(<, Nat), Nat)
  BY NatLessThanWellFounded, Zenon
<1>2. PICK n \in T : \A m \in T : ~(<<m, n>> \in OpToRel(<, Nat))
  BY <1>1, WFMin, Zenon
<1>3. \A m \in T : ~(m < n)
  BY <1>2 DEF OpToRel
<1>4. QED
  BY <1>3

(* The step of a replay of the log D to version v, from those before. *)
Event(D, f, v) == IF v = 0 THEN <<>> ELSE Replayed(D[v], f[v - 1])

(* f holds the documents of the versions up to n. *)
Replays(D, f, n) == f = [v \in 0 .. n |-> Event(D, f, v)]

(* FullReplay and reconstruct, for a log D and snapshots S. *)
FullOf(D, target) ==
    LET at[v \in 0 .. target] == IF v = 0 THEN <<>> ELSE Replayed(D[v], at[v - 1])
    IN  at[target]

BuiltFrom(D, S, target) ==
    LET at[v \in 0 .. target] ==
          IF v \in DOMAIN S THEN S[v]
          ELSE IF v = 0 THEN <<>>
          ELSE IF v \in DOMAIN D THEN Replayed(D[v], at[v - 1])
          ELSE at[v - 1]
    IN  at[target]

(* They are what the session computes. *)
LEMMA SameReplays ==
    /\ \A v : FullReplay(v) = FullOf(deltas, v)
    /\ \A v : reconstruct(v) = BuiltFrom(deltas, snapshots, v)
BY DEF FullReplay, FullOf, reconstruct, BuiltFrom

(* Two replays of the same log agree. *)
LEMMA ReplaysAgree ==
    ASSUME NEW D, NEW n \in Nat, NEW m \in Nat, NEW f, NEW g, Replays(D, f, n), Replays(D, g, m),
           NEW v \in 0 .. n, v <= m
    PROVE  f[v] = g[v]
<1> DEFINE T == {w \in 0 .. n : w <= m /\ f[w] # g[w]}
<1>0. SUFFICES ASSUME f[v] # g[v] PROVE FALSE
  OBVIOUS
<1>1. T \subseteq Nat /\ v \in T
  BY <1>0
<1>2. PICK w \in T : \A u \in T : w <= u
  BY <1>1, LeastNat
<1>3. w \in 0 .. n /\ w \in 0 .. m /\ f[w] # g[w] /\ \A u \in 0 .. w - 1 : f[u] = g[u]
  BY <1>2
<1>4. f[w] = Event(D, f, w) /\ g[w] = Event(D, g, w)
  BY <1>3 DEF Replays
<1>5. w = 0 \/ w - 1 \in 0 .. w - 1
  BY <1>3
<1>6. QED
  BY <1>3, <1>4, <1>5 DEF Event

(* A log can be replayed to any version. *)
LEMMA ReplayExists ==
    ASSUME NEW D, NEW n \in Nat
    PROVE  \E f : Replays(D, f, n)
<1> DEFINE T == {w \in Nat : ~\E f : Replays(D, f, w)}
<1>1. SUFFICES ASSUME T # {} PROVE FALSE
  OBVIOUS
<1>2. PICK w \in T : \A u \in T : w <= u
  BY <1>1, LeastNat
<1>3. w \in Nat /\ (w # 0 => w - 1 \in Nat /\ \E f : Replays(D, f, w - 1))
  BY <1>2
<1>4. PICK f : w # 0 => Replays(D, f, w - 1)
  BY <1>3
<1> DEFINE g == [v \in 0 .. w |-> IF v = w THEN Event(D, f, w) ELSE f[v]]
<1>5. ASSUME NEW v \in 0 .. w PROVE g[v] = Event(D, g, v)
  <2>1. v # 0 => v - 1 \in 0 .. w /\ g[v - 1] = f[v - 1]
    BY <1>3
  <2>2. Event(D, g, v) = Event(D, f, v)
    <3> HIDE DEF g
    <3> QED
      BY <2>1 DEF Event
  <2>3. CASE v = w
    BY <2>2, <2>3
  <2>4. CASE v # w
    <3>1. w # 0 /\ v \in 0 .. w - 1
      BY <1>3, <2>4
    <3>2. f[v] = Event(D, f, v)
      BY <1>4, <3>1 DEF Replays
    <3>3. QED
      BY <2>2, <2>4, <3>2
  <2>5. QED
    BY <2>3, <2>4
<1>6. g = [v \in 0 .. w |-> g[v]]
  OBVIOUS
<1>7. Replays(D, g, w)
  <2> HIDE DEF g
  <2> QED
    BY <1>5, <1>6 DEF Replays
<1>8. QED
  BY <1>2, <1>7

(* The full replay is the last document of a replay. *)
LEMMA FullIs ==
    ASSUME NEW D, NEW n \in Nat, NEW f, Replays(D, f, n), NEW v \in 0 .. n
    PROVE  f[v] = FullOf(D, v)
<1> DEFINE g == CHOOSE h : h = [w \in 0 .. v |-> IF w = 0 THEN <<>> ELSE Replayed(D[w], h[w - 1])]
<1>1. v \in Nat /\ \A h : Replays(D, h, v) <=> h = [w \in 0 .. v |-> IF w = 0 THEN <<>> ELSE Replayed(D[w], h[w - 1])]
  BY DEF Replays, Event
<1>2. \E h : h = [w \in 0 .. v |-> IF w = 0 THEN <<>> ELSE Replayed(D[w], h[w - 1])]
  BY <1>1, ReplayExists
<1>3. g = [w \in 0 .. v |-> IF w = 0 THEN <<>> ELSE Replayed(D[w], g[w - 1])]
  BY <1>2
<1>4. FullOf(D, v) = g[v]
  BY DEF FullOf
<1> HIDE DEF g
<1>5. Replays(D, g, v)
  BY <1>1, <1>3
<1>6. v \in 0 .. v /\ v <= n
  OBVIOUS
<1>7. f[v] = g[v]
  BY <1>1, <1>5, <1>6, ReplaysAgree
<1>8. QED
  BY <1>4, <1>7

(* The full replay applies one event after the other. *)
LEMMA FullStep ==
    ASSUME NEW D
    PROVE  /\ FullOf(D, 0) = <<>>
           /\ \A n \in Nat : FullOf(D, n + 1) = Replayed(D[n + 1], FullOf(D, n))
<1>1. PICK z : Replays(D, z, 0)
  BY ReplayExists
<1>2. z[0] = FullOf(D, 0)
  BY <1>1, FullIs
<1>3. z[0] = <<>>
  BY <1>1 DEF Replays, Event
<1>4. ASSUME NEW n \in Nat PROVE FullOf(D, n + 1) = Replayed(D[n + 1], FullOf(D, n))
  <2>1. n + 1 \in Nat /\ n \in 0 .. n + 1 /\ n + 1 \in 0 .. n + 1 /\ n + 1 # 0 /\ (n + 1) - 1 = n
    OBVIOUS
  <2>2. PICK f : Replays(D, f, n + 1)
    BY <2>1, ReplayExists
  <2>3. f[n] = FullOf(D, n) /\ f[n + 1] = FullOf(D, n + 1)
    BY <2>1, <2>2, FullIs
  <2>4. f[n + 1] = Event(D, f, n + 1)
    BY <2>1, <2>2 DEF Replays
  <2>5. QED
    BY <2>1, <2>3, <2>4 DEF Event
<1>5. QED
  BY <1>2, <1>3, <1>4

(* A replay depends on the rows it replays. *)
LEMMA FullAgree ==
    ASSUME NEW D, NEW E, NEW n \in Nat, \A v \in 1 .. n : D[v] = E[v], NEW v \in 0 .. n
    PROVE  FullOf(D, v) = FullOf(E, v)
<1>1. PICK f : Replays(D, f, n)
  BY ReplayExists
<1>2. \A w \in 0 .. n : Event(D, f, w) = Event(E, f, w)
  BY DEF Event
<1>3. Replays(E, f, n)
  BY <1>1, <1>2 DEF Replays
<1>4. QED
  BY <1>1, <1>3, FullIs

(* The documents of a log of batches are sequences of batches. *)
LEMMA FullType ==
    ASSUME NEW D, NEW n \in Nat, \A v \in 1 .. n : D[v].of \in Seq(Batches)
    PROVE  FullOf(D, n) \in Seq(Batches)
<1> DEFINE T == {w \in 0 .. n : FullOf(D, w) \notin Seq(Batches)}
<1>1. SUFFICES ASSUME T # {} PROVE FALSE
  <2>1. n \in 0 .. n
    OBVIOUS
  <2>2. QED
    BY <2>1
<1>0. T \subseteq Nat
  OBVIOUS
<1>2. PICK w \in T : \A u \in T : w <= u
  <2> HIDE DEF T
  <2> QED
    BY <1>0, <1>1, LeastNat
<1>3. w \in 0 .. n /\ FullOf(D, w) \notin Seq(Batches)
  BY <1>2
<1>4. w # 0
  <2>1. FullOf(D, 0) = <<>>
    BY FullStep
  <2>2. <<>> \in Seq(Batches)
    OBVIOUS
  <2>3. FullOf(D, 0) \in Seq(Batches)
    BY <2>1, <2>2
  <2>4. QED
    BY <1>3, <2>3, Zenon
<1>5. PICK u \in Nat : w = u + 1
  BY <1>3, <1>4
<1>6. FullOf(D, u) \in Seq(Batches) /\ D[w].of \in Seq(Batches)
  BY <1>2, <1>3, <1>5
<1>7. FullOf(D, w) = Replayed(D[w], FullOf(D, u))
  BY <1>5, FullStep
<1>8. QED
  BY <1>3, <1>6, <1>7 DEF Replayed

(* Starting from true snapshots gives the full replay.  The load and every   *)
(* recovery and rollback depend on this.                                     *)
LEMMA BuiltIsFull ==
    ASSUME NEW D, NEW S, NEW n \in Nat, 1 .. n \subseteq DOMAIN D, DOMAIN S \subseteq Nat \ {0},
           \A v \in DOMAIN S : S[v] = FullOf(D, v)
    PROVE  BuiltFrom(D, S, n) = FullOf(D, n)
<1> DEFINE Step(h, v) == IF v \in DOMAIN S THEN S[v]
                         ELSE IF v = 0 THEN <<>>
                         ELSE IF v \in DOMAIN D THEN Replayed(D[v], h[v - 1])
                         ELSE h[v - 1]
           g == CHOOSE h : h = [v \in 0 .. n |-> Step(h, v)]
<1>1. PICK f : Replays(D, f, n)
  BY ReplayExists
<1>2. \A v \in 0 .. n : f[v] = FullOf(D, v)
  BY <1>1, FullIs
<1>3. ASSUME NEW v \in 0 .. n PROVE Event(D, f, v) = Step(f, v)
  <2>1. f[v] = Event(D, f, v)
    BY <1>1 DEF Replays
  <2>2. CASE v \in DOMAIN S
    BY <1>2, <2>1, <2>2
  <2>3. CASE v \notin DOMAIN S
    BY <2>3 DEF Event
  <2>4. QED
    BY <2>2, <2>3
<1>4. f = [v \in 0 .. n |-> Step(f, v)]
  BY <1>1, <1>3 DEF Replays
<1>5. g = [v \in 0 .. n |-> Step(g, v)]
  BY <1>4
<1>6. BuiltFrom(D, S, n) = g[n]
  BY DEF BuiltFrom
<1> HIDE DEF g
<1>7. g[n] = f[n]
  <2> DEFINE T == {w \in 0 .. n : f[w] # g[w]}
  <2>1. SUFFICES ASSUME T # {} PROVE FALSE
    OBVIOUS
  <2>0. T \subseteq Nat
    OBVIOUS
  <2>2. PICK w \in T : \A u \in T : w <= u
    <3> HIDE DEF T
    <3> QED
      BY <2>0, <2>1, LeastNat
  <2>3. w \in 0 .. n /\ f[w] # g[w] /\ (w # 0 => w - 1 \in 0 .. n /\ f[w - 1] = g[w - 1])
    BY <2>2
  <2>4. f[w] = Step(f, w) /\ g[w] = Step(g, w)
    BY <1>4, <1>5, <2>3
  <2>5. QED
    BY <2>3, <2>4
<1>8. QED
  BY <1>2, <1>6, <1>7

--------------------------------------------------------------------------------
(* Content *)

(* The tables and the outbox hold the documents that the log defines. *)
Recorded ==
    /\ \A v \in DOMAIN deltas : deltas[v].of \in Seq(Batches)
    /\ \A v \in DOMAIN snapshots : snapshots[v] = FullReplay(v)
    /\ HasPending => /\ pending.delta.of \in Seq(Batches)
                     /\ pending.snapshot \in {NoDoc, Replayed(pending.delta, FullReplay(latestVersion))}

(* The document in memory is that of the version it is served under. *)
Served == doc # NoDoc => doc = FullReplay(version)

(* A commit publishes the document of the version it writes, and a handler   *)
(* of a session with versions has a document.                                *)
UnderWay ==
    /\ req.at \in {"settle", "settled"} =>
         req.doc = Replayed(pending.delta, FullReplay(latestVersion))
    /\ req.at = "handle" /\ req.kind # "create" /\ latestVersion > 0 => doc # NoDoc

(* What requests carry, and the journal keeps. *)
Asked ==
    /\ req.kind \in {"apply", "explicit"} => req.arg \in Batches
    /\ req.kind = "create" => req.arg \in Seq(Batches)
    /\ \A o \in OpIds : journal[o].state # "none" =>
                           journal[o].batch \in Batches /\ journal[o].base > 0

ContentInv == Recorded /\ Served /\ UnderWay /\ Asked

(* The versions of the log have documents, and each is rebuilt from the      *)
(* snapshots as the full replay gives it.                                    *)
LEMMA Rebuilt ==
    ASSUME EditorInv, Recorded, NEW n \in 0 .. latestVersion
    PROVE  FullReplay(n) \in Seq(Batches) /\ reconstruct(n) = FullReplay(n)
<1>1. n \in Nat /\ 1 .. n \subseteq DOMAIN deltas /\ DOMAIN snapshots \subseteq Nat \ {0}
  BY DEF EditorInv, OutboxInv, TypeOK
<1>2. \A v \in 1 .. n : deltas[v].of \in Seq(Batches)
  BY <1>1 DEF Recorded
<1>3. \A v \in DOMAIN snapshots : snapshots[v] = FullOf(deltas, v)
  BY SameReplays DEF Recorded
<1>4. FullOf(deltas, n) \in Seq(Batches)
  BY <1>1, <1>2, FullType
<1>5. BuiltFrom(deltas, snapshots, n) = FullOf(deltas, n)
  BY <1>1, <1>3, BuiltIsFull
<1>6. QED
  BY <1>4, <1>5, SameReplays

(* The replay of an unchanged log. *)
LEMMA SameLog ==
    ASSUME UNCHANGED deltas
    PROVE  latestVersion' = latestVersion /\ \A v : FullReplay(v)' = FullReplay(v)
BY DEF latestVersion, Newest, FullReplay

(* What happens to the tables when log, snapshots and outbox stay. *)
LEMMA RecordedSame ==
    ASSUME Recorded, UNCHANGED <<deltas, snapshots, pending>>
    PROVE  Recorded'
<1>1. latestVersion' = latestVersion /\ \A v : FullReplay(v)' = FullReplay(v)
  BY SameLog
<1>2. FullReplay(latestVersion)' = FullReplay(latestVersion)
  BY DEF latestVersion, Newest, FullReplay
<1>3. HasPending' = HasPending
  BY DEF HasPending
<1>4. Replayed(pending.delta, FullReplay(latestVersion))' = Replayed(pending.delta, FullReplay(latestVersion))
  BY <1>2 DEF Replayed
<1>5. QED
  BY <1>1, <1>3, <1>4 DEF Recorded

(* A load serves the newest version. *)
LEMMA LoadServes ==
    ASSUME EditorInv, ContentInv, ensureLoaded, UNCHANGED <<deltas, snapshots>>
    PROVE  Served'
<1>1. \A v : FullReplay(v)' = FullReplay(v)
  BY SameLog
<1>2. doc' # NoDoc => doc' = FullReplay(version')
  <2>1. CASE loaded
    BY <2>1 DEF ensureLoaded, ContentInv, Served
  <2>2. CASE ~loaded /\ latestVersion > 0
    <3>1. latestVersion \in 0 .. latestVersion
      BY DEF EditorInv, TypeOK
    <3>2. reconstruct(latestVersion) = FullReplay(latestVersion)
      BY <3>1, Rebuilt DEF ContentInv
    <3>3. QED
      BY <2>2, <3>2 DEF ensureLoaded
  <2>3. CASE ~loaded /\ ~(latestVersion > 0)
    BY <2>3 DEF ensureLoaded
  <2>4. QED
    BY <2>1, <2>2, <2>3
<1>3. FullReplay(version)' = FullReplay(version')
  BY DEF FullReplay
<1>4. QED
  BY <1>2, <1>3 DEF Served

(* A request that arrives carries a document or a batch; the load that goes  *)
(* with it is faithful.                                                      *)
LEMMA ArriveContent ==
    ASSUME EditorInv, ContentInv, Arrive
    PROVE  ContentInv'
<1> USE ValueAssumption
<1>1. /\ ensureLoaded /\ UNCHANGED <<deltas, snapshots, pending>>
      /\ req = Idle
  BY DEF Arrive, ReadDocument, Create, ApplyRequest, RollbackRequest, SnapshotRequest,
         BlobRequest, Write, applyExplicit, commitRecover, dbVars
<1>2. Recorded' /\ Served'
  BY <1>1, RecordedSame, LoadServes DEF ContentInv
<1>3. /\ req'.at = "handle" => req'.kind = "create"
      /\ req'.at \notin {"settle", "settled"}
      /\ req'.kind \in {"apply", "explicit"} => req'.arg \in Batches
      /\ req'.kind = "create" => req'.arg \in Seq(Batches)
  <2>1. CASE ReadDocument
    BY <2>1 DEF ReadDocument, Idle
  <2>2. CASE \E d \in InitialDocs : Create(d)
    BY <2>2 DEF Create, Take
  <2>3. CASE \/ \E op \in OpIds \cup {NoOp}, base \in 1 .. MaxVersion, b \in Batches :
                   ApplyRequest(op, base, b)
             \/ \E target \in 1 .. MaxVersion : RollbackRequest(target)
             \/ SnapshotRequest \/ BlobRequest
    BY <2>3 DEF ApplyRequest, RollbackRequest, SnapshotRequest, BlobRequest, Write, Take
  <2>4. CASE \E o \in OpIds, base \in 1 .. MaxVersion, b \in Batches : applyExplicit(o, base, b)
    BY <2>4 DEF applyExplicit, Take
  <2>5. CASE \E o \in OpIds : commitRecover(o)
    BY <2>5 DEF commitRecover, Take, ContentInv, Asked
  <2>6. QED
    BY <2>1, <2>2, <2>3, <2>4, <2>5 DEF Arrive
<1>4. UnderWay'
  BY <1>3 DEF UnderWay
<1>5. \A o \in OpIds : journal'[o].state # "none" => journal'[o].batch \in Batches /\ journal'[o].base > 0
  <2>1. CASE UNCHANGED journal
    BY <2>1 DEF ContentInv, Asked
  <2>2. ASSUME NEW o \in OpIds, NEW base \in 1 .. MaxVersion, NEW b \in Batches, applyExplicit(o, base, b)
        PROVE  \A p \in OpIds : journal'[p].state # "none" => journal'[p].batch \in Batches /\ journal'[p].base > 0
    <3> DEFINE intent == [state |-> "pending", base |-> base, batch |-> b]
    <3>1. intent.base > 0 /\ intent.batch \in Batches
      OBVIOUS
    <3>2. journal' = journal \/ journal' = [journal EXCEPT ![o] = intent]
      BY <2>2 DEF applyExplicit, begin
    <3>3. DOMAIN journal = OpIds
      BY DEF EditorInv, TypeOK
    <3> HIDE DEF intent
    <3>4. \A p \in OpIds : journal'[p] = journal[p] \/ journal'[p] = intent
      BY <3>2, <3>3
    <3>5. QED
      BY <3>1, <3>4 DEF ContentInv, Asked
  <2>3. QED
    BY <2>1, <2>2 DEF Arrive, ReadDocument, Create, ApplyRequest, RollbackRequest,
       SnapshotRequest, BlobRequest, Write, commitRecover, dbVars
<1>6. QED
  BY <1>2, <1>3, <1>4, <1>5 DEF ContentInv, Asked

(* The end of a recovery serves the newest version. *)
LEMMA RecoverContent ==
    ASSUME EditorInv, ContentInv, recoverPending
    PROVE  ContentInv'
<1>1. /\ UNCHANGED <<deltas, snapshots, pending, journal>> /\ version' = latestVersion
      /\ doc' = IF latestVersion # version \/ (latestVersion > 0 /\ doc = NoDoc)
                THEN reconstruct(latestVersion) ELSE doc
      /\ req'.at = "handle" /\ req'.kind = req.kind /\ req'.arg = req.arg
  BY DEF recoverPending, dbVars, EditorInv, TypeOK
<1>2. latestVersion \in 0 .. latestVersion
  BY DEF EditorInv, TypeOK
<1>3. /\ reconstruct(latestVersion) = FullReplay(latestVersion)
      /\ FullReplay(latestVersion) \in Seq(Batches)
  BY <1>2, Rebuilt DEF ContentInv
<1>4. /\ doc' # NoDoc => doc' = FullReplay(latestVersion)
      /\ latestVersion > 0 => doc' # NoDoc
  <2>1. CASE latestVersion # version \/ (latestVersion > 0 /\ doc = NoDoc)
    BY <1>1, <1>3, <2>1, ValueAssumption
  <2>2. CASE ~(latestVersion # version \/ (latestVersion > 0 /\ doc = NoDoc))
    BY <1>1, <2>2 DEF ContentInv, Served
  <2>3. QED
    BY <2>1, <2>2
<1>5. latestVersion' = latestVersion /\ FullReplay(version)' = FullReplay(latestVersion)
  BY <1>1 DEF latestVersion, Newest, FullReplay
<1>6. Recorded'
  BY <1>1, RecordedSame DEF ContentInv
<1>7. Served'
  BY <1>4, <1>5 DEF Served
<1>8. UnderWay'
  BY <1>1, <1>4, <1>5 DEF UnderWay
<1>9. Asked'
  BY <1>1 DEF ContentInv, Asked
<1>10. QED
  BY <1>6, <1>7, <1>8, <1>9 DEF ContentInv

(* The steps that end a request, or move a handler without touching log,     *)
(* snapshots and outbox.                                                     *)
LEMMA RestContent ==
    ASSUME EditorInv, ContentInv,
           \/ storeIdentity \/ rejectExplicit \/ retainSnapshot \/ AnswerOnly \/ RequestFails
           \/ AnswerLost \/ ApplyBreaks \/ settlePending \/ Restart \/ UNCHANGED vars
    PROVE  ContentInv'
<1>1. UNCHANGED <<deltas, snapshots, pending>>
  BY DEF storeIdentity, rejectExplicit, retainSnapshot, AnswerOnly, RequestFails, AnswerLost,
         ApplyBreaks, settlePending, Restart, vars, dbVars
<1>2. (UNCHANGED <<doc, version>>) \/ doc' = NoDoc
  BY DEF storeIdentity, rejectExplicit, retainSnapshot, AnswerOnly, RequestFails, AnswerLost,
         ApplyBreaks, settlePending, Restart, EndWithError, vars, memVars
<1>3. Recorded'
  BY <1>1, RecordedSame DEF ContentInv
<1>4. Served'
  <2>1. CASE UNCHANGED <<doc, version>>
    <3>1. FullReplay(version)' = FullReplay(version)
      BY <1>1, <2>1 DEF FullReplay
    <3>2. QED
      BY <2>1, <3>1 DEF ContentInv, Served
  <2>2. CASE doc' = NoDoc
    BY <2>2 DEF Served
  <2>3. QED
    BY <1>2, <2>1, <2>2
<1>5. /\ \/ req' = Idle
         \/ req' = req /\ UNCHANGED doc
         \/ /\ req'.kind = req.kind /\ req'.arg = req.arg /\ req'.doc = req.doc
            /\ req'.at \notin {"handle", "settle"}
            /\ req'.at = "settled" => req.at = "settle"
  <2>1. CASE storeIdentity \/ retainSnapshot \/ settlePending
    BY <2>1 DEF storeIdentity, retainSnapshot, settlePending, EditorInv, TypeOK
  <2>2. CASE rejectExplicit \/ AnswerOnly \/ RequestFails \/ AnswerLost \/ ApplyBreaks \/ Restart
    BY <2>2 DEF rejectExplicit, AnswerOnly, RequestFails, AnswerLost, ApplyBreaks, Restart, EndWithError
  <2>3. CASE UNCHANGED vars
    BY <2>3 DEF vars, memVars
  <2>4. QED
    BY <2>1, <2>2, <2>3
<1>6. UnderWay'
  <2>1. latestVersion' = latestVersion
    BY <1>1, SameLog
  <2>2. Replayed(pending.delta, FullReplay(latestVersion))' = Replayed(pending.delta, FullReplay(latestVersion))
    BY <1>1 DEF Replayed, FullReplay, latestVersion, Newest
  <2>3. QED
    BY <1>5, <2>1, <2>2 DEF ContentInv, UnderWay, Idle
<1>7. \A o \in OpIds : journal'[o].state # "none" => journal'[o].batch \in Batches /\ journal'[o].base > 0
  <2>1. CASE UNCHANGED journal
    BY <2>1 DEF ContentInv, Asked
  <2>2. CASE rejectExplicit \/ ApplyBreaks
    <3>1. /\ req.op \in OpIds /\ journal[req.op].state = "pending"
          /\ journal' = [journal EXCEPT ![req.op].state = "rejected"]
      BY <2>2 DEF rejectExplicit, ApplyBreaks, Handling, EditorInv, HandlerInv
    <3>2. /\ DOMAIN journal = OpIds
          /\ \A o \in OpIds : journal[o] = [state |-> journal[o].state, base |-> journal[o].base,
                                          batch |-> journal[o].batch]
      BY DEF EditorInv, TypeOK
    <3>3. ASSUME NEW o \in OpIds
          PROVE  /\ journal'[o].base = journal[o].base /\ journal'[o].batch = journal[o].batch
                 /\ journal'[o].state # "none" => journal[o].state # "none"
      <4>1. CASE o = req.op
        BY <3>1, <3>2, <4>1
      <4>2. CASE o # req.op
        BY <3>1, <3>2, <4>2
      <4>3. QED
        BY <4>1, <4>2
    <3>4. QED
      BY <3>3 DEF ContentInv, Asked
  <2>3. QED
    BY <2>1, <2>2 DEF storeIdentity, retainSnapshot, AnswerOnly, RequestFails, AnswerLost,
       settlePending, Restart, vars, dbVars
<1>8. Asked'
  BY <1>5, <1>7 DEF ContentInv, Asked, Idle
<1>9. QED
  BY <1>3, <1>4, <1>6, <1>8 DEF ContentInv

(* The snapshot route records the document of the newest version. *)
LEMMA SnapshotContent ==
    ASSUME EditorInv, ContentInv, recordSnapshot
    PROVE  ContentInv'
<1>1. /\ UNCHANGED <<deltas, pending, journal, doc, version>> /\ req' = Idle
      /\ snapshots' = With(snapshots, version, doc) /\ doc # NoDoc
      /\ ~HasPending
  BY DEF recordSnapshot, memVars, EditorInv, HandlerInv
<1>2. \A v : FullReplay(v)' = FullReplay(v)
  BY <1>1, SameLog
<1>3. doc = FullReplay(version)
  BY <1>1 DEF ContentInv, Served
<1>4. \A v \in DOMAIN snapshots' : snapshots'[v] = FullReplay(v)
  BY <1>1, <1>3 DEF With, ContentInv, Recorded
<1>5. ~HasPending'
  BY <1>1 DEF HasPending
<1>6. Recorded'
  BY <1>1, <1>2, <1>4, <1>5 DEF ContentInv, Recorded
<1>7. FullReplay(version)' = FullReplay(version)
  BY <1>1 DEF FullReplay
<1>8. Served'
  BY <1>1, <1>3, <1>7 DEF Served
<1>9. UnderWay' /\ Asked'
  BY <1>1 DEF UnderWay, ContentInv, Asked, Idle
<1>10. QED
  BY <1>6, <1>8, <1>9 DEF ContentInv

(* The pending row of a commit, its document included. *)
PendingRow(d, delta) ==
    /\ pending'.delta = delta /\ pending'.snapshot \in {d, NoDoc}
    /\ req'.doc = d

(* A commit's pending row and document are what its delta makes of the log.  *)
LEMMA CommitContent ==
    ASSUME EditorInv, ContentInv, CommitSteps
    PROVE  ContentInv'
<1> DEFINE old == FullReplay(latestVersion)
<1>1. /\ UNCHANGED <<deltas, snapshots, journal, version, doc>>
      /\ req'.at = "settle" /\ req'.kind = req.kind /\ req'.arg = req.arg
      /\ version = latestVersion
  BY CommitWrites
<1>2. old \in Seq(Batches)
  <2>1. latestVersion \in 0 .. latestVersion
    BY DEF EditorInv, TypeOK
  <2>2. QED
    BY <2>1, Rebuilt DEF ContentInv
<1>3. req = [kind |-> req.kind, op |-> req.op, base |-> req.base, arg |-> req.arg,
             doc |-> req.doc, at |-> req.at]
  BY DEF EditorInv, TypeOK
<1>4. \A d, delta, force, op : commit(d, delta, force, op) => PendingRow(d, delta)
  BY <1>3 DEF commit, PendingRow
<1>5. \E d, delta : /\ PendingRow(d, delta)
                    /\ delta.of \in Seq(Batches) /\ d = Replayed(delta, old)
  <2>1. CASE commitCreated
    <3>1. req.arg \in Seq(Batches)
      BY <2>1 DEF commitCreated, EditorInv, HandlerInv, ContentInv, Asked
    <3>2. PendingRow(req.arg, RestoreDelta(req.arg))
      BY <1>4, <2>1 DEF commitCreated
    <3>3. RestoreDelta(req.arg).of = req.arg /\ Replayed(RestoreDelta(req.arg), old) = req.arg
      BY DEF RestoreDelta, Replayed
    <3>4. QED
      BY <3>1, <3>2, <3>3
  <2>2. CASE apply \/ commitExplicit
    <3>1. req.arg \in Batches
      BY <2>2 DEF apply, commitExplicit, Handling, ContentInv, Asked
    <3>2. doc # NoDoc
      <4>1. CASE apply
        BY <4>1 DEF apply, ApplyRefused
      <4>2. CASE commitExplicit
        <5>1. /\ req.op \in OpIds /\ journal[req.op].base = req.base /\ journal[req.op].state = "pending"
              /\ req.base = version /\ req.at = "handle" /\ req.kind = "explicit"
          BY <4>2 DEF commitExplicit, Handling, EditorInv, HandlerInv
        <5>2. latestVersion > 0
          BY <1>1, <5>1 DEF ContentInv, Asked
        <5>3. QED
          BY <5>1, <5>2 DEF ContentInv, UnderWay
      <4>3. QED
        BY <2>2, <4>1, <4>2
    <3>3. doc = old
      BY <1>1, <3>2 DEF ContentInv, Served
    <3>4. PendingRow(Append(doc, req.arg), ApplyDelta(req.arg))
      BY <1>4, <2>2 DEF apply, commitExplicit
    <3>5. /\ ApplyDelta(req.arg).of = <<req.arg>>
          /\ Replayed(ApplyDelta(req.arg), old) = old \o <<req.arg>>
      BY DEF ApplyDelta, Replayed
    <3> HIDE DEF old
    <3>6. <<req.arg>> \in Seq(Batches) /\ Append(old, req.arg) = old \o <<req.arg>>
      BY <1>2, <3>1
    <3>7. QED
      BY <3>3, <3>4, <3>5, <3>6
  <2>3. CASE rollback
    <3> DEFINE d == reconstruct(req.base)
    <3>1. req.base \in 0 .. latestVersion
      BY <2>3 DEF rollback, EditorInv, OutboxInv, TypeOK
    <3>2. d \in Seq(Batches)
      BY <3>1, Rebuilt DEF ContentInv
    <3>3. commit(d, RestoreDelta(d), TRUE, NoOp)
      BY <2>3 DEF rollback
    <3> HIDE DEF d
    <3>4. PendingRow(d, RestoreDelta(d))
      BY <1>4, <3>3
    <3>5. RestoreDelta(d).of = d /\ Replayed(RestoreDelta(d), old) = d
      BY DEF RestoreDelta, Replayed
    <3>6. QED
      BY <3>2, <3>4, <3>5
  <2>4. QED
    BY <2>1, <2>2, <2>3 DEF CommitSteps
<1>6. PICK d, delta : /\ PendingRow(d, delta)
                      /\ delta.of \in Seq(Batches) /\ d = Replayed(delta, old)
  BY <1>5
<1>7. pending'.delta = delta /\ pending'.snapshot \in {d, NoDoc} /\ req'.doc = d
  BY <1>6 DEF PendingRow
<1>8. \A v : FullReplay(v)' = FullReplay(v)
  BY <1>1, SameLog
<1>9. FullReplay(latestVersion)' = old /\ FullReplay(version)' = FullReplay(version)
  BY <1>1 DEF FullReplay, latestVersion, Newest
<1>10. Replayed(pending.delta, FullReplay(latestVersion))' = d
  BY <1>6, <1>7, <1>9 DEF Replayed
<1>11. Recorded'
  BY <1>1, <1>6, <1>7, <1>8, <1>10 DEF ContentInv, Recorded
<1>12. Served'
  BY <1>1, <1>9 DEF ContentInv, Served
<1>13. UnderWay'
  BY <1>1, <1>7, <1>10 DEF UnderWay
<1>14. Asked'
  BY <1>1 DEF ContentInv, Asked
<1>15. QED
  BY <1>11, <1>12, <1>13, <1>14 DEF ContentInv

(* The final transaction adds the event of the pending row to the log, and   *)
(* its snapshot is that version's document.                                  *)
LEMMA FinalizeContent ==
    ASSUME EditorInv, ContentInv, finalizeRecovered \/ finalizeCommitted
    PROVE  ContentInv'
<1> DEFINE n == latestVersion
           last == Replayed(pending.delta, FullReplay(latestVersion))
<1>1. /\ req.at \in {"recovered", "settled"} /\ finalize
      /\ UNCHANGED <<casVars, author>>
  BY DEF finalizeRecovered, finalizeCommitted
<1>2. /\ HasPending /\ ~HasPending'
      /\ latestVersion' = pending.version /\ pending.version = latestVersion + 1
  BY <1>1, FinalizeKeeps
<1>3. /\ n \in Nat /\ DOMAIN deltas = 1 .. n /\ DOMAIN snapshots \subseteq 1 .. n
      /\ version \in 0 .. n
  BY DEF EditorInv, OutboxInv, MemoryInv, TypeOK
<1>4. deltas' = With(deltas, n + 1, pending.delta)
  BY <1>1, <1>2 DEF finalize
<1>5. DOMAIN deltas' = 1 .. n + 1 /\ deltas'[n + 1] = pending.delta /\ \A v \in 1 .. n : deltas'[v] = deltas[v]
  <2> HIDE DEF n
  <2> QED
    BY <1>3, <1>4 DEF With
<1>6. \A v \in 0 .. n : FullOf(deltas', v) = FullOf(deltas, v)
  <2> DEFINE D == deltas
             E == deltas'
  <2>1. \A v \in 1 .. n : D[v] = E[v]
    BY <1>5
  <2> HIDE DEF D, E, n
  <2>2. \A v \in 0 .. n : FullOf(D, v) = FullOf(E, v)
    BY <1>3, <2>1, FullAgree
  <2>3. QED
    BY <2>2 DEF D, E
<1>7. FullOf(deltas', n + 1) = last
  <2>1. FullOf(deltas', n + 1) = Replayed(deltas'[n + 1], FullOf(deltas', n))
    BY <1>3, FullStep
  <2>2. FullOf(deltas', n) = FullReplay(n)
    BY <1>3, <1>6, SameReplays
  <2>3. QED
    BY <1>5, <2>1, <2>2
<1>8. /\ \A v : FullReplay(v)' = FullOf(deltas', v)
      /\ FullReplay(version)' = FullOf(deltas', version')
  BY DEF FullReplay, FullOf
<1>9. \A v \in 0 .. n : FullOf(deltas', v) = FullReplay(v)
  BY <1>6, SameReplays
<1>10. \A v \in DOMAIN snapshots' : snapshots'[v] = FullOf(deltas', v)
  <2>1. \A v \in DOMAIN snapshots : snapshots[v] = FullOf(deltas', v)
    BY <1>3, <1>9 DEF ContentInv, Recorded
  <2>2. CASE pending.snapshot = NoDoc
    BY <1>1, <2>1, <2>2 DEF finalize
  <2>3. CASE pending.snapshot # NoDoc
    <3>1. pending.snapshot = last
      BY <1>2, <2>3 DEF ContentInv, Recorded
    <3>2. snapshots' = With(snapshots, n + 1, last)
      BY <1>1, <1>2, <2>3, <3>1 DEF finalize
    <3> HIDE DEF last, n
    <3>3. QED
      BY <1>7, <2>1, <3>2 DEF With
  <2>4. QED
    BY <2>2, <2>3
<1>11. \A v \in DOMAIN deltas' : deltas'[v].of \in Seq(Batches)
  <2>1. pending.delta.of \in Seq(Batches) /\ \A v \in 1 .. n : deltas[v].of \in Seq(Batches)
    BY <1>2, <1>3 DEF ContentInv, Recorded
  <2> HIDE DEF n
  <2>2. QED
    BY <1>3, <1>5, <2>1
<1>12. Recorded'
  BY <1>2, <1>8, <1>10, <1>11 DEF Recorded
<1>13. Served'
  <2>1. CASE finalizeRecovered
    <3>1. UNCHANGED <<doc, version>>
      BY <2>1 DEF finalizeRecovered, memVars
    <3>2. FullReplay(version)' = FullReplay(version)
      BY <1>3, <1>6, <1>8, <3>1, SameReplays
    <3>3. QED
      BY <3>1, <3>2 DEF ContentInv, Served
  <2>2. CASE finalizeCommitted
    <3>1. doc' = last /\ version' = n + 1
      BY <1>2, <2>2 DEF finalizeCommitted, ContentInv, UnderWay
    <3>2. FullReplay(version)' = last
      BY <1>7, <1>8, <3>1
    <3>3. QED
      BY <3>1, <3>2 DEF Served
  <2>3. QED
    BY <2>1, <2>2
<1>14. /\ req'.at \in {"idle", "recover"}
       /\ req'.kind = "none" \/ (req'.kind = req.kind /\ req'.arg = req.arg)
  BY DEF finalizeRecovered, finalizeCommitted, Idle, EditorInv, TypeOK
<1>15. UnderWay'
  BY <1>14 DEF UnderWay
<1>16. ASSUME NEW o \in OpIds
       PROVE  /\ journal'[o].base = journal[o].base /\ journal'[o].batch = journal[o].batch
              /\ journal'[o].state # "none" => journal[o].state # "none"
  <2>1. journal'[o].base = journal[o].base /\ journal'[o].batch = journal[o].batch
    BY <1>1, FinalizeKeeps
  <2>2. CASE pending.op = NoOp \/ o # pending.op
    BY <1>1, <2>2 DEF finalize, EditorInv, TypeOK
  <2>3. CASE pending.op # NoOp /\ o = pending.op
    BY <1>2, <2>1, <2>3 DEF EditorInv, OutboxInv, IntentMatches
  <2>4. QED
    BY <2>1, <2>2, <2>3
<1>17. Asked'
  BY <1>14, <1>16 DEF ContentInv, Asked
<1>18. QED
  BY <1>12, <1>13, <1>15, <1>17 DEF ContentInv

(* Every step preserves ContentInv. *)
LEMMA ContentStep == EditorInv /\ ContentInv /\ [Next]_vars => ContentInv'
BY ArriveContent, RecoverContent, RestContent, SnapshotContent, CommitContent, FinalizeContent
   DEF Next, Handle, CommitSteps

(* The session starts without a document. *)
LEMMA ContentStart == Init => ContentInv
<1> SUFFICES ASSUME Init PROVE ContentInv
  OBVIOUS
<1>1. /\ DOMAIN deltas = {} /\ DOMAIN snapshots = {} /\ doc = NoDoc /\ ~HasPending
      /\ req.at = "idle" /\ req.kind = "none"
      /\ \A o \in OpIds : journal[o].state = "none"
  BY DEF Init, Idle, NoIntent, NoPending, HasPending
<1>2. QED
  BY <1>1 DEF ContentInv, Recorded, Served, UnderWay, Asked

(* Every snapshot is the document that replaying the whole log gives for its *)
(* version, and so is the document in memory, whatever was recovered, rolled *)
(* back or lost before: reconstruct may start from any snapshot.             *)
THEOREM ContentStaysFaithful == Spec => []ContentFaithful
<1>1. EditorInv /\ ContentInv => ContentFaithful
  BY DEF EditorInv, MemoryInv, OutboxInv, TypeOK, ContentInv, Recorded, Served, ContentFaithful
<1>2. QED
  BY <1>1, ContentStart, ContentStep, EditorCorrect, PTL DEF Spec
================================================================================
