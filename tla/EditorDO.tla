------------------------------- MODULE EditorDO -------------------------------
(***************************************************************************)
(* One document session on Cloudflare: the Durable Object EditorDO with    *)
(* its SQLite tables (svalue_deltas, svalue_snapshots, svalue_pending,     *)
(* doc_commit_intents_v1), its memory, and the root references it keeps in *)
(* the content-addressed store.                                            *)
(*                                                                         *)
(* A version is committed through an outbox: the pending row is written,   *)
(* the root references are moved in the store under a request id, and the  *)
(* pending row becomes a delta (and snapshot) row.  The object may restart *)
(* and a call to the store may fail, or succeed without an answer, at any  *)
(* point; the next write settles what it finds.                            *)
(*                                                                         *)
(* fetch queues requests on #requestTail, so there is one request at a     *)
(* time (req) and its steps are interleaved only with failures.            *)
(*                                                                         *)
(* A document is the sequence of batches applied to an empty one: the      *)
(* doctype's apply is deterministic, so equal sequences are equal          *)
(* documents.  A root is named by what its bytes hold.                     *)
(***************************************************************************)
EXTENDS Integers, Sequences

CONSTANTS
    OpIds,           \* opIds that clients choose
    NoOp,            \* no opId
    Batches,         \* operation batches
    Invalid,         \* the batches that the doctype's apply rejects
    InitialDocs,     \* documents that a session is created from
    NoDoc,           \* stands for null
    DELTA_THRESHOLD, \* versions between two snapshots
    RECENT_OP_LIMIT, \* opIds remembered in memory
    MaxVersion,      \* bound: versions explored
    MaxEnsures,      \* bound: snapshots retained by the snapshot route
    MaxFaults        \* bound: failures and restarts explored

ASSUME ValueAssumption ==
    /\ Invalid \subseteq Batches
    /\ NoOp \notin OpIds
    /\ InitialDocs \subseteq Seq(Batches)
    /\ NoDoc \notin Seq(Batches)

ASSUME BoundAssumption ==
    /\ DELTA_THRESHOLD \in Nat \ {0}
    /\ RECENT_OP_LIMIT \in Nat \ {0}
    /\ MaxVersion \in Nat
    /\ MaxEnsures \in Nat
    /\ MaxFaults \in Nat

VARIABLES
    identity,   \* the session's identity has been stored
    deltas,     \* svalue_deltas: version -> delta root
    snapshots,  \* svalue_snapshots: version -> document
    pending,    \* svalue_pending
    journal,    \* doc_commit_intents_v1
    loaded,     \* #loaded
    version,    \* #version
    doc,        \* #doc
    recentOps,  \* #recentOps in insertion order
    roots,      \* root references of this session in the store: root -> count
    requests,   \* root updates the store has accepted: request id -> changes
    req,        \* the request being handled
    author,     \* history: which request a committed version came from
    ensures,    \* snapshots retained by the snapshot route so far
    faults      \* failures so far

dbVars    == <<identity, deltas, snapshots, pending, journal>>
memVars   == <<loaded, version, doc, recentOps>>
casVars   == <<roots, requests>>
boundVars == <<ensures, faults>>
vars      == <<dbVars, memVars, casVars, req, author, boundVars>>

--------------------------------------------------------------------------------
(* Values *)

ApplyDelta(b)   == [kind |-> "apply", of |-> <<b>>]
RestoreDelta(d) == [kind |-> "restore", of |-> d]
SnapshotRoot(d) == [kind |-> "snapshot", of |-> d]

NoPending == [version |-> 0, delta |-> RestoreDelta(NoDoc), snapshot |-> NoDoc, op |-> NoOp]
NoIntent  == [state |-> "none", base |-> 0, batch |-> NoDoc]
Idle      == [kind |-> "none", op |-> NoOp, base |-> 0, arg |-> NoDoc, doc |-> NoDoc,
              at |-> "idle"]

HasPending == pending.version > 0
(* At most one row is pending: the partial unique index of the journal. *)
PendingIntents == {o \in OpIds : journal[o].state = "pending"}

(* The largest version in a table, 0 if it is empty. *)
Newest(table) == IF DOMAIN table = {} THEN 0
                 ELSE CHOOSE v \in DOMAIN table : \A w \in DOMAIN table : w <= v
latestVersion == Newest(deltas)
latestSnapshotVersion == Newest(snapshots)

(* One stored event of the log, applied to d. *)
Replayed(delta, d) == IF delta.kind = "restore" THEN delta.of ELSE d \o delta.of

(* The newest snapshot up to target, and the deltas after it. *)
reconstruct(target) ==
    LET at[v \in 0 .. target] ==
          IF v \in DOMAIN snapshots THEN snapshots[v]
          ELSE IF v = 0 THEN <<>>
          ELSE IF v \in DOMAIN deltas THEN Replayed(deltas[v], at[v - 1])
          ELSE at[v - 1]
    IN  at[target]

--------------------------------------------------------------------------------
(* Root references *)

latestDeltaRoots    == IF latestVersion = 0 THEN {} ELSE {deltas[latestVersion]}
latestSnapshotRoots == IF latestSnapshotVersion = 0 THEN {}
                       ELSE {SnapshotRoot(snapshots[latestSnapshotVersion])}
RootsOf(d)          == IF d = NoDoc THEN {} ELSE {SnapshotRoot(d)}

(* Mutant of Released: the previous snapshot is never released. *)
Released_keepsSnapshot(p) == latestDeltaRoots

(* What a transition to the roots of p acquires and releases.  The previous *)
(* snapshot is released only when a new one is retained.                    *)
Acquired(p) == {p.delta} \cup RootsOf(p.snapshot)
Released(p) == latestDeltaRoots \cup (IF p.snapshot = NoDoc THEN {} ELSE latestSnapshotRoots)

(* Zero-sum entries are dropped. *)
rootTransitionChanges(p) ==
    [h \in (Acquired(p) \ Released(p)) \cup (Released(p) \ Acquired(p)) |->
       IF h \in Acquired(p) THEN 1 ELSE -1]

RequestId(p) == IF p.op = NoOp THEN <<"version", p.version>> ELSE <<"commit", p.op>>

Count(h) == IF h \in DOMAIN roots THEN roots[h] ELSE 0
Change(changes, h) == IF h \in DOMAIN changes THEN changes[h] ELSE 0

(* The store takes a request id once: a repetition must carry the same      *)
(* changes and has no effect, and no count may become negative.             *)
UpdateAccepted(id, changes) ==
    IF id \in DOMAIN requests THEN requests[id] = changes
    ELSE \A h \in DOMAIN changes : Count(h) + changes[h] >= 0

updateRootRefs(id, changes) ==
    /\ UpdateAccepted(id, changes)
    /\ IF id \in DOMAIN requests THEN UNCHANGED casVars
       ELSE /\ roots' = [h \in {g \in DOMAIN roots \cup DOMAIN changes :
                                  Count(g) + Change(changes, g) > 0}
                           |-> Count(h) + Change(changes, h)]
            /\ requests' = [i \in DOMAIN requests \cup {id} |->
                              IF i = id THEN changes ELSE requests[i]]

--------------------------------------------------------------------------------
(* Types and initial state *)

Kinds == {"none", "create", "apply", "explicit", "rollback", "snapshot", "blob"}
Steps == {"idle", "recover", "recovered", "handle", "create", "settle", "settled", "retained"}

TypeOK ==
    /\ identity \in BOOLEAN /\ loaded \in BOOLEAN
    /\ DOMAIN deltas \subseteq Nat \ {0}
    /\ DOMAIN snapshots \subseteq Nat \ {0}
    /\ DOMAIN author \subseteq Nat \ {0}
    /\ latestVersion \in Nat /\ latestSnapshotVersion \in Nat
    /\ pending.version \in Nat /\ pending.op \in OpIds \cup {NoOp}
    /\ DOMAIN journal = OpIds
    /\ \A o \in OpIds :
         /\ journal[o] = [state |-> journal[o].state, base |-> journal[o].base,
                          batch |-> journal[o].batch]
         /\ journal[o].state \in {"none", "pending", "committed", "rejected"}
         /\ journal[o].base \in Nat
    /\ version \in Nat
    /\ \A h \in DOMAIN roots : roots[h] \in Nat \ {0}
    /\ DOMAIN requests \subseteq ({"version", "snapshot"} \X Nat) \cup ({"commit"} \X OpIds)
    /\ req = [kind |-> req.kind, op |-> req.op, base |-> req.base, arg |-> req.arg,
              doc |-> req.doc, at |-> req.at]
    /\ req.kind \in Kinds /\ req.at \in Steps /\ req.op \in OpIds \cup {NoOp}
    /\ req.base \in Nat
    /\ ensures \in Nat /\ faults \in Nat

(* The object of a session nobody has created yet. *)
Init ==
    /\ identity = FALSE
    /\ deltas = <<>> /\ snapshots = <<>> /\ author = <<>>
    /\ pending = NoPending
    /\ journal = [o \in OpIds |-> NoIntent]
    /\ loaded = FALSE /\ version = 0 /\ doc = NoDoc /\ recentOps = <<>>
    /\ roots = <<>> /\ requests = <<>>
    /\ req = Idle
    /\ ensures = 0 /\ faults = 0

--------------------------------------------------------------------------------
(* Taking up a request *)

ensureLoaded ==
    /\ loaded' = TRUE
    /\ version' = IF loaded THEN version ELSE latestVersion
    /\ doc' = IF loaded THEN doc
              ELSE IF latestVersion > 0 THEN reconstruct(latestVersion) ELSE NoDoc
    /\ UNCHANGED recentOps

Take(kind, op, base, arg, at) ==
    req' = [kind |-> kind, op |-> op, base |-> base, arg |-> arg, doc |-> NoDoc, at |-> at]

(* query, export, ir, status, history, commit_status and every request that *)
(* is refused before it recovers anything: only the load has an effect.     *)
ReadDocument ==
    /\ req = Idle
    /\ ensureLoaded
    /\ UNCHANGED <<dbVars, casVars, req, author, boundVars>>

(* create and init_from_hash: a document with an identity answers 409. *)
Create(d) ==
    /\ req = Idle
    /\ ~identity
    /\ ensureLoaded
    /\ Take("create", NoOp, 0, d, "handle")
    /\ UNCHANGED <<dbVars, casVars, author, boundVars>>

(* Room for one more version under the bound. *)
Room == latestVersion < MaxVersion /\ pending.version < MaxVersion

(* The other writes: refused while an explicit commit is pending, and they  *)
(* settle an unfinished version of the plain kind before anything else.     *)
Write(kind, op, base, arg) ==
    /\ req = Idle
    /\ identity
    /\ PendingIntents = {}
    /\ ensureLoaded
    /\ Take(kind, op, base, arg, "recover")
    /\ UNCHANGED <<dbVars, casVars, author, boundVars>>

(* Mutant of SnapshotRequest: treated like a read, so nothing is recovered. *)
SnapshotRequest_noRecovery ==
    /\ ensures < MaxEnsures
    /\ req = Idle /\ identity /\ PendingIntents = {}
    /\ ensureLoaded
    /\ Take("snapshot", NoOp, 0, NoDoc, "handle")
    /\ UNCHANGED <<dbVars, casVars, author, boundVars>>

ApplyRequest(op, base, b) == Room /\ Write("apply", op, base, b)
RollbackRequest(target)   == Room /\ Write("rollback", NoOp, target, NoDoc)
SnapshotRequest           == ensures < MaxEnsures /\ Write("snapshot", NoOp, 0, NoDoc)
(* write_blob, resolve_blob and a create of an existing document leave the  *)
(* session's tables alone once they have recovered.                         *)
BlobRequest               == Write("blob", NoOp, 0, NoDoc)

(* begin: a new intent if nothing is pending, or the same request again.    *)
(* A known opId with another payload, and a second intent, answer 409.      *)
begin(o, base, b) ==
    LET intent == [state |-> "pending", base |-> base, batch |-> b]
    IN  \/ /\ journal[o].state = "none" /\ PendingIntents = {}
           /\ journal' = [journal EXCEPT ![o] = intent]
        \/ /\ journal[o] = intent
           /\ UNCHANGED journal

applyExplicit(o, base, b) ==
    /\ req = Idle
    /\ identity
    /\ ensureLoaded
    /\ doc' # NoDoc
    /\ HasPending => pending.op # NoOp
    /\ base > 0 /\ base < MaxVersion
    /\ begin(o, base, b)
    /\ Take("explicit", o, base, b, "recover")
    /\ UNCHANGED <<identity, deltas, snapshots, pending, casVars, author, boundVars>>

(* commit_recover of a pending intent, whose payload is in the journal. *)
commitRecover(o) ==
    /\ req = Idle
    /\ identity
    /\ journal[o].state = "pending"
    /\ ensureLoaded
    /\ Take("explicit", o, journal[o].base, journal[o].batch, "recover")
    /\ UNCHANGED <<dbVars, casVars, author, boundVars>>

--------------------------------------------------------------------------------
(* #settlePending *)

(* A pending row of an explicit commit must agree with the intent. *)
IntentMatches(p) ==
    p.op # NoOp => LET intent == journal[p.op]
                   IN  /\ intent.state = "pending"
                       /\ intent.base + 1 = p.version
                       /\ ApplyDelta(intent.batch) = p.delta

(* The store is called only if a root changes. *)
moveRoots ==
    LET changes == rootTransitionChanges(pending)
    IN  IF DOMAIN changes = {} THEN UNCHANGED casVars
        ELSE updateRootRefs(RequestId(pending), changes)

settlePending ==
    /\ req.at \in {"recover", "settle"}
    /\ HasPending
    /\ IntentMatches(pending)
    /\ moveRoots
    /\ req' = [req EXCEPT !.at = IF req.at = "recover" THEN "recovered" ELSE "settled"]
    /\ UNCHANGED <<dbVars, memVars, author, boundVars>>

With(table, v, x) == [w \in DOMAIN table \cup {v} |-> IF w = v THEN x ELSE table[w]]

(* Mutants of finalize: the pending row, or the pending intent, is left; the *)
(* delta replaces the newest row.                                           *)
finalize_leavesRow ==
    /\ deltas' = With(deltas, pending.version, pending.delta)
    /\ snapshots' = IF pending.snapshot = NoDoc THEN snapshots
                    ELSE With(snapshots, pending.version, pending.snapshot)
    /\ journal' = IF pending.op = NoOp THEN journal
                  ELSE [journal EXCEPT ![pending.op].state = "committed"]
    /\ UNCHANGED <<identity, pending>>
finalize_replacesRow ==
    /\ deltas' = With(deltas, IF latestVersion = 0 THEN 1 ELSE latestVersion, pending.delta)
    /\ snapshots' = IF pending.snapshot = NoDoc THEN snapshots
                    ELSE With(snapshots, pending.version, pending.snapshot)
    /\ pending' = NoPending
    /\ journal' = IF pending.op = NoOp THEN journal
                  ELSE [journal EXCEPT ![pending.op].state = "committed"]
    /\ UNCHANGED identity

(* One transaction, the receipt of an explicit commit included. *)
finalize ==
    /\ deltas' = With(deltas, pending.version, pending.delta)
    /\ snapshots' = IF pending.snapshot = NoDoc THEN snapshots
                    ELSE With(snapshots, pending.version, pending.snapshot)
    /\ pending' = NoPending
    /\ journal' = IF pending.op = NoOp THEN journal
                  ELSE [journal EXCEPT ![pending.op].state = "committed"]
    /\ UNCHANGED identity

finalizeRecovered ==
    /\ req.at = "recovered"
    /\ finalize
    /\ req' = [req EXCEPT !.at = "recover"]
    /\ UNCHANGED <<memVars, casVars, author, boundVars>>

rememberOp(op, v) ==
    LET longer == Append(recentOps, [op |-> op, version |-> v])
    IN  recentOps' = IF Len(longer) > RECENT_OP_LIMIT THEN Tail(longer) ELSE longer

(* Mutant of finalizeCommitted: remembers the version it started from. *)
finalizeCommitted_oldVersion ==
    /\ req.at = "settled"
    /\ finalize
    /\ version' = pending.version
    /\ doc' = req.doc
    /\ IF req.kind = "apply" /\ req.op # NoOp THEN rememberOp(req.op, version)
       ELSE UNCHANGED recentOps
    /\ req' = Idle
    /\ UNCHANGED <<loaded, casVars, author, boundVars>>

(* The end of #commit: publish in memory and answer. *)
finalizeCommitted ==
    /\ req.at = "settled"
    /\ finalize
    /\ version' = pending.version
    /\ doc' = req.doc
    /\ IF req.kind = "apply" /\ req.op # NoOp THEN rememberOp(req.op, pending.version)
       ELSE UNCHANGED recentOps
    /\ req' = Idle
    /\ UNCHANGED <<loaded, casVars, author, boundVars>>

(* Mutant of recoverPending: the document is kept although the version moved. *)
recoverPending_staleDoc ==
    /\ req.at = "recover"
    /\ ~HasPending
    /\ doc' = IF latestVersion > 0 /\ doc = NoDoc THEN reconstruct(latestVersion) ELSE doc
    /\ version' = latestVersion
    /\ req' = [req EXCEPT !.at = "handle"]
    /\ UNCHANGED <<dbVars, loaded, recentOps, casVars, author, boundVars>>

(* The end of #recoverPending: memory follows the tables. *)
recoverPending ==
    /\ req.at = "recover"
    /\ ~HasPending
    /\ doc' = IF latestVersion # version \/ (latestVersion > 0 /\ doc = NoDoc)
              THEN reconstruct(latestVersion) ELSE doc
    /\ version' = latestVersion
    /\ req' = [req EXCEPT !.at = "handle"]
    /\ UNCHANGED <<dbVars, loaded, recentOps, casVars, author, boundVars>>

--------------------------------------------------------------------------------
(* Handling the request *)

Handling(kind) == req.at = "handle" /\ req.kind = kind

(* The first part of #commit, up to the pending row. *)
commit(d, delta, forceSnapshot, op) ==
    LET next == version + 1
        shouldSnapshot == \/ forceSnapshot
                          \/ next = 1
                          \/ next - latestSnapshotVersion >= DELTA_THRESHOLD
    IN  /\ pending' = [version |-> next, delta |-> delta,
                       snapshot |-> IF shouldSnapshot THEN d ELSE NoDoc, op |-> op]
        /\ author' = With(author, next, [kind |-> req.kind, op |-> req.op])
        /\ req' = [req EXCEPT !.doc = d, !.at = "settle"]

storeIdentity ==
    /\ Handling("create")
    /\ identity' = TRUE
    /\ req' = [req EXCEPT !.at = "create"]
    /\ UNCHANGED <<deltas, snapshots, pending, journal, memVars, casVars, author, boundVars>>

commitCreated ==
    /\ req.at = "create"
    /\ commit(req.arg, RestoreDelta(req.arg), TRUE, NoOp)
    /\ UNCHANGED <<identity, deltas, snapshots, journal, memVars, casVars, boundVars>>

Remembered(op) == \E i \in DOMAIN recentOps : recentOps[i].op = op

ApplyRefused == \/ doc = NoDoc
                \/ req.op # NoOp /\ Remembered(req.op)
                \/ req.base # version
                \/ req.arg \in Invalid

apply ==
    /\ Handling("apply")
    /\ ~ApplyRefused
    /\ commit(Append(doc, req.arg), ApplyDelta(req.arg), FALSE, NoOp)
    /\ UNCHANGED <<identity, deltas, snapshots, journal, memVars, casVars, boundVars>>

rollback ==
    /\ Handling("rollback")
    /\ doc # NoDoc
    /\ req.base \in DOMAIN deltas
    /\ LET d == reconstruct(req.base) IN commit(d, RestoreDelta(d), TRUE, NoOp)
    /\ UNCHANGED <<identity, deltas, snapshots, journal, memVars, casVars, boundVars>>

(* Mutant of rejectExplicit: a version conflict is answered, not recorded. *)
rejectExplicit_unrecorded ==
    /\ Handling("explicit")
    /\ journal[req.op].state = "pending"
    /\ req.base # version \/ req.arg \in Invalid
    /\ journal' = IF req.base # version THEN journal
                  ELSE [journal EXCEPT ![req.op].state = "rejected"]
    /\ req' = Idle
    /\ UNCHANGED <<identity, deltas, snapshots, pending, memVars, casVars, author, boundVars>>

(* An intent that the recovery has not settled: version_conflict, or        *)
(* invalid_operations, or a commit like any other.                          *)
rejectExplicit ==
    /\ Handling("explicit")
    /\ journal[req.op].state = "pending"
    /\ req.base # version \/ req.arg \in Invalid
    /\ journal' = [journal EXCEPT ![req.op].state = "rejected"]
    /\ req' = Idle
    /\ UNCHANGED <<identity, deltas, snapshots, pending, memVars, casVars, author, boundVars>>

commitExplicit ==
    /\ Handling("explicit")
    /\ journal[req.op].state = "pending"
    /\ req.base = version /\ req.arg \notin Invalid
    /\ commit(Append(doc, req.arg), ApplyDelta(req.arg), FALSE, req.op)
    /\ UNCHANGED <<identity, deltas, snapshots, journal, memVars, casVars, boundVars>>

(* #ensureCurrentSnapshot: retain in the store, then record the row. *)
ensureChanges == [h \in {SnapshotRoot(doc)} |-> 1]

retainSnapshot ==
    /\ Handling("snapshot")
    /\ doc # NoDoc /\ version \notin DOMAIN snapshots
    /\ updateRootRefs(<<"snapshot", version>>, ensureChanges)
    /\ ensures' = ensures + 1
    /\ req' = [req EXCEPT !.at = "retained"]
    /\ UNCHANGED <<dbVars, memVars, author, faults>>

recordSnapshot ==
    /\ req.at = "retained"
    /\ snapshots' = With(snapshots, version, doc)
    /\ req' = Idle
    /\ UNCHANGED <<identity, deltas, pending, journal, memVars, casVars, author, boundVars>>

(* The requests that end here without a new version. *)
AnswerOnly ==
    /\ \/ Handling("apply") /\ ApplyRefused
       \/ Handling("rollback") /\ (doc = NoDoc \/ req.base \notin DOMAIN deltas)
       \/ Handling("snapshot") /\ (doc = NoDoc \/ version \in DOMAIN snapshots)
       \/ Handling("explicit") /\ journal[req.op].state # "pending"
       \/ Handling("blob")
    /\ req' = Idle
    /\ UNCHANGED <<dbVars, memVars, casVars, author, boundVars>>

--------------------------------------------------------------------------------
(* Failures *)

Fault == faults < MaxFaults /\ faults' = faults + 1 /\ UNCHANGED ensures

(* The request ends with an error.  #resumeExplicit drops the memory when   *)
(* the failure came after its intent was committed.                         *)
EndWithError ==
    /\ req' = Idle
    /\ IF req.kind = "explicit" /\ journal[req.op].state = "committed"
       THEN loaded' = FALSE /\ doc' = NoDoc /\ UNCHANGED <<version, recentOps>>
       ELSE UNCHANGED memVars

(* A call to the store or the doctype fails without an effect. *)
RequestFails ==
    /\ req.at \in {"recover", "handle", "create", "settle"}
    /\ Fault
    /\ EndWithError
    /\ UNCHANGED <<dbVars, casVars, author>>

(* The root update is accepted, its answer is lost. *)
AnswerLost ==
    /\ \/ req.at \in {"recover", "settle"} /\ HasPending /\ IntentMatches(pending) /\ moveRoots
       \/ /\ Handling("snapshot") /\ doc # NoDoc /\ version \notin DOMAIN snapshots
          /\ updateRootRefs(<<"snapshot", version>>, ensureChanges)
    /\ Fault
    /\ EndWithError
    /\ UNCHANGED <<dbVars, author>>

(* The doctype's apply fails on a valid batch (it reads blobs): every error *)
(* of an explicit commit's apply is recorded as invalid_operations.         *)
ApplyBreaks ==
    /\ Handling("explicit")
    /\ journal[req.op].state = "pending"
    /\ req.base = version
    /\ Fault
    /\ journal' = [journal EXCEPT ![req.op].state = "rejected"]
    /\ req' = Idle
    /\ UNCHANGED <<identity, deltas, snapshots, pending, memVars, casVars, author>>

(* The object is evicted or crashes: memory is gone, the tables stay. *)
Restart ==
    /\ Fault
    /\ loaded' = FALSE /\ version' = 0 /\ doc' = NoDoc /\ recentOps' = <<>>
    /\ req' = Idle
    /\ UNCHANGED <<dbVars, casVars, author>>

--------------------------------------------------------------------------------
(* Specification *)

Arrive ==
    \/ ReadDocument
    \/ \E d \in InitialDocs : Create(d)
    \/ \E op \in OpIds \cup {NoOp}, base \in 1 .. MaxVersion, b \in Batches :
          ApplyRequest(op, base, b)
    \/ \E target \in 1 .. MaxVersion : RollbackRequest(target)
    \/ SnapshotRequest
    \/ BlobRequest
    \/ \E o \in OpIds, base \in 1 .. MaxVersion, b \in Batches : applyExplicit(o, base, b)
    \/ \E o \in OpIds : commitRecover(o)

Handle ==
    \/ settlePending \/ finalizeRecovered \/ finalizeCommitted \/ recoverPending
    \/ storeIdentity \/ commitCreated \/ apply \/ rollback
    \/ rejectExplicit \/ commitExplicit
    \/ retainSnapshot \/ recordSnapshot \/ AnswerOnly

Next == Arrive \/ Handle \/ RequestFails \/ AnswerLost \/ ApplyBreaks \/ Restart

Spec == Init /\ [][Next]_vars

(* A handler that is not interrupted goes on. *)
FairSpec == Spec /\ WF_vars(Handle)

--------------------------------------------------------------------------------
(* Properties *)

(* Of the session's root references: what the store must hold now.  Until   *)
(* the update of the pending row is accepted this is the newest delta and   *)
(* the newest snapshot, from then on what the pending row asks for.         *)
UpdateApplied == HasPending /\ RequestId(pending) \in DOMAIN requests
HeldRoots ==
    IF UpdateApplied
    THEN Acquired(pending) \cup (IF pending.snapshot = NoDoc THEN latestSnapshotRoots ELSE {})
    ELSE latestDeltaRoots \cup latestSnapshotRoots

(* The session holds the newest delta and the newest snapshot, through every *)
(* failure between the outbox row, the store and the final transaction.      *)
RootsHeld == \A h \in HeldRoots : Count(h) >= 1

(* It holds each of them once and nothing else (root-transition.ts).        *)
RootsExact == roots = [h \in HeldRoots |-> 1]

(* Until the snapshot route has retained a snapshot (which it never          *)
(* exchanges for the one before), the roots are exact through every commit,  *)
(* rollback and recovery, and every failed or repeated update                *)
(* (rootTransitionChanges).                                                  *)
Ensured == \E r \in DOMAIN requests : r[1] = "snapshot"
RootsExactUntilEnsured == ~Ensured => RootsExact

(* A pending row can always be settled: it agrees with its intent, and the  *)
(* store either has recorded exactly this update or can still accept it.    *)
(* Otherwise #settlePending would fail for ever and block every write.      *)
PendingSettleable ==
    HasPending =>
       /\ IntentMatches(pending)
       /\ LET changes == rootTransitionChanges(pending)
          IN  DOMAIN changes # {} => UpdateAccepted(RequestId(pending), changes)

(* The log has no gaps, the pending version extends it, and an outbox row   *)
(* of one kind excludes an unfinished commit of the other kind.             *)
OutboxInv ==
    /\ DOMAIN deltas = 1 .. latestVersion
    /\ DOMAIN snapshots \subseteq DOMAIN deltas
    /\ \A v \in DOMAIN deltas : deltas[v].kind \in {"apply", "restore"}
    /\ HasPending => /\ pending.version = latestVersion + 1
                     /\ pending.delta.kind \in {"apply", "restore"}
                     /\ IntentMatches(pending)
    /\ \A o, p \in PendingIntents : o = p
    /\ HasPending /\ pending.op = NoOp => PendingIntents = {}
    /\ ~identity => latestVersion = 0 /\ ~HasPending /\ PendingIntents = {}

(* Memory is never ahead of the log, and only a version has a document. *)
MemoryInv ==
    /\ version <= latestVersion
    /\ doc # NoDoc => version > 0

(* What a handler may rely on at each of its steps. *)
HandlerInv ==
    /\ req.at = "idle" <=> req.kind = "none"
    /\ req.at \in {"handle", "create", "retained"} => ~HasPending /\ version = latestVersion
    /\ req.at \in {"recovered", "settle", "settled"} => HasPending
    /\ req.at \in {"recovered", "settled"} =>
         UpdateApplied \/ DOMAIN rootTransitionChanges(pending) = {}
    /\ req.at = "create" => req.kind = "create" /\ identity
    /\ req.at = "retained" => /\ req.kind = "snapshot" /\ doc # NoDoc
                              /\ Count(SnapshotRoot(doc)) >= 1
    /\ req.kind = "create" /\ req.at = "handle" => ~identity
    /\ req.kind = "explicit" =>
         /\ identity /\ req.op \in OpIds
         /\ journal[req.op].state # "none"
         /\ journal[req.op].base = req.base /\ journal[req.op].batch = req.arg
    /\ req.kind \notin {"none", "explicit"} => PendingIntents = {}
    /\ req.kind \notin {"none", "create"} => identity
    /\ req.kind = "create" => req.at # "recover" /\ req.at # "recovered"

(* Which request ids the store can have seen, and with which changes. *)
RequestsInv ==
    /\ \A r \in DOMAIN requests :
         /\ r[1] = "version" => \/ r[2] <= latestVersion
                                \/ HasPending /\ pending.op = NoOp /\ r[2] = pending.version
         /\ r[1] = "commit" => \/ journal[r[2]].state = "committed"
                               \/ HasPending /\ pending.op = r[2]
         /\ r[1] = "snapshot" => r[2] <= latestVersion
    /\ UpdateApplied => requests[RequestId(pending)] = rootTransitionChanges(pending)
    /\ ~UpdateApplied /\ <<"snapshot", latestVersion>> \in DOMAIN requests =>
         \A h \in DOMAIN requests[<<"snapshot", latestVersion>>] : Count(h) >= 1

(* A receipt tells the truth: an intent is committed if and only if exactly *)
(* the version after its base carries its operations, and a rejected intent *)
(* never becomes a version, whatever is retried or recovered.               *)
ReceiptsHonest ==
    /\ \A o \in OpIds : journal[o].state = "committed" =>
         LET v == journal[o].base + 1
         IN  /\ v \in DOMAIN deltas /\ deltas[v] = ApplyDelta(journal[o].batch)
             /\ author[v] = [kind |-> "explicit", op |-> o]
    /\ \A v \in DOMAIN deltas : author[v].kind = "explicit" =>
         /\ journal[author[v].op].state = "committed"
         /\ journal[author[v].op].base + 1 = v

(* The history variable follows the outbox. *)
AuthorInv ==
    /\ DOMAIN deltas \subseteq DOMAIN author
    /\ \A v \in DOMAIN author : author[v].kind = "explicit" => author[v].op \in OpIds
    /\ HasPending => /\ pending.version \in DOMAIN author
                     /\ IF pending.op = NoOp THEN author[pending.version].kind # "explicit"
                        ELSE author[pending.version] = [kind |-> "explicit", op |-> pending.op]

(* The inductive invariant of the commit protocol. *)
EditorInv ==
    /\ TypeOK /\ OutboxInv /\ MemoryInv /\ HandlerInv /\ RequestsInv /\ AuthorInv
    /\ RootsHeld /\ ReceiptsHonest

(* The opId memory names the version that the request created, so the       *)
(* answer to a repeated apply is not another request's version.             *)
RecentOpsHonest ==
    \A i \in DOMAIN recentOps :
       LET v == recentOps[i].version
       IN  v \in DOMAIN deltas /\ author[v] = [kind |-> "apply", op |-> recentOps[i].op]

(* The document as the log alone defines it, without snapshots. *)
FullReplay(target) ==
    LET at[v \in 0 .. target] == IF v = 0 THEN <<>> ELSE Replayed(deltas[v], at[v - 1])
    IN  at[target]

(* Every snapshot is the document of its version, and the document in       *)
(* memory is that of the version it is served under.                        *)
ContentFaithful ==
    /\ \A v \in DOMAIN snapshots : snapshots[v] = FullReplay(v)
    /\ doc # NoDoc => version \in DOMAIN deltas /\ doc = FullReplay(version)

(* The session implements the log of commits: its delta table is the log and *)
(* its journal the receipts.  No version is ever replaced, although every     *)
(* insert is an INSERT OR REPLACE and the version number comes from memory,   *)
(* and an explicit commit is decided once, together with its version, however *)
(* often it is sent, recovered or interrupted.                                *)
Receipts == [o \in OpIds |-> [state |-> journal[o].state, base |-> journal[o].base,
                              row |-> ApplyDelta(journal[o].batch)]]
Promise == INSTANCE CommitLog WITH log <- deltas, receipts <- Receipts
KeepsCommitLog == Promise!AbsSpec

(* If recovery of pending intents is asked for, each gets a final receipt.  *)
RecoveryRequested == \A o \in OpIds : SF_vars(commitRecover(o))
IntentsSettle ==
    RecoveryRequested =>
       \A o \in OpIds : (journal[o].state = "pending") ~> (journal[o].state # "pending")
===============================================================================
