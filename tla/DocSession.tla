------------------------------ MODULE DocSession ------------------------------
(***************************************************************************)
(* One document session on Azure: DocumentSession over its storage ports.  *)
(* The delta log and the snapshot references are PostgreSQL tables, the    *)
(* snapshot cache and the snapshot blobs are objects of a blob store, and  *)
(* root references are kept in the content-addressed store.                *)
(*                                                                         *)
(* Stateless replicas serve the session, and every request builds a fresh  *)
(* DocumentSession: each member of Slots is a request in progress, with    *)
(* its own #doc and #version, and its steps are the awaits of its handler. *)
(* #recentOps of a fresh session is empty, so an opId is never recognised. *)
(*                                                                         *)
(* A document is the sequence of batches applied to an empty one, and a    *)
(* snapshot hash is the document that it names.                            *)
(***************************************************************************)
EXTENDS Integers, Sequences, FiniteSets

CONSTANTS
    Slots,           \* requests that may be in progress together
    Batches,         \* operation batches
    Invalid,         \* the batches that the doctype's apply rejects
    WithRefs,        \* the batches that mention blobs of the store
    InitialDocs,     \* documents that a session is created from
    CloneDocs,       \* documents whose snapshot blobs other sessions stored
    NoDoc,           \* stands for null
    DELTA_THRESHOLD, \* versions between two durable snapshots
    MaxAhead,        \* bound: how far beyond the head a client's version may be
    MaxRequests,     \* bound: requests explored
    MaxFaults,       \* bound: failures explored
    MaxEvents        \* bound: requests and failures explored together

ASSUME ValueAssumption ==
    /\ Invalid \subseteq Batches
    /\ WithRefs \subseteq Batches
    /\ InitialDocs \cup CloneDocs \subseteq Seq(Batches)
    /\ NoDoc \notin Seq(Batches)

ASSUME BoundAssumption ==
    /\ DELTA_THRESHOLD \in Nat \ {0}
    /\ MaxAhead \in Nat
    /\ MaxRequests \in Nat
    /\ MaxFaults \in Nat /\ MaxEvents \in Nat

VARIABLES
    registered, \* doc_sessions holds this session
    deltas,     \* deltas: version -> row
    snapshots,  \* doc_snapshots: version -> document named by the hash
    blobs,      \* snapshot blobs: the documents stored
    cache,      \* the "latest" blob of the snapshot cache
    requests,   \* root updates the store has accepted: request id -> references
    slot,       \* the requests in progress
    acked,      \* history: the rows whose apply was answered with success
    removed,    \* history: a row has been removed again
    overtaken,  \* history: a document was created in the middle of another load()
    misapplied, \* history: a row follows a version that its request had not loaded
    arrivals,   \* requests so far
    faults      \* failures so far

dbVars  == <<registered, deltas, snapshots>>
histVars == <<acked, removed, overtaken, misapplied>>
vars == <<dbVars, blobs, cache, requests, slot, histVars, arrivals, faults>>

--------------------------------------------------------------------------------
(* Values *)

(* The rows of create, apply and rollback.  Only an apply row carries         *)
(* operations; a rollback row names its target in its description.            *)
CreateRow      == [kind |-> "create", batch |-> NoDoc, target |-> 0]
ApplyRow(b)    == [kind |-> "apply", batch |-> b, target |-> 0]
RollbackRow(t) == [kind |-> "rollback", batch |-> NoDoc, target |-> t]

NoEntry == [version |-> 0, doc |-> NoDoc]
Idle    == [kind |-> "none", arg |-> NoDoc, base |-> 0, doc |-> NoDoc, version |-> 0,
            at |-> "idle"]

Elements(d) == {d[i] : i \in DOMAIN d}
(* refsFromSValue: the blobs that a document or a batch mentions. *)
refsOfDoc(d)   == Elements(d) \cap WithRefs
refsOfBatch(b) == {b} \cap WithRefs

Newest(table) == IF DOMAIN table = {} THEN 0
                 ELSE CHOOSE v \in DOMAIN table : \A w \in DOMAIN table : w <= v
head == Newest(deltas)

(* latestSnapshotRef(atOrBefore), 0 if there is none. *)
latestSnapshotRef(target) ==
    Newest([v \in {w \in DOMAIN snapshots : w <= target} |-> snapshots[v]])

(* latestSnapshotRef() without a bound: the newest of all. *)
newestSnapshotRef == Newest(snapshots)

(* Mutant of Replay: the row of the loaded version is applied again. *)
Replay_again(d, first, last) ==
    LET at[v \in Nat] ==
          IF v < first - 1 THEN d
          ELSE IF v \in DOMAIN deltas /\ deltas[v].kind = "apply"
               THEN Append(at[v - 1], deltas[v].batch)
               ELSE IF v = 0 THEN d ELSE at[v - 1]
    IN  at[last]

(* The operations of the rows from first to last, applied to d.  Rows without *)
(* operations leave the document as it is.                                    *)
Replay(d, first, last) ==
    LET at[v \in Nat] ==
          IF v < first THEN d
          ELSE IF v \in DOMAIN deltas /\ deltas[v].kind = "apply"
               THEN Append(at[v - 1], deltas[v].batch)
               ELSE at[v - 1]
    IN  at[last]

(* The content that the history gives version v: a rollback row restores its  *)
(* target.                                                                    *)
Contents(v) ==
    LET at[w \in Nat] ==
          IF w = 0 \/ w \notin DOMAIN deltas THEN NoDoc
          ELSE CASE deltas[w].kind = "create"   -> snapshots[w]
                 [] deltas[w].kind = "apply"    -> Append(at[w - 1], deltas[w].batch)
                 [] OTHER                       -> at[deltas[w].target]
    IN  at[v]

With(f, k, x) == [y \in DOMAIN f \cup {k} |-> IF y = k THEN x ELSE f[y]]

--------------------------------------------------------------------------------
(* Ports *)

(* The store takes a request id once: a repetition must carry the same        *)
(* references and has no effect.                                              *)
UpdateAccepted(id, refs) == id \in DOMAIN requests => requests[id] = refs
updateRootRefs(id, refs) == requests' = With(requests, id, refs)

(* The requests and the failures of one behaviour are bounded together. *)
Explored == arrivals + faults < MaxEvents

Fault == faults < MaxFaults /\ Explored /\ faults' = faults + 1

(* The request leaves with an answer; its session is discarded. *)
Answered(s)  == slot' = [slot EXCEPT ![s] = Idle]
Moved(s, to) == slot' = [slot EXCEPT ![s].at = to]
At(s, at)    == slot[s].at = at

(* The version a write appends: baseVersion + 1, for a rollback head() + 1. *)
NextVersion(s) == slot[s].base + 1

RowOf(s) == CASE slot[s].kind = "apply"    -> ApplyRow(slot[s].arg)
              [] slot[s].kind = "rollback" -> RollbackRow(slot[s].arg)
              [] OTHER                     -> CreateRow

--------------------------------------------------------------------------------
(* A request arrives: prepareSession registers the identity when creating and *)
(* refuses every other request on a session that is not registered.           *)

Arrive(s, kind, arg, base) ==
    /\ At(s, "idle")
    /\ arrivals < MaxRequests /\ Explored /\ arrivals' = arrivals + 1
    /\ IF kind \in {"create", "clone"} THEN registered' = TRUE
       ELSE registered /\ UNCHANGED registered
    /\ slot' = [slot EXCEPT ![s] = [Idle EXCEPT !.kind = kind, !.arg = arg, !.base = base,
                                                !.at = "cache"]]
    /\ UNCHANGED <<deltas, snapshots, blobs, cache, requests, histVars, faults>>

(* Any baseVersion and any target are taken, also one that the log has yet to *)
(* reach.                                                                     *)
ArriveAny(s) ==
    \/ \E d \in InitialDocs : Arrive(s, "create", d, 0)
    \/ \E d \in InitialDocs \cup CloneDocs : Arrive(s, "clone", d, 0)
    \/ \E b \in Batches, base \in 0 .. head + MaxAhead : Arrive(s, "apply", b, base)
    \/ \E target \in 1 .. head + MaxAhead : Arrive(s, "rollback", target, 0)
    \/ Arrive(s, "snapshot", NoDoc, 0)
    \/ Arrive(s, "read", NoDoc, 0)

--------------------------------------------------------------------------------
(* load() *)

(* The cache answers with its entry, or not at all: there is none, or it was  *)
(* overwritten during each of the GET_ATTEMPTS reads.                         *)
LoadCached(s) ==
    /\ At(s, "cache") /\ cache /= NoEntry
    /\ slot' = [slot EXCEPT ![s].doc = cache.doc, ![s].version = cache.version, ![s].at = "since"]
    /\ UNCHANGED <<dbVars, blobs, cache, requests, histVars, faults, arrivals>>

LoadMissed(s) ==
    /\ At(s, "cache")
    /\ \/ cache = NoEntry /\ UNCHANGED faults
       \/ cache /= NoEntry /\ Fault
    /\ Moved(s, "durable")
    /\ UNCHANGED <<dbVars, blobs, cache, requests, histVars, arrivals>>

(* A reference whose blob is gone is an error. *)
LoadDurable(s) ==
    /\ At(s, "durable")
    /\ LET ref == newestSnapshotRef
       IN  IF ref = 0 THEN Moved(s, "since")
           ELSE IF snapshots[ref] \notin blobs THEN Answered(s)
           ELSE slot' = [slot EXCEPT ![s].doc = snapshots[ref], ![s].version = ref,
                                     ![s].at = "since"]
    /\ UNCHANGED <<dbVars, blobs, cache, requests, histVars, faults, arrivals>>

(* Rows after the loaded version are replayed, on init() if nothing was       *)
(* loaded, and the result is written back to the cache.                       *)
LoadReplay(s) ==
    /\ At(s, "since")
    /\ LET r == slot[s]
           pending == {v \in DOMAIN deltas : v > r.version}
           start == IF r.doc = NoDoc THEN <<>> ELSE r.doc
       IN  IF pending = {} THEN Moved(s, "loaded")
           ELSE slot' = [slot EXCEPT ![s].doc = Replay(start, r.version + 1, head),
                                     ![s].version = head, ![s].at = "writeback"]
    /\ UNCHANGED <<dbVars, blobs, cache, requests, histVars, faults, arrivals>>

(* An unconditional overwrite. *)
saveSnapshotCache(s) ==
    cache' = [version |-> slot[s].version, doc |-> slot[s].doc]

LoadWriteBack(s) ==
    /\ At(s, "writeback")
    /\ saveSnapshotCache(s)
    /\ Moved(s, "loaded")
    /\ UNCHANGED <<dbVars, blobs, requests, histVars, faults, arrivals>>

--------------------------------------------------------------------------------
(* create() and initFromHash() *)

(* Nothing is written when the document exists, or the hash names no blob.    *)
CreateBlob(s) ==
    /\ At(s, "loaded") /\ slot[s].kind \in {"create", "clone"}
    /\ LET r == slot[s]
           refused == r.doc /= NoDoc \/ (r.kind = "clone" /\ r.arg \notin blobs)
       IN  /\ IF refused THEN Answered(s)
              ELSE slot' = [slot EXCEPT ![s].doc = r.arg, ![s].version = 1, ![s].at = "pin"]
           /\ blobs' = IF refused THEN blobs ELSE blobs \cup {r.arg}
    /\ UNCHANGED <<dbVars, cache, requests, histVars, faults, arrivals>>

--------------------------------------------------------------------------------
(* apply() up to the conditional write *)

(* A missing document, a base that is not the head, a failed lease and a      *)
(* batch that the doctype rejects end the request.  The batch is applied to a *)
(* working copy of the version that was loaded, which nothing compares with   *)
(* the base.                                                                  *)
ApplyCheck(s) ==
    /\ At(s, "loaded") /\ slot[s].kind = "apply"
    /\ LET r == slot[s]
       IN  IF r.doc = NoDoc \/ head /= r.base \/ r.arg \in Invalid THEN Answered(s)
           ELSE slot' = [slot EXCEPT ![s].doc = Append(r.doc, r.arg), ![s].at = "append"]
    /\ UNCHANGED <<dbVars, blobs, cache, requests, histVars, faults, arrivals>>

--------------------------------------------------------------------------------
(* rollback() up to the conditional write *)

RollbackBuild(s) ==
    /\ At(s, "loaded") /\ slot[s].kind = "rollback"
    /\ LET target == slot[s].arg
           ref == latestSnapshotRef(target)
           start == IF ref = 0 THEN <<>> ELSE snapshots[ref]
       IN  IF slot[s].doc = NoDoc \/ target \notin DOMAIN deltas \/ (ref > 0 /\ start \notin blobs)
           THEN Answered(s)
           ELSE slot' = [slot EXCEPT ![s].doc = Replay(start, ref + 1, target), ![s].at = "head"]
    /\ UNCHANGED <<dbVars, blobs, cache, requests, histVars, faults, arrivals>>

RollbackHead(s) ==
    /\ At(s, "head")
    /\ slot' = [slot EXCEPT ![s].base = head, ![s].at = "append"]
    /\ UNCHANGED <<dbVars, blobs, cache, requests, histVars, faults, arrivals>>

--------------------------------------------------------------------------------
(* append(): one INSERT statement, which takes its snapshot when it starts    *)
(* and meets the primary key when it commits.                                 *)

InsertBegin(s) ==
    /\ At(s, "append")
    /\ IF head = slot[s].base THEN Moved(s, "insert") ELSE Answered(s)
    /\ UNCHANGED <<dbVars, blobs, cache, requests, histVars, faults, arrivals>>

(* Mutant of KeyFree: the statement updates the row it meets. *)
KeyFree_upsert(v) == TRUE

(* ON CONFLICT DO NOTHING *)
KeyFree(v) == v \notin DOMAIN deltas

(* A load() that found no snapshot reference, and has yet to read the log,    *)
(* will replay the row of a new document on init().                           *)
Overtakes(s) ==
    /\ slot[s].kind \in {"create", "clone"} /\ slot[s].doc /= <<>>
    /\ \E t \in Slots : At(t, "since") /\ slot[t].doc = NoDoc

(* The base was reached by the log after this request had loaded it.          *)
Misapplies(s) == slot[s].kind = "apply" /\ slot[s].version /= slot[s].base

(* The row of an apply is followed by its root references.  A rollback goes   *)
(* on to the cache.  The row of a new document and its snapshot reference are *)
(* one transaction.                                                           *)
InsertCommit(s) ==
    /\ At(s, "insert")
    /\ LET r == slot[s]
           v == NextVersion(s)
       IN  IF ~KeyFree(v) THEN Answered(s) /\ UNCHANGED <<deltas, snapshots, overtaken, misapplied>>
           ELSE /\ deltas' = With(deltas, v, RowOf(s))
                /\ snapshots' = IF r.kind \in {"create", "clone"} THEN With(snapshots, v, r.doc)
                                ELSE snapshots
                /\ slot' = [slot EXCEPT ![s].version = v,
                                        ![s].at = IF r.kind = "apply" THEN "refs" ELSE "save"]
                /\ overtaken' = (overtaken \/ Overtakes(s))
                /\ misapplied' = (misapplied \/ Misapplies(s))
    /\ UNCHANGED <<registered, blobs, cache, requests, acked, removed, faults, arrivals>>

(* commitRootRefsOrRollback: without references there is no call.  The store  *)
(* may refuse the update, fail, or perform it and lose the answer.            *)
CommitRefs(s) ==
    /\ At(s, "refs")
    /\ LET id == <<"apply", slot[s].version>>
           refs == refsOfBatch(slot[s].arg)
       IN  \/ /\ refs = {} /\ Moved(s, "save")
              /\ UNCHANGED <<requests, faults>>
           \/ /\ refs /= {} /\ UpdateAccepted(id, refs)
              /\ updateRootRefs(id, refs)
              /\ \/ Moved(s, "save") /\ UNCHANGED faults
                 \/ Moved(s, "undo") /\ Fault
           \/ /\ refs /= {}
              /\ \/ ~UpdateAccepted(id, refs) /\ UNCHANGED faults
                 \/ Fault
              /\ Moved(s, "undo")
              /\ UNCHANGED requests
    /\ UNCHANGED <<dbVars, blobs, cache, histVars, arrivals>>

(* remove(): the row goes only while it is the head.  A DELETE that fails     *)
(* leaves it.                                                                 *)
UndoAppend(s) ==
    /\ At(s, "undo")
    /\ LET v == slot[s].version
       IN  \/ /\ deltas' = [w \in DOMAIN deltas \ (IF head = v THEN {v} ELSE {}) |-> deltas[w]]
              /\ removed' = (removed \/ head = v)
              /\ UNCHANGED faults
           \/ Fault /\ UNCHANGED <<deltas, removed>>
    /\ Answered(s)
    /\ UNCHANGED <<registered, snapshots, blobs, cache, requests, acked, overtaken, misapplied,
                   arrivals>>

--------------------------------------------------------------------------------
(* The cache, the durable snapshot and the answer *)

(* A new document ignores a cache that fails; apply and rollback answer with  *)
(* an error.                                                                  *)
SaveCache(s) ==
    /\ At(s, "save")
    /\ LET new == slot[s].kind \in {"create", "clone"}
       IN  \/ /\ saveSnapshotCache(s)
              /\ IF new THEN Answered(s) ELSE Moved(s, "threshold")
              /\ UNCHANGED faults
           \/ Fault /\ Answered(s) /\ UNCHANGED cache
    /\ UNCHANGED <<dbVars, blobs, requests, histVars, arrivals>>

shouldSnapshot ==
    Cardinality({v \in DOMAIN deltas : v > newestSnapshotRef}) >= DELTA_THRESHOLD

(* What an answered apply promises. *)
Acknowledge(s) ==
    acked' = IF slot[s].kind = "apply" THEN acked \cup {[version |-> slot[s].version, batch |-> slot[s].arg]}
             ELSE acked

CheckThreshold(s) ==
    /\ At(s, "threshold")
    /\ IF shouldSnapshot THEN Moved(s, "blob") /\ UNCHANGED acked
       ELSE Answered(s) /\ Acknowledge(s)
    /\ UNCHANGED <<dbVars, blobs, cache, requests, removed, overtaken, misapplied, faults, arrivals>>

(* #writeSnapshot: the blob, its references, then the restore point. *)
SnapshotRequest(s) ==
    /\ At(s, "loaded") /\ slot[s].kind = "snapshot"
    /\ IF slot[s].doc = NoDoc THEN Answered(s) ELSE Moved(s, "blob")
    /\ UNCHANGED <<dbVars, blobs, cache, requests, histVars, faults, arrivals>>

WriteBlob(s) ==
    /\ At(s, "blob")
    /\ blobs' = blobs \cup {slot[s].doc}
    /\ Moved(s, "pin")
    /\ UNCHANGED <<dbVars, cache, requests, histVars, faults, arrivals>>

AfterPin(s) == IF slot[s].kind \in {"create", "clone"} THEN "append" ELSE "record"

(* Mutant of PinFailed: the restore point is recorded all the same. *)
PinFailed_ignored(s) == Moved(s, AfterPin(s))

PinFailed(s) == Answered(s)

(* The references of a restore point are retained before it is recorded.      *)
PinSnapshot(s) ==
    /\ At(s, "pin")
    /\ LET id == <<"snapshot", slot[s].version>>
           refs == refsOfDoc(slot[s].doc)
       IN  \/ /\ refs = {} /\ Moved(s, AfterPin(s))
              /\ UNCHANGED <<requests, faults>>
           \/ /\ refs /= {} /\ UpdateAccepted(id, refs)
              /\ updateRootRefs(id, refs)
              /\ \/ Moved(s, AfterPin(s)) /\ UNCHANGED faults
                 \/ PinFailed(s) /\ Fault
           \/ /\ refs /= {} /\ PinFailed(s)
              /\ \/ ~UpdateAccepted(id, refs) /\ UNCHANGED faults
                 \/ Fault
              /\ UNCHANGED requests
    /\ UNCHANGED <<dbVars, blobs, cache, histVars, arrivals>>

RecordSnapshot(s) ==
    /\ At(s, "record")
    /\ snapshots' = With(snapshots, slot[s].version, slot[s].doc)
    /\ Acknowledge(s)
    /\ Answered(s)
    /\ UNCHANGED <<registered, deltas, blobs, cache, requests, removed, overtaken, misapplied,
                   faults, arrivals>>

(* query, export, history, ir and status *)
AnswerRead(s) ==
    /\ At(s, "loaded") /\ slot[s].kind = "read"
    /\ Answered(s)
    /\ UNCHANGED <<dbVars, blobs, cache, requests, histVars, faults, arrivals>>

(* The replica stops, or a call to a port fails, and the request ends where   *)
(* it is.  After an append the row stays.                                     *)
Crash(s) ==
    /\ ~At(s, "idle") /\ Fault
    /\ Answered(s)
    /\ UNCHANGED <<dbVars, blobs, cache, requests, histVars, arrivals>>

--------------------------------------------------------------------------------
Init ==
    /\ registered = FALSE
    /\ deltas = <<>> /\ snapshots = <<>>
    /\ blobs = CloneDocs
    /\ cache = NoEntry
    /\ requests = <<>>
    /\ slot = [s \in Slots |-> Idle]
    /\ acked = {} /\ removed = FALSE /\ overtaken = FALSE /\ misapplied = FALSE
    /\ arrivals = 0 /\ faults = 0

Step(s) ==
    \/ LoadCached(s) \/ LoadMissed(s) \/ LoadDurable(s) \/ LoadReplay(s) \/ LoadWriteBack(s)
    \/ CreateBlob(s) \/ ApplyCheck(s) \/ RollbackBuild(s) \/ RollbackHead(s)
    \/ InsertBegin(s) \/ InsertCommit(s) \/ CommitRefs(s) \/ UndoAppend(s)
    \/ SaveCache(s) \/ CheckThreshold(s)
    \/ SnapshotRequest(s) \/ WriteBlob(s) \/ PinSnapshot(s) \/ RecordSnapshot(s)
    \/ AnswerRead(s)

Next == \E s \in Slots : ArriveAny(s) \/ Step(s) \/ Crash(s)

Spec == Init /\ [][Next]_vars

--------------------------------------------------------------------------------
(* Properties *)

Ats == {"idle", "cache", "durable", "since", "writeback", "loaded", "head", "append", "insert",
        "refs", "undo", "save", "threshold", "blob", "pin", "record"}

(* Every table, blob and request holds values of its kind, and a request that *)
(* is past its load() holds a document.                                       *)
TypeOK ==
    /\ {registered, removed, overtaken, misapplied} \subseteq BOOLEAN
    /\ \A v \in DOMAIN deltas : v \in Nat \ {0} /\ deltas[v].kind \in {"create", "apply", "rollback"}
    /\ \A v \in DOMAIN snapshots : v \in Nat \ {0} /\ snapshots[v] \in Seq(Batches)
    /\ blobs \subseteq Seq(Batches)
    /\ cache /= NoEntry => cache.doc \in Seq(Batches) /\ cache.version \in Nat \ {0}
    /\ \A s \in Slots :
          /\ slot[s].at \in Ats
          /\ slot[s].at \notin {"idle", "cache", "durable", "since", "loaded"} =>
                slot[s].doc \in Seq(Batches)
    /\ arrivals \in 0 .. MaxRequests /\ faults \in 0 .. MaxFaults

(* A restore point is never recorded before what it needs: its blob is stored *)
(* and the store retains every blob that its document mentions, under the     *)
(* restore point's own request id, whichever request recorded it and whatever *)
(* failed meanwhile (#writeSnapshot, create and initFromHash).                *)
RestorePointsSafe ==
    \A v \in DOMAIN snapshots :
        LET refs == refsOfDoc(snapshots[v])
        IN  /\ snapshots[v] \in blobs
            /\ refs /= {} => /\ <<"snapshot", v>> \in DOMAIN requests
                             /\ requests[<<"snapshot", v>>] = refs

(* Well-formed state and restore points that are safe from the moment they    *)
(* are recorded.                                                              *)
RestorePointsInv == TypeOK /\ RestorePointsSafe

(* A batch that apply answered with success stays in the log at its version   *)
(* with its references retained, whatever other replicas append, compensate   *)
(* or lose afterwards.                                                        *)
AcknowledgedKept ==
    \A a \in acked :
        /\ a.version \in DOMAIN deltas /\ deltas[a.version] = ApplyRow(a.batch)
        /\ refsOfBatch(a.batch) /= {} =>
              /\ <<"apply", a.version>> \in DOMAIN requests
              /\ requests[<<"apply", a.version>>] = refsOfBatch(a.batch)

Rollbacks == {v \in DOMAIN deltas : deltas[v].kind = "rollback"}

(* The versions whose content replay can rebuild: no rollback up to v.        *)
Replayable(v) == \A w \in Rollbacks : w > v

(* Unless a row was compensated, a load() was overtaken by the creation, or   *)
(* an apply named a base that the log only reached after the apply had loaded *)
(* an earlier version, what a session loads, caches, records as a restore     *)
(* point or clones is the content that the history gives its version, for     *)
(* every version before the first rollback.  Replicas share the cache and     *)
(* overwrite it in any order.                                                 *)
ContentFaithful ==
    ~removed /\ ~overtaken /\ ~misapplied =>
        /\ \A v \in DOMAIN snapshots : Replayable(v) => snapshots[v] = Contents(v)
        /\ cache /= NoEntry /\ Replayable(cache.version) => cache.doc = Contents(cache.version)
        /\ \A s \in Slots :
              slot[s].at \in {"writeback", "loaded", "refs", "save", "blob", "record"}
                /\ slot[s].version > 0 /\ Replayable(slot[s].version)
                => slot[s].doc = Contents(slot[s].version)

(* A miss of the snapshot cache "costs a replay from the durable snapshot,    *)
(* which is always correct": while no row was compensated or appended to a    *)
(* version that its request had not loaded, what load() hands to its request  *)
(* is the content of its version, also for the version of a new document and  *)
(* the version of a rollback.                                                 *)
MissCostsReplay ==
    ~removed /\ ~misapplied =>
        \A s \in Slots :
            slot[s].at = "loaded" /\ slot[s].version > 0 => slot[s].doc = Contents(slot[s].version)
================================================================================
