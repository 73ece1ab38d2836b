----------------------------- MODULE TenantPortal -----------------------------
(***************************************************************************)
(* One document of the tenant portal: its versions, its comment threads,   *)
(* the submissions of the Operator agent, the moves of the current version *)
(* by users, and the retention of the snapshots in the CAS.                *)
(*                                                                         *)
(* The tables are in D1, where a batch is one transaction; every batch and *)
(* every read that a later batch depends on is a step.  A member of Users  *)
(* is a browser tab with a request in progress, a member of Runs is a      *)
(* webhook delivery that the Operator works on, or a row that the          *)
(* retention sweep works on.                                               *)
(***************************************************************************)
EXTENDS Integers, FiniteSets, FiniteSetsExt, Sequences

CONSTANTS
    Users, Runs,
    Threads,      \* thread ids that can be drawn
    Keys,         \* idempotency keys of comments
    Bodies,       \* contents of comments
    Blobs,        \* contents of snapshots
    None,
    MaxTries,     \* MAX_COMMIT_ATTEMPTS and MAX_COMMENT_IDX_ATTEMPTS
    MaxVersions, MaxComments, MaxEvents, MaxMoves, MaxFaults   \* bounds

ASSUME PortalAssumption ==
    /\ None \notin Threads \cup Blobs
    /\ {MaxTries, MaxVersions, MaxComments, MaxEvents} \subseteq Nat \ {0}
    /\ {MaxMoves, MaxFaults} \subseteq Nat

VARIABLES
    documents,  \* portal_documents: ids made under the one creation key
    current,    \* its current_version_idx
    versions,   \* portal_versions, by version_idx
    retained,   \* rows with snapshot_retained_at
    lost,       \* rows with snapshot_lost_at
    comments,   \* portal_comments, by thread and comment_idx
    replies,    \* portal_replies, by thread and reply_idx
    receipts,   \* portal_submissions, by submission id
    keys,       \* portal_tenant_idempotency_receipts, by operation and key
    audit,      \* portal_document_audit: the moves
    events,     \* webhook events sent
    stored, requests, count,  \* CAS: blobs, root requests on record, references
    tab, run,   \* the requests in progress
    faults      \* calls, answers and events lost or duplicated so far

pages == <<documents, current, versions, comments, replies, receipts, keys, audit>>
marks == <<retained, lost>>
cas   == <<stored, requests, count>>
vars  == <<pages, marks, cas, events, tab, run, faults>>

--------------------------------------------------------------------------------
(* Values *)

Null == -1   \* SQL NULL as an index, and the watermark of a thread without replies

(* A table with one more row; the primary key keeps the row that is there. *)
Inserted(f, k, x) == [y \in DOMAIN f \cup {k} |-> IF y \in DOMAIN f THEN f[y] ELSE x]

NextIdx(rows)   == Max(DOMAIN rows \cup {-1}) + 1
Latest(t)       == Max(DOMAIN comments[t] \cup {-1})
Acknowledged(t) == Max({replies[t][i].through : i \in DOMAIN replies[t]} \cup {-1})

NoBody  == [blob |-> None, obs |-> Null, thread |-> None, ack |-> Null, through |-> Null]
IdleRun == [at |-> "idle", event |-> 0, attempt |-> 0, body |-> NoBody, addressed |-> {},
            vidx |-> Null, ridx |-> Null, commits |-> 0, tries |-> 0]
IdleTab == [at |-> "idle", op |-> None, thread |-> None, key |-> None, body |-> None,
            idx |-> Null, tries |-> 0]

RunAt(r, at)   == run[r].at = at
RunEnds(r)     == run' = [run EXCEPT ![r] = IdleRun]
RunGoes(r, at) == run' = [run EXCEPT ![r].at = at]
TabAt(u, at)   == tab[u].at = at
TabEnds(u)     == tab' = [tab EXCEPT ![u] = IdleTab]

Fault == faults < MaxFaults /\ faults' = faults + 1

(* evt-<event>-<attempt>: one id per event and attempt. *)
SubmissionId(r) == <<run[r].event, run[r].attempt>>

Sent(t) ==
    /\ Cardinality(DOMAIN events) < MaxEvents
    /\ events' = Inserted(events, NextIdx(events), [thread |-> t, seen |-> IF t = None THEN current ELSE Null, due |-> TRUE])

(* The event that follows a committed or replayed write is sent once, in the  *)
(* background; what is lost is not sent again.                                *)
Dispatched(t) == (Sent(t) /\ UNCHANGED faults) \/ (Fault /\ UNCHANGED events)

--------------------------------------------------------------------------------
(* Users: documents *)

(* The receipt, the document and its audit event are one batch, which a       *)
(* receipt on record refuses; the twin's document is answered then.           *)
InsertDocument(u) ==
    IF <<"createDocument", None>> \in DOMAIN keys THEN UNCHANGED <<documents, keys>>
    ELSE /\ documents' = documents \cup {u}
         /\ keys' = Inserted(keys, <<"createDocument", None>>, [fp |-> None, thread |-> None, idx |-> Null])

CreateDocument(u) ==
    /\ TabAt(u, "idle")
    /\ InsertDocument(u)
    /\ Dispatched(None)
    /\ UNCHANGED <<current, versions, comments, replies, receipts, audit, marks, cas, tab, run>>

(* The condition of the update. *)
Moves(obs, target) == current = obs /\ target \in DOMAIN versions

(* Mutant of AuditsMove: the audit row is guarded by the state after the move. *)
AuditsMove_after(obs, target) == Moves(obs, target) \/ current = target

(* The guard of the audit row is that of the update it precedes. *)
AuditsMove(obs, target) == Moves(obs, target)

MoveCurrentVersion(obs, target) ==
    /\ documents # {} /\ Len(audit) < MaxMoves
    /\ audit' = IF AuditsMove(obs, target) THEN Append(audit, [before |-> obs, after |-> target]) ELSE audit
    /\ current' = IF Moves(obs, target) THEN target ELSE current
    /\ UNCHANGED <<documents, versions, comments, replies, receipts, keys, marks, cas, events, tab, run, faults>>

--------------------------------------------------------------------------------
(* Users: threads and comments *)

Fingerprint(q) == <<IF q.op = "append" THEN q.thread ELSE None, q.body>>
KeyOf(q)       == <<q.op, q.key>>
Recorded(q)    == KeyOf(q) \in DOMAIN keys

(* The index is only a proposal; comment 0 comes with its thread. *)
Proposed(q) == [q EXCEPT !.at = "batch", !.idx = IF q.op = "create" THEN 0 ELSE NextIdx(comments[q.thread])]

(* replay: the response on record, or idempotency_conflict. *)
Replayed(q) ==
    IF keys[KeyOf(q)].fp = Fingerprint(q) THEN Dispatched(keys[KeyOf(q)].thread) ELSE UNCHANGED <<events, faults>>

(* A comment is anchored on a version that exists, and the id of a new thread *)
(* is fresh.  The receipt is looked up before the index.                      *)
BeginComment(u, op, t, k, b) ==
    LET q == [IdleTab EXCEPT !.op = op, !.thread = t, !.key = k, !.body = b]
    IN  /\ TabAt(u, "idle") /\ DOMAIN versions # {}
        /\ op = "append" => comments[t] # <<>>
        /\ op = "create" => comments[t] = <<>> /\ \A w \in Users : tab[w].thread # t
        /\ IF Recorded(q) THEN Replayed(q) /\ UNCHANGED tab
           ELSE tab' = [tab EXCEPT ![u] = Proposed(q)] /\ UNCHANGED <<events, faults>>
        /\ UNCHANGED <<pages, marks, cas, run>>

(* Mutant of CommentFits: the comment is inserted before the receipt. *)
CommentFits_unkeyed(q) == q.idx \notin DOMAIN comments[q.thread]

(* Both primary keys must be free. *)
CommentFits(q) == q.idx \notin DOMAIN comments[q.thread] /\ ~Recorded(q)

(* create and appendComment: the comment and its receipt are one batch.  A    *)
(* batch that failed reads the receipt again, and tries the next index if     *)
(* there is none.                                                             *)
InsertComment(u) ==
    LET q == tab[u]
    IN  /\ TabAt(u, "batch")
        /\ IF CommentFits(q)
           THEN /\ comments' = [comments EXCEPT ![q.thread] = Inserted(@, q.idx, [key |-> KeyOf(q), body |-> q.body])]
                /\ keys' = Inserted(keys, KeyOf(q), [fp |-> Fingerprint(q), thread |-> q.thread, idx |-> q.idx])
                /\ Dispatched(q.thread)
                /\ TabEnds(u)
           ELSE /\ IF Recorded(q) THEN Replayed(q) /\ TabEnds(u)
                   ELSE /\ tab' = [tab EXCEPT ![u] = IF q.tries + 1 = MaxTries THEN IdleTab
                                                     ELSE Proposed([q EXCEPT !.tries = q.tries + 1])]
                        /\ UNCHANGED <<events, faults>>
                /\ UNCHANGED <<comments, keys>>
        /\ UNCHANGED <<documents, current, versions, replies, receipts, audit, marks, cas, run>>

--------------------------------------------------------------------------------
(* Webhook events *)

(* A session that reads a document without a version asks again. *)
Redeliver ==
    /\ documents # {} /\ current = Null
    /\ Sent(None)
    /\ UNCHANGED <<pages, marks, cas, tab, run, faults>>

--------------------------------------------------------------------------------
(* The Operator: what it reads and what it submits *)

Submits(r, q, b) == run' = [run EXCEPT ![r] = [q EXCEPT !.at = "receipt", !.body = b]]

(* createFirstVersion stops at a document that has a version. *)
FirstVersion(r, q, blob) ==
    IF events[q.event].seen # Null \/ current # Null THEN RunEnds(r) /\ UNCHANGED stored
    ELSE stored' = stored \cup {blob} /\ Submits(r, q, [NoBody EXCEPT !.blob = blob])

(* answerThread stops at a thread that is answered; the answer is a reply     *)
(* through the latest comment.  submissionFor reads the current version and   *)
(* may write a changed one; content that would not change is not submitted.   *)
AnswerThread(r, q, blob) ==
    LET t == events[q.event].thread
        b == [NoBody EXCEPT !.thread = t, !.ack = Acknowledged(t), !.through = Latest(t)]
    IN  IF b.through <= b.ack THEN RunEnds(r) /\ UNCHANGED stored
        ELSE \/ Submits(r, q, b) /\ UNCHANGED stored
             \/ versions[current].blob \notin stored /\ RunEnds(r) /\ UNCHANGED stored
             \/ /\ versions[current].blob \in stored \ {blob}
                /\ stored' = stored \cup {blob}
                /\ Submits(r, q, [b EXCEPT !.blob = blob, !.obs = current])

Work(r, q, blob) ==
    /\ IF events[q.event].thread = None THEN FirstVersion(r, q, blob) ELSE AnswerThread(r, q, blob)
    /\ UNCHANGED <<pages, marks, requests, count, tab>>

(* handleOperatorEvent: an event is accepted at once and worked on later, at  *)
(* least once.                                                                *)
HandleEvent(r, e, blob) ==
    /\ RunAt(r, "idle")
    /\ IF events[e].due THEN UNCHANGED faults ELSE Fault
    /\ events' = [events EXCEPT ![e].due = FALSE]
    /\ Work(r, [IdleRun EXCEPT !.event = e], blob)

(* A rejected submission is computed again from what is there now. *)
TryAgain(r, blob) ==
    /\ RunAt(r, "again")
    /\ Work(r, run[r], blob)
    /\ UNCHANGED <<events, faults>>

--------------------------------------------------------------------------------
(* The Agent API: createTenantSubmissionService and its repository *)

(* A twin that committed is answered with its receipt, and its snapshot is    *)
(* retained; another body under the same id is refused.                       *)
FindReceipt(r) ==
    LET id == SubmissionId(r)
    IN  /\ RunAt(r, "receipt")
        /\ IF id \notin DOMAIN receipts THEN RunGoes(r, "state")
           ELSE IF receipts[id].body = run[r].body /\ run[r].body.blob # None
           THEN run' = [run EXCEPT ![r].at = "retain", ![r].vidx = receipts[id].version]
           ELSE RunEnds(r)
        /\ UNCHANGED <<pages, marks, cas, events, tab, faults>>

(* Mutants of the two locks: what was observed is not compared. *)
VersionLock_open(b) == b.blob # None => documents # {}
ThreadLock_open(b)  == b.thread # None => comments[b.thread] # <<>>

VersionLock(b) == b.blob # None => documents # {} /\ current = b.obs
ThreadLock(b)  == b.thread # None => comments[b.thread] # <<>> /\ Acknowledged(b.thread) = b.ack

Locks(b) == VersionLock(b) /\ ThreadLock(b)

(* attemptCommit: a reply answers at least one comment, and only comments     *)
(* there are.                                                                 *)
Answers(b) == b.thread # None => b.ack < b.through /\ b.through <= Latest(b.thread)

(* A rejected submission is recomputed, three times at most. *)
Rejected(r) ==
    IF run[r].attempt = 2 THEN RunEnds(r)
    ELSE run' = [run EXCEPT ![r] = [IdleRun EXCEPT !.at = "again", !.event = run[r].event, !.attempt = run[r].attempt + 1]]

(* prepareAttempt: the indexes that the rows and the receipt will carry. *)
Prepared(q) ==
    [q EXCEPT !.at = "batch",
              !.vidx = IF q.body.blob = None THEN Null ELSE NextIdx(versions),
              !.ridx = IF q.body.thread = None THEN Null ELSE NextIdx(replies[q.body.thread])]

(* The comments that a new version answers. *)
AddressedComments(b) ==
    IF b.blob = None \/ b.thread = None THEN {}
    ELSE {i \in DOMAIN comments[b.thread] : b.ack < i /\ i <= b.through}

(* replayOrReject, then the checks of attemptCommit: two commits at most, and *)
(* the snapshot must be in the CAS.                                           *)
LoadState(r) ==
    LET b == run[r].body
    IN  /\ RunAt(r, "state")
        /\ IF ~Locks(b) THEN Rejected(r)
           ELSE IF run[r].commits = 2 \/ ~Answers(b) \/ b.blob \notin stored \cup {None} THEN RunEnds(r)
           ELSE run' = [run EXCEPT ![r] = Prepared([run[r] EXCEPT !.tries = 0, !.addressed = AddressedComments(b)])]
        /\ UNCHANGED <<pages, marks, cas, events, tab, faults>>

(* Mutant of BatchFits: the version row is inserted if it is not there. *)
BatchFits_ignore(r) ==
    /\ Locks(run[r].body)
    /\ run[r].body.thread # None => run[r].ridx \notin DOMAIN replies[run[r].body.thread]
    /\ SubmissionId(r) \notin DOMAIN receipts

(* The guards and the primary keys of the batch. *)
BatchFits(r) ==
    /\ Locks(run[r].body)
    /\ run[r].vidx \notin DOMAIN versions
    /\ run[r].body.thread # None => run[r].ridx \notin DOMAIN replies[run[r].body.thread]
    /\ SubmissionId(r) \notin DOMAIN receipts

(* commit: version, pointer, reply and receipt are one batch. *)
CommitSubmission(r) ==
    LET b  == run[r].body
        id == SubmissionId(r)
        v  == run[r].vidx
    IN  /\ RunAt(r, "batch") /\ BatchFits(r)
        /\ IF b.blob = None THEN UNCHANGED <<versions, current>>
           ELSE /\ Cardinality(DOMAIN versions) < MaxVersions
                /\ versions' = Inserted(versions, v, [parent |-> b.obs, blob |-> b.blob, sub |-> id, addressed |-> run[r].addressed])
                /\ current' = v
        /\ IF b.thread = None THEN UNCHANGED replies
           ELSE replies' = [replies EXCEPT ![b.thread] = Inserted(@, run[r].ridx, [through |-> b.through, sub |-> id])]
        /\ receipts' = Inserted(receipts, id, [body |-> b, version |-> v, reply |-> run[r].ridx])
        /\ IF b.blob = None THEN RunEnds(r) ELSE RunGoes(r, "retain")
        /\ UNCHANGED <<documents, comments, keys, audit, marks, cas, events, tab, faults>>

(* classifyFailure: a receipt or a moved lock sends the request back to the   *)
(* service; with every lock holding the indexes are read again.               *)
ClassifyFailure(r) ==
    /\ RunAt(r, "batch") /\ ~BatchFits(r)
    /\ IF SubmissionId(r) \in DOMAIN receipts \/ ~Locks(run[r].body)
       THEN run' = [run EXCEPT ![r].at = "receipt", ![r].commits = @ + 1, ![r].vidx = Null, ![r].ridx = Null]
       ELSE IF run[r].tries + 1 = MaxTries THEN RunEnds(r)
       ELSE run' = [run EXCEPT ![r] = Prepared([run[r] EXCEPT !.tries = run[r].tries + 1])]
    /\ UNCHANGED <<pages, marks, cas, events, tab, faults>>

--------------------------------------------------------------------------------
(* Snapshot retention *)

Unretained == DOMAIN versions \ (retained \cup lost)

(* Mutant of RetainRequestId: one id per request. *)
RetainRequestId_fresh(v) == <<v, Cardinality(requests)>>

(* The request id is made from the version. *)
RetainRequestId(v) == <<v>>

(* retainRow: the CAS applies a request once, and answers 404 for a collected *)
(* blob.                                                                      *)
RetainRow(r, v) ==
    LET b == versions[v].blob
        q == RetainRequestId(v)
        outcome(at) == run' = [run EXCEPT ![r] = [IdleRun EXCEPT !.at = at, !.vidx = v]]
    IN  IF b \in stored
        THEN /\ requests' = requests \cup {q}
             /\ count' = IF q \in requests THEN count ELSE [count EXCEPT ![b] = @ + 1]
             /\ outcome("retained")
        ELSE outcome("lost") /\ UNCHANGED <<requests, count>>

(* retainVersion, for a version that was just answered. *)
RetainVersion(r) ==
    /\ RunAt(r, "retain")
    /\ IF run[r].vidx \in Unretained THEN RetainRow(r, run[r].vidx)
       ELSE RunEnds(r) /\ UNCHANGED <<requests, count>>
    /\ UNCHANGED <<pages, marks, stored, events, tab, faults>>

(* sweep, in the background of any request, takes rows that waited. *)
Sweep(r, v) ==
    /\ RunAt(r, "idle") /\ v \in Unretained
    /\ RetainRow(r, v)
    /\ UNCHANGED <<pages, marks, stored, events, tab, faults>>

(* record: only a row that is not retained yet is changed. *)
Record(r) ==
    /\ run[r].at \in {"retained", "lost"}
    /\ IF RunAt(r, "retained")
       THEN retained' = retained \cup {run[r].vidx} /\ UNCHANGED lost
       ELSE lost' = lost \cup ({run[r].vidx} \ retained) /\ UNCHANGED retained
    /\ RunEnds(r)
    /\ UNCHANGED <<pages, cas, events, tab, faults>>

(* A collection takes what nothing refers to once its lease has run out. *)
Collect(b) ==
    /\ b \in stored /\ count[b] = 0 /\ Fault
    /\ stored' = stored \ {b}
    /\ UNCHANGED <<pages, marks, requests, count, events, tab, run>>

--------------------------------------------------------------------------------
(* The worker stops between the commit and the record of its retention, or    *)
(* one of the calls fails.  A request that stops before its batch leaves      *)
(* nothing: it is one that takes no further step.                             *)
FailRun(r) ==
    /\ run[r].at \in {"retain", "retained", "lost"} /\ Fault
    /\ RunEnds(r)
    /\ UNCHANGED <<pages, marks, cas, events, tab>>

Init ==
    /\ documents = {} /\ current = Null /\ versions = <<>> /\ retained = {} /\ lost = {}
    /\ comments = [t \in Threads |-> <<>>] /\ replies = [t \in Threads |-> <<>>]
    /\ receipts = <<>> /\ keys = <<>> /\ audit = <<>> /\ events = <<>>
    /\ stored = {} /\ requests = {} /\ count = [b \in Blobs |-> 0]
    /\ tab = [u \in Users |-> IdleTab] /\ run = [r \in Runs |-> IdleRun]
    /\ faults = 0

Commented == Cardinality({k \in DOMAIN keys : k[1] # "createDocument"})

UserStep(u) ==
    \/ CreateDocument(u)
    \/ \E op \in {"create", "append"}, t \in Threads, k \in Keys, b \in Bodies :
          /\ Commented < MaxComments \/ <<op, k>> \in DOMAIN keys
          /\ BeginComment(u, op, t, k, b)
    \/ InsertComment(u)

Submit(r) ==
    \/ FindReceipt(r) \/ LoadState(r) \/ CommitSubmission(r) \/ ClassifyFailure(r)

RunStep(r) ==
    \/ \E e \in DOMAIN events, b \in Blobs : HandleEvent(r, e, b)
    \/ \E b \in Blobs : TryAgain(r, b)
    \/ Submit(r)
    \/ RetainVersion(r) \/ Record(r)
    \/ \E v \in DOMAIN versions : Sweep(r, v)
    \/ FailRun(r)

Next ==
    \/ \E u \in Users : UserStep(u)
    \/ \E r \in Runs : RunStep(r)
    \/ \E target \in 0 .. MaxVersions - 1 : \E obs \in ({Null} \cup DOMAIN versions) \ {target} : MoveCurrentVersion(obs, target)
    \/ Redeliver
    \/ \E b \in Blobs : Collect(b)

Spec == Init /\ [][Next]_vars

--------------------------------------------------------------------------------
(* Properties *)

Index    == Nat \cup {Null}
Body     == [blob : Blobs \cup {None}, obs : Index, thread : Threads \cup {None}, ack : Index, through : Index]
RunSteps == {"idle", "again", "receipt", "state", "batch", "retain", "retained", "lost"}
TabSteps == {"idle", "batch"}

(* The tables, the CAS and the requests in progress have their types. *)
PortalTypeOK ==
    /\ documents \subseteq Users /\ current \in DOMAIN versions \cup {Null}
    /\ \A v \in DOMAIN versions : v \in Nat /\ versions[v].blob \in Blobs /\ versions[v].parent \in Index
    /\ retained \cup lost \subseteq DOMAIN versions
    /\ \A id \in DOMAIN receipts : receipts[id].body \in Body
    /\ stored \subseteq Blobs /\ count \in [Blobs -> Nat]
    /\ \A r \in Runs : run[r].at \in RunSteps /\ run[r].body \in Body /\ run[r].tries < MaxTries /\ run[r].commits <= 2
    /\ \A u \in Users : tab[u].at \in TabSteps /\ tab[u].tries < MaxTries

(* A submission takes effect once, however often it is delivered, raced or    *)
(* retried: its receipt names the rows it wrote, no two receipts name the     *)
(* same row, and no row is without its receipt (portal_submissions).          *)
SubmittedOnce ==
    /\ \A id \in DOMAIN receipts :
          LET q == receipts[id]
          IN  /\ q.body.blob # None => /\ q.version \in DOMAIN versions
                                       /\ versions[q.version].sub = id
                                       /\ versions[q.version].parent = q.body.obs
              /\ q.body.thread # None => /\ q.reply \in DOMAIN replies[q.body.thread]
                                         /\ replies[q.body.thread][q.reply].sub = id
    /\ \A v \in DOMAIN versions : receipts[versions[v].sub].version = v
    /\ \A t \in Threads : \A i \in DOMAIN replies[t] : receipts[replies[t][i].sub].reply = i

(* The versions are one history: indexes without gaps, one first version      *)
(* although several runs may write it, every other one made from an earlier   *)
(* one, and none that only repeats the content it was made from (version      *)
(* lock; design 7.1).                                                         *)
OneHistory ==
    /\ DOMAIN versions = 0 .. Cardinality(DOMAIN versions) - 1
    /\ \A v \in DOMAIN versions :
          /\ versions[v].parent = Null <=> v = 0
          /\ versions[v].parent < v
          /\ v # 0 => versions[v].blob # versions[versions[v].parent].blob

(* Well-formed tables whose versions are one history.                         *)
HistoryInv == PortalTypeOK /\ OneHistory

(* Every comment is answered at most once: replies go strictly forward,       *)
(* through comments that are there, and a version addresses exactly the       *)
(* comments between the reply before its own and its own (thread lock).       *)
AnsweredOnce ==
    \A t \in Threads :
        /\ DOMAIN replies[t] = 0 .. Cardinality(DOMAIN replies[t]) - 1
        /\ \A i \in DOMAIN replies[t] :
              LET before == IF i = 0 THEN Null ELSE replies[t][i - 1].through
                  q      == receipts[replies[t][i].sub]
              IN  /\ before < replies[t][i].through /\ replies[t][i].through <= Latest(t)
                  /\ q.version # Null => versions[q.version].addressed = before + 1 .. replies[t][i].through

(* An idempotency key takes effect once, for a document, a thread or a        *)
(* comment: what its receipt answers is there, every row has its receipt, and *)
(* comment indexes have no gaps.                                              *)
KeysOnce ==
    /\ Cardinality(documents) <= 1
    /\ \A t \in Threads :
          /\ DOMAIN comments[t] = 0 .. Cardinality(DOMAIN comments[t]) - 1
          /\ \A i \in DOMAIN comments[t] : /\ keys[comments[t][i].key].thread = t
                                           /\ keys[comments[t][i].key].idx = i
    /\ \A k \in DOMAIN keys \ {<<"createDocument", None>>} : keys[k].idx \in DOMAIN comments[keys[k].thread]

(* A version recorded as retained can be read for good, and each version      *)
(* counts one reference at most, whoever retained it and however often        *)
(* (the request id is made from the version).                                 *)
SnapshotsKept ==
    \A b \in Blobs :
        LET holders(rows) == Cardinality({v \in rows : versions[v].blob = b})
        IN  /\ holders(retained) <= count[b] /\ count[b] <= holders(DOMAIN versions)
            /\ holders(retained) > 0 => b \in stored

(* The current version moves in two ways only: to a version just committed    *)
(* whose parent it was, or by a user, and then the audit has that very move;  *)
(* a refused move leaves no audit.                                            *)
PointerExplained ==
    [][/\ audit' = audit => \/ current' = current
                            \/ current' \notin DOMAIN versions /\ versions'[current'].parent = current
       /\ audit' # audit => audit' = Append(audit, [before |-> current, after |-> current'])]_vars
================================================================================
