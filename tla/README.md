# TLA+ models of unidocs

unidocs keeps structured documents (markdown, docx, psd) whose content lives in
a tenant-scoped content-addressed store. This directory models the parts of it
that carry its own state and concurrency: TLA+ modules translated from the
source, TLC configurations that check them on small instances, and TLAPS proofs
for every value of the constants.

## 1. The system

```
client -> gateway (authentication, directory docId -> session)
       -> document session (a Durable Object on Cloudflare, or a stateless
          service over Postgres and blob storage on Azure)
       -> CAS (unicas): tenant object -> reference-domain object, D1, R2
portal (threads, submissions, retention) beside the gateway
```

| component | state | operations | what is hard |
|---|---|---|---|
| CAS tenant store (`unicas-packages/service`, `service-cloudflare`) | D1: nodes, edges, upload reservations, direct-upload sessions; R2 objects; in memory: mutation gate, active uploads, readiness cache | lease, body upload, direct upload (prepare, finalize), adoption, root update, garbage collection | uploads write R2 outside the gate and D1 inside it; collection removes R2 and D1 in two steps; leases, reservations, sessions and cache entries all expire; restarts |
| CAS root reference ledger | D1: revision, events, balances, requests per domain; `root_ref_count` of the nodes | signed update, retry | commands of many tenants race without a lock; answers are lost; the tenant gate is held across objects |
| document session, Cloudflare (`cloudflare-sdk/src/editor-do-svalue.ts`) | SQLite: delta log, snapshots, one pending version, intents of explicit commits; in memory: document, version, recent opIds | create, init, apply, rollback, snapshot, commit control | outbox across a crash: local state and CAS roots move in separate systems |
| document session, Azure (`doctype-server-common/src/session.ts`, `azure-sdk`) | Postgres log and snapshot references, blobs, droppable cache | create, init, apply, rollback, snapshot | optimistic appends of concurrent replicas, compensation, stale cache |
| gateway directory (`gateway-common`, `cloudflare-gateway/src/document-directory.ts`) | D1: one row per document with its session, key, state and version | create, clone, probe, edit | creation runs across two services; the service goes on when the gateway gives up |
| platform document (`cloudflare-gateway/src/platform-*.ts`) | SQLite: versions, creation, commit intents; root references in the CAS | create, commit, resume | intent, retention and commit are three steps in two systems; a request may end after any of them |
| gateway OAuth (`gateway-oauth`, `cloudflare-gateway/src/oauth-d1.ts`) | D1: transactions, codes, families of refresh tokens | authorize, exchange, refresh, revoke, clean up | single use and rotation under concurrent requests; replay detection in three steps |
| tenant portal (`cloudflare-portal/src/tenant`, `portal-service/src/tenant`) and the markdown Operator | D1: documents, versions, threads, comments, replies, submissions, idempotency receipts, audit; root references of snapshots | create, comment, submit, move the current version, retain, redeliver | indexes are read before the batch that uses them; events are lost or worked on twice; the worker stops after a commit |
| psd client | queue of edits, acknowledged head | enqueue, flush, resync | lost answers, retries after a resynchronisation |
| doctypes, codecs, web UIs, tools | none of interest here | | pure transformation or presentation |

Correctness, per component: nothing reachable from a root or a lease is lost,
and what is abandoned is reclaimed (store); every update is applied exactly once
and the log, the balances and the counts agree (ledger); every acknowledged edit
survives and every unacknowledged one is either applied once or not at all
(sessions); a row says only what the service has done, and one key opens one
session (directory); a readable version is retained exactly once and receipts are
final (platform document); a code or token is redeemed once and a replay ends the
family (OAuth); submissions, comments and replies take effect once, versions are
one history and what is recorded as retained stays (portal).

## 2. Modules

| module | models | kind |
|---|---|---|
| `CasRetention` | what the store promises a tenant: no node reachable from a rooted or leased node is given up | abstract specification |
| `CasTenant` | one tenant of the store | component |
| `MC_CasTenant` | node graphs for TLC | instance |
| `CasTenantProof` | theorems about `CasTenant` | proofs |
| `CasRootRefs` | root reference updates: tenant gate, domain object, ledger tables | component |
| `MC_CasRootRefs` | symmetry | instance |
| `CasRootRefsProof` | theorems about `CasRootRefs` | proofs |
| `CommitLog` | what a document promises to clients that commit under an operation id: versions are only added, an operation is decided once and together with its version | abstract specification |
| `EditorDO` | one document session on Cloudflare and its root references | component |
| `MC_EditorDO` | initial documents and symmetry | instance |
| `EditorDOProof` | theorems about `EditorDO` | proofs |
| `DocSession` | one document session on Azure, served by concurrent replicas | component |
| `MC_DocSession` | documents to create and clone from, symmetry | instance |
| `DocSessionProof` | theorems about `DocSession` | proofs |
| `GatewayOAuth`, `MC_GatewayOAuth` | authorization transactions, codes and refresh tokens | component, instance |
| `GatewayOAuthProof` | theorems about `GatewayOAuth` | proofs |
| `GatewayDirectory`, `MC_GatewayDirectory` | the document directory, its handlers and the document service as they see it | component, instance |
| `GatewayDirectoryProof` | theorems about `GatewayDirectory` | proofs |
| `PlatformDocument`, `MC_PlatformDocument` | the platform document object and its commit coordinator | component, instance |
| `PlatformDocumentProof` | theorems about `PlatformDocument` | proofs |
| `TenantPortal`, `MC_TenantPortal` | one document of the tenant portal with the Operator agent that answers it | component, instance |
| `TenantPortalProof` | theorems about `TenantPortal` | proofs |

### CasTenant

Variables are the tables (`rows`, `lease`, `childRefs`, `rootRefs`, `edges`,
`reservation`, `session`), the bucket (`objects`, `temp`) and the memory of the
Durable Object (`readyCache`, `active`, `gc`). `instance` counts the restarts of
the object, `command[n]` is the root update that its n-th instance has forwarded
and that is still running, and `exposed` is history. Actions carry the names of
the functions they translate:

* a bodyless lease is `LeaseReadyNode` (renewal) or `AdoptOrphan` (an object
  without a row), refused by `AdoptOrphanRejected`;
* an upload with a body is `beginCanonicalNodeLease`, `uploadCanonicalNode`
  (the R2 write, outside the gate), `finalizeCanonicalNodeLease`, with the ways
  it ends early: `UploadRejected`, `FinalizeRejected`, `FinalizeFails`;
* a direct upload is `prepareCanonicalNodeUpload`, `ClientPutTemporary`,
  `admitCanonicalNodeUploadFinalization`, `publishTemporaryUpload` and the
  same finalize step; a failed one cleans up in `deleteCanonicalUploadSession`;
* a collection is `GcStart`, then `GcDeleteContent` and `GcCommitDeletion` for
  each candidate, `GcEnd`, or `GcFails` at any point;
* a root update is `forwardRootRefs` (the tenant object takes the gate and calls
  the domain object), `CheckRootRefs` (rows, counts and R2 as the domain reads
  them), `CommitRootRefs` (the D1 batch), or an end without one: `AnswerRootRefs`
  (refused, or answered from the record) and `RootRefsFail`. The domain's own
  tables, request ids and attempts are in `CasRootRefs`.

`#withMutation` admits one operation at a time and nothing outside it removes
data, so an operation inside it is one step, except a collection and a root
update, which hold the gate (`GateFree`) over several. A restart (`Restart`) loses
the gate. A collection ends with it, but a root update goes on at the domain
(`tenant-do.ts:97` awaits another object), now beside whatever the next instance
does: uploads, collections and further root updates. `exposed` collects the nodes
that such updates acquire. For them the code promises nothing: forward, restart,
check, expiry of the lease, `GcStart`, `GcDeleteContent`, and only then
`CommitRootRefs` roots a node without its object, and `GcCommitDeletion` removes
the rooted row, since its DELETE (`node-gc.ts:59`) does not look at the row again.
`RootedReady`, `GcFresh` and `RetainsProtected` are therefore stated with
`firmRoots`, the root references of all other nodes, and say that the damage stays
there: counts, edges, leased nodes and other rooted nodes are not affected. A request that joins an upload under way
waits for it and then takes a bodyless lease, so joining needs no action.

Abstractions: a node is its hash and the ordered list of its children (`Refs`);
sizes, media types and bytes are left out, a body either matches its hash or is
rejected. Time is relative: each deadline is the time left, `Tick` lowers them
all. The limits on lengths and the parser's errors are the same `UploadRejected`.
A restart takes effect between steps: an R2 or D1 call of the tenant object in
flight counts as done or not done when the next instance starts, and does not
land later. `usedIds` exists because UUIDs do not repeat; which one is drawn makes
no difference, so it is a fixed choice (`FreshId`).

### CasRootRefs

`forwardRootRefs` takes the tenant's gate and starts a command in a slot of the
domain object, which runs `CheckUpdate` (request lookup, then validation and
readiness), `ReadDomainState` and `CommitUpdate`. The batch of the commit is
accepted unless a primary key or, for a node that has a row, a CHECK stops it
(`BatchAccepted`, `CountsHold`); when it is,
`ApplyBatch` has all its effects, also in the case where the guarded revision
update matches no row. `StorageFails`, `CommitRejected` and `CommitAnswerLost`
end an attempt; `Retry` starts the next one or gives up as busy. `DomainRestart`
drops a command, `TenantRestart` drops the gate and leaves the command running.
`NodeReady` and `NodeCollected` are what `CasTenant` does to the nodes meanwhile;
they over-approximate it (no lease protects a node here). The count is looked at
before each of the two removals, which is what the gate guarantees without a
restart; the DELETE that does not look is in `CasTenant`.

Reads that only the gated tenant could change are one step with the check.
Deltas are -1 and 1; larger ones behave the same and the safe-integer limit is
not reached. `canonicalizeRootRefsUpdate` is its result: a nonempty function
from hashes to deltas, equal for equal payloads, so the payload hash is the
function itself.

### EditorDO

Variables are the SQLite tables (`deltas`, `snapshots`, `pending`, `journal`, and
`identity` for the stored keys), the memory of the object (`loaded`, `version`,
`doc`, `recentOps`) and what the store knows of this session (`roots`,
`requests`). `fetch` chains requests on `#requestTail`, so `req` is the one
request under way and `req.at` is where its handler stands; only failures come
in between. A handler stops being one step wherever it awaits the store or a
storage write that a failure could separate from the next one.

* A request is taken up by `ReadDocument`, `Create`, `Write` (apply, rollback,
  snapshot, blobs), `applyExplicit` or `commitRecover`.
* `#recoverPending` is `settlePending`, `finalizeRecovered` (if a version is
  pending) and `recoverPending` (memory follows the tables).
* `#commit` is `commit` (the pending row), `settlePending` and
  `finalizeCommitted`; its callers are `commitCreated`, `apply`, `rollback` and
  `commitExplicit`. `rejectExplicit` writes the other final receipt.
* `#ensureCurrentSnapshot` is `retainSnapshot` and `recordSnapshot`.
* Failures: `RequestFails` (a call fails without effect), `AnswerLost` (the root
  update is applied, the answer is not received), `ApplyBreaks` (an explicit
  commit's apply fails on a valid batch), `Restart`.

A document is the sequence of batches applied to an empty one, because the
doctype's `apply` is deterministic; a root is named by its content, so equal
contents are equal hashes. `Invalid` batches are those `apply` rejects.
`updateRootRefs` is what `CasRootRefs` promises one client: a request id counts
once, a repetition must carry the same changes, no count becomes negative.
`author` is a history variable that says which request made a version.
`init_from_hash` differs from `create` only in where the document comes from;
`commit_status` is a read.

### DocSession

Every request builds a fresh `DocumentSession`, so `slot` holds the requests in
progress on any replica, each with its own document and version; a step is an
await. `load()` is `LoadCached` or `LoadMissed`, then `LoadDurable`, `LoadReplay`
and `LoadWriteBack`. Writers go on with `CreateBlob`, `ApplyCheck`,
`RollbackBuild` and `RollbackHead`; the guarded INSERT is two steps
(`InsertBegin` takes the snapshot that the MAX guard sees, `InsertCommit` meets
the primary key). `CommitRefs`, `UndoAppend`, `SaveCache`, `CheckThreshold` and
the snapshot steps `WriteBlob`, `PinSnapshot`, `RecordSnapshot` follow. `acked`,
`removed`, `overtaken` and `misapplied` are history: what was answered with
success, whether a row was compensated, whether a creation committed in the middle
of a load, and whether a batch was appended after a version that its request had
not loaded.

Requests carry any base version and any rollback target, up to `MaxAhead` beyond
the log. `apply()` compares the base with `head()` alone (`session.ts:621`). When
it is ahead of the log as the session loads, and another replica appends before
the comparison, the batch is applied to the older document, appended as the next
version and cached. From then on cache and log disagree, so `ContentFaithful` is
stated for histories without such an append (`misapplied`); without that premise
TLC refutes it. `session.test.ts` covers a base that stays ahead of the log.

### GatewayOAuth

A handler's statements are its steps: `TakeTransaction`, `ApproveConsent` or
`RefuseConsent`; `TakeCode`, `PutInitial`, `Issue`; `BeginRefresh`, `Rotate`,
`FindCurrent`, `RevokeReplayed`; `RevokeToken`, `Cleanup`. Random identifiers are
numbers handed out once. What PKCE, redirect URI, membership and consent decide
is open, so every outcome is explored. A handler may stop anywhere (`Crash`).

### GatewayDirectory

`Reserve` is the INSERT with its two unique keys and the replay of what it finds;
`ForwardCreate`, `CreateAnswer`, `MarkReady` and `MarkFailed` follow a creation,
`GetStatus` and `Probe` a status request, `BeginEdit`, `Edit` and
`AdvanceVersion` an edit, `CloneSource` a clone. Of the document service there is
what the gateway can tell apart: `OpenSession` (the identity is stored),
`CommitSession` (version 1 is committed) and `RefuseSession` may happen in any
order that `#create` allows, also after the gateway has given up, and `Outcomes`
lists the answers it can still get. This over-approximates `EditorDO` and
`DocSession`. A refusal is final here; in the service a 409 or 400 from the store
after the pending row was written (`editor-do-svalue.ts:996`) could be followed by
a commit if a further request reached the session, but the gateway sends nothing
more to a row it has marked failed.

### PlatformDocument

`BeginCreate`, `RegisterCreation`, `RetainCreation` and `CreateRetained` create;
`CommitStatus`, `Capture`, `BeginCommit`, `PendingCommit`, `RetainCandidate` and
`CommitRetained` commit, or resume what an earlier request left. A request id is
the digest of the intent, so it is the record of what is digested. `Collect` is
the CAS collector (`unicas-packages/service/src/gc.ts`) without leases: it may take
a state as soon as nothing refers to it. `Fail` ends a request anywhere.

### TenantPortal

One document is followed. A D1 batch is one step; so is a read that a later batch
depends on. Reads that the batch checks again (the locks) are one step with each
other. A member of `Users` is a browser tab: `CreateDocument`, `BeginComment` and
`InsertComment` (create and appendComment, with the retry on a lost index), and
`MoveCurrentVersion`. A member of `Runs` is a delivery the Operator works on:
`HandleEvent` or `TryAgain` (what it reads and decides to submit), `FindReceipt`,
`LoadState`, `CommitSubmission` or `ClassifyFailure` (the submission service and
its repository), `RetainVersion`; or a row the retention sweep works on (`Sweep`).
`Record` writes the outcome of a retention. Events are lost, delivered late or
delivered twice; `Redeliver` asks again for the first version.

`Collect` is the CAS collector without leases, as in `PlatformDocument`. Submissions
have the shapes that the markdown Operator sends: the first version without a
thread, or an answer to one thread with or without a version. The service itself
takes up to 50 thread updates at once and does not compare contents
(`portal-service/src/tenant/submissions.ts:61` and `:200`); that no version repeats
the content of the one before it, a conjunct of `HistoryInv`, rests on the
Operator's own comparison (`operator-agent.ts:170`).

Grace periods and pacing of sweep and redelivery are nondeterministic. A move
whose observed and target version are equal changes nothing and is left out; the
`current_version.moved` event is not read by the Operator and is left out too.
Contents are members of `Blobs`; a rewrite that changes nothing is answered
without a version, as in `submissionFor`. A version can be marked lost and still
be retained by a request that was under way when the same content was stored again.

## 3. Runs

| run | instance | checks |
|---|---|---|
| `tenant_store` | two nodes, the parent listing its child twice; an update that roots the parent and one that moves the reference to the child; two upload ids, lease 1, cache 1, one failure or restart, `FairSpec` | `StoreInv` (with `ChildRefsExact` and `RootedReady`), `RetainsProtected`, `LiveSessionKept`, `AbandonedReclaimed` |
| `tenant_live_ready` | two nodes, body uploads only, lease 1 or 2, no failure | `LiveReady` is violated |
| `rootrefs_tenants` | two tenants, two domains, one node, one request id, two attempts | `EventLogGapFree`, `AnswersHonest`, `CountsReconcile`, `CountedNodesKept` |
| `rootrefs_restart` | one tenant, two request ids, two slots, one restart of the tenant object, `FairSpec` | `LedgerInv`, `AppliedOnce`, `BalancesReconcile`, `GateReleased` |
| `editor_commits` | two opIds, one valid and one rejected batch, snapshots every 2 versions, 3 versions, one use of the snapshot route, two failures, `FairSpec` | `EditorInv` (with `ReceiptsHonest`), `PendingSettleable`, `RootsExactUntilEnsured`, `RecentOpsHonest`, `ContentFaithful`, `KeepsCommitLog` (refinement), `IntentsSettle` |
| `azure_session` | two replicas, two batches with references, up to four requests and two failures, four of these together, base versions up to one beyond the log | `RestorePointsInv`, `AcknowledgedKept`, `ContentFaithful` |
| `azure_lost_rollback` | the same without failures or clones | `MissCostsReplay` is violated |
| `oauth_grants` | two handlers, two clients, five identifiers, clock to 3 | `OneGrantPerApproval`, `FamiliesInv`, `ReplayEndsFamily`, `RevokedStaysDead` |
| `gateway_directory` | two requests, one chosen document id and key beside generated ones, three sessions | `RowsTruthful` (`ReadyIsCommitted`, `FailedIsDecided`), `OneSessionPerKey`, `DecisionsFinal` |
| `gateway_failed` | the same with two sessions | `FailedHasNoDocument` is violated |
| `platform_documents` | two requests, two identities, three states, three operation ids, four versions | `VersionsRetained`, `RootsExact`, `PlatformInv`, `ReceiptsTrue`, `KeepsCommitLog` (refinement) |
| `portal_submissions` | two tabs, two deliveries, two threads, two keys, two contents, three versions, three events, one move, one failure | `SubmittedOnce`, `HistoryInv`, `AnsweredOnce`, `KeysOnce`, `SnapshotsKept`, `PointerExplained` |

Each module's type invariant is a conjunct of one invariant of its run
(`StoreInv`, `LedgerInv`, `EditorInv`, `RestorePointsInv`, `FamiliesInv`,
`RowsTruthful`, `PlatformInv`, `HistoryInv`).

Bounds. `MaxRootRefs` 1 is enough to tell rooted from unrooted; `MaxFaults` 1
places one failure or restart at every point of every interleaving, so a root
update can lose its gate at each of its steps. `MaxEvents` 2 takes failures and
direct uploads together: two uploads, or one and a failure. The two `RootUpdates`
acquire, release and do both at once; every update is covered by the proofs. Leases,
sessions and cache entries that last one unit are taken at different times, so
each kind of deadline can expire before and after each other kind; the run with
leases of one and of two units shows the disagreement below, and leases of every
length are covered by the proofs. `GcMaxNodes` 1 makes a collection leave work
behind. The ledger is finite because each request id is accepted once per tenant
and domain. A session of three versions has a create, a commit with and one
without a snapshot, and an unfinished version after each; two failures allow a
lost answer followed by a failed recovery. `RECENT_OP_LIMIT` 1 makes the second
opId evict the first.

Four requests on two replicas are a creation, two racing writers and a third
request that meets what they left. `MaxEvents` 4 takes requests and failures
together: a failure among a creation and two writers, or a lost answer and a failed
compensation after a creation and one writer.
`MaxAhead` 1 is a base that the next append reaches; one that is further ahead
needs more appends in between to go wrong in the same way, and the proofs are for
every `MaxAhead`. Five identifiers are a transaction, a code, a family and
two rotations, so a replay can hit the first, the second or the last generation.
Three sessions let a retry, a clone and a generated id compete with a chosen one.
Four platform versions give each operation id a version and one more to refuse.
In the portal three versions and one move let the pointer come back to where a
waiting submission saw it (the case that only the primary key of the version
catches); `MaxTries` 2 reaches the retry and the giving up (the code allows more,
which repeats the retry); one failure is a lost or repeated event, a collection or
a worker that stops.

Symmetry is used only for safety runs; the sets it permutes are model values that
no constant tells apart. Deadlock is not checked in `azure_session`,
`oauth_grants`, `gateway_directory` and `portal_submissions`, where the bounds on
requests, identifiers and versions end every behaviour.

Fairness. `FairSpec` of `CasTenant` assumes that a collection that has started
goes on, that the domain answers an update it was given, and that time passes.
Nothing in the repository schedules collections: they are requests of a caller, so
`AbandonedReclaimed` has `CollectionRequested` as a premise. It is strong fairness
of `GcStart`, because root updates keep taking the gate: `#withMutation` is a queue
(each operation awaits the one before it), so a collection that is asked for gets
its turn. `FairSpec` of `CasRootRefs` assumes that the
domain object goes on with a command it has been given. `FairSpec` of `EditorDO`
assumes that a handler that is not interrupted goes on; that somebody keeps asking
for the recovery of a pending intent is a premise of `IntentsSettle`
(`RecoveryRequested`: requests queue in order on `#requestTail`, so a recovery
that keeps being sent is taken up even though other requests come in between). No
fairness is assumed of callers, of failures or of restarts, and none in the
models of the Azure session, the gateway and the portal: their requests end with
an answer or not at all, and what they leave is taken up only when somebody asks
again.

## 4. Disagreements

* `tenant_live_ready` (`service/src/node-lease.ts:376`): the design note and
  `docs/cas-architecture.md:218` say that a row is never committed without its
  content and that everything below a root is ready. The finalize step does not
  look at R2 again: upload a body, let a bodyless lease adopt the stored object
  before the finalize step (this deletes the reservation), let that lease run out
  and a collection remove the node, then finalize. The row has no object, and a
  parent that lists it can be rooted.
* `azure_lost_rollback` (`doctype-server-common/src/session.ts:739`): the delta of
  a rollback has no operations and its content is first only in the cache entry
  written after it. A load in between, or after that write was lost, serves and
  caches the content from before the rollback. The cache's comment says that a
  lost write "only costs a replay" which "is always correct". `MissCostsReplay`
  also fails, for another reason, when a load looks for the durable snapshot just
  before the creation commits and reads the log just after (`session.ts:221`).
* `gateway_failed` (`gateway-common/src/gateway-handler.ts:674`): a creation that
  committed and answered 200, but whose body is cut off, is recorded as failed for
  good; the protocol document says that only a deterministic client failure is.

Three more were met while modelling; they are told here and have no run:

* `service-cloudflare/src/node-lease.ts:98`: a row whose content was deleted
  "becomes not ready" (`docs/cas-state-protection-and-gc.md:502`), but the positive
  readiness cache goes on saying ready for its lifetime, so a parent can be
  inserted above a child without content.
* `cloudflare-sdk/src/root-transition.ts:47`: a commit releases the delta before
  it, so of the deltas since the last snapshot only the newest is referenced;
  `docs/cas-architecture.md:655` says every committed version's delta root is
  retained. The bytes of a delta are in SQLite; the blobs it names are held by no
  root.
* `cloudflare-sdk/src/editor-do-svalue.ts:698`: the snapshot route retains a new
  snapshot and never releases the one before; hence `RootsExactUntilEnsured` is
  stated up to its first use.

What holds of the store in spite of these is `RootedReady` (a node with its own root references
is ready, since the domain asks R2 itself) and `RetainsProtected` (nothing that
was there and protected is removed), both up to root updates that a restart of the
tenant object cuts off from its gate (section 2, `CasTenant`).

## 5. Proofs

`CasTenantProof`: `StoreCorrect` proves the inductive invariant `StoreInv` for
every finite set of hashes, every child function without self-reference, all
durations and bounds. Exact counts need the edge table (`EdgesExact`: exactly the
child lists of the rows, no edge to a missing row), because the count of a child
is lowered by what the table holds for the parent. `GcFresh` carries the
unprotected state of the candidate from the removal of its content to the
removal of its row. `UpdatesChecked` does the same for a root update of the live
instance (no collection runs beside it, and what it was allowed to acquire is still
there at its commit) and says that updates of earlier instances acquire exposed
nodes only; it is what lets check and commit be separate steps. `LeasesPositive`
says that what is inserted is leased.
`InsertKeepsCounts` and `DeleteKeepsCounts` are the cardinality arguments. From it
follow `ChildRefsCorrect`, `RootsStayReady`, `SessionsKept` and `StoreRetains`:
`CasTenant` implements `CasRetention` under the mapping in `CasTenant`
(`Retention`). The heart of the last is `UnprotectedIsUnreachable`: all hashes
except an unprotected one form a closed set, since a stored parent would show in
the count.

`CasRootRefsProof`: `LedgerCorrect` proves `LedgerInv` for any number of tenants,
slots, attempts and restarts. The step that matters is `BatchExtends`: a plan
starts from a revision the domain has reached, every reached revision has an
event, and the primary key admits no second event, so an accepted batch starts
from the current revision and the guarded update always matches. It gives
`EventLogCorrect` and `RequestsAppliedOnce`. `AnswersCorrect` and
`CountedNodesStay` need the gate too (`GateInv`: one command per tenant, whose
checks still hold at its commit) and are proved for `MaxRestarts = 0`: a restart
of the tenant object in the middle of a command loses the gate.

The same module proves the sums. `SumIsNet` says that the sum over a finite set of
updates is the number of acquisitions less that of releases, in whatever order it
is taken; the argument is a least counterexample by cardinality. `OnlyBatchesWrite`
reduces every step to a batch or to one that writes no table.
`BalancesStayReconciled` (for any number of restarts) needs `FreshPlan`: a plan that
starts from the current revision carries the current balances, so the primary key
that refuses a stale plan is also what keeps the absolute balances right.
`CountsStayReconciled` (for `MaxRestarts = 0`) needs that no batch meets a node
whose row is gone, where its change would be lost: the check found the rows, and
the gate has kept them since.

`EditorDOProof`: `EditorCorrect` proves `EditorInv` for every number of versions,
opIds, batches, failures and restarts. It is a conjunction: the log has no gaps
and the pending row is its next version (`OutboxInv`); memory is not ahead of the
log (`MemoryInv`); what a handler may rely on at each step (`HandlerInv`); which
request ids the store can have seen and with which changes (`RequestsInv`); who
made a version (`AuthorInv`); the roots that must be held are held (`RootsHeld`);
receipts are true (`ReceiptsHonest`). `RequestsInv` is what makes recovery work: the
id of a new pending version is fresh, and once the store has seen it, the changes
computed again from the tables are the recorded ones, since nothing writes a delta
or snapshot row while a version is pending. From `EditorInv` follow `ReceiptsTrue`,
`PendingAlwaysSettles` and `CommitLogImplemented`: with the delta table as log and
the journal as receipts, `EditorDO` implements `CommitLog`. The final transaction is
the only step that adds a version; it is a plain write, possible only when no intent
is pending, or the commit of the pending intent. `RootsNeverLeak` proves
`RootsExactUntilEnsured`: until the snapshot route has retained a snapshot, the
session holds exactly its newest delta and its newest snapshot. `RememberedOpsTrue`
adds `RecentInv` (the version a handler is about to remember is its own) and
`ContentStaysFaithful` adds `ContentInv`: tables and outbox hold what the log
replays to (`Recorded`), the memory is the replay of the version it is served under
(`Served`), and the handler publishes the document of the version it writes
(`UnderWay`). That a document rebuilt from a snapshot is the full replay, for logs
of every length, is `BuiltIsFull`, again by a least counterexample.

`PlatformDocumentProof`: `PlatformCorrect` proves `PlatformInv` for any number of
requests, operations, states and versions. `HandlerInv` says what a handler may
rely on at each step: before `commitRetained` its request is on record and is the
one of the intent; `ReferencesInv` that a request on record has its reference and
that what is referred to is in the CAS; `PendingOnHead` that the one pending
intent is for the next version. `TableStep` sums up what a step can do to versions
and receipts, and that a version is only added when its state has a reference;
`CountStep` says that no step lowers a count. From these follow
`ReadableIsRetained` (`VersionsRetained`), `ReceiptsNeverLie` (`ReceiptsTrue`) and
`CommitLogImplemented`: `PlatformDocument` implements `CommitLog` too, with its
versions as log and its intents as receipts. `RootsNeverLeak` proves `RootsExact` from
`RecordInv`: every request on record belongs to a version, to the creation in
progress or to the pending intent, and a handler that may still retain or commit
continues one of these. A reference is therefore either used (a version has it) or
waiting (the creation or the intent will use it), and each of the five kinds of
step (`ReferenceStep`) moves one from waiting to used or adds one to both sides.
The proofs assume that nobody else releases the references of this document.

`DocSessionProof`: `SessionCorrect` proves `SessionInv` for any number of replicas,
requests, batches and failures: well-formed tables, and for every request in
progress what it has read, stored and pinned so far (`RequestOK`). A restore point
is recorded only by a request that has already stored its blob and retained its
references, hence `RestorePointsStaySafe`. `AcknowledgementsHold` rests on
`RowsOwned`: from its INSERT to its answer an apply owns its row, no two requests
own the same one, and compensation removes only what the request owns.
`ContentStaysFaithful` proves `ContentFaithful` from `ContentInv`: as long as
nothing was compensated or misapplied and no load was overtaken by the creation,
cache, snapshots
and every document on its way through a request are what the history gives, however
the replicas overwrite each other.

`GatewayDirectoryProof`: `DirectoryCorrect` proves `DirectoryInv`, which adds to the
checked properties what each handler knows at each step (`HandlerInv`: the row it
works on has the session it was given, and an answer it carries is one the service
has given) and that a session is asked for by one request only (`ForwardOnce`).
It gives `RowsNeverLie`, `KeyMeansOneSession` and the action property
`DecisionsStay`.

`GatewayOAuthProof`: `OAuthCorrect` proves `OAuthInv`. `OnePlace` says that an
approval is in its transaction, with one handler, in one code or in one family, and
never in two of these; `NextOnce` that a successor is drawn once; `Chains` that a
token that is not consumed is the newest of its family and that a replayed family
is revoked. It gives `ApprovalsGrantOnce`, `FamiliesNeverFork`,
`ReplaysEndFamilies` and the action property `DeadTokensStayDead`.

`TenantPortalProof`: `PortalCorrect` proves `PortalInv`: the indexes of versions,
comments and replies have no gaps, and the index that a request in progress has
read is still free or was taken since, never beyond. On top of it stand one layer
per property: `HistoryIsOne` (`HistoryInv`), `SubmissionsCountOnce` (with `Linked`:
every row has its receipt), `CommentsAnsweredOnce` (with `Answered`: a version
addresses the comments between two replies), `KeysCountOnce` (with `Keyed`),
`SnapshotsStay` (with `Counted`: a reference is one applied request) and the action
property `MovesExplained`.

Every invariant and action property that a passing run checks is thus also a
theorem. Only model-checked is liveness (`AbandonedReclaimed`, `GateReleased`,
`IntentsSettle`), which is out of the prover's reach, and the three properties
whose runs show a violation. The prover has no induction over data; where a
property needs one (sums over the ledger, replay of a log), the proof takes a least
counterexample with the well-foundedness of the natural numbers instead.

Bounds such as `MaxVersion`, `MaxRequests` or `MaxFaults` are constants of the
models, so the theorems hold for each value of them; no theorem fixes one except
`MaxRestarts = 0` as said above. `ASSUME`s of the modules are typing assumptions,
positive bounds and marks that are not values (`None`, `NoDoc`); the store also
assumes finitely many hashes and no node that lists itself, as content hashes imply.

## 6. Plan

Done: all modules of section 2, each component checked with TLC and proved.

Open, in this order:

1. For `DocSession`, whose rows can be compensated, an abstract log of its own:
   unacknowledged rows may go, acknowledged ones stay.
2. The psd client session over `EditorDO`. Its code shows what to look for: after
   a lost answer a resynchronisation replays a pending operation that the server
   already has (`psd-client/src/doc-session.ts:263`), the server recognises the
   repetition and answers the older version, and the client counts nothing as
   pending although its document has the operation twice; the opId memory is lost
   when the object restarts.
3. Administration: portal document types and contracts, the CAS control plane.

## 7. Not modelled

Read-only queries, authentication, the control plane, the psd client, the
concurrency limiter, user interfaces, codecs and doctype engines, deployment; see
the components in `PROJECT.json`. Most of the repository's lines are generated
fonts, user interfaces, doctype engines, deployment scripts and administration.

In the Azure session: a replica that stops between an append and its root update
leaves a delta whose references nobody retains; a DELETE and an INSERT of the next
version can overlap and leave a gap, as the comment at
`azure-sdk/src/ports-pg.ts:172` says. `ContentFaithful` is therefore stated for
histories without compensation (and, for the reason given in section 2, without
misapplied batches). In the gateway: the listing, `touch()` and the
PostgreSQL directory; `markReady` may lower the version a row shows until the next
edit. In the platform document: a pending intent whose state was collected before
it was retained blocks the document for good; no text promises otherwise. In the
portal: whether a contract is available and a document type enabled, which an
administrator changes and which the commit does not check again
(`submission-repository.ts:154` names the gap); the first version of a document
whose event is lost depends on somebody reading it. In the
store: orphaned R2 objects without a row are invisible to collection by design
and stay until adopted; temporary objects of abandoned direct uploads are left
to the bucket's lifecycle rule.
