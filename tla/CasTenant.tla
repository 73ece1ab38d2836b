------------------------------- MODULE CasTenant -------------------------------
(***************************************************************************)
(* One tenant of the content-addressed store (unicas): the D1 tables       *)
(* cas_nodes, cas_edges, cas_upload_reservations and                       *)
(* cas_direct_upload_sessions, the R2 bucket, and the tenant's Durable     *)
(* Object with its mutation gate, its map of active uploads and its        *)
(* positive readiness cache.                                               *)
(*                                                                         *)
(* Everything that runs inside #withMutation is one step here, because the *)
(* gate admits one operation at a time and nothing outside the gate        *)
(* removes data.  Two operations hold the gate over several steps.  A      *)
(* collection removes R2 content and D1 metadata in two calls, either of   *)
(* which can fail.  A root update is a call to the Durable Object of its   *)
(* domain, which checks and commits in separate awaits: a restart of the   *)
(* tenant object drops the gate but not the update, which goes on beside   *)
(* the operations of the next instance.  R2 writes of uploads happen       *)
(* outside the gate and are steps of their own.                            *)
(*                                                                         *)
(* Time is relative: every deadline is kept as the time left, and Tick     *)
(* lets one unit pass everywhere at once.  "expires_at > now" is "> 0".    *)
(***************************************************************************)
EXTENDS Integers, Sequences, FiniteSets

CONSTANTS
    Hash,            \* node hashes
    Refs,            \* Refs[h]: the ordered child list in h's canonical bytes
    LeaseRequests,   \* lease durations that callers ask for
    RootUpdates,     \* root updates that callers ask for
    MinLease,        \* MIN_LEASE_MS
    MaxLease,        \* MAX_LEASE_MS, also the fence of a body upload
    UploadSession,   \* DEFAULT_UPLOAD_SESSION_MS
    CacheTTL,        \* READY_CACHE_TTL_MS
    GcMaxNodes,      \* maxNodes of one collection
    UploadIds,       \* UUIDs for direct uploads; none disables that path
    NoId,            \* stands for "no upload id"
    MaxRootRefs,     \* bound: largest root reference count explored
    MaxFaults,       \* bound: storage failures and restarts explored
    MaxEvents        \* bound: the same, and direct uploads, taken together

(* An update names at least one hash, each with a nonzero delta. *)
RootChanges == UNION {[D -> {-1, 1}] : D \in SUBSET Hash \ {{}}}

(* A canonical node is named by the hash of its bytes, so the child list is *)
(* a function of the hash and the references form no cycle.                 *)
ASSUME HashAssumption ==
    /\ IsFiniteSet(Hash)
    /\ Refs \in [Hash -> Seq(Hash)]
    /\ \A h \in Hash : \A i \in DOMAIN Refs[h] : Refs[h][i] # h

ASSUME TimeAssumption ==
    /\ MinLease \in Nat \ {0}
    /\ MaxLease \in Nat /\ MinLease <= MaxLease
    /\ UploadSession \in Nat \ {0}
    /\ CacheTTL \in Nat
    /\ LeaseRequests \subseteq Nat

ASSUME BoundAssumption ==
    /\ GcMaxNodes \in Nat \ {0}
    /\ MaxRootRefs \in Nat
    /\ MaxFaults \in Nat /\ MaxEvents \in Nat
    /\ RootUpdates \subseteq RootChanges
    /\ NoId \notin UploadIds

VARIABLES
    rows,         \* hashes with a cas_nodes row
    lease,        \* time left on the row's lease
    childRefs,    \* child_ref_count
    rootRefs,     \* root_ref_count
    edges,        \* cas_edges: <<parent, ordinal, child>>
    reservation,  \* time left on the hash's upload reservation
    session,      \* direct upload session of the hash
    objects,      \* hashes whose canonical object is in R2
    temp,         \* R2 temporary objects of direct uploads
    usedIds,      \* upload ids already drawn
    readyCache,   \* #readyCache: time for which a positive entry is still used
    active,       \* #activeUploads and the upload it stands for
    gc,           \* the running collection, if any
    instance,     \* the Durable Object's instance: how often it has restarted
    command,      \* the root update each instance has forwarded, while it runs
    exposed,      \* history: nodes acquired by updates that outlived their instance
    faults        \* failures so far

rowVars    == <<rows, lease, childRefs, rootRefs, edges>>
uploadVars == <<reservation, session, temp, usedIds>>
memVars    == <<readyCache, active>>
rootVars   == <<instance, command, exposed>>
vars       == <<rowVars, uploadVars, memVars, rootVars, objects, gc, faults>>

--------------------------------------------------------------------------------
(* Values *)

Max2(a, b) == IF a >= b THEN a ELSE b
Min2(a, b) == IF a <= b THEN a ELSE b
TimeLeft   == 0 .. Max2(MaxLease, Max2(UploadSession, CacheTTL + 1))

NoSession  == [id |-> NoId, left |-> 0, dur |-> 0]
NoUpload   == [phase |-> "none", id |-> NoId, dur |-> 0]
NoGc       == [phase |-> "idle", todo |-> {}, node |-> {}]
NoCommand  == [phase |-> "none", change |-> <<>>]

(* The nodes to which an update adds references. *)
Acquired(c) == {h \in DOMAIN c.change : c.change[h] > 0}

(* The cas_edges rows that belong to parent h. *)
EdgesOf(h) == {<<h, i, Refs[h][i]>> : i \in DOMAIN Refs[h]}
Children(h) == {Refs[h][i] : i \in DOMAIN Refs[h]}
(* How often c occurs in the child list of h: duplicates count. *)
Occurrences(h, c) == Cardinality({e \in EdgesOf(h) : e[3] = c})

clampLeaseDuration(value) == Min2(Max2(value, MinLease), MaxLease)
LeaseDurations == {clampLeaseDuration(v) : v \in LeaseRequests}

CommandTypes ==
    /\ instance \in 0 .. MaxFaults
    /\ command \in [0 .. MaxFaults ->
                      [phase : {"check", "commit"}, change : RootChanges] \cup {NoCommand}]
    /\ exposed \subseteq Hash

TypeOK ==
    /\ rows \subseteq Hash
    /\ lease \in [Hash -> Nat]
    /\ childRefs \in [Hash -> Nat]
    /\ rootRefs \in [Hash -> Nat]
    /\ edges \subseteq Hash \X Nat \X Hash
    /\ reservation \in [Hash -> Nat]
    /\ session \in [Hash -> [id : UploadIds \cup {NoId}, left : Nat, dur : Nat]]
    /\ objects \subseteq Hash
    /\ temp \in [UploadIds -> {"absent", "good", "bad"}]
    /\ usedIds \subseteq UploadIds
    /\ readyCache \in [Hash -> Nat]
    /\ active \in [Hash -> [phase : {"none", "streaming", "stored", "failed"},
                            id : UploadIds \cup {NoId}, dur : Nat]]
    /\ gc \in [phase : {"idle", "scan", "removed"}, todo : SUBSET Hash, node : SUBSET Hash]
    /\ CommandTypes
    /\ faults \in 0 .. MaxFaults

Init ==
    /\ rows = {}
    /\ lease = [h \in Hash |-> 0]
    /\ childRefs = [h \in Hash |-> 0]
    /\ rootRefs = [h \in Hash |-> 0]
    /\ edges = {}
    /\ reservation = [h \in Hash |-> 0]
    /\ session = [h \in Hash |-> NoSession]
    /\ objects = {}
    /\ temp = [u \in UploadIds |-> "absent"]
    /\ usedIds = {}
    /\ readyCache = [h \in Hash |-> 0]
    /\ active = [h \in Hash |-> NoUpload]
    /\ gc = NoGc
    /\ instance = 0
    /\ command = [n \in 0 .. MaxFaults |-> NoCommand]
    /\ exposed = {}
    /\ faults = 0

(* The failures and direct uploads explored in one behaviour are bounded. *)
Explored == faults + Cardinality(usedIds) < MaxEvents

--------------------------------------------------------------------------------
(* Readiness and leases *)

(* Mutant: the gate is not held while the domain works. *)
GateFree_forwards == gc.phase = "idle"

(* The mutation gate of the live instance is free: no collection and no root *)
(* update of this instance is under way.                                     *)
GateFree == gc.phase = "idle" /\ command[instance] = NoCommand

(* A row plus either a fresh cache entry or a successful R2 HEAD. *)
isNodeReady(h) == h \in rows /\ (readyCache[h] > 0 \/ h \in objects)

ChildrenReady(h) == \A c \in Children(h) : isNodeReady(c)

(* The children found ready before the check stops at one that is not. *)
CheckedChildren(h) ==
    {Refs[h][i] : i \in {j \in DOMAIN Refs[h] : \A k \in 1 .. j : isNodeReady(Refs[h][k])}}

(* isNodeReady stores a positive HEAD; a live cache entry is left as it is. *)
CacheAfterCheck(S) ==
    [h \in Hash |-> IF h \in S /\ readyCache[h] = 0 THEN CacheTTL + 1 ELSE readyCache[h]]

(* readyCache.set of the hashes in S, after the checks of the hashes in C. *)
CacheAfterSet(S, C) ==
    [h \in Hash |-> IF h \in S THEN CacheTTL + 1 ELSE CacheAfterCheck(C)[h]]

(* nextNodeLease, existing or new: a lease is never shortened. *)
nextNodeLease(h, d) == Max2(lease[h], d)

(* Renewal of a ready node: shared by bodyless leases, uploads of a node    *)
(* that is already there, and both phases of a direct upload.               *)
RenewReady(h, d) ==
    /\ isNodeReady(h)
    /\ lease' = [lease EXCEPT ![h] = nextNodeLease(h, d)]
    /\ readyCache' = CacheAfterCheck({h})
    /\ UNCHANGED <<rows, childRefs, rootRefs, edges, uploadVars, objects, gc, faults, rootVars>>

(* Mutant: a child listed twice is counted once. *)
commitNewNode_distinct(h, d) ==
    /\ rows' = rows \cup {h}
    /\ lease' = [lease EXCEPT ![h] = d]
    /\ edges' = edges \cup EdgesOf(h)
    /\ childRefs' = [c \in Hash |->
                       IF c \in rows \cap Children(h) THEN childRefs[c] + 1 ELSE childRefs[c]]
    /\ reservation' = [reservation EXCEPT ![h] = 0]
    /\ session' = [session EXCEPT ![h] = NoSession]
    /\ readyCache' = CacheAfterSet({h} \cup Children(h), {})
    /\ UNCHANGED rootRefs

(* The D1 batch that inserts a node: row, edges, one increment per child    *)
(* occurrence, and the removal of the hash's reservation and session.       *)
commitNewNode(h, d) ==
    /\ rows' = rows \cup {h}
    /\ lease' = [lease EXCEPT ![h] = d]
    /\ edges' = edges \cup EdgesOf(h)
    /\ childRefs' = [c \in Hash |->
                       IF c \in rows THEN childRefs[c] + Occurrences(h, c) ELSE childRefs[c]]
    /\ reservation' = [reservation EXCEPT ![h] = 0]
    /\ session' = [session EXCEPT ![h] = NoSession]
    /\ readyCache' = CacheAfterSet({h} \cup Children(h), {})
    /\ UNCHANGED rootRefs

(* A bodyless lease of a node that has a row. *)
LeaseReadyNode(h, d) ==
    /\ GateFree
    /\ RenewReady(h, d)
    /\ UNCHANGED active

(* A bodyless lease of an object without a row adopts it. *)
AdoptOrphan(h, d) ==
    /\ GateFree
    /\ h \notin rows /\ h \in objects
    /\ ChildrenReady(h)
    /\ commitNewNode(h, d)
    /\ UNCHANGED <<objects, temp, usedIds, active, gc, faults, rootVars>>

(* The same request when a child is missing: only the cache learns from it. *)
AdoptOrphanRejected(h) ==
    /\ GateFree
    /\ h \notin rows /\ h \in objects
    /\ ~ChildrenReady(h)
    /\ readyCache' = CacheAfterCheck(CheckedChildren(h))
    /\ UNCHANGED <<rowVars, uploadVars, objects, active, gc, faults, rootVars>>

--------------------------------------------------------------------------------
(* Uploads with a request body *)

(* The upload fence: a reservation for the longest lease, and the entry in  *)
(* #activeUploads that later requests for the hash wait on.                 *)
beginCanonicalNodeLease(h, d) ==
    /\ GateFree
    /\ active[h] = NoUpload
    /\ ~isNodeReady(h)
    /\ reservation' = [reservation EXCEPT ![h] = MaxLease]
    /\ active' = [active EXCEPT ![h] = [phase |-> "streaming", id |-> NoId, dur |-> d]]
    /\ UNCHANGED <<rowVars, session, temp, usedIds, objects, readyCache, gc, faults, rootVars>>

(* The body has reached R2, checked against its hash; not under the gate. *)
uploadCanonicalNode(h) ==
    /\ active[h].phase = "streaming" /\ active[h].id = NoId
    /\ objects' = objects \cup {h}
    /\ active' = [active EXCEPT ![h].phase = "stored"]
    /\ UNCHANGED <<rowVars, uploadVars, readyCache, gc, faults, rootVars>>

(* The body was cut short, too long or does not hash to h. *)
UploadRejected(h) ==
    /\ active[h].phase = "streaming" /\ active[h].id = NoId
    /\ active' = [active EXCEPT ![h] = NoUpload]
    /\ UNCHANGED <<rowVars, uploadVars, objects, readyCache, gc, faults, rootVars>>

(* Metadata commit after the bytes are stored: a new node, or a renewal     *)
(* when a row is (again) there.  The direct upload then drops its temporary *)
(* object.                                                                  *)
finalizeCanonicalNodeLease(h) ==
    /\ GateFree
    /\ active[h].phase = "stored"
    /\ ChildrenReady(h)
    /\ IF h \in rows
       THEN /\ lease' = [lease EXCEPT ![h] = nextNodeLease(h, active[h].dur)]
            /\ reservation' = [reservation EXCEPT ![h] = 0]
            /\ session' = [session EXCEPT ![h] = NoSession]
            /\ readyCache' = CacheAfterSet({h}, Children(h))
            /\ UNCHANGED <<rows, childRefs, rootRefs, edges>>
       ELSE commitNewNode(h, active[h].dur)
    /\ temp' = [u \in UploadIds |-> IF u = active[h].id THEN "absent" ELSE temp[u]]
    /\ active' = [active EXCEPT ![h] = NoUpload]
    /\ UNCHANGED <<objects, usedIds, gc, faults, rootVars>>

(* A child is not ready: the upload fails, its object stays in R2.  A body  *)
(* upload leaves its reservation to expire; a direct one has to clean up.   *)
FinalizeRejected(h) ==
    /\ GateFree
    /\ active[h].phase = "stored"
    /\ ~ChildrenReady(h)
    /\ readyCache' = CacheAfterCheck(CheckedChildren(h))
    /\ active' = [active EXCEPT ![h] = IF active[h].id = NoId THEN NoUpload
                                       ELSE [active[h] EXCEPT !.phase = "failed"]]
    /\ UNCHANGED <<rowVars, uploadVars, objects, gc, faults, rootVars>>

(* The D1 batch of the commit throws: nothing is written. *)
FinalizeFails(h) ==
    /\ GateFree
    /\ active[h].phase = "stored"
    /\ faults < MaxFaults /\ Explored
    /\ faults' = faults + 1
    /\ active' = [active EXCEPT ![h] = IF active[h].id = NoId THEN NoUpload
                                       ELSE [active[h] EXCEPT !.phase = "failed"]]
    /\ UNCHANGED <<rowVars, uploadVars, objects, readyCache, gc, rootVars>>

--------------------------------------------------------------------------------
(* Direct uploads: prepare, client PUT to a temporary key, finalize *)

(* Nothing is there for the hash, so leaseReadyNode answers 404 and both    *)
(* phases of a direct upload go on.                                         *)
NotFound(h) == h \notin rows /\ h \notin objects

(* UUIDs are interchangeable: the one drawn is any that is unused. *)
FreshId == CHOOSE u \in UploadIds \ usedIds : TRUE

(* A live session is handed out again; this opens a new one, replacing an   *)
(* expired one and resetting the hash's reservation.  The temporary object  *)
(* of the expired one is deleted after the gate is released: in time or too *)
(* late to stop a finalization that is still reading it.                    *)
prepareCanonicalNodeUpload(h, d, u) ==
    /\ GateFree
    /\ NotFound(h)
    /\ session[h].left = 0
    /\ u \notin usedIds /\ u = FreshId /\ Explored
    /\ usedIds' = usedIds \cup {u}
    /\ session' = [session EXCEPT ![h] = [id |-> u, left |-> UploadSession, dur |-> d]]
    /\ reservation' = [reservation EXCEPT ![h] = UploadSession]
    /\ \/ temp' = [v \in UploadIds |-> IF v = session[h].id THEN "absent" ELSE temp[v]]
       \/ UNCHANGED temp
    /\ UNCHANGED <<rowVars, objects, memVars, gc, faults, rootVars>>

(* The client writes a presigned temporary key, with the right bytes or     *)
(* with others of the declared length, and only if nothing is there yet     *)
(* (If-None-Match).  The signature may outlive the session.                 *)
ClientPutTemporary(u, what) ==
    /\ u \in usedIds /\ temp[u] = "absent"
    /\ temp' = [temp EXCEPT ![u] = what]
    /\ UNCHANGED <<rowVars, reservation, session, usedIds, objects, memVars, gc, faults, rootVars>>

admitCanonicalNodeUploadFinalization(h) ==
    /\ GateFree
    /\ active[h] = NoUpload
    /\ NotFound(h)
    /\ session[h].left > 0
    /\ active' = [active EXCEPT ![h] =
                    [phase |-> "streaming", id |-> session[h].id, dur |-> session[h].dur]]
    /\ UNCHANGED <<rowVars, uploadVars, objects, readyCache, gc, faults, rootVars>>

(* Copy the temporary object to its hash unless one is there already. *)
publishTemporaryUpload(h) ==
    /\ active[h].phase = "streaming" /\ active[h].id # NoId
    /\ LET good == temp[active[h].id] = "good" IN
       /\ objects' = IF good THEN objects \cup {h} ELSE objects
       /\ active' = [active EXCEPT ![h].phase = IF good THEN "stored" ELSE "failed"]
    /\ UNCHANGED <<rowVars, uploadVars, readyCache, gc, faults, rootVars>>

(* Mutant: the cleanup does not compare upload ids. *)
deleteCanonicalUploadSession_any(h) ==
    /\ GateFree
    /\ active[h].phase = "failed"
    /\ temp' = [temp EXCEPT ![active[h].id] = "absent"]
    /\ session' = [session EXCEPT ![h] = NoSession]
    /\ reservation' = [reservation EXCEPT ![h] = 0]
    /\ active' = [active EXCEPT ![h] = NoUpload]
    /\ UNCHANGED <<rowVars, usedIds, objects, readyCache, gc, faults, rootVars>>

(* The catch branch of a failed direct upload, in a gate turn of its own:   *)
(* temporary object, session and reservation go if the session is still the *)
(* one this upload was admitted with.                                       *)
deleteCanonicalUploadSession(h) ==
    /\ GateFree
    /\ active[h].phase = "failed"
    /\ temp' = [temp EXCEPT ![active[h].id] = "absent"]
    /\ IF session[h].id = active[h].id
       THEN /\ session' = [session EXCEPT ![h] = NoSession]
            /\ reservation' = [reservation EXCEPT ![h] = 0]
       ELSE UNCHANGED <<session, reservation>>
    /\ active' = [active EXCEPT ![h] = NoUpload]
    /\ UNCHANGED <<rowVars, usedIds, objects, readyCache, gc, faults, rootVars>>

--------------------------------------------------------------------------------
(* Root references *)

(* The gate is taken and the update forwarded to its domain.  (CasRootRefs   *)
(* has the domain's tables, request ids and attempts in detail.)             *)
forwardRootRefs(change) ==
    /\ GateFree
    /\ \A h \in DOMAIN change : rootRefs[h] + change[h] <= MaxRootRefs
    /\ command' = [command EXCEPT ![instance] = [phase |-> "check", change |-> change]]
    /\ UNCHANGED <<rowVars, uploadVars, memVars, objects, gc, instance, exposed, faults>>

(* The domain's reads: all nodes have rows, no count falls below zero, and   *)
(* what is acquired has its object in R2.                                    *)
CheckRootRefs(n) ==
    LET c == command[n] IN
    /\ c.phase = "check"
    /\ DOMAIN c.change \subseteq rows
    /\ \A h \in DOMAIN c.change : rootRefs[h] + c.change[h] >= 0
    /\ Acquired(c) \subseteq objects
    /\ command' = [command EXCEPT ![n].phase = "commit"]
    /\ UNCHANGED <<rowVars, uploadVars, memVars, objects, gc, instance, exposed, faults>>

(* Refused by these checks, or answered from the record of the same request: *)
(* the update ends, and with it the gate turn, if there still is one.        *)
AnswerRootRefs(n) ==
    /\ command[n].phase = "check"
    /\ command' = [command EXCEPT ![n] = NoCommand]
    /\ UNCHANGED <<rowVars, uploadVars, memVars, objects, gc, instance, exposed, faults>>

(* The D1 batch: UPDATE passes over a node without a row, and a count below  *)
(* zero fails the CHECK and sends the update back to another attempt.        *)
CommitRootRefs(n) ==
    LET c == command[n]
        counted == DOMAIN c.change \cap rows IN
    /\ c.phase = "commit"
    /\ IF \A h \in counted : rootRefs[h] + c.change[h] >= 0
       THEN /\ rootRefs' = [h \in Hash |->
                  IF h \in counted THEN rootRefs[h] + c.change[h] ELSE rootRefs[h]]
            /\ command' = [command EXCEPT ![n] = NoCommand]
       ELSE /\ command' = [command EXCEPT ![n].phase = "check"]
            /\ UNCHANGED rootRefs
    /\ UNCHANGED <<rows, lease, childRefs, edges, uploadVars, memVars, objects, gc,
                   instance, exposed, faults>>

(* D1 or R2 throws (D1 also when another tenant has taken the revision), or  *)
(* the domain object restarts: another attempt, or none.                     *)
RootRefsFail(n) ==
    /\ command[n] # NoCommand
    /\ faults < MaxFaults /\ Explored
    /\ faults' = faults + 1
    /\ \/ command' = [command EXCEPT ![n].phase = "check"]
       \/ command' = [command EXCEPT ![n] = NoCommand]
    /\ UNCHANGED <<rowVars, uploadVars, memVars, objects, gc, instance, exposed>>

--------------------------------------------------------------------------------
(* Garbage collection *)

(* findExpiredUnreferenced and readStillExpiredUnreferenced: no counts, no  *)
(* lease, no live reservation.                                              *)
Unprotected(h) ==
    /\ h \in rows
    /\ childRefs[h] = 0 /\ rootRefs[h] = 0
    /\ lease[h] = 0 /\ reservation[h] = 0

(* Take the gate and at most GcMaxNodes candidates. *)
GcStart ==
    LET eligible == {h \in Hash : Unprotected(h)} IN
    /\ GateFree
    /\ eligible # {}
    /\ \E todo \in SUBSET eligible :
          /\ Cardinality(todo) = Min2(GcMaxNodes, Cardinality(eligible))
          /\ gc' = [phase |-> "scan", todo |-> todo, node |-> {}]
    /\ UNCHANGED <<rowVars, uploadVars, memVars, objects, faults, rootVars>>

(* Re-read one candidate and remove its content, or pass over it. *)
GcDeleteContent(h) ==
    /\ gc.phase = "scan" /\ h \in gc.todo
    /\ IF Unprotected(h)
       THEN /\ objects' = objects \ {h}
            /\ gc' = [phase |-> "removed", todo |-> gc.todo \ {h}, node |-> {h}]
       ELSE /\ gc' = [gc EXCEPT !.todo = @ \ {h}]
            /\ UNCHANGED objects
    /\ UNCHANGED <<rowVars, uploadVars, memVars, faults, rootVars>>

(* Mutant: the counts of the children are not lowered. *)
GcCommitDeletion_keepsCounts(h) ==
    /\ gc.phase = "removed" /\ gc.node = {h}
    /\ rows' = rows \ {h}
    /\ edges' = {e \in edges : e[1] # h}
    /\ rootRefs' = [rootRefs EXCEPT ![h] = 0]
    /\ gc' = [gc EXCEPT !.phase = "scan", !.node = {}]
    /\ UNCHANGED <<lease, childRefs, uploadVars, memVars, rootVars, objects, faults>>

(* The D1 batch that removes a node with the counts in its row, its edges,    *)
(* and its share of its children's counts.  The DELETE does not look at the   *)
(* row again.                                                                 *)
GcCommitDeletion(h) ==
    /\ gc.phase = "removed" /\ gc.node = {h}
    /\ rows' = rows \ {h}
    /\ edges' = {e \in edges : e[1] # h}
    /\ childRefs' = [c \in Hash |->
          IF c \in rows THEN childRefs[c] - Cardinality({e \in edges : e[1] = h /\ e[3] = c})
                        ELSE childRefs[c]]
    /\ rootRefs' = [rootRefs EXCEPT ![h] = 0]
    /\ gc' = [gc EXCEPT !.phase = "scan", !.node = {}]
    /\ UNCHANGED <<lease, uploadVars, memVars, rootVars, objects, faults>>

GcEnd ==
    /\ gc.phase = "scan" /\ gc.todo = {}
    /\ gc' = NoGc
    /\ UNCHANGED <<rowVars, uploadVars, memVars, objects, faults, rootVars>>

(* A storage call of the collection throws: R2 delete without effect, or    *)
(* the D1 batch after the content is gone.  The gate is released.           *)
GcFails ==
    /\ gc.phase # "idle"
    /\ faults < MaxFaults /\ Explored
    /\ faults' = faults + 1
    /\ gc' = NoGc
    /\ UNCHANGED <<rowVars, uploadVars, memVars, objects, rootVars>>

--------------------------------------------------------------------------------
(* The environment *)

(* The Durable Object restarts: its memory and what it was doing are lost,   *)
(* its gate too; a root update it has forwarded goes on at the domain.       *)
Restart ==
    /\ faults < MaxFaults /\ Explored
    /\ faults' = faults + 1
    /\ instance' = instance + 1
    /\ exposed' = exposed \cup Acquired(command[instance])
    /\ gc' = NoGc
    /\ readyCache' = [h \in Hash |-> 0]
    /\ active' = [h \in Hash |-> NoUpload]
    /\ UNCHANGED <<rowVars, uploadVars, objects, command>>

Less(f) == [h \in Hash |-> IF f[h] > 0 THEN f[h] - 1 ELSE 0]

Tick ==
    /\ lease' = Less(lease)
    /\ reservation' = Less(reservation)
    /\ readyCache' = Less(readyCache)
    /\ session' = [h \in Hash |-> [session[h] EXCEPT !.left = IF @ > 0 THEN @ - 1 ELSE 0]]
    /\ UNCHANGED <<rows, childRefs, rootRefs, edges, temp, usedIds, active, objects, gc, faults,
                   rootVars>>

Lease ==
    \/ \E h \in Hash, d \in LeaseDurations : LeaseReadyNode(h, d)
    \/ \E h \in Hash, d \in LeaseDurations : AdoptOrphan(h, d)
    \/ \E h \in Hash : AdoptOrphanRejected(h)

BodyUpload ==
    \/ \E h \in Hash, d \in LeaseDurations : beginCanonicalNodeLease(h, d)
    \/ \E h \in Hash : uploadCanonicalNode(h)
    \/ \E h \in Hash : UploadRejected(h)
    \/ \E h \in Hash : finalizeCanonicalNodeLease(h)
    \/ \E h \in Hash : FinalizeRejected(h)
    \/ \E h \in Hash : FinalizeFails(h)

DirectUpload ==
    \/ \E h \in Hash, d \in LeaseDurations, u \in UploadIds : prepareCanonicalNodeUpload(h, d, u)
    \/ \E u \in UploadIds, what \in {"good", "bad"} : ClientPutTemporary(u, what)
    \/ \E h \in Hash : admitCanonicalNodeUploadFinalization(h)
    \/ \E h \in Hash : publishTemporaryUpload(h)
    \/ \E h \in Hash : deleteCanonicalUploadSession(h)

RootUpdate ==
    \/ \E change \in RootUpdates : forwardRootRefs(change)
    \/ \E n \in 0 .. MaxFaults : CheckRootRefs(n)
    \/ \E n \in 0 .. MaxFaults : AnswerRootRefs(n)
    \/ \E n \in 0 .. MaxFaults : CommitRootRefs(n)
    \/ \E n \in 0 .. MaxFaults : RootRefsFail(n)

Collect ==
    \/ GcStart
    \/ \E h \in Hash : GcDeleteContent(h)
    \/ \E h \in Hash : GcCommitDeletion(h)
    \/ GcEnd

Next ==
    \/ Lease
    \/ BodyUpload
    \/ DirectUpload
    \/ RootUpdate
    \/ Collect
    \/ GcFails
    \/ Restart
    \/ Tick

Spec == Init /\ [][Next]_vars

(* A collection that has started goes on, a domain answers the updates it   *)
(* was given, and time passes.  No fairness for callers (who also start     *)
(* collections), failures or restarts.                                      *)
Fairness ==
    /\ \A n \in 0 .. MaxFaults : WF_vars(CheckRootRefs(n) \/ AnswerRootRefs(n) \/ CommitRootRefs(n))
    /\ \A h \in Hash : WF_vars(GcDeleteContent(h))
    /\ \A h \in Hash : WF_vars(GcCommitDeletion(h))
    /\ WF_vars(GcEnd)
    /\ WF_vars(Tick)

FairSpec == Spec /\ Fairness

--------------------------------------------------------------------------------
(* Properties *)

(* The root references that the gate has vouched for: not those of nodes    *)
(* acquired by an update that a restart cut off from its gate.              *)
firmRoots == [h \in Hash |-> IF h \in exposed THEN 0 ELSE rootRefs[h]]

Retention == INSTANCE CasRetention WITH
    stored <- rows, content <- objects, roots <- firmRoots,
    pinned <- {h \in rows : lease[h] > 0}

(* The edge table holds exactly the child lists of the rows, and no edge    *)
(* leads to a missing row: commitNewNode and commitDeletion keep cas_nodes  *)
(* and cas_edges in step.                                                   *)
EdgesExact ==
    /\ edges = UNION {EdgesOf(p) : p \in rows}
    /\ \A e \in edges : e[3] \in rows

(* childRefCount equals the number of stored incoming edge occurrences,     *)
(* after any mix of uploads, adoptions, collections and failures.           *)
Incoming(h) == {e \in edges : e[3] = h}
ChildRefsExact == \A h \in Hash : childRefs[h] = Cardinality(Incoming(h))

(* Every node with a positive rootRefCount is ready: it has its row and its *)
(* object, also after a collection that failed between the two.  A restart  *)
(* inside a root update takes this away from the nodes which that update    *)
(* acquires, and from no others.                                            *)
RootedReady == \A h \in Hash : firmRoots[h] > 0 => h \in rows /\ h \in objects

(* What the domain found when it checked the update under the gate still    *)
(* holds when it commits; the updates of earlier instances, which nothing   *)
(* protects, acquire exposed nodes only.                                    *)
UpdatesChecked ==
    /\ command[instance] # NoCommand => gc.phase = "idle"
    /\ command[instance].phase = "commit" => Acquired(command[instance]) \subseteq rows \cap objects
    /\ \A n \in 0 .. MaxFaults : /\ n < instance => Acquired(command[n]) \subseteq exposed
                                 /\ n > instance => command[n] = NoCommand
    /\ instance <= faults

(* The node whose content a collection has just removed is still outside    *)
(* all protection when its metadata is removed, unless an update that lost  *)
(* its gate has rooted it in between.                                       *)
GcFresh ==
    gc.phase = "removed" =>
        \E h \in rows : gc.node = {h} /\ childRefs[h] = 0 /\ firmRoots[h] = 0 /\ lease[h] = 0

(* Every upload under way and every direct session carries a real lease. *)
LeasesPositive ==
    \A h \in Hash : /\ active[h].phase # "none" => active[h].dur > 0
                    /\ session[h].left > 0 => session[h].dur > 0

(* The inductive invariant. *)
StoreInv ==
    /\ TypeOK /\ EdgesExact /\ ChildRefsExact
    /\ RootedReady /\ UpdatesChecked /\ GcFresh /\ LeasesPositive

(* No committed or leased state is lost: every step of the store is a step  *)
(* the retention promise allows; in particular neither content nor row of a *)
(* node reachable from a leased node or from a root reference that the gate *)
(* has vouched for ever goes away.                                          *)
RetainsProtected == Retention!AbsSpec

(* A live direct upload session goes away only when its node is inserted or *)
(* when the upload admitted with its own id fails: the late cleanup of an   *)
(* earlier upload never removes the session of its successor.               *)
LiveSessionKept ==
    [][\A h \in Hash : session[h].left > 0 /\ session'[h].id # session[h].id =>
          \/ h \in rows'
          \/ active[h].phase = "failed" /\ active[h].id = session[h].id]_vars

(* Abandoned data is eventually reclaimed, from the tops of the graph down: *)
(* if somebody keeps asking for collections, a node that from some time on  *)
(* is not reachable from anything rooted, leased or reserved loses its row. *)
(* The gate is a queue, so a collection asked for gets its turn although    *)
(* root updates keep taking the gate too.                                   *)
Guarded == Retention!Reach({h \in rows : rootRefs[h] > 0 \/ lease[h] > 0 \/ reservation[h] > 0})
CollectionRequested == SF_vars(GcStart)
AbandonedReclaimed ==
    CollectionRequested => \A h \in Hash : <>[](h \notin Guarded) => <>[](h \notin rows)

(* What the design says of readiness: v in W implies Ready(v). *)
LiveReady == Retention!Live \subseteq rows \cap objects
================================================================================
