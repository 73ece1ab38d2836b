--------------------------- MODULE TenantPortalProof ---------------------------
(***************************************************************************)
(* One document of the tenant portal, for any number of users, deliveries, *)
(* threads, versions and comments: submissions and idempotency keys take   *)
(* effect once, the versions are one history, comments are answered once,  *)
(* and retained snapshots stay.                                            *)
(***************************************************************************)
EXTENDS TenantPortal, FiniteSetTheorems, TLAPS

--------------------------------------------------------------------------------
(* The inductive invariant: tables *)

Dense(f) == IsFiniteSet(DOMAIN f) /\ DOMAIN f = 0 .. Cardinality(DOMAIN f) - 1

Id      == Nat \X Nat
Version == [parent : Index, blob : Blobs, sub : Id, addressed : SUBSET Nat]
Receipt == [body : Body, version : Index, reply : Index]
Event   == [thread : Threads \cup {None}, seen : Index, due : BOOLEAN]
Move    == [before : Index, after : Nat]

VersionTypes ==
    /\ documents \subseteq Users
    /\ Dense(versions) /\ \A v \in DOMAIN versions : versions[v] \in Version
    /\ current \in DOMAIN versions \cup {Null} /\ (current = Null => DOMAIN versions = {})
    /\ retained \cup lost \subseteq DOMAIN versions

Ascending(rows) ==
    /\ \A i \in DOMAIN rows : rows[i].through \in Nat
    /\ \A i, j \in DOMAIN rows : i < j => rows[i].through < rows[j].through

ThreadTypes ==
    /\ DOMAIN comments = Threads /\ DOMAIN replies = Threads
    /\ \A t \in Threads : Dense(comments[t]) /\ Dense(replies[t]) /\ Ascending(replies[t])

ReceiptTypes ==
    /\ \A id \in DOMAIN receipts : receipts[id] \in Receipt
    /\ \A k \in DOMAIN keys : keys[k].thread \in Threads \cup {None}
    /\ audit \in Seq(Move)

EventTypes ==
    /\ Dense(events)
    /\ \A e \in DOMAIN events : events[e] \in Event /\ (events[e].thread # None => DOMAIN versions # {})

CasTypes ==
    /\ stored \subseteq Blobs /\ count \in [Blobs -> Nat]
    /\ requests \subseteq {<<v>> : v \in DOMAIN versions}

Tables == VersionTypes /\ ThreadTypes /\ ReceiptTypes /\ EventTypes /\ CasTypes

--------------------------------------------------------------------------------
(* The inductive invariant: requests in progress *)

RunType == [at : RunSteps, event : Nat, attempt : Nat, body : Body, addressed : SUBSET Nat,
            vidx : Index, ridx : Index, commits : Nat, tries : Nat]
TabType == [at : TabSteps, op : {"create", "append", None}, thread : Threads \cup {None}, key : Keys \cup {None},
            body : Bodies \cup {None}, idx : Index, tries : Nat]

(* A batch carries indexes that are free or were taken since, answers         *)
(* comments that are there, and lists them.                                   *)
BatchInv(q) ==
    /\ q.commits < 2
    /\ q.body.blob = None => q.vidx = Null
    /\ q.body.blob # None => q.vidx \in Nat /\ q.vidx <= NextIdx(versions)
    /\ q.body.thread = None => q.ridx = Null
    /\ q.body.thread # None => /\ q.ridx \in Nat /\ q.ridx <= NextIdx(replies[q.body.thread])
                               /\ q.body.ack < q.body.through /\ q.body.through <= Latest(q.body.thread)
    /\ q.body.blob # None /\ q.body.thread # None => q.addressed = q.body.ack + 1 .. q.body.through

(* A submission was made from a version with other content. *)
MadeFrom(b) == b.obs # Null => b.obs \in DOMAIN versions /\ versions[b.obs].blob # b.blob

RunInv(r) ==
    /\ run[r].tries < MaxTries /\ run[r].commits <= 2
    /\ run[r].at \in {"again", "receipt", "state", "batch"} => run[r].event \in DOMAIN events
    /\ run[r].at \in {"receipt", "state", "batch"} => MadeFrom(run[r].body)
    /\ run[r].at = "batch" => BatchInv(run[r])
    /\ run[r].at \in {"retained", "lost"} => run[r].vidx \in DOMAIN versions
    /\ run[r].at = "retained" => <<run[r].vidx>> \in requests

TabInv(u) ==
    /\ tab[u].tries < MaxTries
    /\ tab[u].at = "batch" => /\ tab[u].op \in {"create", "append"} /\ tab[u].thread \in Threads /\ DOMAIN versions # {}
                              /\ tab[u].idx \in Nat /\ tab[u].idx <= NextIdx(comments[tab[u].thread])

Requests ==
    /\ run \in [Runs -> RunType] /\ \A r \in Runs : RunInv(r)
    /\ tab \in [Users -> TabType] /\ \A u \in Users : TabInv(u)

PortalInv == Tables /\ Requests

--------------------------------------------------------------------------------
(* Operators *)

(* An insert keeps the rows that are there. *)
LEMMA InsertedOne ==
    ASSUME NEW f, NEW k, NEW x
    PROVE  /\ DOMAIN Inserted(f, k, x) = DOMAIN f \cup {k}
           /\ k \notin DOMAIN f => Inserted(f, k, x)[k] = x
           /\ \A y \in DOMAIN f : Inserted(f, k, x)[y] = f[y]
BY DEF Inserted

(* The greatest number of a set. *)
LEMMA MaxIs ==
    ASSUME NEW S, NEW m \in S, \A y \in S : y \in Int /\ m >= y
    PROVE  Max(S) = m
<1>1. Max(S) = CHOOSE x \in S : \A y \in S : x >= y
  BY DEF Max
<1>2. \E x \in S : \A y \in S : x >= y
  OBVIOUS
<1>3. Max(S) \in S /\ \A y \in S : Max(S) >= y
  BY <1>1, <1>2
<1>4. QED
  BY <1>3

(* The next index of a table whose indexes have no gaps. *)
LEMMA DenseNext ==
    ASSUME NEW f, Dense(f)
    PROVE  /\ NextIdx(f) \in Nat /\ NextIdx(f) = Cardinality(DOMAIN f) /\ DOMAIN f = 0 .. NextIdx(f) - 1
           /\ Max(DOMAIN f \cup {-1}) = NextIdx(f) - 1
<1> DEFINE n == Cardinality(DOMAIN f)
<1>1. n \in Nat /\ DOMAIN f = 0 .. n - 1
  BY FS_CardinalityType DEF Dense
<1> HIDE DEF n
<1>2. Max((0 .. n - 1) \cup {-1}) = n - 1
  BY <1>1 DEF Max
<1>3. NextIdx(f) = n
  BY <1>1, <1>2 DEF NextIdx
<1>4. QED
  BY <1>1, <1>2, <1>3 DEF n

(* An interval from 0 has no gaps. *)
LEMMA DenseFrom ==
    ASSUME NEW f, NEW n \in Nat, DOMAIN f = 0 .. n - 1
    PROVE  Dense(f) /\ NextIdx(f) = n
<1>1. IsFiniteSet(0 .. n - 1) /\ Cardinality(0 .. n - 1) = n
  BY FS_Interval
<1>2. Dense(f)
  BY <1>1 DEF Dense
<1>3. QED
  BY <1>1, <1>2, DenseNext

(* An index that was proposed and is still free is the next one. *)
LEMMA DenseInsert ==
    ASSUME NEW f, NEW k \in Nat, NEW x, Dense(f), k <= NextIdx(f), k \notin DOMAIN f
    PROVE  /\ k = NextIdx(f) /\ Dense(Inserted(f, k, x)) /\ NextIdx(Inserted(f, k, x)) = k + 1
           /\ DOMAIN Inserted(f, k, x) = DOMAIN f \cup {k} /\ Inserted(f, k, x)[k] = x
           /\ \A y \in DOMAIN f : Inserted(f, k, x)[y] = f[y]
<1>1. NextIdx(f) \in Nat /\ DOMAIN f = 0 .. NextIdx(f) - 1
  BY DenseNext
<1>2. k = NextIdx(f)
  BY <1>1
<1>3. /\ DOMAIN Inserted(f, k, x) = DOMAIN f \cup {k} /\ Inserted(f, k, x)[k] = x
      /\ \A y \in DOMAIN f : Inserted(f, k, x)[y] = f[y]
  BY InsertedOne
<1>4. DOMAIN Inserted(f, k, x) = 0 .. (k + 1) - 1
  BY <1>1, <1>2, <1>3
<1>5. QED
  BY <1>2, <1>3, <1>4, DenseFrom

(* The watermark of a thread is that of its last reply. *)
LEMMA WatermarkIsLast ==
    ASSUME ThreadTypes, NEW t \in Threads
    PROVE  /\ Acknowledged(t) \in Index
           /\ NextIdx(replies[t]) = 0 => Acknowledged(t) = -1
           /\ NextIdx(replies[t]) > 0 => Acknowledged(t) = replies[t][NextIdx(replies[t]) - 1].through
           /\ \A i \in DOMAIN replies[t] : replies[t][i].through <= Acknowledged(t)
<1> DEFINE n == NextIdx(replies[t])
           S == {replies[t][i].through : i \in DOMAIN replies[t]} \cup {-1}
<1>1. /\ n \in Nat /\ DOMAIN replies[t] = 0 .. n - 1
      /\ \A i \in DOMAIN replies[t] : replies[t][i].through \in Nat
      /\ \A i, j \in DOMAIN replies[t] : i < j => replies[t][i].through < replies[t][j].through
  BY DenseNext DEF ThreadTypes, Ascending
<1>2. Acknowledged(t) = Max(S)
  BY DEF Acknowledged
<1> HIDE DEF n
<1>3. CASE n = 0
  <2>1. DOMAIN replies[t] = {}
    BY <1>1, <1>3
  <2>2. S = {-1}
    BY <2>1
  <2> HIDE DEF S
  <2>3. Max(S) = -1
    BY <2>2 DEF Max
  <2>4. QED
    BY <1>2, <1>3, <2>1, <2>3 DEF n, Index, Null
<1>4. CASE n > 0
  <2> DEFINE m == replies[t][n - 1].through
  <2>1. n - 1 \in DOMAIN replies[t] /\ m \in Nat /\ m \in S
    BY <1>1, <1>4
  <2>2. \A i \in DOMAIN replies[t] : replies[t][i].through <= m
    <3>1. SUFFICES ASSUME NEW i \in DOMAIN replies[t] PROVE replies[t][i].through <= m
      OBVIOUS
    <3>2. i \in Nat /\ (i = n - 1 \/ i < n - 1) /\ replies[t][i].through \in Nat
      BY <1>1, <1>4
    <3>3. QED
      BY <1>1, <2>1, <3>2
  <2>3. \A y \in S : y \in Int /\ m >= y
    BY <1>1, <2>1, <2>2
  <2> HIDE DEF S, m
  <2>4. Max(S) = m
    BY <2>1, <2>3, MaxIs
  <2>5. Acknowledged(t) = m /\ m \in Index /\ n # 0
    BY <1>2, <1>4, <2>1, <2>4 DEF Index
  <2>6. \A i \in DOMAIN replies[t] : replies[t][i].through <= Acknowledged(t)
    BY <2>2, <2>5
  <2>7. QED
    BY <2>5, <2>6 DEF m, n
<1>5. QED
  BY <1>1, <1>3, <1>4

--------------------------------------------------------------------------------
(* Growing tables *)

(* No step takes a version, a comment, a reply, an event or a root request    *)
(* back.                                                                      *)
Grows ==
    /\ \A v \in DOMAIN versions : v \in DOMAIN versions' /\ versions'[v] = versions[v]
    /\ NextIdx(versions) <= NextIdx(versions)'
    /\ \A t \in Threads : /\ NextIdx(comments[t]) <= NextIdx(comments[t])'
                          /\ NextIdx(replies[t]) <= NextIdx(replies[t])'
    /\ DOMAIN events \subseteq DOMAIN events' /\ requests \subseteq requests'

(* The sizes of the tables are numbers, and the latest comment is the one     *)
(* before the next.                                                           *)
LEMMA Sizes ==
    ASSUME Tables
    PROVE  /\ NextIdx(versions) \in Nat /\ DOMAIN versions = 0 .. NextIdx(versions) - 1
           /\ \A t \in Threads : /\ NextIdx(comments[t]) \in Nat /\ DOMAIN comments[t] = 0 .. NextIdx(comments[t]) - 1
                                 /\ NextIdx(replies[t]) \in Nat /\ DOMAIN replies[t] = 0 .. NextIdx(replies[t]) - 1
                                 /\ Latest(t) = NextIdx(comments[t]) - 1
           /\ NextIdx(events) \in Nat /\ DOMAIN events = 0 .. NextIdx(events) - 1
BY DenseNext DEF Tables, VersionTypes, ThreadTypes, EventTypes, Latest

(* The same in the next state. *)
LEMMA SizesAfter ==
    ASSUME Tables'
    PROVE  /\ (NextIdx(versions) \in Nat)'
           /\ \A t \in Threads : /\ (NextIdx(comments[t]) \in Nat)' /\ (NextIdx(replies[t]) \in Nat)'
                                 /\ (Latest(t) = NextIdx(comments[t]) - 1)'
BY DenseNext DEF Tables, VersionTypes, ThreadTypes, EventTypes, Latest

(* A request that does not move keeps what it relies on while the tables grow. *)
LEMMA RunStays ==
    ASSUME PortalInv, Tables', Grows, NEW r \in Runs, run'[r] = run[r]
    PROVE  RunInv(r)'
<1>1. run[r] \in RunType /\ RunInv(r) /\ Tables
  BY DEF PortalInv, Requests
<1>2. ASSUME BatchInv(run[r]) PROVE BatchInv(run[r])'
  <2> DEFINE b == run[r].body
  <2>1. b.ack \in Int /\ b.through \in Int /\ (b.thread # None => b.thread \in Threads) /\ b \in Body
    BY <1>1 DEF RunType, Body, Index, Null
  <2>2. run[r].vidx <= NextIdx(versions) /\ run[r].vidx \in Nat => run[r].vidx <= NextIdx(versions)'
    BY <1>1, Sizes, SizesAfter DEF Grows
  <2>3. ASSUME b.thread # None
        PROVE  /\ run[r].ridx \in Nat /\ run[r].ridx <= NextIdx(replies[b.thread])'
               /\ b.ack < b.through /\ b.through <= Latest(b.thread)'
    <3>1. PICK t \in Threads : t = b.thread
      BY <2>1, <2>3
    <3>2. /\ run[r].ridx \in Nat /\ run[r].ridx <= NextIdx(replies[t]) /\ b.ack < b.through
          /\ b.through <= Latest(t) /\ b.through \in Int
      BY <1>2, <2>1, <2>3, <3>1 DEF BatchInv
    <3>3. /\ run[r].ridx <= NextIdx(replies'[t])
          /\ b.through <= NextIdx(comments'[t]) - 1 /\ Latest(t)' = NextIdx(comments'[t]) - 1
      BY <1>1, <3>2, Sizes, SizesAfter DEF Grows
    <3>4. QED
      BY <3>1, <3>2, <3>3 DEF Latest
  <2>4. QED
    BY <1>2, <2>2, <2>3 DEF BatchInv
<1>3. ASSUME MadeFrom(run[r].body) PROVE MadeFrom(run[r].body)'
  BY <1>3 DEF MadeFrom, Grows
<1>4. QED
  BY <1>1, <1>2, <1>3 DEF RunInv, Grows

(* The same for a browser tab. *)
LEMMA TabStays ==
    ASSUME PortalInv, Tables', Grows, NEW u \in Users, tab'[u] = tab[u]
    PROVE  TabInv(u)'
<1>1. TabInv(u) /\ Tables
  BY DEF PortalInv, Requests
<1>2. DOMAIN versions # {} => DOMAIN versions' # {}
  BY DEF Grows
<1>3. ASSUME NEW i \in Nat, NEW t \in Threads, i <= NextIdx(comments[t]) PROVE i <= NextIdx(comments'[t])
  BY <1>1, <1>3, Sizes, SizesAfter DEF Grows
<1>4. QED
  BY <1>1, <1>2, <1>3 DEF TabInv

(* A step of one delivery. *)
LEMMA RunStepKeeps ==
    ASSUME PortalInv, Tables', Grows, NEW r \in Runs, run' \in [Runs -> RunType], RunInv(r)',
           \A x \in Runs \ {r} : run'[x] = run[x], UNCHANGED tab
    PROVE  PortalInv'
<1>1. \A x \in Runs : RunInv(x)'
  BY RunStays
<1>2. \A u \in Users : TabInv(u)'
  BY TabStays
<1>3. QED
  BY <1>1, <1>2 DEF PortalInv, Requests

(* A step of one browser tab. *)
LEMMA TabStepKeeps ==
    ASSUME PortalInv, Tables', Grows, NEW u \in Users, tab' \in [Users -> TabType], TabInv(u)',
           \A x \in Users \ {u} : tab'[x] = tab[x], UNCHANGED run
    PROVE  PortalInv'
<1>1. \A r \in Runs : RunInv(r)'
  BY RunStays
<1>2. \A x \in Users : TabInv(x)'
  BY TabStays
<1>3. QED
  BY <1>1, <1>2 DEF PortalInv, Requests

(* A step of neither. *)
LEMMA TableStepKeeps ==
    ASSUME PortalInv, Tables', Grows, UNCHANGED <<run, tab>>
    PROVE  PortalInv'
BY RunStays, TabStays DEF PortalInv, Requests

--------------------------------------------------------------------------------
(* Deliveries that leave the tables alone *)

(* What PortalInv says of one delivery. *)
LEMMA RunFacts ==
    ASSUME PortalInv, NEW r \in Runs
    PROVE  /\ Tables /\ run \in [Runs -> RunType] /\ run[r] \in RunType /\ RunInv(r) /\ run[r].body \in Body
           /\ run[r].event \in Nat /\ run[r].attempt \in Nat /\ run[r].vidx \in Index /\ run[r].ridx \in Index
           /\ run[r].commits \in Nat /\ run[r].tries \in Nat /\ run[r].addressed \in SUBSET Nat
BY DEF PortalInv, Requests, RunType

(* The idle delivery. *)
LEMMA IdleRunFacts ==
    /\ IdleRun \in RunType /\ IdleRun.at = "idle" /\ IdleRun.tries = 0 /\ IdleRun.commits = 0
    /\ IdleRun.body = NoBody /\ NoBody \in Body /\ NoBody.obs = Null /\ NoBody.blob = None /\ NoBody.thread = None
    /\ 0 < MaxTries /\ MaxTries \in Nat
<1>1. NoBody \in Body /\ NoBody.obs = Null /\ NoBody.blob = None /\ NoBody.thread = None
  BY DEF NoBody, Body, Index
<1>2. 0 < MaxTries /\ MaxTries \in Nat
  BY PortalAssumption
<1>3. QED
  BY <1>1, <1>2 DEF IdleRun, RunType, RunSteps, Index

(* An ended delivery relies on nothing. *)
LEMMA RunEndsOne ==
    ASSUME PortalInv, NEW r \in Runs, RunEnds(r)
    PROVE  /\ run' \in [Runs -> RunType] /\ RunInv(r)' /\ run'[r].at = "idle"
           /\ \A x \in Runs \ {r} : run'[x] = run[x]
<1>1. run' \in [Runs -> RunType] /\ run'[r] = IdleRun /\ \A x \in Runs \ {r} : run'[x] = run[x]
  BY RunFacts, IdleRunFacts DEF RunEnds
<1>2. QED
  BY <1>1, IdleRunFacts DEF RunInv

(* A delivery replaced by another value. *)
LEMMA RunSet ==
    ASSUME PortalInv, NEW r \in Runs, NEW q \in RunType, run' = [run EXCEPT ![r] = q]
    PROVE  run' \in [Runs -> RunType] /\ run'[r] = q /\ \A x \in Runs \ {r} : run'[x] = run[x]
BY RunFacts

(* Tables that no statement touches. *)
LEMMA TablesSame ==
    ASSUME PortalInv, UNCHANGED <<pages, marks, cas, events>>
    PROVE  Tables' /\ Grows
<1>1. Tables /\ UNCHANGED <<documents, current, versions, retained, lost, comments, replies, receipts, keys, audit,
                            events, stored, requests, count>>
  BY DEF PortalInv, pages, marks, cas
<1>2. Tables'
  BY <1>1 DEF Tables, VersionTypes, ThreadTypes, ReceiptTypes, EventTypes, CasTypes, Dense, Ascending
<1>3. QED
  BY <1>1, <1>2, Sizes DEF Grows

(* A delivery that ends without a statement. *)
LEMMA RunEndsKeeps ==
    ASSUME PortalInv, NEW r \in Runs, RunEnds(r), UNCHANGED <<pages, marks, cas, events, tab>>
    PROVE  PortalInv'
BY RunEndsOne, TablesSame, RunStepKeeps

(* The receipt is looked up. *)
LEMMA FindReceiptKeeps ==
    ASSUME PortalInv, NEW r \in Runs, FindReceipt(r)
    PROVE  PortalInv'
<1> DEFINE id == SubmissionId(r)
<1>1. UNCHANGED <<pages, marks, cas, events, tab>> /\ run[r].at = "receipt" /\ Tables' /\ Grows
  BY TablesSame DEF FindReceipt, RunAt
<1>2. CASE id \notin DOMAIN receipts
  <2>1. run' = [run EXCEPT ![r].at = "state"]
    BY <1>2 DEF FindReceipt, RunGoes
  <2>2. /\ run' \in [Runs -> RunType] /\ run'[r].at = "state" /\ run'[r].event = run[r].event
        /\ run'[r].body = run[r].body /\ run'[r].tries = run[r].tries /\ run'[r].commits = run[r].commits
        /\ \A x \in Runs \ {r} : run'[x] = run[x]
    BY <2>1, RunFacts DEF RunType, RunSteps
  <2>3. RunInv(r)'
    BY <1>1, <2>2, RunFacts DEF RunInv, MadeFrom, Grows
  <2>4. QED
    BY <1>1, <2>2, <2>3, RunStepKeeps
<1>3. CASE id \in DOMAIN receipts /\ receipts[id].body = run[r].body /\ run[r].body.blob # None
  <2>1. run' = [run EXCEPT ![r].at = "retain", ![r].vidx = receipts[id].version]
    BY <1>3 DEF FindReceipt
  <2>2. receipts[id].version \in Index
    BY <1>3, RunFacts DEF Tables, ReceiptTypes, Receipt
  <2>3. /\ run' \in [Runs -> RunType] /\ run'[r].at = "retain"
        /\ run'[r].tries = run[r].tries /\ run'[r].commits = run[r].commits
        /\ \A x \in Runs \ {r} : run'[x] = run[x]
    BY <2>1, <2>2, RunFacts DEF RunType, RunSteps
  <2>4. RunInv(r)'
    BY <2>3, RunFacts DEF RunInv
  <2>5. QED
    BY <1>1, <2>3, <2>4, RunStepKeeps
<1>4. CASE id \in DOMAIN receipts /\ ~(receipts[id].body = run[r].body /\ run[r].body.blob # None)
  BY <1>1, <1>4, RunEndsKeeps DEF FindReceipt
<1>5. QED
  BY <1>2, <1>3, <1>4

(* What prepareAttempt computes. *)
LEMMA PreparedOne ==
    ASSUME PortalInv, NEW q \in RunType
    PROVE  /\ Prepared(q) \in RunType /\ Prepared(q).at = "batch" /\ Prepared(q).event = q.event
           /\ Prepared(q).body = q.body /\ Prepared(q).addressed = q.addressed
           /\ Prepared(q).commits = q.commits /\ Prepared(q).tries = q.tries
           /\ q.body.blob = None => Prepared(q).vidx = Null
           /\ q.body.blob # None => Prepared(q).vidx = NextIdx(versions) /\ NextIdx(versions) \in Nat
           /\ q.body.thread = None => Prepared(q).ridx = Null
           /\ q.body.thread # None => /\ Prepared(q).ridx = NextIdx(replies[q.body.thread])
                                      /\ NextIdx(replies[q.body.thread]) \in Nat
<1> DEFINE v == IF q.body.blob = None THEN Null ELSE NextIdx(versions)
           i == IF q.body.thread = None THEN Null ELSE NextIdx(replies[q.body.thread])
<1>1. q.body \in Body /\ (q.body.thread # None => q.body.thread \in Threads)
  BY DEF RunType, Body
<1>2. /\ NextIdx(versions) \in Nat /\ (q.body.thread # None => NextIdx(replies[q.body.thread]) \in Nat)
  BY <1>1, Sizes DEF PortalInv
<1>3. v \in Index /\ i \in Index
  BY <1>2 DEF Index
<1>4. Prepared(q) = [q EXCEPT !.at = "batch", !.vidx = v, !.ridx = i]
  BY DEF Prepared
<1> HIDE DEF v, i
<1>5. /\ Prepared(q) \in RunType /\ Prepared(q).at = "batch" /\ Prepared(q).event = q.event
      /\ Prepared(q).body = q.body /\ Prepared(q).addressed = q.addressed
      /\ Prepared(q).commits = q.commits /\ Prepared(q).tries = q.tries
      /\ Prepared(q).vidx = v /\ Prepared(q).ridx = i
  BY <1>3, <1>4 DEF RunType, RunSteps
<1>6. QED
  BY <1>2, <1>5 DEF v, i

(* A rejected submission is recomputed or given up. *)
LEMMA RejectedKeeps ==
    ASSUME PortalInv, NEW r \in Runs, Rejected(r), run[r].at = "state", UNCHANGED <<pages, marks, cas, events, tab>>
    PROVE  PortalInv'
<1>1. CASE run[r].attempt = 2
  BY <1>1, RunEndsKeeps DEF Rejected
<1>2. CASE run[r].attempt # 2
  <2> DEFINE q == [IdleRun EXCEPT !.at = "again", !.event = run[r].event, !.attempt = run[r].attempt + 1]
  <2>1. run' = [run EXCEPT ![r] = q]
    BY <1>2 DEF Rejected
  <2>2. run[r].attempt + 1 \in Nat
    BY RunFacts
  <2>3. q \in RunType /\ q.at = "again" /\ q.event = run[r].event /\ q.tries = 0 /\ q.commits = 0
    BY <2>2, RunFacts, IdleRunFacts DEF RunType, RunSteps
  <2> HIDE DEF q
  <2>4. run' \in [Runs -> RunType] /\ run'[r] = q /\ \A x \in Runs \ {r} : run'[x] = run[x]
    BY <2>1, <2>3, RunSet
  <2>5. Tables' /\ Grows
    BY TablesSame
  <2>6. run[r].event \in DOMAIN events'
    BY <2>5, RunFacts DEF RunInv, Grows
  <2>7. /\ run'[r].at = "again" /\ run'[r].event = run[r].event
        /\ run'[r].tries < MaxTries /\ run'[r].commits <= 2
    BY <2>3, <2>4, IdleRunFacts
  <2>8. RunInv(r)'
    BY <2>6, <2>7 DEF RunInv
  <2>9. QED
    BY <2>4, <2>5, <2>8, RunStepKeeps
<1>3. QED
  BY <1>1, <1>2

(* The comments between the watermark and the reply are those that are there. *)
LEMMA AddressedAre ==
    ASSUME PortalInv, NEW b \in Body, b.blob # None, b.thread # None, Answers(b)
    PROVE  AddressedComments(b) = b.ack + 1 .. b.through
<1> DEFINE t == b.thread
<1>1. t \in Threads /\ b.ack \in Index /\ b.through \in Index
  BY DEF Body
<1>2. /\ b.ack < b.through /\ b.through <= NextIdx(comments[t]) - 1
      /\ NextIdx(comments[t]) \in Nat /\ DOMAIN comments[t] = 0 .. NextIdx(comments[t]) - 1
  BY <1>1, Sizes DEF Answers, PortalInv
<1>3. AddressedComments(b) = {i \in DOMAIN comments[t] : b.ack < i /\ i <= b.through}
  BY DEF AddressedComments
<1>4. b.ack \in Int /\ b.ack >= -1 /\ b.through \in Int
  BY <1>1 DEF Index, Null
<1>5. QED
  BY <1>2, <1>3, <1>4

(* The state is loaded, checked against the locks, and a batch is prepared. *)
LEMMA LoadStateKeeps ==
    ASSUME PortalInv, NEW r \in Runs, LoadState(r)
    PROVE  PortalInv'
<1> DEFINE b == run[r].body
<1>1. UNCHANGED <<pages, marks, cas, events, tab>> /\ run[r].at = "state" /\ Tables' /\ Grows
  BY TablesSame DEF LoadState, RunAt
<1>2. CASE ~Locks(b)
  BY <1>1, <1>2, RejectedKeeps DEF LoadState
<1>3. CASE Locks(b) /\ (run[r].commits = 2 \/ ~Answers(b) \/ b.blob \notin stored \cup {None})
  BY <1>1, <1>3, RunEndsKeeps DEF LoadState
<1>4. CASE Locks(b) /\ ~(run[r].commits = 2 \/ ~Answers(b) \/ b.blob \notin stored \cup {None})
  <2> DEFINE q == [run[r] EXCEPT !.tries = 0, !.addressed = AddressedComments(b)]
  <2>1. run' = [run EXCEPT ![r] = Prepared(q)]
    BY <1>4, RunFacts DEF LoadState
  <2>2. AddressedComments(b) \in SUBSET Nat
    <3>1. b.thread # None => b.thread \in Threads
      BY RunFacts DEF Body
    <3>2. QED
      BY <3>1, RunFacts, Sizes DEF AddressedComments
  <2>3. /\ q \in RunType /\ q.body = b /\ q.event = run[r].event /\ q.tries = 0 /\ q.commits = run[r].commits
        /\ q.addressed = AddressedComments(b)
    BY <2>2, RunFacts DEF RunType
  <2> HIDE DEF q
  <2>4. /\ run' \in [Runs -> RunType] /\ run'[r] = Prepared(q) /\ \A x \in Runs \ {r} : run'[x] = run[x]
    BY <2>1, <2>3, PreparedOne, RunSet
  <2>5. run[r].commits < 2 /\ MadeFrom(b) /\ run[r].event \in DOMAIN events /\ Answers(b)
    <3>1. run[r].commits \in Nat /\ run[r].commits <= 2 /\ run[r].commits # 2
      BY <1>4, RunFacts DEF RunInv
    <3>2. MadeFrom(b) /\ run[r].event \in DOMAIN events
      BY <1>1, RunFacts DEF RunInv
    <3>3. QED
      BY <1>4, <3>1, <3>2
  <2>6. /\ run'[r].at = "batch" /\ run'[r].body = b /\ run'[r].event = run[r].event /\ run'[r].tries = 0
        /\ run'[r].commits = run[r].commits /\ run'[r].addressed = AddressedComments(b)
        /\ b.blob = None => run'[r].vidx = Null
        /\ b.blob # None => run'[r].vidx = NextIdx(versions) /\ run'[r].vidx \in Nat
        /\ b.thread = None => run'[r].ridx = Null
        /\ b.thread # None => run'[r].ridx = NextIdx(replies[b.thread]) /\ run'[r].ridx \in Nat
    BY <2>3, <2>4, PreparedOne
  <2>7. UNCHANGED <<versions, replies, comments, events>>
    BY <1>1 DEF pages
  <2>8. b.blob # None /\ b.thread # None => AddressedComments(b) = b.ack + 1 .. b.through
    BY <2>5, RunFacts, AddressedAre
  <2>9. b.thread # None => b.ack < b.through /\ b.through <= Latest(b.thread)
    BY <2>5 DEF Answers
  <2> HIDE DEF b
  <2>10. BatchInv(run[r])'
    BY <2>5, <2>6, <2>7, <2>8, <2>9 DEF BatchInv, Latest
  <2>11. MadeFrom(run[r].body)'
    BY <2>5, <2>6, <2>7 DEF MadeFrom
  <2>12. run'[r].tries < MaxTries /\ run'[r].commits <= 2
    BY <2>5, <2>6, RunFacts, IdleRunFacts
  <2>13. RunInv(r)'
    BY <2>5, <2>6, <2>7, <2>10, <2>11, <2>12 DEF RunInv
  <2>14. QED
    BY <1>1, <2>4, <2>13, RunStepKeeps
<1>5. QED
  BY <1>2, <1>3, <1>4

(* A batch that failed starts over, is prepared again, or is given up. *)
LEMMA ClassifyFailureKeeps ==
    ASSUME PortalInv, NEW r \in Runs, ClassifyFailure(r)
    PROVE  PortalInv'
<1> DEFINE b == run[r].body
<1>1. UNCHANGED <<pages, marks, cas, events, tab>> /\ run[r].at = "batch" /\ Tables' /\ Grows
  BY TablesSame DEF ClassifyFailure, RunAt
<1>2. /\ BatchInv(run[r]) /\ MadeFrom(b) /\ run[r].event \in DOMAIN events
      /\ run[r].tries < MaxTries /\ run[r].commits < 2
      /\ UNCHANGED <<versions, replies, comments, events>>
  BY <1>1, RunFacts DEF RunInv, BatchInv, pages
<1>3. CASE SubmissionId(r) \in DOMAIN receipts \/ ~Locks(b)
  <2>1. run' = [run EXCEPT ![r].at = "receipt", ![r].commits = @ + 1, ![r].vidx = Null, ![r].ridx = Null]
    BY <1>3 DEF ClassifyFailure
  <2>2. /\ run' \in [Runs -> RunType] /\ run'[r].at = "receipt" /\ run'[r].commits = run[r].commits + 1
        /\ run'[r].tries = run[r].tries /\ run'[r].event = run[r].event /\ run'[r].body = run[r].body
        /\ \A x \in Runs \ {r} : run'[x] = run[x]
    BY <2>1, RunFacts DEF RunType, RunSteps, Index
  <2>3. run'[r].tries < MaxTries /\ run'[r].commits <= 2
    BY <1>2, <2>2, RunFacts
  <2>4. MadeFrom(run[r].body)'
    BY <1>2, <2>2 DEF MadeFrom
  <2>5. RunInv(r)'
    BY <1>2, <2>2, <2>3, <2>4 DEF RunInv
  <2>6. QED
    BY <1>1, <2>2, <2>5, RunStepKeeps
<1>4. CASE ~(SubmissionId(r) \in DOMAIN receipts \/ ~Locks(b)) /\ run[r].tries + 1 = MaxTries
  BY <1>1, <1>4, RunEndsKeeps DEF ClassifyFailure
<1>5. CASE ~(SubmissionId(r) \in DOMAIN receipts \/ ~Locks(b)) /\ run[r].tries + 1 # MaxTries
  <2> DEFINE q == [run[r] EXCEPT !.tries = run[r].tries + 1]
  <2>1. run' = [run EXCEPT ![r] = Prepared(q)]
    BY <1>5, RunFacts DEF ClassifyFailure
  <2>2. /\ q \in RunType /\ q.body = b /\ q.event = run[r].event /\ q.tries = run[r].tries + 1
        /\ q.commits = run[r].commits /\ q.addressed = run[r].addressed
    BY RunFacts DEF RunType
  <2> HIDE DEF q
  <2>3. /\ run' \in [Runs -> RunType] /\ run'[r] = Prepared(q) /\ \A x \in Runs \ {r} : run'[x] = run[x]
    BY <2>1, <2>2, PreparedOne, RunSet
  <2>4. /\ run'[r].at = "batch" /\ run'[r].body = b /\ run'[r].event = run[r].event
        /\ run'[r].tries = run[r].tries + 1
        /\ run'[r].commits = run[r].commits /\ run'[r].addressed = run[r].addressed
        /\ b.blob = None => run'[r].vidx = Null
        /\ b.blob # None => run'[r].vidx = NextIdx(versions) /\ run'[r].vidx \in Nat
        /\ b.thread = None => run'[r].ridx = Null
        /\ b.thread # None => run'[r].ridx = NextIdx(replies[b.thread]) /\ run'[r].ridx \in Nat
    BY <2>2, <2>3, PreparedOne
  <2>5. run[r].tries + 1 < MaxTries
    BY <1>2, <1>5, RunFacts, IdleRunFacts
  <2>6. BatchInv(run[r])'
    BY <1>2, <2>4 DEF BatchInv, Latest
  <2>7. MadeFrom(run[r].body)'
    BY <1>2, <2>4 DEF MadeFrom
  <2>8. RunInv(r)'
    <3>1. run'[r].tries < MaxTries /\ run'[r].commits <= 2
      BY <1>2, <2>4, <2>5, RunFacts
    <3>2. QED
      BY <1>2, <2>4, <2>6, <2>7, <3>1 DEF RunInv
  <2>9. QED
    BY <1>1, <2>3, <2>8, RunStepKeeps
<1>6. QED
  BY <1>3, <1>4, <1>5

--------------------------------------------------------------------------------
(* The Operator *)

(* Events keep their threads, and blobs come from the Operator. *)
LEMMA WorkTables ==
    ASSUME PortalInv, UNCHANGED <<pages, marks, requests, count>>, EventTypes', DOMAIN events' = DOMAIN events,
           stored' \subseteq Blobs
    PROVE  Tables' /\ Grows
<1>1. Tables /\ UNCHANGED <<documents, current, versions, retained, lost, comments, replies, receipts, keys, audit,
                            requests, count>>
  BY DEF PortalInv, pages, marks
<1>2. Tables'
  BY <1>1 DEF Tables, VersionTypes, ThreadTypes, ReceiptTypes, CasTypes, Dense, Ascending
<1>3. QED
  BY <1>1, <1>2, Sizes DEF Grows

(* A submission in the making. *)
LEMMA SubmitsKeeps ==
    ASSUME PortalInv, Tables', Grows, UNCHANGED tab, NEW r \in Runs, NEW q \in RunType, NEW b \in Body,
           q.event \in DOMAIN events, q.tries < MaxTries, q.commits <= 2, MadeFrom(b), Submits(r, q, b)
    PROVE  PortalInv'
<1> DEFINE p == [q EXCEPT !.at = "receipt", !.body = b]
<1>1. /\ p \in RunType /\ p.at = "receipt" /\ p.body = b /\ p.event = q.event /\ p.tries = q.tries
      /\ p.commits = q.commits
  BY DEF RunType, RunSteps
<1>2. run' = [run EXCEPT ![r] = p]
  BY DEF Submits
<1> HIDE DEF p
<1>3. run' \in [Runs -> RunType] /\ run'[r] = p /\ \A x \in Runs \ {r} : run'[x] = run[x]
  BY <1>1, <1>2, RunSet
<1>4. MadeFrom(run[r].body)'
  BY <1>1, <1>3 DEF MadeFrom, Grows
<1>5. RunInv(r)'
  BY <1>1, <1>3, <1>4 DEF RunInv, Grows
<1>6. QED
  BY <1>3, <1>5, RunStepKeeps

(* The answer to a thread, before its blob. *)
LEMMA AnswerBody ==
    ASSUME PortalInv, NEW t \in Threads
    PROVE  LET b == [NoBody EXCEPT !.thread = t, !.ack = Acknowledged(t), !.through = Latest(t)]
           IN  b \in Body /\ b.obs = Null /\ b.blob = None
<1>1. Acknowledged(t) \in Index
  BY WatermarkIsLast DEF PortalInv, Tables
<1>2. Latest(t) \in Index
  <2>1. NextIdx(comments[t]) \in Nat /\ Latest(t) = NextIdx(comments[t]) - 1
    BY Sizes DEF PortalInv
  <2>2. QED
    BY <2>1 DEF Index, Null
<1>3. QED
  BY <1>1, <1>2, IdleRunFacts DEF Body

(* An event is worked on, for the first time or again. *)
LEMMA WorkKeeps ==
    ASSUME PortalInv, NEW r \in Runs, NEW q \in RunType, NEW blob \in Blobs, Work(r, q, blob),
           q.event \in DOMAIN events, q.tries < MaxTries, q.commits <= 2,
           EventTypes', DOMAIN events' = DOMAIN events
    PROVE  PortalInv'
<1>1. UNCHANGED <<pages, marks, requests, count, tab>> /\ Tables
  BY DEF Work, PortalInv
<1>2. ASSUME stored' \subseteq Blobs PROVE Tables' /\ Grows
  BY <1>1, <1>2, WorkTables
<1>3. ASSUME RunEnds(r), UNCHANGED stored PROVE PortalInv'
  <2>1. Tables' /\ Grows
    BY <1>1, <1>2, <1>3 DEF Tables, CasTypes
  <2>2. QED
    BY <1>1, <1>3, <2>1, RunEndsOne, RunStepKeeps
<1>4. stored \cup {blob} \subseteq Blobs
  BY <1>1 DEF Tables, CasTypes
<1>5. CASE events[q.event].thread = None
  <2>1. FirstVersion(r, q, blob)
    BY <1>5 DEF Work
  <2>2. CASE stored' = stored \cup {blob} /\ Submits(r, q, [NoBody EXCEPT !.blob = blob])
    <3> DEFINE b == [NoBody EXCEPT !.blob = blob]
    <3>1. b \in Body /\ MadeFrom(b)
      BY IdleRunFacts DEF Body, MadeFrom
    <3>2. Tables' /\ Grows
      BY <1>2, <1>4, <2>2
    <3> HIDE DEF b
    <3>3. Submits(r, q, b)
      BY <2>2 DEF b
    <3>4. QED
      BY <1>1, <3>1, <3>2, <3>3, SubmitsKeeps
  <2>3. QED
    BY <1>3, <2>1, <2>2 DEF FirstVersion
<1>6. CASE events[q.event].thread # None
  <2>1. PICK t \in Threads : t = events[q.event].thread
    BY <1>1, <1>6 DEF Tables, EventTypes, Event
  <2> DEFINE b == [NoBody EXCEPT !.thread = t, !.ack = Acknowledged(t), !.through = Latest(t)]
             c == [b EXCEPT !.blob = blob, !.obs = current]
  <2>2. AnswerThread(r, q, blob)
    BY <1>6 DEF Work
  <2>3. current \in DOMAIN versions /\ current # Null /\ current \in Index
    <3>1. DOMAIN versions # {}
      BY <1>1, <1>6 DEF Tables, EventTypes
    <3>2. current \in DOMAIN versions
      BY <1>1, <3>1 DEF Tables, VersionTypes
    <3>3. current \in Nat
      BY <1>1, <3>2, Sizes
    <3>4. QED
      BY <3>2, <3>3 DEF Index, Null
  <2>4. b \in Body /\ b.obs = Null /\ b.blob = None
    BY AnswerBody
  <2>5. c \in Body /\ c.blob = blob /\ c.obs = current
    BY <2>3, <2>4 DEF Body
  <2>6. \/ RunEnds(r) /\ UNCHANGED stored
        \/ Submits(r, q, b) /\ UNCHANGED stored
        \/ /\ versions[current].blob \in stored \ {blob} /\ stored' = stored \cup {blob}
           /\ Submits(r, q, c)
    BY <2>1, <2>2 DEF AnswerThread
  <2> HIDE DEF b, c
  <2>7. CASE Submits(r, q, b) /\ UNCHANGED stored
    <3>1. MadeFrom(b)
      BY <2>4 DEF MadeFrom
    <3>2. Tables' /\ Grows
      BY <1>1, <1>2, <2>7 DEF Tables, CasTypes
    <3>3. QED
      BY <1>1, <2>4, <2>7, <3>1, <3>2, SubmitsKeeps
  <2>8. CASE /\ versions[current].blob \in stored \ {blob} /\ stored' = stored \cup {blob}
             /\ Submits(r, q, c)
    <3>1. MadeFrom(c)
      BY <2>3, <2>5, <2>8 DEF MadeFrom
    <3>2. Tables' /\ Grows
      BY <1>2, <1>4, <2>8
    <3>3. QED
      BY <1>1, <2>5, <2>8, <3>1, <3>2, SubmitsKeeps
  <2>9. QED
    BY <1>3, <2>6, <2>7, <2>8
<1>7. QED
  BY <1>5, <1>6

(* A delivery of an event. *)
LEMMA HandleEventKeeps ==
    ASSUME PortalInv, NEW r \in Runs, NEW e \in DOMAIN events, NEW blob \in Blobs, HandleEvent(r, e, blob)
    PROVE  PortalInv'
<1> DEFINE q == [IdleRun EXCEPT !.event = e]
<1>1. Tables /\ events' = [events EXCEPT ![e].due = FALSE] /\ Work(r, q, blob)
  BY DEF HandleEvent, PortalInv
<1>2. e \in Nat /\ events[e] \in Event
  BY <1>1, Sizes DEF Tables, EventTypes
<1>3. q \in RunType /\ q.event = e /\ q.tries = 0 /\ q.commits = 0
  BY <1>2, IdleRunFacts DEF RunType
<1>4. q.tries < MaxTries /\ q.commits <= 2
  BY <1>3, IdleRunFacts
<1> HIDE DEF q
<1>5. DOMAIN events' = DOMAIN events
  BY <1>1
<1>6. \A x \in DOMAIN events : events'[x] \in Event /\ events'[x].thread = events[x].thread
  BY <1>1, <1>2 DEF Tables, EventTypes, Event
<1>7. versions' = versions
  BY <1>1 DEF Work, pages
<1>8. EventTypes'
  BY <1>1, <1>5, <1>6, <1>7 DEF Tables, EventTypes, Dense
<1>9. QED
  BY <1>1, <1>3, <1>4, <1>5, <1>8, WorkKeeps

(* A submission that is computed again. *)
LEMMA TryAgainKeeps ==
    ASSUME PortalInv, NEW r \in Runs, NEW blob \in Blobs, TryAgain(r, blob)
    PROVE  PortalInv'
<1>1. run[r].at = "again" /\ Work(r, run[r], blob) /\ UNCHANGED events
  BY DEF TryAgain, RunAt
<1>2. /\ run[r] \in RunType /\ run[r].event \in DOMAIN events /\ run[r].tries < MaxTries /\ run[r].commits <= 2
      /\ Tables
  BY <1>1, RunFacts DEF RunInv
<1>3. versions' = versions
  BY <1>1 DEF Work, pages
<1>4. EventTypes' /\ DOMAIN events' = DOMAIN events
  BY <1>1, <1>2, <1>3 DEF Tables, EventTypes, Dense
<1>5. QED
  BY <1>1, <1>2, <1>4, WorkKeeps

--------------------------------------------------------------------------------
(* Retention *)

(* Steps that touch the CAS and the retention marks only. *)
LEMMA CasTables ==
    ASSUME PortalInv, UNCHANGED <<pages, events>>, retained' \cup lost' \subseteq DOMAIN versions,
           stored' \subseteq Blobs, count' \in [Blobs -> Nat], requests \subseteq requests',
           requests' \subseteq {<<v>> : v \in DOMAIN versions}
    PROVE  Tables' /\ Grows
<1>1. Tables /\ UNCHANGED <<documents, current, versions, comments, replies, receipts, keys, audit, events>>
  BY DEF PortalInv, pages
<1>2. Tables'
  BY <1>1 DEF Tables, VersionTypes, ThreadTypes, ReceiptTypes, EventTypes, CasTypes, Dense, Ascending
<1>3. QED
  BY <1>1, <1>2, Sizes DEF Grows

(* A root request for a version. *)
LEMMA RetainRowKeeps ==
    ASSUME PortalInv, NEW r \in Runs, NEW v \in DOMAIN versions, RetainRow(r, v),
           UNCHANGED <<pages, marks, stored, events, tab>>
    PROVE  PortalInv'
<1> DEFINE b == versions[v].blob
           q == RetainRequestId(v)
           p(at) == [IdleRun EXCEPT !.at = at, !.vidx = v]
<1>1. Tables /\ b \in Blobs /\ v \in Nat /\ v \in Index /\ q = <<v>> /\ count \in [Blobs -> Nat]
  BY Sizes DEF PortalInv, Tables, VersionTypes, Version, CasTypes, Index, RetainRequestId
<1>2. ASSUME NEW at \in {"retained", "lost"}, run' = [run EXCEPT ![r] = p(at)]
      PROVE  /\ run' \in [Runs -> RunType] /\ run'[r].at = at /\ run'[r].vidx = v
             /\ run'[r].tries < MaxTries /\ run'[r].commits <= 2
             /\ \A x \in Runs \ {r} : run'[x] = run[x]
  <2>1. p(at) \in RunType /\ p(at).at = at /\ p(at).vidx = v /\ p(at).tries = 0 /\ p(at).commits = 0
    BY <1>1, IdleRunFacts DEF RunType, RunSteps
  <2>2. run' \in [Runs -> RunType] /\ run'[r] = p(at) /\ \A x \in Runs \ {r} : run'[x] = run[x]
    BY <1>2, <2>1, RunSet
  <2>3. QED
    BY <2>1, <2>2, IdleRunFacts
<1>3. CASE b \in stored
  <2>1. /\ requests' = requests \cup {q}
        /\ count' = IF q \in requests THEN count ELSE [count EXCEPT ![b] = @ + 1]
        /\ run' = [run EXCEPT ![r] = p("retained")]
    BY <1>3 DEF RetainRow
  <2>2. count' \in [Blobs -> Nat]
    BY <1>1, <2>1
  <2>3. UNCHANGED <<stored, retained, lost, versions>>
    BY DEF marks, pages
  <2>4. Tables' /\ Grows
    <3>1. retained' \cup lost' \subseteq DOMAIN versions /\ stored' \subseteq Blobs
      BY <1>1, <2>3 DEF Tables, VersionTypes, CasTypes
    <3>2. requests' \subseteq {<<x>> : x \in DOMAIN versions} /\ requests \subseteq requests'
      BY <1>1, <2>1 DEF Tables, CasTypes
    <3>3. QED
      BY <2>2, <3>1, <3>2, CasTables
  <2>5. /\ run' \in [Runs -> RunType] /\ run'[r].at = "retained" /\ run'[r].vidx = v
        /\ run'[r].tries < MaxTries /\ run'[r].commits <= 2
        /\ \A x \in Runs \ {r} : run'[x] = run[x]
    BY <1>2, <2>1
  <2>6. RunInv(r)'
    BY <1>1, <2>1, <2>3, <2>5 DEF RunInv
  <2>7. QED
    BY <2>4, <2>5, <2>6, RunStepKeeps
<1>4. CASE b \notin stored
  <2>1. run' = [run EXCEPT ![r] = p("lost")] /\ UNCHANGED <<requests, count>>
    BY <1>4 DEF RetainRow
  <2>2. Tables' /\ Grows
    BY <2>1, TablesSame DEF cas
  <2>3. /\ run' \in [Runs -> RunType] /\ run'[r].at = "lost" /\ run'[r].vidx = v
        /\ run'[r].tries < MaxTries /\ run'[r].commits <= 2
        /\ \A x \in Runs \ {r} : run'[x] = run[x]
    BY <1>2, <2>1
  <2>4. versions' = versions
    BY DEF pages
  <2>5. RunInv(r)'
    BY <2>3, <2>4 DEF RunInv
  <2>6. QED
    BY <2>2, <2>3, <2>5, RunStepKeeps
<1>5. QED
  BY <1>3, <1>4

(* The request after a commit, and the sweep. *)
LEMMA RetentionKeeps ==
    ASSUME PortalInv, NEW r \in Runs, RetainVersion(r) \/ \E v \in DOMAIN versions : Sweep(r, v)
    PROVE  PortalInv'
<1>1. CASE RetainVersion(r) /\ run[r].vidx \in Unretained
  <2>1. run[r].vidx \in DOMAIN versions
    BY <1>1 DEF Unretained
  <2>2. PICK v \in DOMAIN versions : v = run[r].vidx
    BY <2>1
  <2>3. RetainRow(r, v) /\ UNCHANGED <<pages, marks, stored, events, tab>>
    BY <1>1, <2>2 DEF RetainVersion
  <2>4. QED
    BY <2>3, RetainRowKeeps
<1>2. CASE RetainVersion(r) /\ run[r].vidx \notin Unretained
  BY <1>2, RunEndsKeeps DEF RetainVersion, cas
<1>3. CASE \E v \in DOMAIN versions : Sweep(r, v)
  BY <1>3, RetainRowKeeps DEF Sweep
<1>4. QED
  BY <1>1, <1>2, <1>3

(* The answer of the CAS is recorded. *)
LEMMA RecordKeeps ==
    ASSUME PortalInv, NEW r \in Runs, Record(r)
    PROVE  PortalInv'
<1>1. run[r].vidx \in DOMAIN versions /\ Tables /\ RunEnds(r) /\ UNCHANGED <<pages, cas, events, tab>>
  BY RunFacts DEF Record, RunInv
<1>2. retained' \cup lost' \subseteq DOMAIN versions
  BY <1>1 DEF Record, Tables, VersionTypes
<1>3. UNCHANGED <<stored, count, requests>>
  BY <1>1 DEF cas
<1>4. Tables' /\ Grows
  BY <1>1, <1>2, <1>3, CasTables DEF Tables, CasTypes
<1>5. QED
  BY <1>1, <1>4, RunEndsOne, RunStepKeeps

(* A collection. *)
LEMMA CollectKeeps ==
    ASSUME PortalInv, NEW b \in Blobs, Collect(b)
    PROVE  PortalInv'
<1>1. Tables /\ stored' = stored \ {b} /\ UNCHANGED <<pages, marks, requests, count, events, tab, run>>
  BY DEF Collect, PortalInv
<1>2. retained' \cup lost' \subseteq DOMAIN versions
  BY <1>1 DEF marks, Tables, VersionTypes
<1>3. Tables' /\ Grows
  BY <1>1, <1>2, CasTables DEF Tables, CasTypes
<1>4. QED
  BY <1>1, <1>3, TableStepKeeps

--------------------------------------------------------------------------------
(* Users *)

(* An event that is sent, or lost. *)
LEMMA DispatchedKeeps ==
    ASSUME PortalInv, NEW t \in Threads \cup {None}, t # None => DOMAIN versions # {}, Dispatched(t),
           UNCHANGED versions
    PROVE  EventTypes' /\ DOMAIN events \subseteq DOMAIN events'
<1>1. Tables
  BY DEF PortalInv
<1>2. CASE UNCHANGED events
  BY <1>1, <1>2 DEF Tables, EventTypes, Dense
<1>3. CASE Sent(t)
  <2> DEFINE n   == NextIdx(events)
             row == [thread |-> t, seen |-> IF t = None THEN current ELSE Null, due |-> TRUE]
  <2>1. events' = Inserted(events, n, row)
    BY <1>3 DEF Sent
  <2>2. current \in Index
    <3>1. DOMAIN versions \subseteq Nat
      BY <1>1, Sizes
    <3>2. QED
      BY <1>1, <3>1 DEF Tables, VersionTypes, Index
  <2>3. row \in Event /\ row.thread = t
    BY <2>2 DEF Event, Index
  <2>4. n \in Nat /\ n <= n /\ n \notin DOMAIN events /\ Dense(events)
    BY <1>1, Sizes DEF Tables, EventTypes
  <2> HIDE DEF row
  <2>5. /\ Dense(events') /\ DOMAIN events' = DOMAIN events \cup {n} /\ events'[n] = row
        /\ \A e \in DOMAIN events : events'[e] = events[e]
    BY <2>1, <2>4, DenseInsert
  <2> HIDE DEF n
  <2>6. QED
    BY <1>1, <2>3, <2>5 DEF Tables, EventTypes, Dense
<1>4. QED
  BY <1>2, <1>3 DEF Dispatched

(* Steps of users touch documents, the current version, comments, keys and    *)
(* the audit.                                                                 *)
LEMMA UserTables ==
    ASSUME PortalInv, UNCHANGED <<versions, replies, receipts, marks, cas>>, documents' \subseteq Users,
           current' \in DOMAIN versions \cup {Null}, current' = Null => DOMAIN versions = {},
           DOMAIN comments' = Threads,
           \A t \in Threads : Dense(comments'[t]) /\ NextIdx(comments[t]) <= NextIdx(comments'[t]),
           \A k \in DOMAIN keys' : keys'[k].thread \in Threads \cup {None},
           audit' \in Seq(Move), EventTypes', DOMAIN events \subseteq DOMAIN events'
    PROVE  Tables' /\ Grows
<1>1. Tables /\ UNCHANGED <<retained, lost, stored, requests, count>>
  BY DEF PortalInv, marks, cas
<1>2. VersionTypes'
  BY <1>1 DEF Tables, VersionTypes, Dense
<1>3. ThreadTypes'
  BY <1>1 DEF Tables, ThreadTypes, Dense, Ascending
<1>4. ReceiptTypes' /\ CasTypes'
  BY <1>1 DEF Tables, ReceiptTypes, CasTypes
<1>5. Grows
  BY <1>1, Sizes DEF Grows
<1>6. QED
  BY <1>2, <1>3, <1>4, <1>5 DEF Tables

(* The facts that a user's step leaves alone. *)
LEMMA UserFacts ==
    ASSUME PortalInv
    PROVE  /\ Tables /\ documents \subseteq Users /\ current \in DOMAIN versions \cup {Null}
           /\ (current = Null => DOMAIN versions = {}) /\ DOMAIN comments = Threads
           /\ \A t \in Threads : /\ Dense(comments[t]) /\ NextIdx(comments[t]) \in Nat
                                 /\ NextIdx(comments[t]) <= NextIdx(comments[t])
           /\ \A k \in DOMAIN keys : keys[k].thread \in Threads \cup {None}
           /\ audit \in Seq(Move) /\ EventTypes /\ DOMAIN versions \subseteq Nat
BY Sizes DEF PortalInv, Tables, VersionTypes, ThreadTypes, ReceiptTypes

(* A document is created, or found. *)
LEMMA CreateDocumentKeeps ==
    ASSUME PortalInv, NEW u \in Users, CreateDocument(u)
    PROVE  PortalInv'
<1>1. /\ InsertDocument(u) /\ Dispatched(None)
      /\ UNCHANGED <<current, versions, comments, replies, receipts, audit, marks, cas, tab, run>>
  BY DEF CreateDocument
<1>2. EventTypes' /\ DOMAIN events \subseteq DOMAIN events'
  BY <1>1, DispatchedKeeps
<1>3. documents' \subseteq Users
  BY <1>1, UserFacts DEF InsertDocument
<1>4. \A k \in DOMAIN keys' : keys'[k].thread \in Threads \cup {None}
  <2>1. CASE UNCHANGED keys
    BY <2>1, UserFacts
  <2>2. CASE keys' = Inserted(keys, <<"createDocument", None>>, [fp |-> None, thread |-> None, idx |-> Null])
    BY <2>2, UserFacts DEF Inserted
  <2>3. QED
    BY <1>1, <2>1, <2>2 DEF InsertDocument
<1>5. Tables' /\ Grows
  BY <1>1, <1>2, <1>3, <1>4, UserFacts, UserTables
<1>6. QED
  BY <1>1, <1>5, TableStepKeeps

(* The current version moves, or not. *)
LEMMA MoveCurrentVersionKeeps ==
    ASSUME PortalInv, NEW target \in Nat, NEW obs \in {Null} \cup DOMAIN versions, MoveCurrentVersion(obs, target)
    PROVE  PortalInv'
<1>1. UNCHANGED <<documents, versions, comments, replies, receipts, keys, marks, cas, events, tab, run, faults>>
  BY DEF MoveCurrentVersion
<1>2. EventTypes'
  BY <1>1, UserFacts DEF EventTypes, Dense
<1>3. audit' \in Seq(Move)
  <2> DEFINE row == [before |-> obs, after |-> target]
  <2>1. row \in Move
    BY UserFacts DEF Move, Index
  <2>2. audit' = audit \/ audit' = Append(audit, row)
    BY DEF MoveCurrentVersion
  <2> HIDE DEF row
  <2>3. QED
    BY <2>1, <2>2, UserFacts
<1>4. /\ current' \in DOMAIN versions \cup {Null} /\ (current' = Null => DOMAIN versions = {})
  BY UserFacts DEF MoveCurrentVersion, Moves, Null
<1>5. Tables' /\ Grows
  BY <1>1, <1>2, <1>3, <1>4, UserFacts, UserTables
<1>6. QED
  BY <1>1, <1>5, TableStepKeeps

(* An event is sent again. *)
LEMMA RedeliverKeeps ==
    ASSUME PortalInv, Redeliver
    PROVE  PortalInv'
<1>1. Sent(None) /\ UNCHANGED <<pages, marks, cas, tab, run, faults>>
  BY DEF Redeliver
<1>2. UNCHANGED <<documents, current, versions, comments, replies, receipts, keys, audit>> /\ Dispatched(None)
  BY <1>1 DEF pages, Dispatched
<1>3. EventTypes' /\ DOMAIN events \subseteq DOMAIN events'
  BY <1>2, DispatchedKeeps
<1>4. Tables' /\ Grows
  BY <1>1, <1>2, <1>3, UserFacts, UserTables
<1>5. QED
  BY <1>1, <1>4, TableStepKeeps

(* What PortalInv says of one tab. *)
LEMMA TabFacts ==
    ASSUME PortalInv, NEW u \in Users
    PROVE  /\ tab \in [Users -> TabType] /\ tab[u] \in TabType /\ TabInv(u)
           /\ IdleTab \in TabType /\ IdleTab.at = "idle" /\ IdleTab.tries = 0 /\ 0 < MaxTries /\ MaxTries \in Nat
BY PortalAssumption DEF PortalInv, Requests, IdleTab, TabType, TabSteps, Index

(* A proposed index is free or was taken since. *)
LEMMA ProposedOne ==
    ASSUME PortalInv, NEW q \in TabType, q.thread \in Threads
    PROVE  /\ Proposed(q) \in TabType /\ Proposed(q).at = "batch" /\ Proposed(q).op = q.op
           /\ Proposed(q).thread = q.thread /\ Proposed(q).tries = q.tries
           /\ Proposed(q).idx \in Nat /\ Proposed(q).idx <= NextIdx(comments[q.thread])
<1> DEFINE i == IF q.op = "create" THEN 0 ELSE NextIdx(comments[q.thread])
<1>1. i \in Nat /\ i <= NextIdx(comments[q.thread]) /\ i \in Index
  BY UserFacts DEF Index
<1>2. Proposed(q) = [q EXCEPT !.at = "batch", !.idx = i]
  BY DEF Proposed
<1> HIDE DEF i
<1>3. QED
  BY <1>1, <1>2 DEF TabType, TabSteps

(* A tab that proposes a comment. *)
LEMMA ProposeKeeps ==
    ASSUME PortalInv, NEW u \in Users, NEW q \in TabType, q.thread \in Threads, q.op \in {"create", "append"},
           q.tries < MaxTries, DOMAIN versions # {}, tab' = [tab EXCEPT ![u] = Proposed(q)],
           UNCHANGED <<pages, marks, cas, events, run>>
    PROVE  PortalInv'
<1>1. tab' \in [Users -> TabType] /\ tab'[u] = Proposed(q) /\ \A x \in Users \ {u} : tab'[x] = tab[x]
  BY TabFacts, ProposedOne
<1>2. Tables' /\ Grows /\ versions' = versions /\ comments' = comments
  BY TablesSame DEF pages
<1>3. TabInv(u)'
  BY <1>1, <1>2, ProposedOne DEF TabInv
<1>4. QED
  BY <1>1, <1>2, <1>3, TabStepKeeps

(* A tab whose request is over. *)
LEMMA TabEndsOne ==
    ASSUME PortalInv, NEW u \in Users, TabEnds(u)
    PROVE  tab' \in [Users -> TabType] /\ TabInv(u)' /\ \A x \in Users \ {u} : tab'[x] = tab[x]
<1>1. tab' \in [Users -> TabType] /\ tab'[u] = IdleTab /\ \A x \in Users \ {u} : tab'[x] = tab[x]
  BY TabFacts DEF TabEnds
<1>2. QED
  BY <1>1, TabFacts DEF TabInv

(* A comment that is on record is answered again. *)
LEMMA ReplayedTables ==
    ASSUME PortalInv, NEW q, Recorded(q), Replayed(q), DOMAIN versions # {}, UNCHANGED <<pages, marks, cas>>
    PROVE  Tables' /\ Grows
<1>1. UNCHANGED <<documents, current, versions, comments, replies, receipts, keys, audit>>
  BY DEF pages
<1>2. EventTypes' /\ DOMAIN events \subseteq DOMAIN events'
  <2>1. CASE UNCHANGED events
    BY <1>1, <2>1, UserFacts DEF EventTypes, Dense
  <2>2. CASE Dispatched(keys[KeyOf(q)].thread)
    <3>1. PICK t \in Threads \cup {None} : t = keys[KeyOf(q)].thread
      BY UserFacts DEF Recorded
    <3>2. Dispatched(t)
      BY <2>2, <3>1
    <3>3. QED
      BY <1>1, <3>2, DispatchedKeeps
  <2>3. QED
    BY <2>1, <2>2 DEF Replayed
<1>3. QED
  BY <1>1, <1>2, UserFacts, UserTables

(* A comment is begun. *)
LEMMA BeginCommentKeeps ==
    ASSUME PortalInv, NEW u \in Users, NEW op \in {"create", "append"}, NEW t \in Threads, NEW k \in Keys,
           NEW b \in Bodies, BeginComment(u, op, t, k, b)
    PROVE  PortalInv'
<1> DEFINE q == [IdleTab EXCEPT !.op = op, !.thread = t, !.key = k, !.body = b]
<1>1. /\ DOMAIN versions # {} /\ UNCHANGED <<pages, marks, cas, run>>
      /\ IF Recorded(q) THEN Replayed(q) /\ UNCHANGED tab
         ELSE tab' = [tab EXCEPT ![u] = Proposed(q)] /\ UNCHANGED <<events, faults>>
  BY DEF BeginComment
<1>2. q \in TabType /\ q.op = op /\ q.thread = t /\ q.tries = 0
  BY TabFacts DEF TabType
<1>3. q.tries < MaxTries
  BY <1>2, TabFacts
<1> HIDE DEF q
<1>4. CASE Recorded(q)
  BY <1>1, <1>4, ReplayedTables, TableStepKeeps
<1>5. CASE ~Recorded(q)
  BY <1>1, <1>2, <1>3, <1>5, ProposeKeeps
<1>6. QED
  BY <1>4, <1>5

(* What a comment that fits writes. *)
LEMMA CommentRows ==
    ASSUME PortalInv, NEW u \in Users, InsertComment(u), CommentFits(tab[u])
    PROVE  LET q == tab[u]
           IN  /\ q.at = "batch" /\ q.op \in {"create", "append"} /\ q.thread \in Threads /\ DOMAIN versions # {}
               /\ q.idx \in Nat /\ q.idx = NextIdx(comments[q.thread]) /\ q.idx \notin DOMAIN comments[q.thread]
               /\ DOMAIN comments' = Threads
               /\ \A t \in Threads \ {q.thread} : comments'[t] = comments[t]
               /\ Dense(comments'[q.thread]) /\ NextIdx(comments'[q.thread]) = q.idx + 1
               /\ DOMAIN comments'[q.thread] = DOMAIN comments[q.thread] \cup {q.idx}
               /\ comments'[q.thread][q.idx].key = KeyOf(q)
               /\ \A i \in DOMAIN comments[q.thread] : comments'[q.thread][i] = comments[q.thread][i]
               /\ KeyOf(q) \notin DOMAIN keys /\ DOMAIN keys' = DOMAIN keys \cup {KeyOf(q)}
               /\ keys'[KeyOf(q)].thread = q.thread /\ keys'[KeyOf(q)].idx = q.idx
               /\ \A k \in DOMAIN keys : keys'[k] = keys[k]
               /\ Dispatched(q.thread) /\ TabEnds(u)
               /\ UNCHANGED <<documents, current, versions, replies, receipts, audit, marks, cas, run>>
<1> DEFINE q    == tab[u]
           t    == q.thread
           row  == [key |-> KeyOf(q), body |-> q.body]
           krow == [fp |-> Fingerprint(q), thread |-> q.thread, idx |-> q.idx]
<1>1. /\ comments' = [comments EXCEPT ![t] = Inserted(comments[t], q.idx, row)]
      /\ keys' = Inserted(keys, KeyOf(q), krow) /\ Dispatched(t) /\ TabEnds(u) /\ q.at = "batch"
      /\ UNCHANGED <<documents, current, versions, replies, receipts, audit, marks, cas, run>>
  BY DEF InsertComment, TabAt
<1>2. /\ q.op \in {"create", "append"} /\ t \in Threads /\ DOMAIN versions # {}
      /\ q.idx \in Nat /\ q.idx <= NextIdx(comments[t])
  BY <1>1, TabFacts DEF TabInv
<1>3. q.idx \notin DOMAIN comments[t] /\ KeyOf(q) \notin DOMAIN keys
  BY DEF CommentFits, Recorded
<1>4. row.key = KeyOf(q) /\ krow.thread = t /\ krow.idx = q.idx
  OBVIOUS
<1> HIDE DEF row, krow
<1>5. /\ DOMAIN comments' = Threads /\ comments'[t] = Inserted(comments[t], q.idx, row)
      /\ \A x \in Threads \ {t} : comments'[x] = comments[x]
  BY <1>1, <1>2, UserFacts
<1>6. /\ q.idx = NextIdx(comments[t]) /\ Dense(comments'[t]) /\ NextIdx(comments'[t]) = q.idx + 1
      /\ DOMAIN comments'[t] = DOMAIN comments[t] \cup {q.idx} /\ comments'[t][q.idx] = row
      /\ \A i \in DOMAIN comments[t] : comments'[t][i] = comments[t][i]
  <2>1. Dense(comments[t]) /\ q.idx \in Nat /\ q.idx <= NextIdx(comments[t]) /\ q.idx \notin DOMAIN comments[t]
    BY <1>2, <1>3, UserFacts
  <2> DEFINE g == Inserted(comments[t], q.idx, row)
  <2>2. /\ q.idx = NextIdx(comments[t]) /\ Dense(g) /\ NextIdx(g) = q.idx + 1
        /\ DOMAIN g = DOMAIN comments[t] \cup {q.idx} /\ g[q.idx] = row
        /\ \A i \in DOMAIN comments[t] : g[i] = comments[t][i]
    BY <2>1, DenseInsert
  <2>3. comments'[t] = g
    BY <1>5
  <2> HIDE DEF g, q, t
  <2>4. QED
    BY <2>2, <2>3
<1>7. /\ DOMAIN keys' = DOMAIN keys \cup {KeyOf(q)} /\ keys'[KeyOf(q)] = krow
      /\ \A k \in DOMAIN keys : keys'[k] = keys[k]
  BY <1>1, <1>3 DEF Inserted
<1>8. QED
  BY <1>1, <1>2, <1>3, <1>4, <1>5, <1>6, <1>7

(* A comment is inserted, found on record, proposed again or given up. *)
LEMMA InsertCommentKeeps ==
    ASSUME PortalInv, NEW u \in Users, InsertComment(u)
    PROVE  PortalInv'
<1> DEFINE q == tab[u]
<1>1. CASE CommentFits(q)
  <2>1. PICK t \in Threads : t = q.thread
    BY <1>1, CommentRows
  <2>2. /\ DOMAIN versions # {} /\ q.idx \in Nat /\ q.idx = NextIdx(comments[t])
        /\ DOMAIN comments' = Threads /\ \A x \in Threads \ {t} : comments'[x] = comments[x]
        /\ Dense(comments'[t]) /\ NextIdx(comments'[t]) = q.idx + 1
        /\ DOMAIN keys' = DOMAIN keys \cup {KeyOf(q)} /\ keys'[KeyOf(q)].thread = t
        /\ \A k \in DOMAIN keys : keys'[k] = keys[k]
        /\ Dispatched(t) /\ TabEnds(u)
        /\ UNCHANGED <<documents, current, versions, replies, receipts, audit, marks, cas, run>>
    BY <1>1, <2>1, CommentRows
  <2>3. EventTypes' /\ DOMAIN events \subseteq DOMAIN events'
    BY <2>2, DispatchedKeeps
  <2>4. \A x \in Threads : Dense(comments'[x]) /\ NextIdx(comments[x]) <= NextIdx(comments'[x])
    <3>1. SUFFICES ASSUME NEW x \in Threads
                   PROVE  Dense(comments'[x]) /\ NextIdx(comments[x]) <= NextIdx(comments'[x])
      OBVIOUS
    <3>2. CASE x = t
      BY <2>2, <3>2, UserFacts
    <3>3. CASE x # t
      BY <2>2, <3>3, UserFacts
    <3>4. QED
      BY <3>2, <3>3
  <2>5. \A k \in DOMAIN keys' : keys'[k].thread \in Threads \cup {None}
    BY <2>2, UserFacts
  <2>6. Tables' /\ Grows
    BY <2>2, <2>3, <2>4, <2>5, UserFacts, UserTables
  <2>7. QED
    BY <2>2, <2>6, TabEndsOne, TabStepKeeps
<1>2. CASE ~CommentFits(q)
  <2>1. /\ q.at = "batch" /\ UNCHANGED <<documents, current, versions, comments, replies, receipts, keys, audit>>
        /\ UNCHANGED <<marks, cas, run>>
        /\ IF Recorded(q) THEN Replayed(q) /\ TabEnds(u)
           ELSE /\ tab' = [tab EXCEPT ![u] = IF q.tries + 1 = MaxTries THEN IdleTab
                                             ELSE Proposed([q EXCEPT !.tries = q.tries + 1])]
                /\ UNCHANGED <<events, faults>>
    BY <1>2 DEF InsertComment, TabAt
  <2>2. /\ q.op \in {"create", "append"} /\ q.thread \in Threads /\ DOMAIN versions # {} /\ q.tries < MaxTries
        /\ q \in TabType /\ UNCHANGED pages
    BY <2>1, TabFacts DEF TabInv, pages
  <2>3. CASE Recorded(q)
    BY <2>1, <2>2, <2>3, ReplayedTables, TabEndsOne, TabStepKeeps
  <2>4. CASE ~Recorded(q) /\ q.tries + 1 = MaxTries
    <3>1. TabEnds(u) /\ UNCHANGED <<pages, marks, cas, events, run>>
      BY <2>1, <2>2, <2>4 DEF TabEnds
    <3>2. QED
      BY <3>1, TabEndsOne, TablesSame, TabStepKeeps
  <2>5. CASE ~Recorded(q) /\ q.tries + 1 # MaxTries
    <3> DEFINE p == [q EXCEPT !.tries = q.tries + 1]
    <3>1. tab' = [tab EXCEPT ![u] = Proposed(p)] /\ UNCHANGED <<pages, marks, cas, events, run>>
      BY <2>1, <2>2, <2>5
    <3>2. q.tries \in Nat /\ q.tries + 1 < MaxTries
      BY <2>2, <2>5, TabFacts DEF TabType
    <3>3. p \in TabType /\ p.op = q.op /\ p.thread = q.thread /\ p.tries = q.tries + 1
      BY <2>2, <3>2 DEF TabType
    <3> HIDE DEF p
    <3>4. QED
      BY <2>2, <3>1, <3>2, <3>3, ProposeKeeps
  <2>6. QED
    BY <2>3, <2>4, <2>5
<1>3. QED
  BY <1>1, <1>2

--------------------------------------------------------------------------------
(* The commit *)

(* The version that a commit writes is the next one, made from the current.   *)
LEMMA CommitVersion ==
    ASSUME PortalInv, NEW r \in Runs, CommitSubmission(r), run[r].body.blob # None
    PROVE  LET b == run[r].body
               v == run[r].vidx
           IN  /\ v \in Nat /\ v = NextIdx(versions) /\ v \notin DOMAIN versions /\ current = b.obs
               /\ Dense(versions') /\ NextIdx(versions') = v + 1 /\ DOMAIN versions' = DOMAIN versions \cup {v}
               /\ \A x \in DOMAIN versions : versions'[x] = versions[x]
               /\ versions'[v] \in Version /\ versions'[v].parent = b.obs /\ versions'[v].blob = b.blob
               /\ versions'[v].sub = SubmissionId(r) /\ versions'[v].addressed = run[r].addressed
               /\ current' = v /\ b.blob \in Blobs /\ RunGoes(r, "retain")
<1> DEFINE b   == run[r].body
           v   == run[r].vidx
           row == [parent |-> b.obs, blob |-> b.blob, sub |-> SubmissionId(r), addressed |-> run[r].addressed]
<1>1. /\ run[r].at = "batch" /\ BatchFits(r) /\ versions' = Inserted(versions, v, row) /\ current' = v
      /\ RunGoes(r, "retain")
  BY DEF CommitSubmission, RunAt
<1>2. v \notin DOMAIN versions /\ current = b.obs
  BY <1>1 DEF BatchFits, Locks, VersionLock
<1>3. v \in Nat /\ v <= NextIdx(versions) /\ Dense(versions)
  BY <1>1, RunFacts DEF RunInv, BatchInv, Tables, VersionTypes
<1>4. SubmissionId(r) \in Id
  BY RunFacts DEF SubmissionId, Id
<1>5. /\ row \in Version /\ row.parent = b.obs /\ row.blob = b.blob /\ row.sub = SubmissionId(r)
      /\ row.addressed = run[r].addressed /\ b.blob \in Blobs
  BY <1>4, RunFacts DEF Body, Version
<1> HIDE DEF row
<1>6. /\ v = NextIdx(versions) /\ Dense(versions') /\ NextIdx(versions') = v + 1
      /\ DOMAIN versions' = DOMAIN versions \cup {v} /\ versions'[v] = row
      /\ \A x \in DOMAIN versions : versions'[x] = versions[x]
  <2> DEFINE g == Inserted(versions, v, row)
  <2>1. /\ v = NextIdx(versions) /\ Dense(g) /\ NextIdx(g) = v + 1
        /\ DOMAIN g = DOMAIN versions \cup {v} /\ g[v] = row
        /\ \A x \in DOMAIN versions : g[x] = versions[x]
    <3>1. Dense(versions) /\ v \in Nat /\ v <= NextIdx(versions) /\ v \notin DOMAIN versions
      BY <1>2, <1>3
    <3> HIDE DEF b, v
    <3>2. v = NextIdx(versions) /\ Dense(g) /\ NextIdx(g) = v + 1
      BY <3>1, DenseInsert
    <3>3. /\ DOMAIN g = DOMAIN versions \cup {v} /\ g[v] = row
          /\ \A x \in DOMAIN versions : g[x] = versions[x]
      BY <3>1 DEF Inserted
    <3>4. QED
      BY <3>2, <3>3
  <2>2. versions' = g
    BY <1>1
  <2> HIDE DEF g, v
  <2>3. QED
    BY <2>1, <2>2
<1>7. QED
  BY <1>1, <1>2, <1>3, <1>5, <1>6

(* The reply that a commit writes is the next one, after the watermark. *)
LEMMA CommitReply ==
    ASSUME PortalInv, NEW r \in Runs, CommitSubmission(r), run[r].body.thread # None
    PROVE  LET b == run[r].body
               t == b.thread
               i == run[r].ridx
           IN  /\ t \in Threads /\ i \in Nat /\ i = NextIdx(replies[t]) /\ i \notin DOMAIN replies[t]
               /\ Acknowledged(t) = b.ack /\ b.ack < b.through /\ b.through <= Latest(t) /\ b.through \in Nat
               /\ DOMAIN replies' = Threads /\ \A x \in Threads \ {t} : replies'[x] = replies[x]
               /\ Dense(replies'[t]) /\ NextIdx(replies'[t]) = i + 1 /\ DOMAIN replies'[t] = DOMAIN replies[t] \cup {i}
               /\ \A x \in DOMAIN replies[t] : replies'[t][x] = replies[t][x]
               /\ replies'[t][i].through = b.through /\ replies'[t][i].sub = SubmissionId(r)
<1> DEFINE b   == run[r].body
           t   == b.thread
           i   == run[r].ridx
           row == [through |-> b.through, sub |-> SubmissionId(r)]
<1>1. /\ run[r].at = "batch" /\ BatchFits(r) /\ replies' = [replies EXCEPT ![t] = Inserted(replies[t], i, row)]
  BY DEF CommitSubmission, RunAt
<1>2. t \in Threads /\ b.ack \in Index /\ b.through \in Index
  BY RunFacts DEF Body
<1>3. i \notin DOMAIN replies[t] /\ Acknowledged(t) = b.ack
  BY <1>1 DEF BatchFits, Locks, ThreadLock
<1>4. i \in Nat /\ i <= NextIdx(replies[t]) /\ b.ack < b.through /\ b.through <= Latest(t)
  BY <1>1, RunFacts DEF RunInv, BatchInv
<1>5. Dense(replies[t]) /\ DOMAIN replies = Threads
  BY <1>2, RunFacts DEF Tables, ThreadTypes
<1>6. b.through \in Nat
  BY <1>2, <1>4 DEF Index, Null
<1>7. row.through = b.through /\ row.sub = SubmissionId(r)
  OBVIOUS
<1> HIDE DEF row
<1>8. /\ DOMAIN replies' = Threads /\ replies'[t] = Inserted(replies[t], i, row)
      /\ \A x \in Threads \ {t} : replies'[x] = replies[x]
  BY <1>1, <1>2, <1>5
<1>9. /\ i = NextIdx(replies[t]) /\ Dense(replies'[t]) /\ NextIdx(replies'[t]) = i + 1
      /\ DOMAIN replies'[t] = DOMAIN replies[t] \cup {i} /\ replies'[t][i] = row
      /\ \A x \in DOMAIN replies[t] : replies'[t][x] = replies[t][x]
  BY <1>3, <1>4, <1>5, <1>8, DenseInsert
<1>10. QED
  BY <1>2, <1>3, <1>4, <1>6, <1>7, <1>8, <1>9

(* The receipt that a commit writes is the first of its submission. *)
LEMMA CommitReceipt ==
    ASSUME PortalInv, NEW r \in Runs, CommitSubmission(r)
    PROVE  LET id == SubmissionId(r)
           IN  /\ id \notin DOMAIN receipts /\ DOMAIN receipts' = DOMAIN receipts \cup {id}
               /\ \A x \in DOMAIN receipts : receipts'[x] = receipts[x]
               /\ receipts'[id] \in Receipt /\ receipts'[id].body = run[r].body
               /\ receipts'[id].version = run[r].vidx /\ receipts'[id].reply = run[r].ridx
<1> DEFINE id  == SubmissionId(r)
           row == [body |-> run[r].body, version |-> run[r].vidx, reply |-> run[r].ridx]
<1>1. BatchFits(r) /\ receipts' = Inserted(receipts, id, row)
  BY DEF CommitSubmission
<1>2. id \notin DOMAIN receipts
  BY <1>1 DEF BatchFits
<1>3. row \in Receipt /\ row.body = run[r].body /\ row.version = run[r].vidx /\ row.reply = run[r].ridx
  BY RunFacts DEF Receipt
<1> HIDE DEF row
<1>4. QED
  BY <1>1, <1>2, <1>3 DEF Inserted

(* A commit keeps replies in ascending order. *)
LEMMA CommitThreads ==
    ASSUME PortalInv, NEW r \in Runs, CommitSubmission(r)
    PROVE  /\ ThreadTypes'
           /\ \A t \in Threads : NextIdx(replies[t]) <= NextIdx(replies'[t])
<1>1. Tables /\ ThreadTypes /\ UNCHANGED comments
  BY RunFacts DEF Tables, CommitSubmission
<1>2. CASE run[r].body.thread = None
  <2>1. UNCHANGED replies
    BY <1>2 DEF CommitSubmission
  <2>2. QED
    BY <1>1, <2>1, Sizes DEF ThreadTypes, Dense, Ascending
<1>3. CASE run[r].body.thread # None
  <2>1. PICK t \in Threads : t = run[r].body.thread
    BY <1>3, CommitReply
  <2>2. PICK i \in Nat : i = run[r].ridx
    BY <1>3, CommitReply
  <2>3. PICK a \in Nat : a = run[r].body.through
    BY <1>3, CommitReply
  <2>4. /\ i = NextIdx(replies[t]) /\ Acknowledged(t) < a
        /\ DOMAIN replies' = Threads /\ \A x \in Threads \ {t} : replies'[x] = replies[x]
        /\ Dense(replies'[t]) /\ NextIdx(replies'[t]) = i + 1 /\ DOMAIN replies'[t] = DOMAIN replies[t] \cup {i}
        /\ \A x \in DOMAIN replies[t] : replies'[t][x] = replies[t][x]
        /\ replies'[t][i].through = a
    BY <1>3, <2>1, <2>2, <2>3, CommitReply
  <2>5. Ascending(replies'[t])
    <3>1. /\ \A x \in DOMAIN replies[t] : replies[t][x].through \in Nat /\ x \in Nat /\ x < i
          /\ \A x, y \in DOMAIN replies[t] : x < y => replies[t][x].through < replies[t][y].through
      BY <1>1, <2>4, Sizes DEF ThreadTypes, Ascending
    <3>2. \A x \in DOMAIN replies[t] : replies[t][x].through < a
      <4>1. SUFFICES ASSUME NEW x \in DOMAIN replies[t] PROVE replies[t][x].through < a
        OBVIOUS
      <4>2. replies[t][x].through <= Acknowledged(t) /\ Acknowledged(t) \in Int
        BY <1>1, WatermarkIsLast DEF Index, Null
      <4>3. QED
        BY <2>4, <3>1, <4>2
    <3>3. \A x \in DOMAIN replies'[t] : replies'[t][x].through \in Nat
      BY <2>4, <3>1
    <3>4. ASSUME NEW x \in DOMAIN replies'[t], NEW y \in DOMAIN replies'[t], x < y
          PROVE  replies'[t][x].through < replies'[t][y].through
      <4>1. x \in DOMAIN replies[t]
        BY <2>4, <3>1, <3>4
      <4>2. CASE y \in DOMAIN replies[t]
        BY <2>4, <3>1, <3>4, <4>1, <4>2
      <4>3. CASE y = i
        BY <2>4, <3>2, <4>1, <4>3
      <4>4. QED
        BY <2>4, <4>2, <4>3
    <3>5. QED
      BY <3>3, <3>4 DEF Ascending
  <2>6. \A x \in Threads : Dense(comments'[x])
    BY <1>1 DEF ThreadTypes
  <2>7. \A x \in Threads \ {t} : Dense(replies'[x]) /\ Ascending(replies'[x])
    BY <1>1, <2>4 DEF ThreadTypes
  <2>8. \A x \in Threads : Dense(replies'[x]) /\ Ascending(replies'[x])
    BY <2>4, <2>5, <2>7
  <2>9. ThreadTypes'
    BY <1>1, <2>4, <2>6, <2>8 DEF ThreadTypes, Dense, Ascending
  <2>10. ASSUME NEW x \in Threads PROVE NextIdx(replies[x]) <= NextIdx(replies'[x])
    <3>1. CASE x = t
      BY <2>4, <3>1
    <3>2. CASE x # t
      BY <1>1, <2>4, <3>2, Sizes
    <3>3. QED
      BY <3>1, <3>2
  <2>11. QED
    BY <2>9, <2>10
<1>4. QED
  BY <1>2, <1>3

(* A commit keeps the tables, which grow by its rows. *)
LEMMA CommitTables ==
    ASSUME PortalInv, NEW r \in Runs, CommitSubmission(r)
    PROVE  Tables' /\ Grows
<1>1. Tables /\ UNCHANGED <<documents, comments, keys, audit, retained, lost, stored, requests, count, events>>
  BY RunFacts DEF CommitSubmission, marks, cas
<1>2. /\ VersionTypes' /\ NextIdx(versions) <= NextIdx(versions')
      /\ \A v \in DOMAIN versions : v \in DOMAIN versions' /\ versions'[v] = versions[v]
  <2>1. CASE run[r].body.blob = None
    <3>1. UNCHANGED <<versions, current>>
      BY <2>1 DEF CommitSubmission
    <3>2. QED
      BY <1>1, <3>1, Sizes DEF Tables, VersionTypes, Dense
  <2>2. CASE run[r].body.blob # None
    <3>1. PICK v \in Nat : v = run[r].vidx
      BY <2>2, CommitVersion
    <3>2. /\ v = NextIdx(versions) /\ Dense(versions') /\ NextIdx(versions') = v + 1
          /\ DOMAIN versions' = DOMAIN versions \cup {v} /\ \A x \in DOMAIN versions : versions'[x] = versions[x]
          /\ versions'[v] \in Version /\ current' = v
      BY <2>2, <3>1, CommitVersion
    <3>3. VersionTypes'
      <4>1. documents' \subseteq Users /\ retained' \cup lost' \subseteq DOMAIN versions'
        BY <1>1, <3>2 DEF Tables, VersionTypes
      <4>2. \A x \in DOMAIN versions' : versions'[x] \in Version
        BY <1>1, <3>2 DEF Tables, VersionTypes
      <4>3. current' \in DOMAIN versions' /\ current' # Null
        BY <3>2 DEF Null
      <4>4. QED
        BY <3>2, <4>1, <4>2, <4>3 DEF VersionTypes, Dense
    <3>4. QED
      BY <3>2, <3>3
  <2>3. QED
    BY <2>1, <2>2
<1>3. ReceiptTypes'
  BY <1>1, CommitReceipt DEF Tables, ReceiptTypes
<1>4. EventTypes' /\ CasTypes'
  BY <1>1, <1>2 DEF Tables, EventTypes, CasTypes, Dense
<1>5. Grows
  BY <1>1, <1>2, CommitThreads, Sizes DEF Grows
<1>6. QED
  BY <1>2, <1>3, <1>4, <1>5, CommitThreads DEF Tables

(* The commit of a submission. *)
LEMMA CommitSubmissionKeeps ==
    ASSUME PortalInv, NEW r \in Runs, CommitSubmission(r)
    PROVE  PortalInv'
<1>1. Tables' /\ Grows /\ UNCHANGED tab
  BY CommitTables DEF CommitSubmission
<1>2. CASE RunEnds(r)
  BY <1>1, <1>2, RunEndsOne, RunStepKeeps
<1>3. CASE RunGoes(r, "retain")
  <2>1. run' = [run EXCEPT ![r].at = "retain"]
    BY <1>3 DEF RunGoes
  <2>2. /\ run' \in [Runs -> RunType] /\ run'[r].at = "retain"
        /\ run'[r].tries = run[r].tries /\ run'[r].commits = run[r].commits
        /\ \A x \in Runs \ {r} : run'[x] = run[x]
    BY <2>1, RunFacts DEF RunType, RunSteps
  <2>3. RunInv(r)'
    BY <2>2, RunFacts DEF RunInv
  <2>4. QED
    BY <1>1, <2>2, <2>3, RunStepKeeps
<1>4. QED
  BY <1>2, <1>3 DEF CommitSubmission

--------------------------------------------------------------------------------
(* Every step *)

(* The empty document satisfies the invariant. *)
LEMMA PortalStart ==
    ASSUME Init
    PROVE  PortalInv
<1>1. /\ documents = {} /\ current = Null /\ versions = <<>> /\ retained = {} /\ lost = {}
      /\ comments = [t \in Threads |-> <<>>] /\ replies = [t \in Threads |-> <<>>]
      /\ receipts = <<>> /\ keys = <<>> /\ audit = <<>> /\ events = <<>>
      /\ stored = {} /\ requests = {} /\ count = [b \in Blobs |-> 0]
      /\ tab = [u \in Users |-> IdleTab] /\ run = [r \in Runs |-> IdleRun]
  BY DEF Init
<1>2. DOMAIN <<>> = 0 .. 0 - 1
  OBVIOUS
<1>3. Dense(<<>>)
  BY <1>2, DenseFrom
<1>4. VersionTypes
  BY <1>1, <1>2, <1>3 DEF VersionTypes
<1>5. ThreadTypes
  BY <1>1, <1>2, <1>3 DEF ThreadTypes, Ascending
<1>6. ReceiptTypes
  BY <1>1 DEF ReceiptTypes
<1>7. EventTypes
  BY <1>1, <1>2, <1>3 DEF EventTypes
<1>8. CasTypes
  BY <1>1 DEF CasTypes
<1>9. IdleTab \in TabType /\ IdleTab.at = "idle" /\ IdleTab.tries = 0
  BY DEF IdleTab, TabType, TabSteps, Index
<1>10. Requests
  <2>1. \A r \in Runs : RunInv(r)
    BY <1>1, IdleRunFacts DEF RunInv
  <2>2. \A u \in Users : TabInv(u)
    BY <1>1, <1>9, IdleRunFacts DEF TabInv
  <2>3. QED
    BY <1>1, <1>9, <2>1, <2>2, IdleRunFacts DEF Requests
<1>11. QED
  BY <1>4, <1>5, <1>6, <1>7, <1>8, <1>10 DEF PortalInv, Tables

(* Every step of the portal keeps the invariant. *)
LEMMA PortalStep ==
    ASSUME PortalInv, [Next]_vars
    PROVE  PortalInv'
<1>1. CASE UNCHANGED vars
  BY <1>1, TablesSame, TableStepKeeps DEF vars
<1>2. ASSUME NEW u \in Users, UserStep(u) PROVE PortalInv'
  BY <1>2, CreateDocumentKeeps, BeginCommentKeeps, InsertCommentKeeps DEF UserStep
<1>3. ASSUME NEW r \in Runs, RunStep(r) PROVE PortalInv'
  <2>1. CASE FailRun(r)
    BY <2>1, RunEndsKeeps DEF FailRun
  <2>2. QED
    BY <1>3, <2>1, HandleEventKeeps, TryAgainKeeps, FindReceiptKeeps, LoadStateKeeps, CommitSubmissionKeeps,
       ClassifyFailureKeeps, RetentionKeeps, RecordKeeps DEF RunStep, Submit
<1>4. ASSUME NEW target \in 0 .. MaxVersions - 1, NEW obs \in {Null} \cup DOMAIN versions,
             MoveCurrentVersion(obs, target)
      PROVE  PortalInv'
  BY <1>4, MoveCurrentVersionKeeps
<1>5. QED
  BY <1>1, <1>2, <1>3, <1>4, RedeliverKeeps, CollectKeeps DEF Next

(* The portal keeps its inductive invariant: indexes have no gaps, replies    *)
(* ascend, and every request in progress carries indexes that are free or     *)
(* were taken since, content that differs from the version it was made from,  *)
(* and the comments it answers.                                               *)
THEOREM PortalCorrect == Spec => []PortalInv
<1>1. Init => PortalInv
  BY PortalStart
<1>2. PortalInv /\ [Next]_vars => PortalInv'
  BY PortalStep
<1>3. QED
  BY <1>1, <1>2, PTL DEF Spec

--------------------------------------------------------------------------------
(* Who writes what *)

(* Versions, replies and receipts come from commits. *)
LEMMA OnlyCommits ==
    ASSUME [Next]_vars
    PROVE  UNCHANGED <<versions, replies, receipts>> \/ \E r \in Runs : CommitSubmission(r)
<1>1. ASSUME NEW r \in Runs, RunStep(r), ~CommitSubmission(r) PROVE UNCHANGED <<versions, replies, receipts>>
  <2>1. CASE FindReceipt(r) \/ LoadState(r) \/ ClassifyFailure(r)
    BY <2>1 DEF FindReceipt, LoadState, ClassifyFailure, pages
  <2>2. CASE RetainVersion(r) \/ Record(r) \/ FailRun(r) \/ \E v \in DOMAIN versions : Sweep(r, v)
    BY <2>2 DEF RetainVersion, Record, FailRun, Sweep, pages
  <2>3. CASE (\E e \in DOMAIN events, b \in Blobs : HandleEvent(r, e, b)) \/ \E b \in Blobs : TryAgain(r, b)
    BY <2>3 DEF HandleEvent, TryAgain, Work, pages
  <2>4. QED
    BY <1>1, <2>1, <2>2, <2>3 DEF RunStep, Submit
<1>2. ASSUME NEW u \in Users, UserStep(u) PROVE UNCHANGED <<versions, replies, receipts>>
  BY <1>2 DEF UserStep, CreateDocument, BeginComment, InsertComment, pages
<1>3. CASE UNCHANGED vars
  BY <1>3 DEF vars, pages
<1>4. CASE Redeliver \/ \E b \in Blobs : Collect(b)
  BY <1>4 DEF Redeliver, Collect, pages
<1>5. QED
  BY <1>1, <1>2, <1>3, <1>4 DEF Next, MoveCurrentVersion

(* Documents, comments and keys come from users. *)
LEMMA OnlyUsers ==
    ASSUME [Next]_vars
    PROVE  \/ UNCHANGED <<documents, comments, keys>>
           \/ \E u \in Users : CreateDocument(u)
           \/ \E u \in Users : InsertComment(u) /\ CommentFits(tab[u])
<1>1. ASSUME NEW r \in Runs, RunStep(r) PROVE UNCHANGED <<documents, comments, keys>>
  <2>1. CASE FindReceipt(r) \/ LoadState(r) \/ CommitSubmission(r) \/ ClassifyFailure(r)
    BY <2>1 DEF FindReceipt, LoadState, CommitSubmission, ClassifyFailure, pages
  <2>2. CASE RetainVersion(r) \/ Record(r) \/ FailRun(r) \/ \E v \in DOMAIN versions : Sweep(r, v)
    BY <2>2 DEF RetainVersion, Record, FailRun, Sweep, pages
  <2>3. CASE (\E e \in DOMAIN events, b \in Blobs : HandleEvent(r, e, b)) \/ \E b \in Blobs : TryAgain(r, b)
    BY <2>3 DEF HandleEvent, TryAgain, Work, pages
  <2>4. QED
    BY <1>1, <2>1, <2>2, <2>3 DEF RunStep, Submit
<1>2. ASSUME NEW u \in Users, InsertComment(u), ~CommentFits(tab[u]) PROVE UNCHANGED <<documents, comments, keys>>
  BY <1>2 DEF InsertComment
<1>3. ASSUME NEW u \in Users, NEW op, NEW t, NEW k, NEW b, BeginComment(u, op, t, k, b)
      PROVE  UNCHANGED <<documents, comments, keys>>
  BY <1>3 DEF BeginComment, pages
<1>4. CASE UNCHANGED vars
  BY <1>4 DEF vars, pages
<1>5. CASE Redeliver \/ \E b \in Blobs : Collect(b)
  BY <1>5 DEF Redeliver, Collect, pages
<1>6. CASE \E u \in Users : UserStep(u)
  BY <1>2, <1>3, <1>6 DEF UserStep
<1>7. QED
  BY <1>1, <1>4, <1>5, <1>6 DEF Next, MoveCurrentVersion

(* Comments are never taken back. *)
LEMMA LatestGrows ==
    ASSUME PortalInv, [Next]_vars, NEW t \in Threads
    PROVE  Latest(t) \in Int /\ Latest(t)' \in Int /\ Latest(t) <= Latest(t)'
<1>1. Tables /\ Tables'
  BY PortalStep DEF PortalInv
<1>2. /\ NextIdx(comments[t]) \in Nat /\ NextIdx(comments'[t]) \in Nat
      /\ Latest(t) = NextIdx(comments[t]) - 1 /\ Latest(t)' = NextIdx(comments'[t]) - 1
  BY <1>1, Sizes, SizesAfter
<1>3. NextIdx(comments[t]) <= NextIdx(comments'[t])
  <2>1. CASE comments' = comments
    BY <1>2, <2>1
  <2>2. ASSUME NEW u \in Users, InsertComment(u), CommentFits(tab[u])
        PROVE  NextIdx(comments[t]) <= NextIdx(comments'[t])
    <3>0. PICK x \in Threads : x = tab[u].thread
      BY <2>2, CommentRows
    <3>3. PICK i \in Nat : i = tab[u].idx
      BY <2>2, CommentRows
    <3>4. /\ i = NextIdx(comments[x]) /\ NextIdx(comments'[x]) = i + 1
          /\ \A y \in Threads \ {x} : comments'[y] = comments[y]
      BY <2>2, <3>0, <3>3, CommentRows
    <3>1. CASE t = x
      BY <3>1, <3>4
    <3>2. CASE t # x
      BY <1>2, <3>2, <3>4
    <3>5. QED
      BY <3>1, <3>2
  <2>3. QED
    BY <2>1, <2>2, OnlyUsers DEF CreateDocument
<1>4. QED
  BY <1>2, <1>3

--------------------------------------------------------------------------------
(* Versions *)

(* A commit appends to the history. *)
LEMMA HistoryStep ==
    ASSUME PortalInv, OneHistory, [Next]_vars
    PROVE  OneHistory'
<1>1. Tables /\ PortalInv'
  BY PortalStep DEF PortalInv
<1>2. DOMAIN versions' = 0 .. Cardinality(DOMAIN versions') - 1
  BY <1>1 DEF PortalInv, Tables, VersionTypes, Dense
<1>3. CASE versions' = versions
  BY <1>3 DEF OneHistory
<1>4. ASSUME NEW r \in Runs, CommitSubmission(r), run[r].body.blob # None PROVE OneHistory'
  <2>1. PICK v \in Nat : v = run[r].vidx
    BY <1>4, CommitVersion
  <2>2. PICK o \in Index : o = run[r].body.obs
    BY RunFacts DEF Body
  <2>3. /\ v = NextIdx(versions) /\ v \notin DOMAIN versions /\ current = o
        /\ DOMAIN versions' = DOMAIN versions \cup {v} /\ \A x \in DOMAIN versions : versions'[x] = versions[x]
        /\ versions'[v].parent = o /\ versions'[v].blob = run[r].body.blob
    BY <1>4, <2>1, <2>2, CommitVersion
  <2>4. DOMAIN versions = 0 .. v - 1
    BY <1>1, <2>3, Sizes
  <2>5. /\ o \in DOMAIN versions \cup {Null} /\ (o = Null => DOMAIN versions = {})
    BY <1>1, <2>3 DEF Tables, VersionTypes
  <2>6. (o = Null <=> v = 0) /\ o < v
    BY <2>4, <2>5 DEF Null
  <2>7. v # 0 => o \in DOMAIN versions /\ versions[o].blob # run[r].body.blob
    <3>1. MadeFrom(run[r].body)
      BY <1>4, RunFacts DEF RunInv, CommitSubmission, RunAt
    <3>2. QED
      BY <2>2, <2>6, <3>1 DEF MadeFrom
  <2>8. /\ versions'[v].parent = Null <=> v = 0
        /\ versions'[v].parent < v
        /\ v # 0 => versions'[v].blob # versions'[versions'[v].parent].blob
    BY <2>3, <2>6, <2>7
  <2>9. ASSUME NEW x \in DOMAIN versions
        PROVE  /\ versions'[x].parent = Null <=> x = 0
               /\ versions'[x].parent < x
               /\ x # 0 => versions'[x].blob # versions'[versions'[x].parent].blob
    <3>1. /\ versions[x].parent = Null <=> x = 0
          /\ versions[x].parent < x
          /\ x # 0 => versions[x].blob # versions[versions[x].parent].blob
          /\ versions[x].parent \in Index /\ versions'[x] = versions[x]
      BY <1>1, <2>3 DEF OneHistory, Tables, VersionTypes, Version
    <3>2. x # 0 => versions[x].parent \in DOMAIN versions
      BY <2>4, <3>1 DEF Index
    <3>3. QED
      BY <2>3, <3>1, <3>2
  <2>10. QED
    BY <1>2, <2>3, <2>8, <2>9 DEF OneHistory
<1>5. ASSUME NEW r \in Runs, CommitSubmission(r), run[r].body.blob = None PROVE versions' = versions
  BY <1>5 DEF CommitSubmission
<1>6. QED
  BY <1>3, <1>4, <1>5, OnlyCommits

(* The versions of a document are one history without gaps, every version but *)
(* the first made from an earlier one with other content, however many        *)
(* deliveries, retries and moves of the current version race (version lock).  *)
THEOREM HistoryIsOne == Spec => []HistoryInv
<1>1. Init => OneHistory
  <2>1. ASSUME Init PROVE DOMAIN versions = {} /\ Cardinality({}) = 0
    BY <2>1, FS_EmptySet DEF Init
  <2>2. QED
    BY <2>1 DEF OneHistory
<1>2. PortalInv /\ OneHistory /\ [Next]_vars => OneHistory'
  BY HistoryStep
<1>3. ASSUME PortalInv PROVE PortalTypeOK
  <2>1. \A v \in DOMAIN versions : v \in Nat /\ versions[v].blob \in Blobs /\ versions[v].parent \in Index
    BY <1>3, UserFacts DEF PortalInv, Tables, VersionTypes, Version
  <2>2. \A id \in DOMAIN receipts : receipts[id].body \in Body
    BY <1>3 DEF PortalInv, Tables, ReceiptTypes, Receipt
  <2>3. \A r \in Runs : /\ run[r].at \in RunSteps /\ run[r].body \in Body
                        /\ run[r].tries < MaxTries /\ run[r].commits <= 2
    BY <1>3 DEF PortalInv, Requests, RunType, RunInv
  <2>4. \A u \in Users : tab[u].at \in TabSteps /\ tab[u].tries < MaxTries
    BY <1>3 DEF PortalInv, Requests, TabType, TabInv
  <2>5. QED
    BY <1>3, <2>1, <2>2, <2>3, <2>4 DEF PortalInv, Tables, VersionTypes, CasTypes, PortalTypeOK
<1>4. PortalInv /\ OneHistory => HistoryInv
  BY <1>3 DEF HistoryInv
<1>5. QED
  BY <1>1, <1>2, <1>4, PortalCorrect, PTL DEF Spec

--------------------------------------------------------------------------------
(* Submissions *)

(* The rows of one commit: the submission id with body b gets its receipt,    *)
(* the version v if it has a snapshot, and the reply i if it has a thread.    *)
Commits(id, b, v, i, a) ==
    /\ id \notin DOMAIN receipts /\ DOMAIN receipts' = DOMAIN receipts \cup {id}
    /\ \A x \in DOMAIN receipts : receipts'[x] = receipts[x]
    /\ receipts'[id].body = b /\ receipts'[id].version = v /\ receipts'[id].reply = i
    /\ b.blob = None => versions' = versions /\ v = Null
    /\ b.blob # None => /\ v \in Nat /\ v \notin DOMAIN versions /\ DOMAIN versions' = DOMAIN versions \cup {v}
                        /\ \A x \in DOMAIN versions : versions'[x] = versions[x]
                        /\ versions'[v].sub = id /\ versions'[v].parent = b.obs /\ versions'[v].addressed = a
    /\ b.thread = None => replies' = replies
    /\ b.thread # None => /\ b.thread \in Threads /\ i \in Nat /\ i = NextIdx(replies[b.thread])
                          /\ \A x \in Threads \ {b.thread} : replies'[x] = replies[x]
                          /\ DOMAIN replies'[b.thread] = DOMAIN replies[b.thread] \cup {i}
                          /\ \A x \in DOMAIN replies[b.thread] : replies'[b.thread][x] = replies[b.thread][x]
                          /\ replies'[b.thread][i].sub = id /\ replies'[b.thread][i].through = b.through
                          /\ Acknowledged(b.thread) = b.ack /\ b.ack < b.through /\ b.through <= Latest(b.thread)
    /\ b.blob # None /\ b.thread # None => a = b.ack + 1 .. b.through

(* What a commit writes, in names that do not change with the step. *)
LEMMA CommitRows ==
    ASSUME PortalInv, NEW r \in Runs, CommitSubmission(r)
    PROVE  \E id \in Id, b \in Body, v \in Index, i \in Index, a \in SUBSET Nat : Commits(id, b, v, i, a)
<1>1. PICK id \in Id : id = SubmissionId(r)
  BY RunFacts DEF SubmissionId, Id
<1>2. PICK b \in Body : b = run[r].body
  BY RunFacts
<1>3. PICK v \in Index : v = run[r].vidx
  BY RunFacts
<1>4. PICK i \in Index : i = run[r].ridx
  BY RunFacts
<1>5. PICK a \in SUBSET Nat : a = run[r].addressed
  BY RunFacts
<1>6. /\ id \notin DOMAIN receipts /\ DOMAIN receipts' = DOMAIN receipts \cup {id}
      /\ \A x \in DOMAIN receipts : receipts'[x] = receipts[x]
      /\ receipts'[id].body = b /\ receipts'[id].version = v /\ receipts'[id].reply = i
  BY <1>1, <1>2, <1>3, <1>4, CommitReceipt
<1>7. BatchInv(run[r])
  BY RunFacts DEF RunInv, CommitSubmission, RunAt
<1>8. b.blob = None => versions' = versions /\ v = Null
  BY <1>2, <1>3, <1>7 DEF BatchInv, CommitSubmission
<1>9. b.blob # None => /\ v \in Nat /\ v \notin DOMAIN versions /\ DOMAIN versions' = DOMAIN versions \cup {v}
                       /\ \A x \in DOMAIN versions : versions'[x] = versions[x]
                       /\ versions'[v].sub = id /\ versions'[v].parent = b.obs /\ versions'[v].addressed = a
  BY <1>1, <1>2, <1>3, <1>5, CommitVersion
<1>10. b.thread = None => replies' = replies
  BY <1>2 DEF CommitSubmission
<1>11. ASSUME b.thread # None
       PROVE  /\ b.thread \in Threads /\ i \in Nat /\ i = NextIdx(replies[b.thread])
              /\ \A x \in Threads \ {b.thread} : replies'[x] = replies[x]
              /\ DOMAIN replies'[b.thread] = DOMAIN replies[b.thread] \cup {i}
              /\ \A x \in DOMAIN replies[b.thread] : replies'[b.thread][x] = replies[b.thread][x]
              /\ replies'[b.thread][i].sub = id /\ replies'[b.thread][i].through = b.through
              /\ Acknowledged(b.thread) = b.ack /\ b.ack < b.through /\ b.through <= Latest(b.thread)
  <2>1. PICK t \in Threads : t = b.thread
    BY <1>11 DEF Body
  <2>2. run[r].body.thread # None /\ t = run[r].body.thread
    BY <1>2, <1>11, <2>1
  <2>3. /\ i \in Nat /\ i = NextIdx(replies[t]) /\ \A x \in Threads \ {t} : replies'[x] = replies[x]
        /\ DOMAIN replies'[t] = DOMAIN replies[t] \cup {i}
        /\ \A x \in DOMAIN replies[t] : replies'[t][x] = replies[t][x]
        /\ replies'[t][i].sub = id /\ replies'[t][i].through = b.through
        /\ Acknowledged(t) = b.ack /\ b.ack < b.through /\ b.through <= Latest(t)
    BY <1>1, <1>2, <1>4, <2>2, CommitReply
  <2>4. QED
    BY <2>1, <2>3
<1>12. b.blob # None /\ b.thread # None => a = b.ack + 1 .. b.through
  BY <1>2, <1>5, <1>7 DEF BatchInv
<1>13. Commits(id, b, v, i, a)
  BY <1>6, <1>8, <1>9, <1>10, <1>11, <1>12 DEF Commits
<1>14. QED
  BY <1>13

(* Every row has its receipt, and a receipt without a snapshot names no       *)
(* version.                                                                   *)
Linked ==
    /\ \A v \in DOMAIN versions : versions[v].sub \in DOMAIN receipts
    /\ \A t \in Threads : \A i \in DOMAIN replies[t] : replies[t][i].sub \in DOMAIN receipts
    /\ \A id \in DOMAIN receipts : receipts[id].body.blob = None => receipts[id].version = Null

(* A commit keeps the rows that are there. *)
LEMMA RowsStay ==
    ASSUME Tables, NEW id, NEW b, NEW v, NEW i, NEW a, Commits(id, b, v, i, a)
    PROVE  /\ \A x \in DOMAIN versions : x \in DOMAIN versions' /\ versions'[x] = versions[x]
           /\ \A x \in DOMAIN versions' \ DOMAIN versions : b.blob # None /\ x = v
           /\ \A t \in Threads : \A x \in DOMAIN replies[t] : x \in DOMAIN replies'[t] /\ replies'[t][x] = replies[t][x]
           /\ \A t \in Threads : \A x \in DOMAIN replies'[t] \ DOMAIN replies[t] : b.thread = t /\ b.thread # None /\ x = i
<1>1. /\ \A x \in DOMAIN versions : x \in DOMAIN versions' /\ versions'[x] = versions[x]
      /\ \A x \in DOMAIN versions' \ DOMAIN versions : b.blob # None /\ x = v
  BY DEF Commits
<1>2. ASSUME NEW t \in Threads
      PROVE  /\ \A x \in DOMAIN replies[t] : x \in DOMAIN replies'[t] /\ replies'[t][x] = replies[t][x]
             /\ \A x \in DOMAIN replies'[t] \ DOMAIN replies[t] : b.thread = t /\ b.thread # None /\ x = i
  <2>1. CASE b.thread = None
    BY <2>1 DEF Commits
  <2>2. CASE b.thread # None /\ t = b.thread
    BY <2>2 DEF Commits
  <2>3. CASE b.thread # None /\ t # b.thread
    BY <2>3 DEF Commits
  <2>4. QED
    BY <2>1, <2>2, <2>3
<1>3. QED
  BY <1>1, <1>2

(* A commit books its rows under its receipt. *)
LEMMA SubmissionStep ==
    ASSUME PortalInv, SubmittedOnce, Linked, [Next]_vars
    PROVE  SubmittedOnce' /\ Linked'
<1>1. CASE UNCHANGED <<versions, replies, receipts>>
  BY <1>1 DEF SubmittedOnce, Linked
<1>2. ASSUME NEW id \in Id, NEW b \in Body, NEW v \in Index, NEW i \in Index, NEW a \in SUBSET Nat, Commits(id, b, v, i, a)
      PROVE  SubmittedOnce' /\ Linked'
  <2>1. /\ \A x \in DOMAIN versions : x \in DOMAIN versions' /\ versions'[x] = versions[x]
        /\ \A x \in DOMAIN versions' \ DOMAIN versions : b.blob # None /\ x = v
        /\ \A t \in Threads : \A x \in DOMAIN replies[t] : x \in DOMAIN replies'[t] /\ replies'[t][x] = replies[t][x]
        /\ \A t \in Threads : \A x \in DOMAIN replies'[t] \ DOMAIN replies[t] : b.thread = t /\ b.thread # None /\ x = i
    BY <1>2, RowsStay DEF PortalInv
  <2>2. /\ id \notin DOMAIN receipts /\ DOMAIN receipts' = DOMAIN receipts \cup {id}
        /\ \A x \in DOMAIN receipts : receipts'[x] = receipts[x]
        /\ receipts'[id].body = b /\ receipts'[id].version = v /\ receipts'[id].reply = i
    BY <1>2 DEF Commits
  <2>3. /\ b.blob # None => v \in DOMAIN versions' /\ versions'[v].sub = id /\ versions'[v].parent = b.obs
        /\ b.blob = None => v = Null
    BY <1>2 DEF Commits
  <2>4. b.thread # None => /\ b.thread \in Threads /\ i \in DOMAIN replies'[b.thread]
                           /\ replies'[b.thread][i].sub = id
    BY <1>2 DEF Commits
  <2>5. ASSUME NEW x \in DOMAIN receipts'
        PROVE  /\ receipts'[x].body.blob # None => /\ receipts'[x].version \in DOMAIN versions'
                                                   /\ versions'[receipts'[x].version].sub = x
                                                   /\ versions'[receipts'[x].version].parent = receipts'[x].body.obs
               /\ receipts'[x].body.thread # None => /\ receipts'[x].reply \in DOMAIN replies'[receipts'[x].body.thread]
                                                     /\ replies'[receipts'[x].body.thread][receipts'[x].reply].sub = x
               /\ receipts'[x].body.blob = None => receipts'[x].version = Null
    <3>1. CASE x = id
      BY <2>2, <2>3, <2>4, <3>1
    <3>2. CASE x # id
      <4>1. x \in DOMAIN receipts /\ receipts'[x] = receipts[x]
        BY <2>2, <3>2
      <4>2. PICK y : y = receipts[x]
        OBVIOUS
      <4>3. /\ y.body.blob # None => /\ y.version \in DOMAIN versions /\ versions[y.version].sub = x
                                     /\ versions[y.version].parent = y.body.obs
            /\ y.body.thread # None => y.reply \in DOMAIN replies[y.body.thread] /\ replies[y.body.thread][y.reply].sub = x
            /\ y.body.blob = None => y.version = Null
        BY <4>1, <4>2 DEF SubmittedOnce, Linked
      <4>4. y.body.thread # None => y.body.thread \in Threads
        BY <4>1, <4>2 DEF PortalInv, Tables, ReceiptTypes, Receipt, Body
      <4>5. /\ y.body.blob # None => /\ y.version \in DOMAIN versions' /\ versions'[y.version].sub = x
                                     /\ versions'[y.version].parent = y.body.obs
            /\ y.body.thread # None => y.reply \in DOMAIN replies'[y.body.thread] /\ replies'[y.body.thread][y.reply].sub = x
        BY <2>1, <4>3, <4>4
      <4>6. receipts'[x] = y
        BY <4>1, <4>2
      <4>7. QED
        BY <4>3, <4>5, <4>6
    <3>3. QED
      BY <3>1, <3>2
  <2>6. ASSUME NEW x \in DOMAIN versions'
        PROVE  versions'[x].sub \in DOMAIN receipts' /\ receipts'[versions'[x].sub].version = x
    <3>1. CASE x \in DOMAIN versions
      <4>1. versions[x].sub \in DOMAIN receipts /\ receipts[versions[x].sub].version = x
        BY <3>1 DEF SubmittedOnce, Linked
      <4>2. QED
        BY <2>1, <2>2, <3>1, <4>1
    <3>2. CASE x \notin DOMAIN versions
      BY <2>1, <2>2, <2>3, <3>2
    <3>3. QED
      BY <3>1, <3>2
  <2>7. ASSUME NEW t \in Threads, NEW x \in DOMAIN replies'[t]
        PROVE  replies'[t][x].sub \in DOMAIN receipts' /\ receipts'[replies'[t][x].sub].reply = x
    <3>1. CASE x \in DOMAIN replies[t]
      <4>1. replies[t][x].sub \in DOMAIN receipts /\ receipts[replies[t][x].sub].reply = x
        BY <3>1 DEF SubmittedOnce, Linked
      <4>2. QED
        BY <2>1, <2>2, <3>1, <4>1
    <3>2. CASE x \notin DOMAIN replies[t]
      BY <2>1, <2>2, <2>4, <3>2
    <3>3. QED
      BY <3>1, <3>2
  <2>8. SubmittedOnce'
    BY <2>5, <2>6, <2>7 DEF SubmittedOnce
  <2>9. Linked'
    BY <2>5, <2>6, <2>7 DEF Linked
  <2>10. QED
    BY <2>8, <2>9
<1>3. QED
  BY <1>1, <1>2, OnlyCommits, CommitRows

(* A submission takes effect once, and every version and reply was written by *)
(* the submission whose receipt names it, however often the event was         *)
(* delivered and the commit raced or tried again (portal_submissions).        *)
THEOREM SubmissionsCountOnce == Spec => []SubmittedOnce
<1>1. Init => SubmittedOnce /\ Linked
  BY DEF Init, SubmittedOnce, Linked
<1>2. PortalInv /\ SubmittedOnce /\ Linked /\ [Next]_vars => SubmittedOnce' /\ Linked'
  BY SubmissionStep
<1>3. QED
  BY <1>1, <1>2, PortalCorrect, PTL DEF Spec

--------------------------------------------------------------------------------
(* Answers *)

(* The watermark that a reply found. *)
Before(t, i) == IF i = 0 THEN Null ELSE replies[t][i - 1].through

(* One reply answers comments that are there, and its version addresses those *)
(* from the watermark on.                                                     *)
AnswerOf(t, i) ==
    LET q == receipts[replies[t][i].sub]
    IN  /\ replies[t][i].through <= Latest(t)
        /\ q.version # Null => versions[q.version].addressed = Before(t, i) + 1 .. replies[t][i].through

Answered == \A t \in Threads : \A i \in DOMAIN replies[t] : AnswerOf(t, i)

(* A reply that is there keeps its comments while rows are added. *)
LEMMA AnswerStays ==
    ASSUME PortalInv, SubmittedOnce, Linked, [Next]_vars, NEW t \in Threads, NEW i \in DOMAIN replies[t], AnswerOf(t, i),
           \A x \in DOMAIN versions : versions'[x] = versions[x],
           \A x \in DOMAIN replies[t] : replies'[t][x] = replies[t][x],
           \A x \in DOMAIN receipts : receipts'[x] = receipts[x]
    PROVE  AnswerOf(t, i)'
<1>1. PICK row : row = replies[t][i]
  OBVIOUS
<1>2. row.through \in Nat /\ row.sub \in DOMAIN receipts
  BY <1>1 DEF PortalInv, Tables, ThreadTypes, Ascending, Linked
<1>3. PICK q : q = receipts[row.sub]
  OBVIOUS
<1>4. replies'[t][i] = row /\ receipts'[row.sub] = q
  BY <1>1, <1>2, <1>3
<1>5. row.through <= Latest(t)'
  <2>1. row.through <= Latest(t)
    BY <1>1 DEF AnswerOf
  <2>2. Latest(t) \in Int /\ Latest(t)' \in Int /\ Latest(t) <= Latest(t)'
    BY LatestGrows
  <2>3. QED
    BY <1>2, <2>1, <2>2
<1>6. PICK n : n = Before(t, i)
  OBVIOUS
<1>7. n = IF i = 0 THEN Null ELSE replies'[t][i - 1].through
  <2>1. i # 0 => i - 1 \in DOMAIN replies[t]
    BY Sizes DEF PortalInv
  <2>2. QED
    BY <1>6, <2>1 DEF Before
<1>8. q.version # Null => versions'[q.version].addressed = n + 1 .. row.through
  <2>1. q.version # Null => versions[q.version].addressed = n + 1 .. row.through
    BY <1>1, <1>3, <1>6 DEF AnswerOf
  <2>2. q.version # Null => q.version \in DOMAIN versions
    BY <1>2, <1>3 DEF SubmittedOnce, Linked
  <2>3. QED
    BY <2>1, <2>2
<1>9. QED
  BY <1>4, <1>5, <1>7, <1>8 DEF AnswerOf, Before

(* The reply of a commit answers the comments after the watermark. *)
LEMMA AnswerCommitted ==
    ASSUME PortalInv, [Next]_vars, NEW id \in Id, NEW b \in Body, NEW v \in Index, NEW i \in Index, NEW a \in SUBSET Nat,
           Commits(id, b, v, i, a), b.thread # None
    PROVE  AnswerOf(b.thread, i)'
<1>1. PICK t \in Threads : t = b.thread
  BY DEF Body
<1>2. PICK th \in Int : th = b.through
  BY DEF Body, Index, Null
<1>3. /\ i \in Nat /\ i = NextIdx(replies[t]) /\ Acknowledged(t) = b.ack /\ th <= Latest(t)
      /\ \A x \in DOMAIN replies[t] : replies'[t][x] = replies[t][x]
      /\ replies'[t][i].sub = id /\ replies'[t][i].through = th
      /\ receipts'[id].version = v
  BY <1>1, <1>2 DEF Commits
<1>4. th <= Latest(t)'
  <2>1. Latest(t) \in Int /\ Latest(t)' \in Int /\ Latest(t) <= Latest(t)'
    BY LatestGrows
  <2>2. QED
    BY <1>3, <2>1
<1>5. b.ack = IF i = 0 THEN Null ELSE replies'[t][i - 1].through
  <2>1. CASE i = 0
    BY <1>3, <2>1, WatermarkIsLast DEF PortalInv, Tables, Null
  <2>2. CASE i # 0
    <3>1. i > 0 /\ i - 1 \in DOMAIN replies[t]
      BY <1>3, <2>2, Sizes DEF PortalInv
    <3>2. Acknowledged(t) = replies[t][i - 1].through
      BY <1>3, <3>1, WatermarkIsLast DEF PortalInv, Tables
    <3>3. QED
      BY <1>3, <2>2, <3>1, <3>2
  <2>3. QED
    BY <2>1, <2>2
<1>6. v # Null => versions'[v].addressed = b.ack + 1 .. th
  BY <1>2 DEF Commits
<1>7. AnswerOf(t, i)'
  BY <1>3, <1>4, <1>5, <1>6 DEF AnswerOf, Before
<1>8. QED
  BY <1>1, <1>7

(* Replies are appended, each from the watermark on. *)
LEMMA AnsweredStep ==
    ASSUME PortalInv, SubmittedOnce, Linked, Answered, [Next]_vars
    PROVE  Answered'
<1>1. CASE UNCHANGED <<versions, replies, receipts>>
  <2>1. ASSUME NEW t \in Threads, NEW i \in DOMAIN replies[t] PROVE AnswerOf(t, i)'
    BY <1>1, <2>1, AnswerStays DEF Answered
  <2>2. QED
    BY <1>1, <2>1 DEF Answered
<1>2. ASSUME NEW id \in Id, NEW b \in Body, NEW v \in Index, NEW i \in Index, NEW a \in SUBSET Nat, Commits(id, b, v, i, a)
      PROVE  Answered'
  <2>1. /\ \A x \in DOMAIN versions : versions'[x] = versions[x]
        /\ \A t \in Threads : \A x \in DOMAIN replies[t] : replies'[t][x] = replies[t][x]
        /\ \A t \in Threads : \A x \in DOMAIN replies'[t] \ DOMAIN replies[t] : b.thread = t /\ b.thread # None /\ x = i
    BY <1>2, RowsStay DEF PortalInv
  <2>2. \A x \in DOMAIN receipts : receipts'[x] = receipts[x]
    BY <1>2 DEF Commits
  <2>3. ASSUME NEW t \in Threads, NEW x \in DOMAIN replies'[t] PROVE AnswerOf(t, x)'
    <3>1. CASE x \in DOMAIN replies[t]
      BY <2>1, <2>2, <3>1, AnswerStays DEF Answered
    <3>2. CASE x \notin DOMAIN replies[t]
      <4>1. b.thread = t /\ b.thread # None /\ x = i
        BY <2>1, <3>2
      <4>2. AnswerOf(b.thread, i)'
        BY <1>2, <4>1, AnswerCommitted
      <4>3. QED
        BY <4>1, <4>2
    <3>3. QED
      BY <3>1, <3>2
  <2>4. QED
    BY <2>3 DEF Answered
<1>3. QED
  BY <1>1, <1>2, OnlyCommits, CommitRows

(* Every comment is answered at most once: the replies of a thread go         *)
(* strictly forward through comments that are there, and a version addresses  *)
(* exactly the comments between the reply before its own and its own, however *)
(* many deliveries answer the thread at the same time (thread lock).          *)
THEOREM CommentsAnsweredOnce == Spec => []AnsweredOnce
<1>1. Init => SubmittedOnce /\ Linked /\ Answered
  BY DEF Init, SubmittedOnce, Linked, Answered
<1>2. PortalInv /\ SubmittedOnce /\ Linked /\ Answered /\ [Next]_vars => SubmittedOnce' /\ Linked' /\ Answered'
  BY SubmissionStep, AnsweredStep
<1>3. ASSUME PortalInv, Answered PROVE AnsweredOnce
  <2>1. SUFFICES ASSUME NEW t \in Threads, NEW i \in DOMAIN replies[t] PROVE Before(t, i) < replies[t][i].through
    BY <1>3 DEF AnsweredOnce, Answered, AnswerOf, Before, PortalInv, Tables, ThreadTypes, Dense
  <2>2. i \in Nat /\ (i # 0 => i - 1 \in DOMAIN replies[t] /\ i - 1 < i)
    BY <1>3, Sizes DEF PortalInv
  <2>3. Ascending(replies[t])
    BY <1>3 DEF PortalInv, Tables, ThreadTypes
  <2>4. CASE i = 0
    BY <2>3, <2>4 DEF Ascending, Before, Null
  <2>5. CASE i # 0
    BY <2>2, <2>3, <2>5 DEF Ascending, Before
  <2>6. QED
    BY <2>4, <2>5
<1>4. QED
  BY <1>1, <1>2, <1>3, PortalCorrect, PTL DEF Spec

--------------------------------------------------------------------------------
(* Idempotency keys *)

CreationKey == <<"createDocument", None>>

(* One document at most, and only under its key; every comment has the        *)
(* receipt of its key, and every other receipt is of a comment.               *)
Keyed ==
    /\ documents = {} \/ (CreationKey \in DOMAIN keys /\ \E u \in Users : documents = {u})
    /\ \A t \in Threads : \A i \in DOMAIN comments[t] :
          /\ comments[t][i].key \in DOMAIN keys
          /\ keys[comments[t][i].key].thread = t /\ keys[comments[t][i].key].idx = i
    /\ \A k \in DOMAIN keys \ {CreationKey} : keys[k].thread \in Threads /\ keys[k].idx \in DOMAIN comments[keys[k].thread]

(* A creation takes its key, or finds it taken. *)
LEMMA CreationKeyed ==
    ASSUME PortalInv, Keyed, NEW u \in Users, CreateDocument(u)
    PROVE  Keyed'
<1>1. comments' = comments
  BY DEF CreateDocument
<1>2. CASE CreationKey \in DOMAIN keys
  <2>1. UNCHANGED <<documents, keys>>
    BY <1>2 DEF CreateDocument, InsertDocument, CreationKey
  <2>2. QED
    BY <1>1, <2>1 DEF Keyed
<1>3. CASE CreationKey \notin DOMAIN keys
  <2> DEFINE row == [fp |-> None, thread |-> None, idx |-> Null]
  <2>1. keys' = Inserted(keys, CreationKey, row) /\ documents' = documents \cup {u}
    BY <1>3 DEF CreateDocument, InsertDocument, CreationKey
  <2> HIDE DEF row
  <2>2. DOMAIN keys' = DOMAIN keys \cup {CreationKey} /\ \A k \in DOMAIN keys : keys'[k] = keys[k]
    BY <2>1 DEF Inserted
  <2>3. documents' = {u}
    BY <1>3, <2>1 DEF Keyed
  <2>4. QED
    BY <1>1, <2>2, <2>3 DEF Keyed
<1>4. QED
  BY <1>2, <1>3

(* A comment takes its key with its row. *)
LEMMA CommentKeyed ==
    ASSUME PortalInv, Keyed, NEW u \in Users, InsertComment(u), CommentFits(tab[u])
    PROVE  Keyed'
<1>1. PICK t \in Threads : t = tab[u].thread
  BY CommentRows
<1>2. PICK i \in Nat : i = tab[u].idx
  BY CommentRows
<1>3. PICK k : k = KeyOf(tab[u])
  OBVIOUS
<1>4. k # CreationKey
  BY <1>3, CommentRows DEF KeyOf, CreationKey
<1>5. /\ i \notin DOMAIN comments[t] /\ \A x \in Threads \ {t} : comments'[x] = comments[x]
      /\ DOMAIN comments'[t] = DOMAIN comments[t] \cup {i} /\ comments'[t][i].key = k
      /\ \A x \in DOMAIN comments[t] : comments'[t][x] = comments[t][x]
      /\ k \notin DOMAIN keys /\ DOMAIN keys' = DOMAIN keys \cup {k}
      /\ keys'[k].thread = t /\ keys'[k].idx = i /\ \A x \in DOMAIN keys : keys'[x] = keys[x]
      /\ documents' = documents
  BY <1>1, <1>2, <1>3, CommentRows
<1>6. documents' = {} \/ (CreationKey \in DOMAIN keys' /\ \E w \in Users : documents' = {w})
  BY <1>5 DEF Keyed
<1>7. ASSUME NEW x \in Threads, NEW j \in DOMAIN comments'[x]
      PROVE  /\ comments'[x][j].key \in DOMAIN keys'
             /\ keys'[comments'[x][j].key].thread = x /\ keys'[comments'[x][j].key].idx = j
  <2>1. CASE x = t /\ j = i
    BY <1>5, <2>1
  <2>2. CASE ~(x = t /\ j = i)
    <3>1. j \in DOMAIN comments[x] /\ comments'[x][j] = comments[x][j]
      <4>1. CASE x = t
        BY <1>5, <2>2, <4>1
      <4>2. CASE x # t
        BY <1>5, <4>2
      <4>3. QED
        BY <4>1, <4>2
    <3>2. PICK c : c = comments[x][j].key
      OBVIOUS
    <3>3. c \in DOMAIN keys /\ keys[c].thread = x /\ keys[c].idx = j
      BY <3>1, <3>2 DEF Keyed
    <3>4. keys'[c] = keys[c] /\ c \in DOMAIN keys' /\ comments'[x][j].key = c
      BY <1>5, <3>1, <3>2, <3>3
    <3>5. QED
      BY <3>3, <3>4
  <2>3. QED
    BY <2>1, <2>2
<1>8. ASSUME NEW x \in DOMAIN keys' \ {CreationKey}
      PROVE  keys'[x].thread \in Threads /\ keys'[x].idx \in DOMAIN comments'[keys'[x].thread]
  <2>1. CASE x = k
    BY <1>5, <2>1
  <2>2. CASE x # k
    <3>1. x \in DOMAIN keys \ {CreationKey} /\ keys'[x] = keys[x]
      BY <1>5, <2>2
    <3>2. PICK y \in Threads : y = keys[x].thread
      BY <3>1 DEF Keyed
    <3>3. keys[x].idx \in DOMAIN comments[y]
      BY <3>1, <3>2 DEF Keyed
    <3>4. DOMAIN comments[y] \subseteq DOMAIN comments'[y]
      <4>1. CASE y = t
        BY <1>5, <4>1
      <4>2. CASE y # t
        BY <1>5, <4>2
      <4>3. QED
        BY <4>1, <4>2
    <3>5. QED
      BY <3>1, <3>2, <3>3, <3>4
  <2>3. QED
    BY <2>1, <2>2
<1>9. QED
  BY <1>6, <1>7, <1>8 DEF Keyed

(* A key takes effect once: there is one document at most, every comment was  *)
(* written under the key whose receipt names it, and what a receipt answers   *)
(* is there, however often and by whomever the request is sent                *)
(* (portal_tenant_idempotency_receipts).                                      *)
THEOREM KeysCountOnce == Spec => []KeysOnce
<1>1. Init => Keyed
  BY DEF Init, Keyed
<1>2. PortalInv /\ Keyed /\ [Next]_vars => Keyed'
  <2>1. SUFFICES ASSUME PortalInv, Keyed, [Next]_vars PROVE Keyed'
    OBVIOUS
  <2>2. CASE UNCHANGED <<documents, comments, keys>>
    BY <2>1, <2>2 DEF Keyed
  <2>3. QED
    BY <2>1, <2>2, OnlyUsers, CreationKeyed, CommentKeyed
<1>3. ASSUME PortalInv, Keyed PROVE KeysOnce
  <2>1. Cardinality(documents) <= 1
    <3>1. CASE documents = {}
      BY <3>1, FS_EmptySet
    <3>2. CASE documents # {}
      <4>1. PICK u : documents = {u}
        BY <1>3, <3>2 DEF Keyed
      <4>2. Cardinality({u}) = 1
        BY FS_Singleton
      <4>3. QED
        BY <4>1, <4>2
    <3>3. QED
      BY <3>1, <3>2
  <2>2. \A t \in Threads : DOMAIN comments[t] = 0 .. Cardinality(DOMAIN comments[t]) - 1
    BY <1>3 DEF PortalInv, Tables, ThreadTypes, Dense
  <2>3. QED
    BY <1>3, <2>1, <2>2 DEF Keyed, KeysOnce, CreationKey
<1>4. QED
  BY <1>1, <1>2, <1>3, PortalCorrect, PTL DEF Spec

--------------------------------------------------------------------------------
(* Snapshots *)

(* The versions whose root request the CAS has applied. *)
Asked(b) == {v \in DOMAIN versions : <<v>> \in requests /\ versions[v].blob = b}

(* A reference is one applied request, a retained version was asked for, and  *)
(* what was asked for is in the CAS.                                          *)
Counted ==
    /\ \A b \in Blobs : count[b] = Cardinality(Asked(b))
    /\ \A v \in retained : <<v>> \in requests
    /\ \A v \in DOMAIN versions : <<v>> \in requests => versions[v].blob \in stored

(* The steps that retention depends on. *)
LEMMA OnlyRetention ==
    ASSUME [Next]_vars
    PROVE  \/ UNCHANGED <<versions, retained, requests, count>> /\ stored \subseteq stored'
           \/ \E r \in Runs : CommitSubmission(r)
           \/ \E r \in Runs, v \in DOMAIN versions : RetainRow(r, v) /\ UNCHANGED <<versions, retained, stored>>
           \/ \E r \in Runs : Record(r)
           \/ \E b \in Blobs : Collect(b)
<1> DEFINE Same == UNCHANGED <<versions, retained, requests, count>> /\ stored \subseteq stored'
           Row  == \E r \in Runs, v \in DOMAIN versions : RetainRow(r, v) /\ UNCHANGED <<versions, retained, stored>>
<1>1. ASSUME NEW r \in Runs, RunStep(r) PROVE Same \/ CommitSubmission(r) \/ Row \/ Record(r)
  <2>1. CASE FindReceipt(r) \/ LoadState(r) \/ ClassifyFailure(r) \/ FailRun(r)
    BY <2>1 DEF FindReceipt, LoadState, ClassifyFailure, FailRun, pages, marks, cas
  <2>2. CASE RetainVersion(r)
    BY <2>2 DEF RetainVersion, Unretained, pages, marks
  <2>3. CASE \E v \in DOMAIN versions : Sweep(r, v)
    BY <2>3 DEF Sweep, pages, marks
  <2>4. ASSUME NEW q, NEW b, Work(r, q, b) PROVE Same
    <3>1. UNCHANGED <<versions, retained, requests, count>>
      BY <2>4 DEF Work, pages, marks
    <3>2. stored \subseteq stored'
      BY <2>4 DEF Work, FirstVersion, AnswerThread
    <3>3. QED
      BY <3>1, <3>2
  <2>5. CASE (\E e \in DOMAIN events, b \in Blobs : HandleEvent(r, e, b)) \/ \E b \in Blobs : TryAgain(r, b)
    BY <2>4, <2>5 DEF HandleEvent, TryAgain
  <2>6. QED
    BY <1>1, <2>1, <2>2, <2>3, <2>5 DEF RunStep, Submit
<1>2. ASSUME NEW u \in Users, UserStep(u) PROVE Same
  BY <1>2 DEF UserStep, CreateDocument, BeginComment, InsertComment, pages, marks, cas
<1>3. CASE UNCHANGED vars
  BY <1>3 DEF vars, pages, marks, cas
<1>4. CASE Redeliver
  BY <1>4 DEF Redeliver, pages, marks, cas
<1>5. ASSUME NEW obs, NEW target, MoveCurrentVersion(obs, target) PROVE Same
  BY <1>5 DEF MoveCurrentVersion, marks, cas
<1>6. QED
  BY <1>1, <1>2, <1>3, <1>4, <1>5 DEF Next

(* The versions that were asked for are finitely many. *)
LEMMA AskedFinite ==
    ASSUME Tables, NEW b \in Blobs
    PROVE  IsFiniteSet(Asked(b)) /\ Cardinality(Asked(b)) \in Nat
<1>1. IsFiniteSet(DOMAIN versions) /\ Asked(b) \in SUBSET DOMAIN versions
  BY DEF Tables, VersionTypes, Dense, Asked
<1>2. QED
  BY <1>1, FS_Subset, FS_CardinalityType

(* A request counts once. *)
LEMMA RetainCounted ==
    ASSUME PortalInv, Counted, NEW r \in Runs, NEW v \in DOMAIN versions, RetainRow(r, v), UNCHANGED <<versions, retained, stored>>
    PROVE  Counted'
<1>1. CASE versions[v].blob \notin stored
  BY <1>1 DEF RetainRow, Counted, Asked
<1>2. CASE versions[v].blob \in stored
  <2>1. PICK c \in Blobs : c = versions[v].blob
    BY <1>2 DEF PortalInv, Tables, CasTypes
  <2>2. /\ requests' = requests \cup {<<v>>}
        /\ count' = IF <<v>> \in requests THEN count ELSE [count EXCEPT ![c] = @ + 1]
    BY <1>2, <2>1 DEF RetainRow, RetainRequestId
  <2>3. ASSUME NEW b \in Blobs PROVE count'[b] = Cardinality(Asked(b)')
    <3>1. CASE <<v>> \in requests \/ b # c
      <4>1. Asked(b)' = Asked(b)
        BY <2>1, <2>2, <3>1 DEF Asked
      <4>2. count'[b] = count[b]
        BY <2>2, <3>1 DEF PortalInv, Tables, CasTypes
      <4>3. QED
        BY <4>1, <4>2 DEF Counted
    <3>2. CASE <<v>> \notin requests /\ b = c
      <4>1. Asked(b)' = Asked(b) \cup {v} /\ v \notin Asked(b)
        BY <2>1, <2>2, <3>2 DEF Asked
      <4>2. Cardinality(Asked(b) \cup {v}) = Cardinality(Asked(b)) + 1
        BY <4>1, AskedFinite, FS_AddElement DEF PortalInv
      <4>3. count'[b] = count[b] + 1
        BY <2>2, <3>2 DEF PortalInv, Tables, CasTypes
      <4>4. QED
        BY <4>1, <4>2, <4>3 DEF Counted
    <3>3. QED
      BY <3>1, <3>2
  <2>4. \A x \in DOMAIN versions' : <<x>> \in requests' => versions'[x].blob \in stored'
    BY <1>2, <2>2 DEF Counted
  <2>5. QED
    BY <2>2, <2>3, <2>4 DEF Counted
<1>3. QED
  BY <1>1, <1>2

(* A commit adds a version that nobody has asked for yet. *)
LEMMA CommitCounted ==
    ASSUME PortalInv, Counted, NEW r \in Runs, CommitSubmission(r)
    PROVE  Counted'
<1>1. PICK id \in Id, b \in Body, v \in Index, i \in Index, a \in SUBSET Nat : Commits(id, b, v, i, a)
  BY CommitRows
<1>2. /\ \A x \in DOMAIN versions : x \in DOMAIN versions' /\ versions'[x] = versions[x]
      /\ \A x \in DOMAIN versions' \ DOMAIN versions : x = v
  BY <1>1, RowsStay DEF PortalInv
<1>3. UNCHANGED <<retained, requests, count, stored>>
  BY DEF CommitSubmission, marks, cas
<1>4. \A x : <<x>> \in requests => x \in DOMAIN versions
  BY DEF PortalInv, Tables, CasTypes
<1>5. ASSUME NEW c \in Blobs PROVE Asked(c)' = Asked(c)
  BY <1>2, <1>3, <1>4 DEF Asked
<1>6. QED
  BY <1>2, <1>3, <1>4, <1>5 DEF Counted

(* A collection takes a snapshot that no version holds. *)
LEMMA CollectCounted ==
    ASSUME PortalInv, Counted, NEW c \in Blobs, Collect(c)
    PROVE  Counted'
<1>1. UNCHANGED <<versions, retained, requests, count>> /\ stored' = stored \ {c} /\ count[c] = 0
  BY DEF Collect, pages, marks
<1>2. Cardinality(Asked(c)) = 0 /\ IsFiniteSet(Asked(c))
  BY <1>1, AskedFinite DEF Counted, PortalInv
<1>3. Asked(c) = {}
  BY <1>2, FS_EmptySet
<1>4. \A v \in DOMAIN versions : <<v>> \in requests => versions[v].blob # c
  BY <1>3 DEF Asked
<1>5. \A b \in Blobs : Asked(b)' = Asked(b)
  BY <1>1 DEF Asked
<1>6. QED
  BY <1>1, <1>4, <1>5 DEF Counted

(* Every step keeps the references and the requests together. *)
LEMMA CountedStep ==
    ASSUME PortalInv, Counted, [Next]_vars
    PROVE  Counted'
<1>1. CASE UNCHANGED <<versions, retained, requests, count>> /\ stored \subseteq stored'
  BY <1>1 DEF Counted, Asked
<1>2. ASSUME NEW r \in Runs, Record(r) PROVE Counted'
  <2>1. UNCHANGED <<versions, requests, count, stored>>
    BY <1>2 DEF Record, pages, cas
  <2>2. retained' = retained \/ (run[r].at = "retained" /\ retained' = retained \cup {run[r].vidx})
    BY <1>2 DEF Record, RunAt
  <2>3. run[r].at = "retained" => <<run[r].vidx>> \in requests
    BY RunFacts DEF RunInv
  <2>4. QED
    BY <2>1, <2>2, <2>3 DEF Counted, Asked
<1>3. QED
  BY <1>1, <1>2, OnlyRetention, CommitCounted, RetainCounted, CollectCounted

(* A version recorded as retained can be read for good, and counts one        *)
(* reference, although a delivery, its retries and the sweep may all retain   *)
(* it, in any order, and any of them may stop half way (retainRow).           *)
THEOREM SnapshotsStay == Spec => []SnapshotsKept
<1>1. Init => Counted
  <2>1. ASSUME Init, NEW b \in Blobs PROVE Asked(b) = {} /\ Cardinality({}) = 0 /\ count[b] = 0
    BY <2>1, FS_EmptySet DEF Init, Asked
  <2>2. QED
    BY <2>1 DEF Init, Counted
<1>2. PortalInv /\ Counted /\ [Next]_vars => Counted'
  BY CountedStep
<1>3. ASSUME PortalInv, Counted PROVE SnapshotsKept
  <2> DEFINE H(rows, b) == {v \in rows : versions[v].blob = b}
  <2>1. ASSUME NEW b \in Blobs
        PROVE  /\ Cardinality(H(retained, b)) <= count[b] /\ count[b] <= Cardinality(H(DOMAIN versions, b))
               /\ Cardinality(H(retained, b)) > 0 => b \in stored
    <3>1. /\ IsFiniteSet(DOMAIN versions) /\ retained \subseteq DOMAIN versions
          /\ \A v \in retained : <<v>> \in requests
          /\ count[b] = Cardinality(Asked(b))
      BY <1>3 DEF PortalInv, Tables, VersionTypes, Dense, Counted
    <3>2. H(DOMAIN versions, b) \in SUBSET DOMAIN versions /\ Asked(b) \in SUBSET H(DOMAIN versions, b)
      BY DEF Asked
    <3>3. H(retained, b) \in SUBSET Asked(b)
      BY <3>1 DEF Asked
    <3>4. ASSUME b \notin stored PROVE H(retained, b) = {}
      BY <1>3, <3>1, <3>4 DEF Counted
    <3>5. ASSUME H(retained, b) = {} PROVE Cardinality(H(retained, b)) = 0
      BY <3>5, FS_EmptySet
    <3> HIDE DEF H
    <3>6. IsFiniteSet(H(DOMAIN versions, b))
      BY <3>1, <3>2, FS_Subset
    <3>7. IsFiniteSet(Asked(b)) /\ Cardinality(Asked(b)) <= Cardinality(H(DOMAIN versions, b))
      BY <3>2, <3>6, FS_Subset
    <3>8. Cardinality(H(retained, b)) <= Cardinality(Asked(b))
      BY <3>3, <3>7, FS_Subset
    <3>9. QED
      BY <3>1, <3>4, <3>5, <3>7, <3>8
  <2>2. QED
    BY <2>1 DEF SnapshotsKept
<1>4. QED
  BY <1>1, <1>2, <1>3, PortalCorrect, PTL DEF Spec

--------------------------------------------------------------------------------
(* The current version *)

(* The pointer and its audit come from commits and from users' moves. *)
LEMMA OnlyMoves ==
    ASSUME [Next]_vars
    PROVE  \/ UNCHANGED <<current, audit>>
           \/ \E r \in Runs : CommitSubmission(r)
           \/ \E obs, target : MoveCurrentVersion(obs, target)
<1>1. ASSUME NEW r \in Runs, RunStep(r), ~CommitSubmission(r) PROVE UNCHANGED <<current, audit>>
  <2>1. CASE FindReceipt(r) \/ LoadState(r) \/ ClassifyFailure(r)
    BY <2>1 DEF FindReceipt, LoadState, ClassifyFailure, pages
  <2>2. CASE RetainVersion(r) \/ Record(r) \/ FailRun(r) \/ \E v \in DOMAIN versions : Sweep(r, v)
    BY <2>2 DEF RetainVersion, Record, FailRun, Sweep, pages
  <2>3. CASE (\E e \in DOMAIN events, b \in Blobs : HandleEvent(r, e, b)) \/ \E b \in Blobs : TryAgain(r, b)
    BY <2>3 DEF HandleEvent, TryAgain, Work, pages
  <2>4. QED
    BY <1>1, <2>1, <2>2, <2>3 DEF RunStep, Submit
<1>2. ASSUME NEW u \in Users, UserStep(u) PROVE UNCHANGED <<current, audit>>
  BY <1>2 DEF UserStep, CreateDocument, BeginComment, InsertComment, pages
<1>3. CASE UNCHANGED vars
  BY <1>3 DEF vars, pages
<1>4. CASE Redeliver \/ \E b \in Blobs : Collect(b)
  BY <1>4 DEF Redeliver, Collect, pages
<1>5. QED
  BY <1>1, <1>2, <1>3, <1>4 DEF Next

(* The current version moves to a version just committed whose parent it was, *)
(* or by a user's move that the audit has; a refused move leaves no audit     *)
(* (version lock, moveCurrentVersion).                                        *)
THEOREM MovesExplained == Spec => PointerExplained
<1> DEFINE Explained ==
           /\ audit' = audit => \/ current' = current
                                \/ current' \notin DOMAIN versions /\ versions'[current'].parent = current
           /\ audit' # audit => audit' = Append(audit, [before |-> current, after |-> current'])
<1>1. PortalInv /\ [Next]_vars => [Explained]_vars
  <2>1. SUFFICES ASSUME PortalInv, [Next]_vars PROVE Explained
    OBVIOUS
  <2>2. CASE UNCHANGED <<current, audit>>
    BY <2>2
  <2>3. ASSUME NEW r \in Runs, CommitSubmission(r) PROVE Explained
    <3>1. audit' = audit
      BY <2>3 DEF CommitSubmission
    <3>2. CASE run[r].body.blob = None
      BY <2>3, <3>1, <3>2 DEF CommitSubmission
    <3>3. CASE run[r].body.blob # None
      <4>1. current' = run[r].vidx /\ run[r].vidx \notin DOMAIN versions /\ versions'[run[r].vidx].parent = current
        BY <2>1, <2>3, <3>3, CommitVersion
      <4>2. QED
        BY <3>1, <4>1
    <3>4. QED
      BY <3>2, <3>3
  <2>4. ASSUME NEW obs, NEW target, MoveCurrentVersion(obs, target) PROVE Explained
    <3>1. CASE ~Moves(obs, target)
      BY <2>4, <3>1 DEF MoveCurrentVersion, AuditsMove
    <3>2. CASE Moves(obs, target)
      <4>1. /\ audit' = Append(audit, [before |-> obs, after |-> target])
            /\ current' = target /\ current = obs
        BY <2>4, <3>2 DEF MoveCurrentVersion, AuditsMove, Moves
      <4>2. Len(audit') = Len(audit) + 1 /\ Len(audit) \in Nat
        BY <2>1, <4>1 DEF PortalInv, Tables, ReceiptTypes
      <4>3. QED
        BY <4>1, <4>2
    <3>3. QED
      BY <3>1, <3>2
  <2>5. QED
    BY <2>1, <2>2, <2>3, <2>4, OnlyMoves
<1>2. QED
  BY <1>1, PortalCorrect, PTL DEF Spec, PointerExplained
================================================================================
