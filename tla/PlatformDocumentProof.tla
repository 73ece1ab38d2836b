------------------------ MODULE PlatformDocumentProof ------------------------
(***************************************************************************)
(* The commit protocol of a platform document, for any number of requests, *)
(* operations, states and versions: PlatformInv is inductive, and with it  *)
(* every readable version is retained, receipts are true, and the document *)
(* implements CommitLog.  RecordInv accounts for every request on record,  *)
(* from which follows that no reference is left over.                      *)
(***************************************************************************)
EXTENDS PlatformDocument, FiniteSetTheorems, TLAPS

--------------------------------------------------------------------------------
(* Handlers *)

HandlerType == [at : {"idle"} \cup CreateSteps \cup CommitSteps,
                who : Identities \cup OpIds \cup {None}, base : Nat,
                hash : Hashes \cup {None}]

(* Only the handler that moves changes, and only where it stands. *)
LEMMA MovedOne ==
    ASSUME slot \in [Slots -> HandlerType], NEW s \in Slots,
           NEW to \in {"idle"} \cup CreateSteps \cup CommitSteps, Moved(s, to)
    PROVE  /\ slot' \in [Slots -> HandlerType]
           /\ slot'[s].at = to /\ slot'[s].who = slot[s].who
           /\ slot'[s].base = slot[s].base /\ slot'[s].hash = slot[s].hash
           /\ \A u \in Slots \ {s} : slot'[u] = slot[u]
BY DEF Moved, HandlerType

(* A handler that ends is idle. *)
LEMMA EndedOne ==
    ASSUME slot \in [Slots -> HandlerType], NEW s \in Slots, Ended(s)
    PROVE  /\ slot' \in [Slots -> HandlerType]
           /\ slot'[s].at = "idle"
           /\ \A u \in Slots \ {s} : slot'[u] = slot[u]
BY DEF Ended, Idle, HandlerType

(* A step takes nothing off the record. *)
OnlyMore ==
    /\ identity # None => identity' # None
    /\ requests \subseteq requests'
    /\ \A o \in DOMAIN intents :
          o \in DOMAIN intents' /\ intents'[o].base = intents[o].base /\ intents'[o].hash = intents[o].hash

(* A handler that such a step does not move keeps what it relies on. *)
LEMMA OthersKept ==
    ASSUME PlatformInv, OnlyMore, NEW s \in Slots,
           \A u \in Slots \ {s} : slot'[u] = slot[u]
    PROVE  \A u \in Slots \ {s} : HandlerInv(u)'
<1> SUFFICES ASSUME NEW u \in Slots \ {s}
             PROVE  HandlerInv(u)'
  OBVIOUS
<1>1. slot'[u] = slot[u]
  OBVIOUS
<1>2. HandlerInv(u)
  BY DEF PlatformInv
<1>3. /\ RequestOf(u, "create")' = RequestOf(u, "create")
      /\ RequestOf(u, "commit")' = RequestOf(u, "commit")
  BY <1>1 DEF RequestOf
<1>4. slot[u].at \in {"retain", "commit"} =>
         /\ slot[u].who \in DOMAIN intents'
         /\ intents'[slot[u].who].base = slot[u].base /\ intents'[slot[u].who].hash = slot[u].hash
  BY <1>2 DEF HandlerInv, OnlyMore
<1>5. QED
  BY <1>1, <1>2, <1>3, <1>4 DEF HandlerInv, OnlyMore

(* An idle handler relies on nothing. *)
LEMMA IdleRelies ==
    ASSUME NEW s \in Slots, slot'[s].at = "idle"
    PROVE  HandlerInv(s)'
BY DEF HandlerInv, CreateSteps, CommitSteps

--------------------------------------------------------------------------------
(* Retention *)

(* retainRoot records at most its own request, never lowers a count, and lets *)
(* the handler go on only when the request is on record.                      *)
LEMMA RetainedOne ==
    ASSUME PlatformInv, NEW s \in Slots, NEW kind \in {"create", "commit"},
           slot[s].who \in Identities \cup OpIds, slot[s].hash \in Hashes,
           NEW to \in CreateSteps \cup CommitSteps,
           Retained(s, kind, to), stored' = stored
    PROVE  /\ requests \subseteq requests' /\ requests' \subseteq Request
           /\ count' \in [Hashes -> Nat] /\ ReferencesInv'
           /\ slot' \in [Slots -> HandlerType]
           /\ \A u \in Slots \ {s} : slot'[u] = slot[u]
           /\ \/ slot'[s].at = "idle"
              \/ /\ slot'[s].at = to /\ slot'[s].who = slot[s].who
                 /\ slot'[s].base = slot[s].base /\ slot'[s].hash = slot[s].hash
                 /\ RequestOf(s, kind) \in requests'
<1> DEFINE r == RequestOf(s, kind)
           h == slot[s].hash
<1>1. /\ slot \in [Slots -> HandlerType] /\ requests \subseteq Request /\ count \in [Hashes -> Nat]
      /\ ReferencesInv
  BY DEF PlatformInv, PlatformTypeOK, HandlerType
<1>2. r \in Request /\ r.hash = h
  BY <1>1 DEF Request, RequestOf, HandlerType
<1>3. CASE r \in requests
  <2>1. Moved(s, to) /\ UNCHANGED <<requests, count>>
    BY <1>3 DEF Retained
  <2>2. ReferencesInv'
    BY <1>1, <2>1 DEF ReferencesInv
  <2>3. QED
    BY <1>1, <1>3, <2>1, <2>2, MovedOne
<1>4. CASE r \notin requests /\ h \in stored
  <2>1. /\ requests' = requests \cup {r}
        /\ count' = [count EXCEPT ![h] = @ + 1]
        /\ Moved(s, to)
    BY <1>4 DEF Retained
  <2>2. count' \in [Hashes -> Nat] /\ \A g \in Hashes : count'[g] >= count[g] /\ (g # h => count'[g] = count[g])
    BY <1>1, <2>1
  <2>3. count'[h] >= 1
    BY <1>1, <2>1
  <2>4. \A q \in requests' : count'[q.hash] >= 1
    <3> SUFFICES ASSUME NEW q \in requests'
                 PROVE  count'[q.hash] >= 1
      OBVIOUS
    <3>1. CASE q = r
      BY <3>1, <1>2, <2>3
    <3>2. CASE q \in requests
      <4>1. q.hash \in Hashes /\ count[q.hash] >= 1
        BY <3>2, <1>1 DEF ReferencesInv, Request
      <4>2. QED
        BY <4>1, <2>2, <1>1
    <3>3. QED
      BY <3>1, <3>2, <2>1
  <2>5. \A g \in Hashes : count'[g] >= 1 => g \in stored'
    BY <1>1, <1>4, <2>2 DEF ReferencesInv
  <2>6. ReferencesInv'
    BY <2>4, <2>5 DEF ReferencesInv
  <2>7. QED
    BY <1>1, <1>2, <2>1, <2>2, <2>6, MovedOne
<1>5. CASE r \notin requests /\ h \notin stored
  <2>1. Ended(s) /\ UNCHANGED <<requests, count>>
    BY <1>5 DEF Retained
  <2>2. ReferencesInv'
    BY <1>1, <2>1 DEF ReferencesInv
  <2>3. QED
    BY <1>1, <2>1, <2>2, EndedOne
<1>6. QED
  BY <1>3, <1>4, <1>5

--------------------------------------------------------------------------------
(* The invariant, step by step *)

(* The tables of the object. *)
Tables ==
    /\ identity \in Identities \cup {None} /\ head \in Nat
    /\ identity = None <=> head = 0
    /\ versions \in [1 .. head -> Hashes]
    /\ creation \in [identity : Identities, hash : Hashes] \cup {NoCreation}
    /\ DOMAIN intents \subseteq OpIds /\ \A o \in DOMAIN intents : intents[o] \in Intent
    /\ identity = None => DOMAIN intents = {}
    /\ PendingOnHead

(* The CAS. *)
Cas == stored \subseteq Hashes /\ requests \subseteq Request /\ count \in [Hashes -> Nat] /\ ReferencesInv

(* PlatformInv, split into tables, CAS and handlers. *)
LEMMA InvParts ==
    PlatformInv <=> Tables /\ Cas /\ slot \in [Slots -> HandlerType] /\ \A s \in Slots : HandlerInv(s)
BY DEF PlatformInv, PlatformTypeOK, Tables, Cas, HandlerType

(* The same split after a step. *)
LEMMA InvPartsNext ==
    PlatformInv' <=> Tables' /\ Cas' /\ slot' \in [Slots -> HandlerType] /\ \A s \in Slots : HandlerInv(s)'
BY DEF PlatformInv, PlatformTypeOK, Tables, Cas, HandlerType

(* A step of one handler that leaves the tables and the CAS in order and      *)
(* takes nothing away keeps the invariant.                                    *)
LEMMA StepKeeps ==
    ASSUME PlatformInv, NEW s \in Slots, OnlyMore, Tables', Cas',
           slot' \in [Slots -> HandlerType], \A u \in Slots \ {s} : slot'[u] = slot[u],
           HandlerInv(s)'
    PROVE  PlatformInv'
<1>1. \A u \in Slots \ {s} : HandlerInv(u)'
  BY OthersKept
<1>2. \A u \in Slots : HandlerInv(u)'
  BY <1>1
<1>3. QED
  BY <1>2, InvPartsNext

(* A step that leaves the object alone keeps its tables in order. *)
LEMMA TablesKept ==
    ASSUME PlatformInv, UNCHANGED object
    PROVE  Tables' /\ (requests \subseteq requests' => OnlyMore)
BY InvParts DEF Tables, object, PendingOnHead, InState, OnlyMore

(* A step that leaves the CAS alone keeps it in order. *)
LEMMA CasKept ==
    ASSUME PlatformInv, UNCHANGED cas
    PROVE  Cas' /\ requests \subseteq requests'
BY InvParts DEF Cas, cas, ReferencesInv

(* New content in the CAS leaves requests and counts alone. *)
LEMMA CasGrows ==
    ASSUME PlatformInv, NEW h \in Hashes, stored' = stored \cup {h}, UNCHANGED <<requests, count>>
    PROVE  Cas' /\ requests \subseteq requests'
BY InvParts DEF Cas, ReferencesInv

(* A creation starts with its content in the CAS. *)
LEMMA BeginCreateKeeps ==
    ASSUME PlatformInv, NEW s \in Slots, NEW id \in Identities, NEW h \in Hashes, BeginCreate(s, id, h)
    PROVE  PlatformInv'
<1>1. Tables' /\ OnlyMore /\ Cas'
  BY TablesKept, CasGrows DEF BeginCreate
<1>2. slot \in [Slots -> HandlerType]
  BY InvParts
<1>3. /\ slot' \in [Slots -> HandlerType] /\ \A u \in Slots \ {s} : slot'[u] = slot[u]
      /\ slot'[s] = [at |-> "create", who |-> id, base |-> 0, hash |-> h]
  BY <1>2 DEF BeginCreate, HandlerType, CreateSteps
<1>4. HandlerInv(s)'
  BY <1>3 DEF HandlerInv, CreateSteps, CommitSteps
<1>5. QED
  BY <1>1, <1>3, <1>4, StepKeeps

(* beginCreate records a creation or lets the same one go on. *)
LEMMA RegisterCreationKeeps ==
    ASSUME PlatformInv, NEW s \in Slots, RegisterCreation(s)
    PROVE  PlatformInv'
<1>1. slot \in [Slots -> HandlerType] /\ HandlerInv(s) /\ Tables
  BY InvParts
<1>2. slot[s].at = "create" /\ slot[s].who \in Identities /\ slot[s].hash \in Hashes
  BY <1>1 DEF RegisterCreation, At, HandlerInv, CreateSteps
<1>3. Cas' /\ requests \subseteq requests' /\ UNCHANGED <<identity, head, versions, intents>>
  BY CasKept DEF RegisterCreation
<1>4. creation' \in {creation, [identity |-> slot[s].who, hash |-> slot[s].hash]}
  BY DEF RegisterCreation
<1>5. Tables' /\ OnlyMore
  BY <1>1, <1>2, <1>3, <1>4 DEF Tables, PendingOnHead, InState, OnlyMore
<1>6. Ended(s) \/ Moved(s, "retainCreation")
  BY DEF RegisterCreation
<1>7. CASE Ended(s)
  BY <1>1, <1>3, <1>5, <1>7, EndedOne, IdleRelies, StepKeeps
<1>8. CASE Moved(s, "retainCreation")
  <2>1. /\ slot' \in [Slots -> HandlerType] /\ \A u \in Slots \ {s} : slot'[u] = slot[u]
        /\ slot'[s].at = "retainCreation" /\ slot'[s].who = slot[s].who /\ slot'[s].hash = slot[s].hash
    BY <1>1, <1>8, MovedOne DEF CreateSteps
  <2>2. HandlerInv(s)'
    BY <1>2, <2>1 DEF HandlerInv, CreateSteps, CommitSteps
  <2>3. QED
    BY <1>3, <1>5, <2>1, <2>2, StepKeeps
<1>9. QED
  BY <1>6, <1>7, <1>8

(* The first version is retained before createRetained. *)
LEMMA RetainCreationKeeps ==
    ASSUME PlatformInv, NEW s \in Slots, RetainCreation(s)
    PROVE  PlatformInv'
<1>1. slot \in [Slots -> HandlerType] /\ HandlerInv(s) /\ Cas
  BY InvParts
<1>2. slot[s].at = "retainCreation" /\ slot[s].who \in Identities /\ slot[s].hash \in Hashes
  BY <1>1 DEF RetainCreation, At, HandlerInv, CreateSteps
<1>3. Retained(s, "create", "finishCreation") /\ UNCHANGED object /\ stored' = stored
  BY DEF RetainCreation
<1>4. /\ requests \subseteq requests' /\ requests' \subseteq Request
      /\ count' \in [Hashes -> Nat] /\ ReferencesInv'
      /\ slot' \in [Slots -> HandlerType]
      /\ \A u \in Slots \ {s} : slot'[u] = slot[u]
      /\ \/ slot'[s].at = "idle"
         \/ /\ slot'[s].at = "finishCreation" /\ slot'[s].who = slot[s].who
            /\ slot'[s].base = slot[s].base /\ slot'[s].hash = slot[s].hash
            /\ RequestOf(s, "create") \in requests'
  BY <1>2, <1>3, RetainedOne DEF CreateSteps
<1>5. Tables' /\ OnlyMore /\ Cas'
  BY <1>1, <1>3, <1>4, TablesKept DEF Cas
<1>6. HandlerInv(s)'
  <2>1. CASE slot'[s].at = "idle"
    BY <2>1, IdleRelies
  <2>2. CASE slot'[s].at = "finishCreation"
    <3>1. RequestOf(s, "create")' = RequestOf(s, "create") /\ RequestOf(s, "create") \in requests'
      BY <1>4, <2>2 DEF RequestOf
    <3>2. QED
      BY <1>2, <1>4, <2>2, <3>1 DEF HandlerInv, CreateSteps, CommitSteps
  <2>3. QED
    BY <1>4, <2>1, <2>2
<1>7. QED
  BY <1>4, <1>5, <1>6, StepKeeps

(* createRetained starts the version table; no intent can be on record yet. *)
LEMMA CreateRetainedKeeps ==
    ASSUME PlatformInv, NEW s \in Slots, CreateRetained(s)
    PROVE  PlatformInv'
<1>1. slot \in [Slots -> HandlerType] /\ HandlerInv(s) /\ Tables
  BY InvParts
<1>2. slot[s].who \in Identities /\ slot[s].hash \in Hashes
  BY <1>1 DEF CreateRetained, At, HandlerInv, CreateSteps
<1>3. Cas' /\ requests \subseteq requests' /\ Ended(s) /\ intents' = intents
  BY CasKept DEF CreateRetained
<1>4. Tables' /\ OnlyMore
  <2>1. CASE UNCHANGED <<identity, head, versions, creation>>
    BY <1>3, <2>1, TablesKept DEF object
  <2>2. CASE ~UNCHANGED <<identity, head, versions, creation>>
    <3>1. /\ identity = None /\ identity' = slot[s].who /\ head' = 1
          /\ versions' = <<slot[s].hash>> /\ creation' = NoCreation
      BY <2>2 DEF CreateRetained
    <3>2. DOMAIN intents' = {} /\ InState("pending")' = {}
      BY <1>1, <1>3, <3>1 DEF Tables, InState
    <3>3. PendingOnHead' /\ identity' # None /\ identity' \in Identities
      BY <1>2, <3>1, <3>2, PlatformAssumption DEF PendingOnHead
    <3>4. versions' \in [1 .. head' -> Hashes]
      BY <1>2, <3>1
    <3>5. Tables'
      BY <1>1, <3>1, <3>2, <3>3, <3>4 DEF Tables
    <3>6. OnlyMore
      BY <1>1, <1>3, <3>1, <3>2, <3>3 DEF OnlyMore, Tables
    <3>7. QED
      BY <3>5, <3>6
  <2>3. QED
    BY <2>1, <2>2
<1>5. QED
  BY <1>1, <1>3, <1>4, EndedOne, IdleRelies, StepKeeps

(* A commit starts only on a document that exists. *)
LEMMA CommitStatusKeeps ==
    ASSUME PlatformInv, NEW s \in Slots, NEW o \in OpIds, NEW base \in 1 .. MaxVersion - 1,
           CommitStatus(s, o, base)
    PROVE  PlatformInv'
<1>1. Tables' /\ OnlyMore /\ Cas'
  BY TablesKept, CasKept DEF CommitStatus
<1>2. slot \in [Slots -> HandlerType] /\ base \in Nat /\ identity # None /\ identity' = identity
  BY InvParts, PlatformAssumption DEF CommitStatus, object
<1> DEFINE q == [Idle EXCEPT !.at = IF o \in DOMAIN intents THEN "resume" ELSE "capture",
                            !.who = o, !.base = base]
<1>3. q \in HandlerType /\ q.at \in {"resume", "capture"} /\ q.who = o
  BY <1>2 DEF Idle, HandlerType, CommitSteps
<1>4. slot' = [slot EXCEPT ![s] = q]
  BY DEF CommitStatus
<1> HIDE DEF q
<1>5. /\ slot' \in [Slots -> HandlerType] /\ \A u \in Slots \ {s} : slot'[u] = slot[u]
      /\ slot'[s].at \in {"resume", "capture"} /\ slot'[s].who = o
  BY <1>2, <1>3, <1>4
<1>6. HandlerInv(s)'
  BY <1>2, <1>5 DEF HandlerInv, CreateSteps, CommitSteps
<1>7. QED
  BY <1>1, <1>5, <1>6, StepKeeps

(* A snapshot is stored before its intent is registered. *)
LEMMA CaptureKeeps ==
    ASSUME PlatformInv, NEW s \in Slots, NEW h \in Hashes, Capture(s, h)
    PROVE  PlatformInv'
<1>1. Tables' /\ OnlyMore /\ Cas' /\ identity' = identity
  BY TablesKept, CasGrows DEF Capture, object
<1>2. slot \in [Slots -> HandlerType] /\ HandlerInv(s)
  BY InvParts
<1>3. slot[s].who \in OpIds /\ identity # None
  BY <1>2 DEF Capture, At, HandlerInv, CommitSteps
<1>4. /\ slot' \in [Slots -> HandlerType] /\ \A u \in Slots \ {s} : slot'[u] = slot[u]
      /\ slot'[s].at = "begin" /\ slot'[s].who = slot[s].who /\ slot'[s].hash = h
  BY <1>2 DEF Capture, HandlerType, CommitSteps
<1>5. HandlerInv(s)'
  BY <1>1, <1>3, <1>4 DEF HandlerInv, CreateSteps, CommitSteps
<1>6. QED
  BY <1>1, <1>4, <1>5, StepKeeps

(* beginCommit adds one intent at most; a pending one starts on the head and  *)
(* finds no other.                                                            *)
LEMMA BeginCommitKeeps ==
    ASSUME PlatformInv, NEW s \in Slots, BeginCommit(s)
    PROVE  PlatformInv'
<1> DEFINE o == slot[s].who
           i == [base |-> slot[s].base, hash |-> slot[s].hash,
                 state |-> IF slot[s].base = head THEN "pending" ELSE "rejected"]
<1>1. slot \in [Slots -> HandlerType] /\ HandlerInv(s) /\ Tables
  BY InvParts
<1>2. o \in OpIds /\ slot[s].hash \in Hashes /\ slot[s].base \in Nat /\ identity # None
  BY <1>1 DEF BeginCommit, At, HandlerInv, CommitSteps, HandlerType
<1>3. Cas' /\ requests \subseteq requests' /\ UNCHANGED <<identity, head, versions, creation>>
  BY CasKept DEF BeginCommit
<1>4. Registered(s)
  BY DEF BeginCommit
<1>5. Tables' /\ OnlyMore
  <2>1. CASE UNCHANGED intents
    BY <1>3, <2>1, TablesKept DEF object
  <2>2. CASE ~UNCHANGED intents
    <3>1. /\ o \notin DOMAIN intents /\ (i.state = "pending" => NoPending)
          /\ intents' = [p \in DOMAIN intents \cup {o} |-> IF p = o THEN i ELSE intents[p]]
      BY <1>4, <2>2 DEF Registered
    <3>2. /\ i \in Intent /\ i.base = slot[s].base /\ i.hash = slot[s].hash
          /\ i.state = "pending" => i.base = head
      BY <1>2 DEF Intent
    <3> HIDE DEF o, i
    <3>3. /\ DOMAIN intents' = DOMAIN intents \cup {o} /\ intents'[o] = i
          /\ \A p \in DOMAIN intents : intents'[p] = intents[p]
      BY <3>1
    <3>4. DOMAIN intents' \subseteq OpIds /\ \A p \in DOMAIN intents' : intents'[p] \in Intent
      BY <1>1, <1>2, <3>2, <3>3 DEF Tables
    <3>5. PendingOnHead'
      <4>1. \A p \in InState("pending")' : p \in InState("pending") \/ (p = o /\ i.state = "pending")
        BY <3>3 DEF InState
      <4>2. i.state = "pending" => InState("pending") = {}
        BY <3>1 DEF NoPending
      <4>3. \A p, q \in InState("pending")' : p = q
        BY <1>1, <4>1, <4>2 DEF Tables, PendingOnHead
      <4>4. \A p \in InState("pending")' : intents'[p].base = head'
        <5> SUFFICES ASSUME NEW p \in InState("pending")'
                     PROVE  intents'[p].base = head'
          OBVIOUS
        <5>1. CASE p \in InState("pending")
          BY <1>1, <1>3, <3>3, <5>1 DEF Tables, PendingOnHead, InState
        <5>2. CASE p = o /\ i.state = "pending"
          BY <1>3, <3>2, <3>3, <5>2
        <5>3. QED
          BY <4>1, <5>1, <5>2
      <4>5. QED
        BY <4>3, <4>4 DEF PendingOnHead
    <3>6. Tables'
      BY <1>1, <1>2, <1>3, <3>4, <3>5 DEF Tables
    <3>7. OnlyMore
      BY <1>3, <3>3 DEF OnlyMore
    <3>8. QED
      BY <3>6, <3>7
  <2>3. QED
    BY <2>1, <2>2
<1>6. Ended(s) \/ Moved(s, "resume")
  BY <1>4 DEF Registered
<1>7. CASE Ended(s)
  BY <1>1, <1>3, <1>5, <1>7, EndedOne, IdleRelies, StepKeeps
<1>8. CASE Moved(s, "resume")
  <2>1. /\ slot' \in [Slots -> HandlerType] /\ \A u \in Slots \ {s} : slot'[u] = slot[u]
        /\ slot'[s].at = "resume" /\ slot'[s].who = slot[s].who
    BY <1>1, <1>8, MovedOne DEF CommitSteps
  <2>2. HandlerInv(s)'
    BY <1>2, <1>3, <2>1 DEF HandlerInv, CreateSteps, CommitSteps
  <2>3. QED
    BY <1>3, <1>5, <2>1, <2>2, StepKeeps
<1>9. QED
  BY <1>6, <1>7, <1>8

(* pendingCommit takes base and state from the intent. *)
LEMMA PendingCommitKeeps ==
    ASSUME PlatformInv, NEW s \in Slots, PendingCommit(s)
    PROVE  PlatformInv'
<1> DEFINE o == slot[s].who
<1>1. Tables' /\ OnlyMore /\ Cas' /\ identity' = identity /\ intents' = intents
  BY TablesKept, CasKept DEF PendingCommit, object
<1>2. slot \in [Slots -> HandlerType] /\ HandlerInv(s) /\ Tables
  BY InvParts
<1>3. o \in OpIds /\ identity # None
  BY <1>2 DEF PendingCommit, At, HandlerInv, CommitSteps
<1>4. CASE o \in InState("pending")
  <2> DEFINE q == [at |-> "retain", who |-> o, base |-> intents[o].base, hash |-> intents[o].hash]
  <2>1. o \in DOMAIN intents /\ intents[o] \in Intent
    BY <1>2, <1>4 DEF InState, Tables
  <2>2. /\ q \in HandlerType /\ q.at = "retain" /\ q.who = o /\ q.hash \in Hashes
        /\ intents[o].base = q.base /\ intents[o].hash = q.hash
    BY <1>3, <2>1 DEF Intent, HandlerType, CommitSteps
  <2>3. slot' = [slot EXCEPT ![s] = q]
    BY <1>4 DEF PendingCommit
  <2> HIDE DEF q
  <2>4. /\ slot' \in [Slots -> HandlerType] /\ \A u \in Slots \ {s} : slot'[u] = slot[u]
        /\ slot'[s] = q
    BY <1>2, <2>2, <2>3
  <2>5. HandlerInv(s)'
    BY <1>1, <1>3, <2>1, <2>2, <2>4 DEF HandlerInv, CreateSteps, CommitSteps
  <2>6. QED
    BY <1>1, <2>4, <2>5, StepKeeps
<1>5. CASE o \notin InState("pending")
  <2>1. Ended(s)
    BY <1>5 DEF PendingCommit
  <2>2. QED
    BY <1>1, <1>2, <2>1, EndedOne, IdleRelies, StepKeeps
<1>6. QED
  BY <1>4, <1>5

(* The state of the candidate is retained under the intent's request id. *)
LEMMA RetainCandidateKeeps ==
    ASSUME PlatformInv, NEW s \in Slots, RetainCandidate(s)
    PROVE  PlatformInv'
<1>1. slot \in [Slots -> HandlerType] /\ HandlerInv(s) /\ Cas
  BY InvParts
<1>2. /\ slot[s].who \in OpIds /\ slot[s].hash \in Hashes /\ identity # None
      /\ slot[s].who \in DOMAIN intents /\ intents[slot[s].who].base = slot[s].base
      /\ intents[slot[s].who].hash = slot[s].hash
  BY <1>1 DEF RetainCandidate, At, HandlerInv, CommitSteps
<1>3. Retained(s, "commit", "commit") /\ UNCHANGED object /\ stored' = stored
  BY DEF RetainCandidate
<1>4. /\ requests \subseteq requests' /\ requests' \subseteq Request
      /\ count' \in [Hashes -> Nat] /\ ReferencesInv'
      /\ slot' \in [Slots -> HandlerType]
      /\ \A u \in Slots \ {s} : slot'[u] = slot[u]
      /\ \/ slot'[s].at = "idle"
         \/ /\ slot'[s].at = "commit" /\ slot'[s].who = slot[s].who
            /\ slot'[s].base = slot[s].base /\ slot'[s].hash = slot[s].hash
            /\ RequestOf(s, "commit") \in requests'
  BY <1>2, <1>3, RetainedOne DEF CommitSteps
<1>5. Tables' /\ OnlyMore /\ Cas' /\ identity' = identity /\ intents' = intents
  BY <1>1, <1>3, <1>4, TablesKept DEF Cas, object
<1>6. HandlerInv(s)'
  <2>1. CASE slot'[s].at = "idle"
    BY <2>1, IdleRelies
  <2>2. CASE slot'[s].at = "commit"
    <3>1. RequestOf(s, "commit")' = RequestOf(s, "commit") /\ RequestOf(s, "commit") \in requests'
      BY <1>4, <2>2 DEF RequestOf
    <3>2. /\ slot'[s].who = slot[s].who /\ slot'[s].base = slot[s].base /\ slot'[s].hash = slot[s].hash
      BY <1>4, <2>2
    <3>3. QED
      BY <1>2, <1>5, <2>2, <3>1, <3>2 DEF HandlerInv, CreateSteps, CommitSteps
  <2>3. QED
    BY <1>4, <2>1, <2>2
<1>7. QED
  BY <1>4, <1>5, <1>6, StepKeeps

(* commitRetained ends the only pending intent, so the head may move. *)
LEMMA CommitRetainedKeeps ==
    ASSUME PlatformInv, NEW s \in Slots, CommitRetained(s)
    PROVE  PlatformInv'
<1> DEFINE o == slot[s].who
<1>1. slot \in [Slots -> HandlerType] /\ Tables
  BY InvParts
<1>2. Cas' /\ requests \subseteq requests' /\ Ended(s) /\ UNCHANGED <<identity, creation>>
  BY CasKept DEF CommitRetained
<1>3. Tables' /\ OnlyMore
  <2>1. CASE ~Committable(o)
    <3>1. UNCHANGED object
      BY <1>2, <2>1 DEF CommitRetained, object
    <3>2. QED
      BY <1>2, <3>1, TablesKept
  <2>2. CASE Committable(o)
    <3>1. /\ head' = head + 1
          /\ versions' = [v \in 1 .. head + 1 |-> IF v = head + 1 THEN intents[o].hash ELSE versions[v]]
          /\ intents' = [intents EXCEPT ![o].state = "committed"]
      BY <2>2 DEF CommitRetained
    <3>2. o \in DOMAIN intents /\ o \in InState("pending") /\ intents[o] \in Intent
      BY <1>1, <2>2 DEF Committable, InState, Tables
    <3>3. /\ DOMAIN intents' = DOMAIN intents
          /\ intents'[o] \in Intent /\ intents'[o].state = "committed"
          /\ intents'[o].base = intents[o].base /\ intents'[o].hash = intents[o].hash
          /\ \A p \in DOMAIN intents \ {o} : intents'[p] = intents[p]
      BY <3>1, <3>2 DEF Intent
    <3>4. InState("pending")' = {}
      <4> SUFFICES ASSUME NEW p \in InState("pending")'
                   PROVE  FALSE
        OBVIOUS
      <4>1. p # o /\ p \in InState("pending")
        BY <3>3 DEF InState
      <4>2. QED
        BY <1>1, <3>2, <4>1 DEF Tables, PendingOnHead
    <3>5. PendingOnHead'
      BY <3>4 DEF PendingOnHead
    <3>6. head' \in Nat /\ head' # 0 /\ head \in Nat /\ head # 0 /\ identity # None
      BY <1>1, <3>1, <3>2 DEF Tables
    <3>7. versions' \in [1 .. head' -> Hashes]
      BY <1>1, <3>1, <3>2, <3>6 DEF Tables, Intent
    <3>8. Tables'
      BY <1>1, <1>2, <3>3, <3>5, <3>6, <3>7 DEF Tables
    <3>9. OnlyMore
      BY <1>2, <3>3 DEF OnlyMore
    <3>10. QED
      BY <3>8, <3>9
  <2>3. QED
    BY <2>1, <2>2
<1>4. QED
  BY <1>1, <1>2, <1>3, EndedOne, IdleRelies, StepKeeps

(* A handler that is lost leaves everything else as it is. *)
LEMMA FailKeeps ==
    ASSUME PlatformInv, NEW s \in Slots, Fail(s)
    PROVE  PlatformInv'
<1>1. Tables' /\ OnlyMore /\ Cas' /\ Ended(s)
  BY TablesKept, CasKept DEF Fail
<1>2. slot \in [Slots -> HandlerType]
  BY InvParts
<1>3. QED
  BY <1>1, <1>2, EndedOne, IdleRelies, StepKeeps

(* A collection takes only what has no reference. *)
LEMMA CollectKeeps ==
    ASSUME PlatformInv, NEW h \in Hashes, Collect(h)
    PROVE  PlatformInv'
<1>1. UNCHANGED object /\ UNCHANGED <<requests, count, slot>> /\ count[h] = 0 /\ stored' = stored \ {h}
  BY DEF Collect
<1>2. Tables'
  BY <1>1, TablesKept
<1>3. Cas'
  BY <1>1, InvParts DEF Cas, ReferencesInv
<1>4. \A s \in Slots : HandlerInv(s)'
  BY <1>1, InvParts DEF HandlerInv, RequestOf, object
<1>5. slot' \in [Slots -> HandlerType]
  BY <1>1, InvParts
<1>6. QED
  BY <1>2, <1>3, <1>4, <1>5, InvPartsNext

(* Every step keeps PlatformInv. *)
LEMMA PlatformStep ==
    ASSUME PlatformInv, [Next]_vars
    PROVE  PlatformInv'
<1>1. ASSUME NEW s \in Slots, Create(s) PROVE PlatformInv'
  BY <1>1, BeginCreateKeeps, RegisterCreationKeeps, RetainCreationKeeps, CreateRetainedKeeps DEF Create
<1>2. ASSUME NEW s \in Slots, Commit(s) PROVE PlatformInv'
  BY <1>2, CommitStatusKeeps, CaptureKeeps, BeginCommitKeeps, PendingCommitKeeps, RetainCandidateKeeps,
       CommitRetainedKeeps DEF Commit
<1>3. CASE UNCHANGED vars
  <2>1. Tables' /\ Cas' /\ UNCHANGED <<object, requests, slot>>
    BY <1>3, TablesKept, CasKept DEF vars, cas
  <2>2. \A s \in Slots : HandlerInv(s)'
    BY <2>1, InvParts DEF HandlerInv, RequestOf, object
  <2>3. QED
    BY <2>1, <2>2, InvParts, InvPartsNext
<1>4. QED
  BY <1>1, <1>2, <1>3, FailKeeps, CollectKeeps DEF Next

--------------------------------------------------------------------------------
(* The theorems *)

(* PlatformInv holds in every reachable state: types, at most one pending     *)
(* intent and it is for the next version, every request on record counted,    *)
(* everything counted in the CAS, and no handler at its last step before the  *)
(* retention (beginCommit, resumePlatformCommit, commitRetained).             *)
THEOREM PlatformCorrect == Spec => []PlatformInv
<1>1. Init => PlatformInv
  <2> SUFFICES ASSUME Init PROVE PlatformInv
    OBVIOUS
  <2>1. Tables
    BY DEF Init, Tables, PendingOnHead, InState
  <2>2. Cas
    BY DEF Init, Cas, ReferencesInv
  <2>3. slot \in [Slots -> HandlerType] /\ \A s \in Slots : slot[s].at = "idle"
    BY DEF Init, Idle, HandlerType
  <2>4. \A s \in Slots : HandlerInv(s)
    BY <2>3 DEF HandlerInv, CreateSteps, CommitSteps
  <2>5. QED
    BY <2>1, <2>2, <2>3, <2>4, InvParts
<1>2. PlatformInv /\ [Next]_vars => PlatformInv'
  BY PlatformStep
<1>3. QED
  BY <1>1, <1>2, PTL DEF Spec

--------------------------------------------------------------------------------
(* What one step may do to versions, receipts and references *)

(* createRetained, as far as versions and receipts go. *)
Created ==
    /\ head = 0 /\ head' = 1 /\ intents' = intents
    /\ \E h \in Hashes : versions' = <<h>> /\ count[h] >= 1

(* commitRetained. *)
Committed(o) ==
    /\ o \in InState("pending") /\ intents[o].base = head /\ count[intents[o].hash] >= 1
    /\ head' = head + 1
    /\ versions' = [v \in 1 .. head + 1 |-> IF v = head + 1 THEN intents[o].hash ELSE versions[v]]
    /\ intents' = [intents EXCEPT ![o].state = "committed"]

(* beginCommit. *)
Added(o) ==
    /\ o \notin DOMAIN intents /\ UNCHANGED <<head, versions>>
    /\ DOMAIN intents' = DOMAIN intents \cup {o} /\ intents'[o].state # "committed"
    /\ \A p \in DOMAIN intents : intents'[p] = intents[p]

(* createRetained and commitRetained run only after the retention, so a       *)
(* version is added only when its state has a reference.                      *)
LEMMA TableStep ==
    ASSUME PlatformInv, [Next]_vars
    PROVE  \/ UNCHANGED <<head, versions, intents>>
           \/ Created
           \/ \E o \in OpIds : Committed(o) \/ Added(o)
<1>1. Cas /\ Tables /\ \A s \in Slots : HandlerInv(s)
  BY InvParts
<1>2. ASSUME NEW s \in Slots, CreateRetained(s)
      PROVE  UNCHANGED <<head, versions, intents>> \/ Created
  <2> SUFFICES ASSUME ~UNCHANGED <<head, versions, intents>> PROVE Created
    OBVIOUS
  <2>1. /\ identity = None /\ head' = 1 /\ versions' = <<slot[s].hash>> /\ intents' = intents
        /\ slot[s].at = "finishCreation"
    BY <1>2 DEF CreateRetained, At
  <2>2. slot[s].hash \in Hashes /\ RequestOf(s, "create") \in requests
    BY <1>1, <2>1 DEF HandlerInv, CreateSteps
  <2>3. count[slot[s].hash] >= 1
    BY <1>1, <2>2 DEF Cas, ReferencesInv, RequestOf
  <2>4. QED
    BY <1>1, <2>1, <2>2, <2>3 DEF Created, Tables
<1>3. ASSUME NEW s \in Slots, CommitRetained(s)
      PROVE  UNCHANGED <<head, versions, intents>> \/ \E o \in OpIds : Committed(o)
  <2> DEFINE o == slot[s].who
  <2>1. CASE Committable(o)
    <3>1. /\ slot[s].at = "commit" /\ o \in InState("pending") /\ intents[o].base = head /\ head' = head + 1
          /\ versions' = [v \in 1 .. head + 1 |-> IF v = head + 1 THEN intents[o].hash ELSE versions[v]]
          /\ intents' = [intents EXCEPT ![o].state = "committed"]
      BY <1>3, <2>1 DEF CommitRetained, At, Committable
    <3>2. o \in OpIds /\ intents[o].hash = slot[s].hash /\ RequestOf(s, "commit") \in requests
      BY <1>1, <3>1 DEF HandlerInv, CommitSteps
    <3>3. count[slot[s].hash] >= 1
      BY <1>1, <3>2 DEF Cas, ReferencesInv, RequestOf
    <3>4. Committed(o)
      BY <3>1, <3>2, <3>3 DEF Committed
    <3>5. QED
      BY <3>2, <3>4
  <2>2. CASE ~Committable(o)
    BY <1>3, <2>2 DEF CommitRetained
  <2>3. QED
    BY <2>1, <2>2
<1>4. ASSUME NEW s \in Slots, BeginCommit(s)
      PROVE  UNCHANGED <<head, versions, intents>> \/ \E o \in OpIds : Added(o)
  <2> DEFINE o == slot[s].who
             i == [base |-> slot[s].base, hash |-> slot[s].hash,
                   state |-> IF slot[s].base = head THEN "pending" ELSE "rejected"]
  <2> SUFFICES ASSUME ~UNCHANGED <<head, versions, intents>> PROVE \E p \in OpIds : Added(p)
    OBVIOUS
  <2>1. UNCHANGED <<head, versions>> /\ slot[s].at = "begin" /\ Registered(s)
    BY <1>4 DEF BeginCommit, At
  <2>2. /\ o \notin DOMAIN intents
        /\ intents' = [p \in DOMAIN intents \cup {o} |-> IF p = o THEN i ELSE intents[p]]
    BY <2>1 DEF Registered
  <2>3. i.state # "committed"
    OBVIOUS
  <2>4. o \in OpIds
    BY <1>1, <2>1 DEF HandlerInv, CommitSteps
  <2> HIDE DEF i
  <2>5. Added(o)
    BY <2>1, <2>2, <2>3 DEF Added
  <2>6. QED
    BY <2>4, <2>5
<1>5. ASSUME NEW s \in Slots, Create(s) \/ Commit(s) \/ Fail(s),
             ~CreateRetained(s), ~CommitRetained(s), ~BeginCommit(s)
      PROVE  UNCHANGED <<head, versions, intents>>
  BY <1>5 DEF Create, Commit, Fail, BeginCreate, RegisterCreation, RetainCreation, CommitStatus, Capture,
              PendingCommit, RetainCandidate, object
<1>6. ASSUME NEW h \in Hashes, Collect(h) PROVE UNCHANGED <<head, versions, intents>>
  BY <1>6 DEF Collect, object
<1>7. UNCHANGED vars => UNCHANGED <<head, versions, intents>>
  BY DEF vars, object
<1>8. QED
  BY <1>2, <1>3, <1>4, <1>5, <1>6, <1>7 DEF Next

(* retainRoot only ever adds a reference: nothing in this protocol releases   *)
(* one.                                                                       *)
LEMMA CountStep ==
    ASSUME PlatformInv, [Next]_vars
    PROVE  \A h \in Hashes : count'[h] >= count[h]
<1>1. count \in [Hashes -> Nat]
  BY DEF PlatformInv, PlatformTypeOK
<1>2. ASSUME NEW s \in Slots, NEW kind, NEW to, Retained(s, kind, to)
      PROVE  \A h \in Hashes : count'[h] >= count[h]
  <2>1. count' = count \/ count' = [count EXCEPT ![slot[s].hash] = @ + 1]
    BY <1>2 DEF Retained
  <2>2. QED
    BY <1>1, <2>1
<1>3. ASSUME NEW s \in Slots, RetainCreation(s) \/ RetainCandidate(s)
      PROVE  \A h \in Hashes : count'[h] >= count[h]
  BY <1>2, <1>3 DEF RetainCreation, RetainCandidate
<1>4. ASSUME NEW s \in Slots, Create(s) \/ Commit(s) \/ Fail(s), ~RetainCreation(s), ~RetainCandidate(s)
      PROVE  count' = count
  BY <1>4 DEF Create, Commit, Fail, BeginCreate, RegisterCreation, CreateRetained, CommitStatus, Capture,
              BeginCommit, PendingCommit, CommitRetained, cas
<1>5. ASSUME NEW h \in Hashes, Collect(h) PROVE count' = count
  BY <1>5 DEF Collect
<1>6. UNCHANGED vars => count' = count
  BY DEF vars, cas
<1>7. count' = count => \A h \in Hashes : count'[h] >= count[h]
  BY <1>1
<1>8. QED
  BY <1>3, <1>4, <1>5, <1>6, <1>7 DEF Next

(* A version that can be read can be opened, whatever was retried, given up   *)
(* or raced: its state has a reference and is in the CAS                      *)
(* (resumePlatformCommit retains before it commits).                          *)
THEOREM ReadableIsRetained == Spec => []VersionsRetained
<1> DEFINE Counted == \A v \in 1 .. head : versions[v] \in Hashes /\ count[versions[v]] >= 1
<1>1. Init => Counted
  BY DEF Init
<1>2. PlatformInv /\ Counted /\ [Next]_vars => Counted'
  <2> SUFFICES ASSUME PlatformInv, Counted, [Next]_vars, NEW v \in 1 .. head'
               PROVE  versions'[v] \in Hashes /\ count'[versions'[v]] >= 1
    OBVIOUS
  <2>1. /\ \A h \in Hashes : count[h] \in Nat /\ count'[h] \in Nat /\ count'[h] >= count[h]
        /\ head \in Nat
    <3>1. PlatformInv'
      BY PlatformStep
    <3>2. QED
      BY <3>1, CountStep DEF PlatformInv, PlatformTypeOK
  <2>2. versions'[v] \in Hashes /\ count[versions'[v]] >= 1
    <3>1. CASE UNCHANGED <<head, versions, intents>>
      BY <3>1
    <3>2. CASE Created
      BY <3>2 DEF Created
    <3>3. ASSUME NEW o \in OpIds, Committed(o) PROVE versions'[v] \in Hashes /\ count[versions'[v]] >= 1
      <4>1. intents[o].hash \in Hashes
        BY <3>3 DEF Committed, InState, PlatformInv, PlatformTypeOK, Intent
      <4>2. CASE v = head + 1
        BY <2>1, <3>3, <4>1, <4>2 DEF Committed
      <4>3. CASE v # head + 1
        <5>1. v \in 1 .. head /\ versions'[v] = versions[v]
          BY <2>1, <3>3, <4>3 DEF Committed
        <5>2. QED
          BY <5>1
      <4>4. QED
        BY <4>2, <4>3
    <3>4. ASSUME NEW o \in OpIds, Added(o) PROVE versions'[v] \in Hashes /\ count[versions'[v]] >= 1
      BY <3>4 DEF Added
    <3>5. QED
      BY <3>1, <3>2, <3>3, <3>4, TableStep
  <2>3. QED
    BY <2>1, <2>2
<1>3. PlatformInv /\ Counted => VersionsRetained
  BY DEF PlatformInv, ReferencesInv, VersionsRetained
<1> HIDE DEF Counted
<1>4. QED
  BY <1>1, <1>2, <1>3, PlatformCorrect, PTL DEF Spec

(* What a commit does to the intents and to the versions that were there. *)
LEMMA CommittedOne ==
    ASSUME PlatformInv, NEW o \in OpIds, Committed(o)
    PROVE  /\ head \in Nat /\ head # 0 /\ head' = head + 1 /\ versions'[head + 1] = intents[o].hash
           /\ \A v \in 1 .. head : versions'[v] = versions[v]
           /\ o \in DOMAIN intents /\ DOMAIN intents' = DOMAIN intents
           /\ intents'[o].state = "committed" /\ intents'[o].base = head /\ intents'[o].hash = intents[o].hash
           /\ \A p \in DOMAIN intents \ {o} : intents'[p] = intents[p]
           /\ InState("committed")' = InState("committed") \cup {o}
           /\ o \notin InState("committed") \cup InState("rejected")
<1>1. o \in DOMAIN intents /\ intents[o] \in Intent /\ intents[o].state = "pending" /\ head \in Nat
  BY DEF Committed, InState, PlatformInv, PlatformTypeOK
<1>2. head # 0
  BY <1>1 DEF PlatformInv, PlatformTypeOK
<1>3. /\ DOMAIN intents' = DOMAIN intents
      /\ intents'[o].state = "committed" /\ intents'[o].base = head /\ intents'[o].hash = intents[o].hash
      /\ \A p \in DOMAIN intents \ {o} : intents'[p] = intents[p]
  BY <1>1 DEF Committed, Intent
<1>4. /\ head' = head + 1 /\ versions'[head + 1] = intents[o].hash
      /\ \A v \in 1 .. head : versions'[v] = versions[v]
  BY <1>1 DEF Committed
<1>5. InState("committed")' = InState("committed") \cup {o}
  BY <1>1, <1>3 DEF InState
<1>6. o \notin InState("committed") \cup InState("rejected")
  BY <1>1 DEF InState
<1>7. QED
  BY <1>1, <1>2, <1>3, <1>4, <1>5, <1>6

(* A receipt never lies: a committed operation is the version after its base, *)
(* two operations never share a version, and no version but the first is      *)
(* without its operation (commitRetained writes version, head and receipt     *)
(* together, and only for the intent that started on the head).               *)
THEOREM ReceiptsNeverLie == Spec => []ReceiptsTrue
<1>1. Init => ReceiptsTrue
  BY DEF Init, ReceiptsTrue, InState
<1>2. PlatformInv /\ ReceiptsTrue /\ [Next]_vars => ReceiptsTrue'
  <2> SUFFICES ASSUME PlatformInv, ReceiptsTrue, [Next]_vars
               PROVE  ReceiptsTrue'
    OBVIOUS
  <2> USE DEF InState
  <2>0. /\ head \in Nat /\ (head = 0 => DOMAIN intents = {})
        /\ \A o \in DOMAIN intents : intents[o] \in Intent
    BY DEF PlatformInv, PlatformTypeOK
  <2>1. CASE UNCHANGED <<head, versions, intents>>
    BY <2>1 DEF ReceiptsTrue
  <2>2. CASE Created
    <3>1. head = 0 /\ head' = 1 /\ intents' = intents /\ DOMAIN intents = {}
      BY <2>0, <2>2 DEF Created
    <3>2. QED
      BY <3>1 DEF ReceiptsTrue
  <2>3. ASSUME NEW o \in OpIds, Added(o) PROVE ReceiptsTrue'
    <3>1. /\ UNCHANGED <<head, versions>> /\ InState("committed")' = InState("committed")
          /\ \A p \in InState("committed") : intents'[p] = intents[p]
      BY <2>3 DEF Added
    <3> USE DEF InState
    <3>2. QED
      BY <3>1 DEF ReceiptsTrue
  <2> HIDE DEF InState
  <2>4. ASSUME NEW o \in OpIds, Committed(o) PROVE ReceiptsTrue'
    <3> DEFINE C == InState("committed")
               Cn == InState("committed")'
    <3>1. /\ head \in Nat /\ head # 0 /\ head' = head + 1 /\ versions'[head + 1] = intents[o].hash
          /\ \A v \in 1 .. head : versions'[v] = versions[v]
          /\ intents'[o].base = head /\ intents'[o].hash = intents[o].hash
          /\ Cn = C \cup {o} /\ o \notin C
      BY <2>4, CommittedOne
    <3>2. \A p \in C : intents'[p] = intents[p] /\ intents[p].base \in Nat
      <4> SUFFICES ASSUME NEW p \in C PROVE intents'[p] = intents[p] /\ intents[p].base \in Nat
        OBVIOUS
      <4>1. p \in DOMAIN intents /\ p # o /\ intents[p] \in Intent
        BY <2>0, <3>1 DEF InState
      <4>2. QED
        BY <2>4, <4>1, CommittedOne DEF Intent
    <3>3. /\ \A p \in C : intents[p].base + 1 \in 1 .. head /\ versions[intents[p].base + 1] = intents[p].hash
          /\ \A p, q \in C : intents[p].base = intents[q].base => p = q
          /\ \A v \in 2 .. head : \E p \in C : intents[p].base = v - 1
      BY DEF ReceiptsTrue
    <3> HIDE DEF C, Cn
    <3>4. \A p \in Cn : intents'[p].base + 1 \in 1 .. head' /\ versions'[intents'[p].base + 1] = intents'[p].hash
      <4> SUFFICES ASSUME NEW p \in Cn
                   PROVE  intents'[p].base + 1 \in 1 .. head' /\ versions'[intents'[p].base + 1] = intents'[p].hash
        OBVIOUS
      <4>1. CASE p = o
        BY <3>1, <4>1
      <4>2. CASE p \in C
        <5>1. intents[p].base + 1 \in 1 .. head /\ versions[intents[p].base + 1] = intents[p].hash
          BY <3>3, <4>2
        <5>2. QED
          BY <3>1, <3>2, <4>2, <5>1
      <4>3. QED
        BY <3>1, <4>1, <4>2
    <3>5. \A p, q \in Cn : intents'[p].base = intents'[q].base => p = q
      <4>1. \A p \in C : intents'[p].base # intents'[o].base
        BY <3>1, <3>2, <3>3
      <4>2. \A p, q \in C : intents'[p].base = intents'[q].base => p = q
        BY <3>2, <3>3
      <4>3. QED
        BY <3>1, <4>1, <4>2
    <3>6. \A v \in 2 .. head' : \E p \in Cn : intents'[p].base = v - 1
      <4> SUFFICES ASSUME NEW v \in 2 .. head' PROVE \E p \in Cn : intents'[p].base = v - 1
        OBVIOUS
      <4>1. CASE v = head + 1
        BY <3>1, <4>1
      <4>2. CASE v \in 2 .. head
        BY <3>1, <3>2, <3>3, <4>2
      <4>3. QED
        BY <3>1, <4>1, <4>2
    <3>7. QED
      BY <3>4, <3>5, <3>6 DEF ReceiptsTrue, Cn
  <2>5. QED
    BY <2>1, <2>2, <2>3, <2>4, TableStep
<1>3. QED
  BY <1>1, <1>2, PlatformCorrect, PTL DEF Spec

(* The receipt of an operation is its row of the intents. *)
LEMMA ReceiptRow ==
    \A o \in OpIds :
        /\ o \in DOMAIN intents => /\ Receipts[o].state = intents[o].state
                                  /\ Receipts[o].base = intents[o].base
                                  /\ Receipts[o].row = intents[o].hash
        /\ o \notin DOMAIN intents => Receipts[o].state = "none"
BY DEF Receipts, Receipt, Unknown

(* An operation is undecided when its intent is pending. *)
LEMMA UndecidedIsPending ==
    ASSUME DOMAIN intents \subseteq OpIds
    PROVE  Promise!Undecided = InState("pending")
<1>1. \A o \in OpIds : Receipts[o].state = "pending" <=> o \in InState("pending")
  BY ReceiptRow DEF InState
<1>2. QED
  BY <1>1 DEF Promise!Undecided, InState

(* Every step is a step of the log of commits or changes nothing there. *)
LEMMA PromiseStep ==
    ASSUME PlatformInv, PlatformInv', [Next]_vars
    PROVE  Promise!AbsNext \/ UNCHANGED Promise!absVars
<1>1. /\ head \in Nat /\ DOMAIN versions = 1 .. head /\ DOMAIN intents \subseteq OpIds
      /\ \A o \in DOMAIN intents : intents[o] \in Intent
      /\ (head = 0 => DOMAIN intents = {})
  BY DEF PlatformInv, PlatformTypeOK
<1>2. Promise!Undecided = InState("pending")
  BY <1>1, UndecidedIsPending
<1>3. CASE UNCHANGED <<head, versions, intents>>
  BY <1>3 DEF Promise!absVars, Receipts, Receipt
<1>4. CASE Created
  <2>1. PICK h \in Hashes : versions' = <<h>>
    BY <1>4 DEF Created
  <2>2. head = 0 /\ intents' = intents
    BY <1>4 DEF Created
  <2>3. DOMAIN versions' = 1 .. 1 /\ 1 \in DOMAIN versions' /\ DOMAIN versions = 1 .. 1 - 1
    BY <1>1, <2>1, <2>2
  <2>4. Promise!Extends(1)
    BY <2>3 DEF Promise!Extends
  <2>5. InState("pending") = {}
    BY <1>1, <2>2 DEF InState
  <2>6. Receipts' = Receipts
    BY <2>2 DEF Receipts, Receipt
  <2>7. Promise!Write
    BY <1>2, <2>3, <2>4, <2>5, <2>6 DEF Promise!Write
  <2>8. QED
    BY <2>7 DEF Promise!AbsNext
<1>5. ASSUME NEW o \in OpIds, Added(o) PROVE Promise!AbsNext
  <2>1. /\ o \notin DOMAIN intents /\ UNCHANGED <<head, versions>>
        /\ DOMAIN intents' = DOMAIN intents \cup {o} /\ intents'[o].state # "committed"
        /\ \A p \in DOMAIN intents : intents'[p] = intents[p]
    BY <1>5 DEF Added
  <2>2. intents'[o].state \in {"pending", "rejected"}
    BY <2>1 DEF PlatformInv, PlatformTypeOK, Intent
  <2>3. Receipts[o].state = "none"
    BY <2>1, ReceiptRow
  <2>4. Receipts'[o].state = intents'[o].state
    BY <2>1 DEF Receipts, Receipt
  <2>5. Receipts' = [Receipts EXCEPT ![o] = Receipts'[o]]
    <3>1. ASSUME NEW p \in OpIds \ {o} PROVE Receipts'[p] = Receipts[p]
      BY <2>1, <3>1 DEF Receipts, Receipt
    <3>2. Receipts = [p \in OpIds |-> Receipts[p]] /\ Receipts' = [p \in OpIds |-> Receipts'[p]]
      BY DEF Receipts
    <3>3. QED
      BY <3>1, <3>2
  <2>6. intents'[o].state = "pending" => InState("pending") = {}
    <3>1. \A p, q \in InState("pending")' : p = q
      BY DEF PlatformInv, PendingOnHead
    <3>2. QED
      BY <2>1, <3>1 DEF InState
  <2>7. Promise!Register(o)
    BY <1>2, <2>1, <2>2, <2>3, <2>4, <2>5, <2>6 DEF Promise!Register
  <2>8. QED
    BY <2>7 DEF Promise!AbsNext
<1>6. ASSUME NEW o \in OpIds, Committed(o) PROVE Promise!AbsNext
  <2>1. o \in InState("pending") /\ o \in DOMAIN intents /\ intents[o].base = head
    BY <1>6 DEF Committed, InState
  <2>2. Receipts[o].base = head /\ Receipts[o].row = intents[o].hash
    BY <2>1, ReceiptRow
  <2>3. Receipts' = [Receipts EXCEPT ![o].state = "committed"]
    BY <1>1, <1>6, <2>1 DEF Committed, Receipts, Receipt, Intent
  <2>4. /\ DOMAIN versions' = 1 .. head + 1 /\ versions'[head + 1] = intents[o].hash
        /\ \A v \in DOMAIN versions : versions'[v] = versions[v]
    BY <1>1, <1>6 DEF Committed
  <2>5. head = head + 1 - 1
    BY <1>1
  <2>6. Promise!Extends(head + 1)
    BY <1>1, <2>4, <2>5 DEF Promise!Extends
  <2>7. Promise!Commit(o)
    BY <1>2, <2>1, <2>2, <2>3, <2>4, <2>6 DEF Promise!Commit, Promise!Becomes
  <2>8. QED
    BY <2>7 DEF Promise!AbsNext
<1>7. QED
  BY <1>3, <1>4, <1>5, <1>6, TableStep

(* The document implements the log of commits, for any number of requests,    *)
(* operations and versions: racing and resumed requests decide an operation   *)
(* once, together with its version, and what was told stays (beginCommit      *)
(* answers from the receipt, commitRetained changes only a pending one).      *)
THEOREM CommitLogImplemented == Spec => KeepsCommitLog
<1>1. Init => Promise!AbsInit
  <2> SUFFICES ASSUME Init PROVE Promise!AbsInit
    OBVIOUS
  <2>1. DOMAIN intents = {} /\ DOMAIN versions = {}
    BY DEF Init
  <2>2. \A o \in OpIds : Receipts[o].state = "none"
    BY <2>1, ReceiptRow
  <2>3. QED
    BY <2>1, <2>2 DEF Promise!AbsInit
<1>2. PlatformInv /\ PlatformInv' /\ [Next]_vars => [Promise!AbsNext]_(Promise!absVars)
  BY PromiseStep
<1>3. QED
  BY <1>1, <1>2, PlatformCorrect, PTL DEF Spec, KeepsCommitLog, Promise!AbsSpec

--------------------------------------------------------------------------------
(* The references, counted *)

(* The requests that retain the first version and the state of an intent. *)
CreationRequest(id, h) == [kind |-> "create", who |-> id, base |-> 0, hash |-> h]
IntentRequest(o) ==
    [kind |-> "commit", who |-> o, base |-> intents[o].base, hash |-> intents[o].hash]

(* The CAS has on record the request of the one creation, the requests of     *)
(* the committed operations, and otherwise only those of intents on record.   *)
OnRecord ==
    /\ IsFiniteSet(requests)
    /\ \A r \in requests :
          /\ r.kind = "create" /\ identity = None => r = CreationRequest(creation.identity, creation.hash)
          /\ r.kind = "commit" => r.who \in DOMAIN intents /\ r = IntentRequest(r.who)
    /\ identity # None => CreationRequest(identity, versions[1]) \in requests
    /\ \A o \in InState("committed") : IntentRequest(o) \in requests

(* A creation that goes on is the one on record, or that of the document; an  *)
(* operation that retains was not rejected.                                   *)
Continues(s) ==
    LET q == slot[s]
    IN  /\ q.at \in CreateSteps => q.base = 0
        /\ q.at \in {"retainCreation", "finishCreation"} =>
              IF identity = None THEN creation = [identity |-> q.who, hash |-> q.hash]
              ELSE identity = q.who /\ versions[1] = q.hash
        /\ q.at \in {"retain", "commit"} => intents[q.who].state # "rejected"

RecordInv == OnRecord /\ \A s \in Slots : Continues(s)

(* What a step may do to the tables and the references: at most a creation is *)
(* registered;                                                                *)
Registers ==
    /\ UNCHANGED <<identity, head, versions, intents, requests, count>>
    /\ creation' = creation \/ (identity = None /\ creation = NoCreation)

(* an intent is registered;                                                   *)
Begins(o) == Added(o) /\ UNCHANGED <<identity, creation, requests, count>>

(* the state of the creation or of the pending intent is retained;            *)
Retains(r) ==
    /\ r \in Request /\ r \notin requests /\ requests' = requests \cup {r}
    /\ count' = [count EXCEPT ![r.hash] = @ + 1]
    /\ UNCHANGED <<identity, head, versions, creation, intents>>
    /\ \/ identity = None /\ r = CreationRequest(creation.identity, creation.hash)
       \/ \E o \in InState("pending") : r = IntentRequest(o)

(* the document starts;                                                       *)
Starts ==
    /\ identity = None /\ identity' # None /\ head' = 1
    /\ creation = [identity |-> identity', hash |-> versions'[1]]
    /\ versions' \in [1 .. 1 -> Hashes]
    /\ CreationRequest(identity', versions'[1]) \in requests
    /\ UNCHANGED <<intents, requests, count>>

(* or an operation is committed.                                              *)
Commits(o) ==
    /\ Committed(o) /\ IntentRequest(o) \in requests
    /\ UNCHANGED <<identity, creation, requests, count>>

(* Each step is one of these.  In particular a request that is new to the CAS *)
(* is never that of an operation already committed, nor of a document that    *)
(* exists, although the handler may have read its intent long before.         *)
LEMMA ReferenceStep ==
    ASSUME PlatformInv, RecordInv, [Next]_vars
    PROVE  \/ Registers \/ Starts
           \/ \E r \in Request : Retains(r)
           \/ \E o \in OpIds : Begins(o) \/ Commits(o)
<1>1. /\ Cas /\ Tables /\ slot \in [Slots -> HandlerType]
      /\ \A s \in Slots : HandlerInv(s) /\ Continues(s)
      /\ OnRecord
  BY InvParts DEF RecordInv
<1>2. ASSUME NEW s \in Slots, RegisterCreation(s) PROVE Registers
  <2>1. UNCHANGED <<identity, head, versions, intents, requests, count>>
    BY <1>2 DEF RegisterCreation, cas
  <2>2. creation' = creation \/ (identity = None /\ creation = NoCreation)
    BY <1>2 DEF RegisterCreation
  <2>3. QED
    BY <2>1, <2>2 DEF Registers
<1>3. ASSUME NEW s \in Slots, RetainCreation(s) PROVE Registers \/ \E r \in Request : Retains(r)
  <2> DEFINE r == RequestOf(s, "create")
  <2>1. /\ Retained(s, "create", "finishCreation") /\ UNCHANGED <<identity, head, versions, creation, intents>>
        /\ slot[s].at = "retainCreation"
    BY <1>3 DEF RetainCreation, At, object
  <2>2. CASE UNCHANGED <<requests, count>>
    BY <2>1, <2>2 DEF Registers
  <2>3. CASE ~UNCHANGED <<requests, count>>
    <3>1. r \notin requests /\ requests' = requests \cup {r} /\ count' = [count EXCEPT ![slot[s].hash] = @ + 1]
      BY <2>1, <2>3 DEF Retained
    <3>2. slot[s].who \in Identities /\ slot[s].hash \in Hashes /\ slot[s].base = 0
      BY <1>1, <2>1 DEF HandlerInv, Continues, CreateSteps
    <3>3. r = CreationRequest(slot[s].who, slot[s].hash) /\ r.hash = slot[s].hash /\ r \in Request
      BY <3>2 DEF RequestOf, CreationRequest, Request
    <3>4. identity = None
      BY <1>1, <2>1, <3>1, <3>3 DEF Continues, OnRecord
    <3>5. creation.identity = slot[s].who /\ creation.hash = slot[s].hash
      BY <1>1, <2>1, <3>4 DEF Continues
    <3> HIDE DEF r
    <3>6. Retains(r)
      BY <2>1, <3>1, <3>3, <3>4, <3>5 DEF Retains
    <3>7. QED
      BY <3>3, <3>6
  <2>4. QED
    BY <2>2, <2>3
<1>4. ASSUME NEW s \in Slots, RetainCandidate(s) PROVE Registers \/ \E r \in Request : Retains(r)
  <2> DEFINE r == RequestOf(s, "commit")
             o == slot[s].who
  <2>1. /\ Retained(s, "commit", "commit") /\ UNCHANGED <<identity, head, versions, creation, intents>>
        /\ slot[s].at = "retain"
    BY <1>4 DEF RetainCandidate, At, object
  <2>2. CASE UNCHANGED <<requests, count>>
    BY <2>1, <2>2 DEF Registers
  <2>3. CASE ~UNCHANGED <<requests, count>>
    <3>1. r \notin requests /\ requests' = requests \cup {r} /\ count' = [count EXCEPT ![slot[s].hash] = @ + 1]
      BY <2>1, <2>3 DEF Retained
    <3>2. /\ o \in OpIds /\ slot[s].hash \in Hashes /\ o \in DOMAIN intents
          /\ intents[o].base = slot[s].base /\ intents[o].hash = slot[s].hash /\ intents[o].state # "rejected"
      BY <1>1, <2>1 DEF HandlerInv, Continues, CommitSteps
    <3>3. r = IntentRequest(o) /\ r.hash = slot[s].hash /\ r \in Request
      <4>1. slot[s].base \in Nat
        BY <1>1 DEF HandlerType
      <4>2. QED
        BY <3>2, <4>1 DEF RequestOf, IntentRequest, Request
    <3>4. o \notin InState("committed")
      BY <1>1, <3>1, <3>3 DEF OnRecord
    <3>5. intents[o] \in Intent
      BY <1>1, <3>2 DEF Tables
    <3>6. o \in InState("pending")
      BY <3>2, <3>4, <3>5 DEF InState, Intent
    <3> HIDE DEF r, o
    <3>7. Retains(r)
      BY <2>1, <3>1, <3>3, <3>6 DEF Retains
    <3>8. QED
      BY <3>3, <3>7
  <2>4. QED
    BY <2>2, <2>3
<1>5. ASSUME NEW s \in Slots, CreateRetained(s) PROVE Registers \/ Starts
  <2>1. slot[s].at = "finishCreation" /\ UNCHANGED <<intents, requests, count>>
    BY <1>5 DEF CreateRetained, At, cas
  <2>2. CASE UNCHANGED <<identity, head, versions, creation>>
    BY <2>1, <2>2 DEF Registers
  <2>3. CASE ~UNCHANGED <<identity, head, versions, creation>>
    <3>1. /\ identity = None /\ identity' = slot[s].who /\ head' = 1 /\ versions' = <<slot[s].hash>>
          /\ creation = [identity |-> slot[s].who, hash |-> slot[s].hash]
      BY <1>5, <2>3 DEF CreateRetained
    <3>2. /\ slot[s].who \in Identities /\ slot[s].hash \in Hashes /\ slot[s].base = 0
          /\ RequestOf(s, "create") \in requests
      BY <1>1, <2>1 DEF HandlerInv, Continues, CreateSteps
    <3>3. RequestOf(s, "create") = CreationRequest(slot[s].who, slot[s].hash)
      BY <3>2 DEF RequestOf, CreationRequest
    <3>4. versions'[1] = slot[s].hash /\ versions' \in [1 .. 1 -> Hashes] /\ identity' # None
      BY <3>1, <3>2, PlatformAssumption
    <3>5. QED
      BY <2>1, <3>1, <3>2, <3>3, <3>4 DEF Starts
  <2>4. QED
    BY <2>2, <2>3
<1>6. ASSUME NEW s \in Slots, BeginCommit(s) PROVE Registers \/ \E o \in OpIds : Begins(o)
  <2> DEFINE o == slot[s].who
             i == [base |-> slot[s].base, hash |-> slot[s].hash,
                   state |-> IF slot[s].base = head THEN "pending" ELSE "rejected"]
  <2>1. UNCHANGED <<identity, head, versions, creation, requests, count>> /\ slot[s].at = "begin" /\ Registered(s)
    BY <1>6 DEF BeginCommit, At, cas
  <2>2. CASE UNCHANGED intents
    BY <2>1, <2>2 DEF Registers
  <2>3. CASE ~UNCHANGED intents
    <3>1. /\ o \notin DOMAIN intents
          /\ intents' = [p \in DOMAIN intents \cup {o} |-> IF p = o THEN i ELSE intents[p]]
      BY <2>1, <2>3 DEF Registered
    <3>2. i.state # "committed"
      OBVIOUS
    <3>3. o \in OpIds
      BY <1>1, <2>1 DEF HandlerInv, CommitSteps
    <3> HIDE DEF i
    <3>4. Begins(o)
      BY <2>1, <3>1, <3>2 DEF Added, Begins
    <3>5. QED
      BY <3>3, <3>4
  <2>4. QED
    BY <2>2, <2>3
<1>7. ASSUME NEW s \in Slots, CommitRetained(s) PROVE Registers \/ \E o \in OpIds : Commits(o)
  <2> DEFINE o == slot[s].who
  <2>1. slot[s].at = "commit" /\ UNCHANGED <<identity, creation, requests, count>>
    BY <1>7 DEF CommitRetained, At, cas
  <2>2. CASE ~Committable(o)
    <3>1. UNCHANGED <<head, versions, intents>>
      BY <1>7, <2>2 DEF CommitRetained
    <3>2. QED
      BY <2>1, <3>1 DEF Registers
  <2>3. CASE Committable(o)
    <3>1. /\ o \in InState("pending") /\ intents[o].base = head /\ head' = head + 1
          /\ versions' = [v \in 1 .. head + 1 |-> IF v = head + 1 THEN intents[o].hash ELSE versions[v]]
          /\ intents' = [intents EXCEPT ![o].state = "committed"]
      BY <1>7, <2>3 DEF CommitRetained, Committable
    <3>2. /\ o \in OpIds /\ intents[o].hash = slot[s].hash /\ intents[o].base = slot[s].base
          /\ RequestOf(s, "commit") \in requests
      BY <1>1, <2>1 DEF HandlerInv, CommitSteps
    <3>3. count[slot[s].hash] >= 1 /\ IntentRequest(o) \in requests
      BY <1>1, <3>2 DEF Cas, ReferencesInv, RequestOf, IntentRequest
    <3>4. Committed(o)
      BY <3>1, <3>2, <3>3 DEF Committed
    <3>5. QED
      BY <2>1, <3>2, <3>3, <3>4 DEF Commits
  <2>4. QED
    BY <2>2, <2>3
<1>8. ASSUME NEW s \in Slots,
             \/ \E id \in Identities, h \in Hashes : BeginCreate(s, id, h)
             \/ \E o \in OpIds, base \in 1 .. MaxVersion - 1 : CommitStatus(s, o, base)
             \/ \E h \in Hashes : Capture(s, h)
             \/ PendingCommit(s) \/ Fail(s)
      PROVE  Registers
  BY <1>8 DEF BeginCreate, CommitStatus, Capture, PendingCommit, Fail, object, cas, Registers
<1>9. (\E h \in Hashes : Collect(h)) \/ UNCHANGED vars => Registers
  BY DEF Collect, vars, object, cas, Registers
<1>10. QED
  BY <1>2, <1>3, <1>4, <1>5, <1>6, <1>7, <1>8, <1>9 DEF Next, Create, Commit

(* The requests on record stay those of the creation and of the intents. *)
LEMMA RecordKept ==
    ASSUME PlatformInv, RecordInv, [Next]_vars
    PROVE  OnRecord'
<1>1. Cas /\ Tables /\ OnRecord
  BY InvParts DEF RecordInv
<1>2. CASE Registers
  <2>1. UNCHANGED <<identity, head, versions, intents, requests>>
    BY <1>2 DEF Registers
  <2>2. /\ \A o : IntentRequest(o)' = IntentRequest(o)
        /\ InState("committed")' = InState("committed")
    BY <2>1 DEF IntentRequest, InState
  <2>3. ASSUME NEW r \in requests, r.kind = "create", identity = None
        PROVE  r = CreationRequest(creation'.identity, creation'.hash)
    <3>1. r = CreationRequest(creation.identity, creation.hash) /\ r \in Request
      BY <1>1, <2>3 DEF OnRecord, Cas
    <3>2. creation.hash \in Hashes
      BY <3>1 DEF CreationRequest, Request
    <3>3. creation # NoCreation
      BY <3>2, PlatformAssumption DEF NoCreation
    <3>4. creation' = creation
      BY <1>2, <3>3 DEF Registers
    <3>5. QED
      BY <3>1, <3>4
  <2>4. CreationRequest(identity, versions[1])' = CreationRequest(identity, versions[1])
    BY <2>1 DEF CreationRequest
  <2>5. \A r \in requests : CreationRequest(creation.identity, creation.hash)' = CreationRequest(creation'.identity, creation'.hash)
    BY DEF CreationRequest
  <2>6. \A r \in requests : r.kind = "commit" => r.who \in DOMAIN intents /\ r = IntentRequest(r.who)
    BY <1>1 DEF OnRecord
  <2>7. IsFiniteSet(requests')
    BY <1>1, <2>1 DEF OnRecord
  <2>8. QED
    BY <1>1, <2>1, <2>2, <2>3, <2>4, <2>5, <2>6, <2>7 DEF OnRecord
<1>3. CASE Starts
  <2>1. /\ UNCHANGED <<intents, requests>> /\ identity' # None
        /\ CreationRequest(identity', versions'[1]) \in requests
    BY <1>3 DEF Starts
  <2>2. /\ \A o : IntentRequest(o)' = IntentRequest(o)
        /\ InState("committed")' = InState("committed")
        /\ CreationRequest(identity, versions[1])' = CreationRequest(identity', versions'[1])
    BY <2>1 DEF IntentRequest, InState, CreationRequest
  <2>3. QED
    BY <1>1, <2>1, <2>2 DEF OnRecord
<1>4. ASSUME NEW r \in Request, Retains(r) PROVE OnRecord'
  <2>1. /\ UNCHANGED <<identity, versions, creation, intents>> /\ requests' = requests \cup {r}
    BY <1>4 DEF Retains
  <2>2. /\ \A o : IntentRequest(o)' = IntentRequest(o)
        /\ InState("committed")' = InState("committed")
        /\ CreationRequest(identity, versions[1])' = CreationRequest(identity, versions[1])
        /\ CreationRequest(creation.identity, creation.hash)' = CreationRequest(creation.identity, creation.hash)
    BY <2>1 DEF IntentRequest, InState, CreationRequest
  <2>3. IsFiniteSet(requests')
    BY <1>1, <2>1, FS_AddElement DEF OnRecord
  <2>4. /\ r.kind = "create" /\ identity = None => r = CreationRequest(creation.identity, creation.hash)
        /\ r.kind = "commit" => r.who \in DOMAIN intents /\ r = IntentRequest(r.who)
    <3>1. CASE identity = None /\ r = CreationRequest(creation.identity, creation.hash)
      BY <3>1 DEF CreationRequest
    <3>2. ASSUME NEW o \in InState("pending"), r = IntentRequest(o)
          PROVE  r.kind = "commit" /\ r.who \in DOMAIN intents /\ r = IntentRequest(r.who)
      BY <3>2 DEF IntentRequest, InState
    <3>3. QED
      BY <1>4, <3>1, <3>2 DEF Retains
  <2>5. QED
    BY <1>1, <2>1, <2>2, <2>3, <2>4 DEF OnRecord
<1>5. ASSUME NEW o \in OpIds, Begins(o) \/ Commits(o) PROVE OnRecord'
  <2>1. /\ UNCHANGED <<identity, creation, requests>>
        /\ identity # None => versions'[1] = versions[1]
        /\ \A p \in DOMAIN intents : /\ p \in DOMAIN intents' /\ intents'[p].base = intents[p].base
                                     /\ intents'[p].hash = intents[p].hash
        /\ \A p \in InState("committed")' : p \in DOMAIN intents /\ IntentRequest(p) \in requests
    <3>1. CASE Begins(o)
      <4>1. /\ UNCHANGED <<identity, versions, creation, requests>>
            /\ DOMAIN intents' = DOMAIN intents \cup {o} /\ intents'[o].state # "committed"
            /\ \A p \in DOMAIN intents : intents'[p] = intents[p]
        BY <3>1 DEF Begins, Added
      <4>2. InState("committed")' = InState("committed")
        BY <4>1 DEF InState
      <4>3. QED
        BY <1>1, <4>1, <4>2 DEF InState, OnRecord
    <3>2. CASE Commits(o)
      <4>1. Committed(o) /\ IntentRequest(o) \in requests /\ UNCHANGED <<identity, creation, requests>>
        BY <3>2 DEF Commits
      <4>2. /\ head \in Nat /\ head # 0
            /\ \A v \in 1 .. head : versions'[v] = versions[v]
            /\ o \in DOMAIN intents /\ DOMAIN intents' = DOMAIN intents
            /\ intents'[o].base = head /\ intents'[o].hash = intents[o].hash
            /\ \A p \in DOMAIN intents \ {o} : intents'[p] = intents[p]
            /\ InState("committed")' = InState("committed") \cup {o}
        BY <4>1, CommittedOne
      <4>3. intents[o].base = head
        BY <4>1 DEF Committed
      <4>4. 1 \in 1 .. head
        BY <4>2
      <4>5. \A p \in InState("committed") : p \in DOMAIN intents /\ IntentRequest(p) \in requests
        BY <1>1 DEF OnRecord, InState
      <4>6. QED
        BY <4>1, <4>2, <4>3, <4>4, <4>5
    <3>3. QED
      BY <1>5, <3>1, <3>2
  <2>2. \A p \in DOMAIN intents : IntentRequest(p)' = IntentRequest(p)
    BY <2>1 DEF IntentRequest
  <2>3. /\ identity # None => CreationRequest(identity, versions[1])' = CreationRequest(identity, versions[1])
        /\ CreationRequest(creation.identity, creation.hash)' = CreationRequest(creation.identity, creation.hash)
    BY <2>1 DEF CreationRequest
  <2>4. ASSUME NEW r \in requests
        PROVE  /\ r.kind = "create" /\ identity = None => r = CreationRequest(creation.identity, creation.hash)
               /\ r.kind = "commit" => r.who \in DOMAIN intents' /\ r = IntentRequest(r.who)'
    <3>1. r.kind = "commit" => r.who \in DOMAIN intents /\ r = IntentRequest(r.who)
      BY <1>1 DEF OnRecord
    <3>2. QED
      BY <1>1, <2>1, <2>2, <3>1 DEF OnRecord
  <2>5. QED
    BY <1>1, <2>1, <2>2, <2>3, <2>4 DEF OnRecord
<1>6. QED
  BY <1>2, <1>3, <1>4, <1>5, ReferenceStep

(* A handler that a step does not move is still on the way it was. *)
LEMMA ContinuesKept ==
    ASSUME PlatformInv, RecordInv, [Next]_vars, NEW u \in Slots, slot'[u] = slot[u]
    PROVE  Continues(u)'
<1>1. Tables /\ HandlerInv(u) /\ Continues(u)
  BY InvParts DEF RecordInv
<1>2. /\ identity = None /\ identity' = None => creation' = creation \/ creation = NoCreation
      /\ identity = None /\ identity' # None => creation = [identity |-> identity', hash |-> versions'[1]]
      /\ identity # None => identity' = identity /\ versions'[1] = versions[1]
      /\ \A o \in DOMAIN intents : intents[o].state # "rejected" => intents'[o].state # "rejected"
  <2>1. CASE Registers
    BY <2>1 DEF Registers
  <2>2. CASE Starts
    BY <2>2 DEF Starts
  <2>3. ASSUME NEW r \in Request, Retains(r)
        PROVE  UNCHANGED <<identity, versions, creation, intents>>
    BY <2>3 DEF Retains
  <2>4. ASSUME NEW o \in OpIds, Begins(o)
        PROVE  /\ UNCHANGED <<identity, versions, creation>>
               /\ \A p \in DOMAIN intents : intents[p].state # "rejected" => intents'[p].state # "rejected"
    BY <2>4 DEF Begins, Added
  <2>5. ASSUME NEW o \in OpIds, Commits(o)
        PROVE  /\ UNCHANGED <<identity, creation>> /\ versions'[1] = versions[1]
               /\ \A p \in DOMAIN intents : intents[p].state # "rejected" => intents'[p].state # "rejected"
    <3>1. Committed(o) /\ UNCHANGED <<identity, creation>>
      BY <2>5 DEF Commits
    <3>2. /\ head \in Nat /\ head # 0 /\ \A v \in 1 .. head : versions'[v] = versions[v]
          /\ intents'[o].state = "committed" /\ \A p \in DOMAIN intents \ {o} : intents'[p] = intents[p]
      BY <3>1, CommittedOne
    <3>3. 1 \in 1 .. head
      BY <3>2
    <3>4. QED
      BY <3>1, <3>2, <3>3
  <2>6. QED
    BY <2>1, <2>2, <2>3, <2>4, <2>5, ReferenceStep
<1>3. slot[u].at \in CreateSteps => slot[u].who # None
  BY <1>1, PlatformAssumption DEF HandlerInv
<1>4. [identity |-> slot[u].who, hash |-> slot[u].hash] = NoCreation => slot[u].who = None
  BY DEF NoCreation
<1>5. slot[u].at \in {"retainCreation", "finishCreation"} =>
         IF identity' = None THEN creation' = [identity |-> slot[u].who, hash |-> slot[u].hash]
         ELSE identity' = slot[u].who /\ versions'[1] = slot[u].hash
  BY <1>1, <1>2, <1>3, <1>4 DEF Continues, CreateSteps
<1>6. slot[u].at \in {"retain", "commit"} => intents'[slot[u].who].state # "rejected"
  BY <1>1, <1>2 DEF Continues, HandlerInv
<1>7. QED
  BY <1>1, <1>5, <1>6 DEF Continues

(* An idle handler, or one that computes, has nothing to continue. *)
LEMMA ContinuesFree ==
    ASSUME NEW s \in Slots,
           \/ slot'[s].at \in {"idle", "capture", "begin", "resume"}
           \/ slot'[s].at = "create" /\ slot'[s].base = 0
    PROVE  Continues(s)'
BY DEF Continues, CreateSteps

(* Every step preserves RecordInv. *)
LEMMA RecordStep == PlatformInv /\ RecordInv /\ [Next]_vars => RecordInv'
<1> SUFFICES ASSUME PlatformInv, RecordInv, [Next]_vars PROVE RecordInv'
  OBVIOUS
<1>1. /\ Tables /\ slot \in [Slots -> HandlerType]
      /\ \A s \in Slots : HandlerInv(s) /\ Continues(s)
  BY InvParts DEF RecordInv
<1>2. SUFFICES \A s \in Slots : Continues(s)'
  BY RecordKept DEF RecordInv
<1>3. ASSUME NEW s \in Slots, Create(s) \/ Commit(s) \/ Fail(s)
      PROVE  Continues(s)' /\ \A u \in Slots \ {s} : slot'[u] = slot[u]
  <2>1. CASE Ended(s)
    BY <1>1, <2>1, EndedOne, ContinuesFree
  <2>2. ASSUME NEW id \in Identities, NEW h \in Hashes, BeginCreate(s, id, h)
        PROVE  slot'[s].at = "create" /\ slot'[s].base = 0 /\ \A u \in Slots \ {s} : slot'[u] = slot[u]
    BY <1>1, <2>2 DEF BeginCreate
  <2>3. CASE RegisterCreation(s) /\ Moved(s, "retainCreation")
    <3>1. /\ slot'[s].at = "retainCreation" /\ slot'[s].who = slot[s].who
          /\ slot'[s].base = slot[s].base /\ slot'[s].hash = slot[s].hash
          /\ \A u \in Slots \ {s} : slot'[u] = slot[u]
      BY <1>1, <2>3, MovedOne DEF CreateSteps
    <3>2. /\ slot[s].base = 0 /\ slot[s].at = "create"
      BY <1>1, <2>3 DEF RegisterCreation, At, Continues, CreateSteps
    <3>3. IF identity' = None THEN creation' = [identity |-> slot[s].who, hash |-> slot[s].hash]
          ELSE identity' = slot[s].who /\ versions'[1] = slot[s].hash
      <4>1. slot'[s] # Idle
        BY <3>1 DEF Idle
      <4>2. ~Ended(s)
        BY <1>1, <4>1 DEF Ended
      <4>3. QED
        BY <2>3, <4>2 DEF RegisterCreation
    <3>4. Continues(s)'
      BY <3>1, <3>2, <3>3 DEF Continues, CreateSteps
    <3>5. QED
      BY <3>1, <3>4
  <2>4. CASE (RetainCreation(s) /\ Moved(s, "finishCreation")) \/ (RetainCandidate(s) /\ Moved(s, "commit"))
    <3>1. /\ UNCHANGED <<identity, versions, creation, intents>>
          /\ \/ slot[s].at = "retainCreation" /\ Moved(s, "finishCreation")
             \/ slot[s].at = "retain" /\ Moved(s, "commit")
      BY <2>4 DEF RetainCreation, RetainCandidate, At, object
    <3>2. /\ slot'[s].who = slot[s].who /\ slot'[s].base = slot[s].base /\ slot'[s].hash = slot[s].hash
          /\ \/ slot[s].at = "retainCreation" /\ slot'[s].at = "finishCreation"
             \/ slot[s].at = "retain" /\ slot'[s].at = "commit"
          /\ \A u \in Slots \ {s} : slot'[u] = slot[u]
      BY <1>1, <3>1, MovedOne DEF CreateSteps, CommitSteps
    <3>3. Continues(s)
      BY <1>1
    <3>4. Continues(s)'
      BY <3>1, <3>2, <3>3 DEF Continues, CreateSteps
    <3>5. QED
      BY <3>2, <3>4
  <2>5. ASSUME NEW o \in OpIds, NEW base \in 1 .. MaxVersion - 1, CommitStatus(s, o, base)
        PROVE  slot'[s].at \in {"resume", "capture"} /\ \A u \in Slots \ {s} : slot'[u] = slot[u]
    BY <1>1, <2>5 DEF CommitStatus, Idle
  <2>6. ASSUME NEW h \in Hashes, Capture(s, h)
        PROVE  slot'[s].at = "begin" /\ \A u \in Slots \ {s} : slot'[u] = slot[u]
    BY <1>1, <2>6 DEF Capture, HandlerType
  <2>7. CASE BeginCommit(s) /\ Moved(s, "resume")
    BY <1>1, <2>7, MovedOne, ContinuesFree DEF CommitSteps
  <2>8. CASE PendingCommit(s) /\ ~Ended(s)
    <3> DEFINE o == slot[s].who
               q == [at |-> "retain", who |-> o, base |-> intents[o].base, hash |-> intents[o].hash]
    <3>1. o \in InState("pending") /\ slot' = [slot EXCEPT ![s] = q] /\ UNCHANGED intents
      BY <2>8 DEF PendingCommit, object
    <3>2. q.at = "retain" /\ q.who = o
      OBVIOUS
    <3>3. slot'[s] = q /\ \A u \in Slots \ {s} : slot'[u] = slot[u]
      BY <1>1, <3>1
    <3>4. intents'[o].state # "rejected"
      BY <3>1 DEF InState
    <3> HIDE DEF q
    <3>5. Continues(s)'
      BY <3>2, <3>3, <3>4 DEF Continues, CreateSteps
    <3>6. QED
      BY <3>3, <3>5
  <2>9. \/ Ended(s)
        \/ \E id \in Identities, h \in Hashes : BeginCreate(s, id, h)
        \/ RegisterCreation(s) /\ Moved(s, "retainCreation")
        \/ RetainCreation(s) /\ Moved(s, "finishCreation")
        \/ RetainCandidate(s) /\ Moved(s, "commit")
        \/ \E o \in OpIds, base \in 1 .. MaxVersion - 1 : CommitStatus(s, o, base)
        \/ \E h \in Hashes : Capture(s, h)
        \/ BeginCommit(s) /\ Moved(s, "resume")
        \/ PendingCommit(s) /\ ~Ended(s)
    <3>1. RegisterCreation(s) => Ended(s) \/ Moved(s, "retainCreation")
      BY DEF RegisterCreation
    <3>2. /\ RetainCreation(s) => Ended(s) \/ Moved(s, "finishCreation")
          /\ RetainCandidate(s) => Ended(s) \/ Moved(s, "commit")
      BY DEF RetainCreation, RetainCandidate, Retained
    <3>3. BeginCommit(s) => Ended(s) \/ Moved(s, "resume")
      BY DEF BeginCommit, Registered
    <3>4. CreateRetained(s) \/ CommitRetained(s) \/ Fail(s) => Ended(s)
      BY DEF CreateRetained, CommitRetained, Fail
    <3>5. QED
      BY <1>3, <3>1, <3>2, <3>3, <3>4 DEF Create, Commit
  <2>10. QED
    BY <2>1, <2>2, <2>3, <2>4, <2>5, <2>6, <2>7, <2>8, <2>9, ContinuesFree
<1>4. CASE UNCHANGED slot
  BY <1>4, ContinuesKept
<1>5. ASSUME NEW s \in Slots, Create(s) \/ Commit(s) \/ Fail(s) PROVE \A u \in Slots : Continues(u)'
  <2>1. Continues(s)' /\ \A u \in Slots \ {s} : slot'[u] = slot[u]
    BY <1>3, <1>5
  <2>2. \A u \in Slots \ {s} : Continues(u)'
    BY <2>1, ContinuesKept
  <2>3. QED
    BY <2>1, <2>2
<1>6. QED
  BY <1>4, <1>5 DEF Next, Collect, vars

(* The versions with state h, and the requests for h that no version uses yet. *)
Using(h) == {v \in 1 .. head : versions[v] = h}
Waiting(h) ==
    {r \in requests : /\ r.hash = h
                      /\ \/ r.kind = "create" /\ identity = None
                         \/ r.kind = "commit" /\ r.who \in InState("pending")}

(* Both are finite. *)
LEMMA CountedFinite ==
    ASSUME PlatformInv, OnRecord, NEW h
    PROVE  /\ IsFiniteSet(Using(h)) /\ Cardinality(Using(h)) \in Nat
           /\ IsFiniteSet(Waiting(h)) /\ Cardinality(Waiting(h)) \in Nat
<1>1. IsFiniteSet(1 .. head)
  BY FS_Interval DEF PlatformInv, PlatformTypeOK
<1>2. Using(h) \in SUBSET (1 .. head) /\ Waiting(h) \in SUBSET requests
  BY DEF Using, Waiting
<1>3. IsFiniteSet(Using(h)) /\ IsFiniteSet(Waiting(h))
  BY <1>1, <1>2, FS_Subset DEF OnRecord
<1>4. QED
  BY <1>3, FS_CardinalityType

(* The roots are exact when each count is made up of the two. *)
LEMMA ExactIs ==
    /\ RootsExact <=> \A h \in Hashes : count[h] = Cardinality(Using(h)) + Cardinality(Waiting(h))
    /\ RootsExact' <=> \A h \in Hashes : count'[h] = Cardinality(Using(h)') + Cardinality(Waiting(h)')
BY DEF RootsExact, Using, Waiting

(* A root reference is counted once from its retention on: first for the      *)
(* request, then for the version.                                             *)
LEMMA RootsStep ==
    ASSUME PlatformInv, RecordInv, RootsExact, [Next]_vars
    PROVE  RootsExact'
<1>1. Cas /\ Tables /\ OnRecord
  BY InvParts DEF RecordInv
<1>2. SUFFICES ASSUME NEW h \in Hashes
               PROVE  count'[h] = Cardinality(Using(h)') + Cardinality(Waiting(h)')
  BY ExactIs
<1>3. /\ count[h] = Cardinality(Using(h)) + Cardinality(Waiting(h))
      /\ IsFiniteSet(Using(h)) /\ Cardinality(Using(h)) \in Nat
      /\ IsFiniteSet(Waiting(h)) /\ Cardinality(Waiting(h)) \in Nat
  BY <1>1, ExactIs, CountedFinite
<1>4. CASE Registers
  <2>1. Using(h)' = Using(h) /\ Waiting(h)' = Waiting(h) /\ count' = count
    BY <1>4 DEF Registers, Using, Waiting, InState
  <2>2. QED
    BY <1>3, <2>1
<1>5. CASE Starts
  <2> DEFINE r == CreationRequest(identity', versions'[1])
  <2>1. /\ identity = None /\ identity' # None /\ head' = 1 /\ versions' \in [1 .. 1 -> Hashes]
        /\ r \in requests /\ creation = [identity |-> identity', hash |-> versions'[1]]
        /\ UNCHANGED <<intents, requests, count>>
    BY <1>5 DEF Starts
  <2>2. head = 0 /\ DOMAIN intents = {}
    BY <1>1, <2>1 DEF Tables
  <2>3. Using(h) = {}
    BY <2>2 DEF Using
  <2>4. Waiting(h)' = {}
    BY <2>1, <2>2 DEF Waiting, InState
  <2>5. creation.identity = identity' /\ creation.hash = versions'[1]
    BY <2>1
  <2>6. \A q \in requests : q.kind = "create" => q = r
    BY <1>1, <2>1, <2>5 DEF OnRecord
  <2>7. r.kind = "create" /\ r.hash = versions'[1]
    BY DEF CreationRequest
  <2> HIDE DEF r
  <2>8. CASE h = versions'[1]
    <3>1. Using(h)' = {1} /\ Waiting(h) = {r}
      BY <2>1, <2>2, <2>6, <2>7, <2>8 DEF Using, Waiting, InState
    <3>2. Cardinality({1}) = 1 /\ Cardinality({r}) = 1
      BY FS_Singleton
    <3>3. Cardinality({}) = 0
      BY FS_EmptySet
    <3>4. Cardinality(Using(h)') = 1 /\ Cardinality(Waiting(h)') = 0
      BY <2>4, <3>1, <3>2, <3>3, Zenon
    <3>5. Cardinality(Using(h)) = 0 /\ Cardinality(Waiting(h)) = 1
      BY <2>3, <3>1, <3>2, <3>3, Zenon
    <3>6. QED
      BY <1>3, <2>1, <3>4, <3>5
  <2>9. CASE h # versions'[1]
    <3>1. Using(h)' = {} /\ Waiting(h) = {}
      BY <2>1, <2>2, <2>6, <2>7, <2>9 DEF Using, Waiting, InState
    <3>2. QED
      BY <1>3, <2>1, <2>3, <2>4, <3>1, FS_EmptySet
  <2>10. QED
    BY <2>8, <2>9
<1>6. ASSUME NEW r \in Request, Retains(r)
      PROVE  count'[h] = Cardinality(Using(h)') + Cardinality(Waiting(h)')
  <2>1. /\ r \notin requests /\ requests' = requests \cup {r}
        /\ count' = [count EXCEPT ![r.hash] = @ + 1]
        /\ UNCHANGED <<identity, head, versions, intents>>
    BY <1>6 DEF Retains
  <2>2. (r.kind = "create" /\ identity = None) \/ (r.kind = "commit" /\ r.who \in InState("pending"))
    BY <1>6 DEF Retains, CreationRequest, IntentRequest
  <2>3. Using(h)' = Using(h) /\ InState("pending")' = InState("pending")
    BY <2>1 DEF Using, InState
  <2>4. count \in [Hashes -> Nat] /\ r.hash \in Hashes
    BY <1>1 DEF Cas, Request
  <2>5. CASE h = r.hash
    <3>1. Waiting(h)' = Waiting(h) \cup {r} /\ r \notin Waiting(h)
      BY <2>1, <2>2, <2>3, <2>5 DEF Waiting
    <3>2. Cardinality(Waiting(h)') = Cardinality(Waiting(h)) + 1
      BY <1>3, <3>1, FS_AddElement
    <3>3. count'[h] = count[h] + 1
      BY <2>1, <2>4, <2>5
    <3>4. QED
      BY <1>3, <2>3, <3>2, <3>3
  <2>6. CASE h # r.hash
    <3>1. Waiting(h)' = Waiting(h)
      BY <2>1, <2>3, <2>6 DEF Waiting
    <3>2. count'[h] = count[h]
      BY <2>1, <2>4, <2>6
    <3>3. QED
      BY <1>3, <2>3, <3>1, <3>2
  <2>7. QED
    BY <2>5, <2>6
<1>7. ASSUME NEW o \in OpIds, Begins(o)
      PROVE  count'[h] = Cardinality(Using(h)') + Cardinality(Waiting(h)')
  <2>1. /\ UNCHANGED <<identity, head, versions, requests, count>> /\ o \notin DOMAIN intents
        /\ DOMAIN intents' = DOMAIN intents \cup {o}
        /\ \A p \in DOMAIN intents : intents'[p] = intents[p]
    BY <1>7 DEF Begins, Added
  <2>2. \A r \in requests : r.kind = "commit" => r.who \in DOMAIN intents
    BY <1>1 DEF OnRecord
  <2>3. \A p \in DOMAIN intents : p \in InState("pending")' <=> p \in InState("pending")
    BY <2>1 DEF InState
  <2>4. Waiting(h)' = Waiting(h) /\ Using(h)' = Using(h)
    BY <2>1, <2>2, <2>3 DEF Waiting, Using
  <2>5. QED
    BY <1>3, <2>1, <2>4
<1>8. ASSUME NEW o \in OpIds, Commits(o)
      PROVE  count'[h] = Cardinality(Using(h)') + Cardinality(Waiting(h)')
  <2> DEFINE r == IntentRequest(o)
  <2>1. Committed(o) /\ r \in requests /\ UNCHANGED <<identity, requests, count>>
    BY <1>8 DEF Commits
  <2>2. /\ head \in Nat /\ head # 0 /\ head' = head + 1 /\ versions'[head + 1] = intents[o].hash
        /\ \A v \in 1 .. head : versions'[v] = versions[v]
        /\ o \in DOMAIN intents /\ DOMAIN intents' = DOMAIN intents
        /\ intents'[o].state = "committed"
        /\ \A p \in DOMAIN intents \ {o} : intents'[p] = intents[p]
    BY <2>1, CommittedOne
  <2>3. o \in InState("pending")
    BY <2>1 DEF Committed
  <2>4. InState("pending")' = InState("pending") \ {o}
    BY <2>2 DEF InState
  <2>5. \A q \in requests : q.kind = "commit" /\ q.who = o => q = r
    BY <1>1 DEF OnRecord
  <2>6. r.kind = "commit" /\ r.who = o /\ r.hash = intents[o].hash
    BY DEF IntentRequest
  <2>7. identity # None
    BY <1>1, <2>2 DEF Tables
  <2> HIDE DEF r
  <2>8. Waiting(h)' = Waiting(h) \ {r}
    BY <2>1, <2>4, <2>5, <2>6, <2>7 DEF Waiting
  <2>9. CASE h = intents[o].hash
    <3>1. r \in Waiting(h)
      BY <2>1, <2>3, <2>6, <2>9 DEF Waiting
    <3>2. Cardinality(Waiting(h)') = Cardinality(Waiting(h)) - 1
      BY <1>3, <2>8, <3>1, FS_RemoveElement
    <3>3. Using(h)' = Using(h) \cup {head + 1} /\ head + 1 \notin Using(h)
      BY <2>2, <2>9 DEF Using
    <3>4. Cardinality(Using(h)') = Cardinality(Using(h)) + 1
      BY <1>3, <3>3, FS_AddElement
    <3>5. QED
      BY <1>3, <2>1, <3>2, <3>4
  <2>10. CASE h # intents[o].hash
    <3>1. r \notin Waiting(h)
      BY <2>6, <2>10 DEF Waiting
    <3>2. Waiting(h)' = Waiting(h)
      BY <2>8, <3>1
    <3>3. Using(h)' = Using(h)
      BY <2>2, <2>10 DEF Using
    <3>4. QED
      BY <1>3, <2>1, <3>2, <3>3
  <2>11. QED
    BY <2>9, <2>10
<1>9. QED
  BY <1>4, <1>5, <1>6, <1>7, <1>8, ReferenceStep

(* No reference leaks and none is counted twice (retainRoot under the digest  *)
(* of creation or candidate, createRetained, commitRetained): for any number  *)
(* of requests that retry, race or give up, the references of a state are its *)
(* versions and what the creation or the pending intent on record has         *)
(* retained.                                                                  *)
THEOREM RootsNeverLeak == Spec => []RootsExact
<1>1. Init => RecordInv /\ RootsExact
  <2> SUFFICES ASSUME Init PROVE RecordInv /\ RootsExact
    OBVIOUS
  <2>1. /\ identity = None /\ head = 0 /\ requests = {} /\ DOMAIN intents = {}
        /\ \A h \in Hashes : count[h] = 0
        /\ \A s \in Slots : slot[s].at = "idle"
    BY DEF Init, Idle
  <2>2. OnRecord
    BY <2>1, FS_EmptySet DEF OnRecord, InState
  <2>3. \A s \in Slots : Continues(s)
    BY <2>1 DEF Continues, CreateSteps
  <2>4. \A h \in Hashes : Using(h) = {} /\ Waiting(h) = {}
    BY <2>1 DEF Using, Waiting
  <2>5. RootsExact
    <3>1. Cardinality({}) = 0
      BY FS_EmptySet
    <3>2. \A h \in Hashes : Cardinality(Using(h)) = 0 /\ Cardinality(Waiting(h)) = 0
      BY <2>4, <3>1, Zenon
    <3>3. \A h \in Hashes : count[h] = Cardinality(Using(h)) + Cardinality(Waiting(h))
      BY <2>1, <3>2
    <3>4. QED
      BY <3>3, ExactIs
  <2>6. QED
    BY <2>2, <2>3, <2>5 DEF RecordInv
<1>2. PlatformInv /\ RecordInv /\ RootsExact /\ [Next]_vars => RecordInv' /\ RootsExact'
  BY RecordStep, RootsStep
<1>3. QED
  BY <1>1, <1>2, PlatformCorrect, PTL DEF Spec
================================================================================
