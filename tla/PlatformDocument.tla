--------------------------- MODULE PlatformDocument ---------------------------
(***************************************************************************)
(* A platform document: the Durable Object that keeps its versions and     *)
(* commit intents, and the coordinator that retains the state of a version *)
(* in the CAS before the version becomes readable.                         *)
(*                                                                         *)
(* An intent is registered in the object, the root is retained under a     *)
(* request id computed from the intent, and only then the version is       *)
(* committed.  Each member of Slots is a request in progress; every call   *)
(* to the object or to the CAS is a step, and a request may end after any  *)
(* of them.  The object survives restarts: its state is in SQLite.         *)
(***************************************************************************)
EXTENDS Integers, FiniteSets

CONSTANTS
    Slots,       \* requests that may be in progress together
    Identities,  \* tenant, document, type, owner and schema
    Hashes,      \* states
    OpIds,       \* operation ids
    None,
    MaxVersion   \* bound: versions

ASSUME PlatformAssumption ==
    /\ None \notin Identities \cup Hashes \cup OpIds
    /\ MaxVersion \in Nat \ {0}

VARIABLES
    identity,  \* platform_document_v1, None before the creation
    head,      \* its head_version
    versions,  \* platform_document_versions_v1: sequence of states
    creation,  \* platform_document_creation_v1
    intents,   \* platform_document_intents_v1, by operation id
    stored,    \* CAS: states that are there
    requests,  \* CAS: requests on record
    count,     \* CAS: root references
    slot       \* the requests in progress

object == <<identity, head, versions, creation, intents>>
cas    == <<stored, requests, count>>
vars   == <<object, cas, slot>>

--------------------------------------------------------------------------------
(* Values *)

NoCreation == [identity |-> None, hash |-> None]
Idle       == [at |-> "idle", who |-> None, base |-> 0, hash |-> None]

At(s, at)    == slot[s].at = at
Ended(s)     == slot' = [slot EXCEPT ![s] = Idle]
Moved(s, at) == slot' = [slot EXCEPT ![s].at = at]

InState(state) == {o \in DOMAIN intents : intents[o].state = state}

(* Mutant of RequestOf: every attempt draws its own request id. *)
RequestOf_attempt(s, kind) == [kind |-> kind, who |-> s, base |-> slot[s].base, hash |-> slot[s].hash]

(* The digests of creation and candidate; the identity of a commit is the     *)
(* document's.                                                                *)
RequestOf(s, kind) == [kind |-> kind, who |-> slot[s].who, base |-> slot[s].base, hash |-> slot[s].hash]

--------------------------------------------------------------------------------
(* retainRoot: updateRootRefs with a change of +1 *)

(* Mutant of Retained: a failed update is not noticed. *)
Retained_unchecked(s, kind, next) ==
    /\ IF slot[s].hash \in stored /\ RequestOf(s, kind) \notin requests
       THEN /\ requests' = requests \cup {RequestOf(s, kind)}
            /\ count' = [count EXCEPT ![slot[s].hash] = @ + 1]
       ELSE UNCHANGED <<requests, count>>
    /\ Moved(s, next)

(* A request on record is answered again; a new one needs its node. *)
Retained(s, kind, next) ==
    IF RequestOf(s, kind) \in requests THEN Moved(s, next) /\ UNCHANGED <<requests, count>>
    ELSE IF slot[s].hash \in stored
    THEN /\ requests' = requests \cup {RequestOf(s, kind)}
         /\ count' = [count EXCEPT ![slot[s].hash] = @ + 1]
         /\ Moved(s, next)
    ELSE Ended(s) /\ UNCHANGED <<requests, count>>

(* A collection takes what nothing refers to once its lease has run out. *)
Collect(h) ==
    /\ h \in stored /\ count[h] = 0
    /\ stored' = stored \ {h}
    /\ UNCHANGED <<object, requests, count, slot>>

--------------------------------------------------------------------------------
(* createPlatformDocument *)

(* The content of version 1 is in the CAS before the creation is asked for. *)
BeginCreate(s, id, h) ==
    /\ At(s, "idle")
    /\ stored' = stored \cup {h}
    /\ slot' = [slot EXCEPT ![s] = [at |-> "create", who |-> id, base |-> 0, hash |-> h]]
    /\ UNCHANGED <<object, requests, count>>

(* beginCreate: the creation on record, or the document, must be the same. *)
RegisterCreation(s) ==
    LET c == [identity |-> slot[s].who, hash |-> slot[s].hash]
    IN  /\ At(s, "create")
        /\ IF identity # None
           THEN /\ IF identity = c.identity /\ versions[1] = c.hash
                   THEN Moved(s, "retainCreation") ELSE Ended(s)
                /\ UNCHANGED creation
           ELSE IF creation \in {NoCreation, c} THEN creation' = c /\ Moved(s, "retainCreation")
           ELSE Ended(s) /\ UNCHANGED creation
        /\ UNCHANGED <<identity, head, versions, intents, cas>>

RetainCreation(s) ==
    /\ At(s, "retainCreation")
    /\ Retained(s, "create", "finishCreation")
    /\ UNCHANGED <<object, stored>>

(* createRetained: a document that exists is only read. *)
CreateRetained(s) ==
    /\ At(s, "finishCreation")
    /\ IF identity = None /\ creation = [identity |-> slot[s].who, hash |-> slot[s].hash]
       THEN /\ identity' = slot[s].who
            /\ head' = 1 /\ versions' = <<slot[s].hash>>
            /\ creation' = NoCreation
       ELSE UNCHANGED <<identity, head, versions, creation>>
    /\ Ended(s)
    /\ UNCHANGED <<intents, cas>>

--------------------------------------------------------------------------------
(* commitPlatformEditorSnapshot *)

(* commitStatus: a pending operation is resumed without its compute context,  *)
(* a terminal one is answered.                                                *)
CommitStatus(s, o, base) ==
    /\ At(s, "idle") /\ identity # None
    /\ o \in InState("pending") \/ o \notin DOMAIN intents
    /\ slot' = [slot EXCEPT ![s] = [Idle EXCEPT !.at = IF o \in DOMAIN intents THEN "resume" ELSE "capture",
                                                !.who = o, !.base = base]]
    /\ UNCHANGED <<object, cas>>

(* The snapshot of the editor is captured and stored; two attempts of one     *)
(* operation may capture different states.                                    *)
Capture(s, h) ==
    /\ At(s, "capture")
    /\ stored' = stored \cup {h}
    /\ slot' = [slot EXCEPT ![s].at = "begin", ![s].hash = h]
    /\ UNCHANGED <<object, requests, count>>

(* Mutant of NoPending: the unique index on pending intents is missing. *)
NoPending_unchecked == TRUE

NoPending == InState("pending") = {}

(* Mutant of Registered: the insert replaces an intent on record. *)
Registered_replace(s) ==
    LET o == slot[s].who
        i == [base |-> slot[s].base, hash |-> slot[s].hash,
              state |-> IF slot[s].base = head THEN "pending" ELSE "rejected"]
    IN  /\ intents' = [p \in DOMAIN intents \cup {o} |-> IF p = o THEN i ELSE intents[p]]
        /\ IF i.state = "pending" THEN Moved(s, "resume") ELSE Ended(s)

(* beginCommit: the receipt on record, or a new intent that is pending on the *)
(* head and rejected otherwise.  A second pending intent violates the index.  *)
Registered(s) ==
    LET o == slot[s].who
        i == [base |-> slot[s].base, hash |-> slot[s].hash,
              state |-> IF slot[s].base = head THEN "pending" ELSE "rejected"]
    IN  IF o \in DOMAIN intents
        THEN /\ IF intents[o] = [i EXCEPT !.state = "pending"] THEN Moved(s, "resume") ELSE Ended(s)
             /\ UNCHANGED intents
        ELSE IF i.state = "pending" /\ ~NoPending THEN Ended(s) /\ UNCHANGED intents
        ELSE /\ intents' = [p \in DOMAIN intents \cup {o} |-> IF p = o THEN i ELSE intents[p]]
             /\ IF i.state = "pending" THEN Moved(s, "resume") ELSE Ended(s)

BeginCommit(s) ==
    /\ At(s, "begin")
    /\ Registered(s)
    /\ UNCHANGED <<identity, head, versions, creation, cas>>

(* pendingCommit: what is retained is what the intent says. *)
PendingCommit(s) ==
    /\ At(s, "resume")
    /\ LET o == slot[s].who
       IN  IF o \in InState("pending")
           THEN slot' = [slot EXCEPT ![s] = [at |-> "retain", who |-> o, base |-> intents[o].base,
                                             hash |-> intents[o].hash]]
           ELSE Ended(s)
    /\ UNCHANGED <<object, cas>>

RetainCandidate(s) ==
    /\ At(s, "retain")
    /\ Retained(s, "commit", "commit")
    /\ UNCHANGED <<object, stored>>

(* Mutant of Committable: a retry commits again. *)
Committable_again(o) == o \in DOMAIN intents

(* A terminal receipt is returned; a pending one needs the head it started on. *)
Committable(o) == o \in InState("pending") /\ intents[o].base = head

(* commitRetained: version, head and receipt are one transaction. *)
CommitRetained(s) ==
    /\ At(s, "commit")
    /\ LET o == slot[s].who
       IN  IF Committable(o)
           THEN /\ head' = head + 1
                /\ versions' = [v \in 1 .. head + 1 |-> IF v = head + 1 THEN intents[o].hash ELSE versions[v]]
                /\ intents' = [intents EXCEPT ![o].state = "committed"]
           ELSE UNCHANGED <<head, versions, intents>>
    /\ Ended(s)
    /\ UNCHANGED <<identity, creation, cas>>

(* A call fails, its answer is lost, or the worker stops. *)
Fail(s) ==
    /\ ~At(s, "idle")
    /\ Ended(s)
    /\ UNCHANGED <<object, cas>>

Init ==
    /\ identity = None /\ head = 0 /\ versions = <<>>
    /\ creation = NoCreation /\ intents = <<>>
    /\ stored = {} /\ requests = {} /\ count = [h \in Hashes |-> 0]
    /\ slot = [s \in Slots |-> Idle]

Create(s) ==
    \/ \E id \in Identities, h \in Hashes : BeginCreate(s, id, h)
    \/ RegisterCreation(s) \/ RetainCreation(s) \/ CreateRetained(s)

Commit(s) ==
    \/ \E o \in OpIds, base \in 1 .. MaxVersion - 1 : CommitStatus(s, o, base)
    \/ \E h \in Hashes : Capture(s, h)
    \/ BeginCommit(s) \/ PendingCommit(s) \/ RetainCandidate(s) \/ CommitRetained(s)

Next ==
    \/ \E s \in Slots : Create(s) \/ Commit(s) \/ Fail(s)
    \/ \E h \in Hashes : Collect(h)

Spec == Init /\ [][Next]_vars

--------------------------------------------------------------------------------
(* Properties *)

CreateSteps == {"create", "retainCreation", "finishCreation"}
CommitSteps == {"capture", "begin", "resume", "retain", "commit"}
Intent      == [base : Nat, hash : Hashes, state : {"pending", "committed", "rejected"}]
Request     == [kind : {"create", "commit"}, who : Identities \cup OpIds, base : Nat, hash : Hashes]

(* The tables, the CAS and the requests have their types, and the head is the *)
(* last version.                                                              *)
PlatformTypeOK ==
    /\ identity \in Identities \cup {None} /\ head \in Nat
    /\ identity = None <=> head = 0
    /\ versions \in [1 .. head -> Hashes]
    /\ creation \in [identity : Identities, hash : Hashes] \cup {NoCreation}
    /\ DOMAIN intents \subseteq OpIds /\ \A o \in DOMAIN intents : intents[o] \in Intent
    /\ stored \subseteq Hashes /\ requests \subseteq Request /\ count \in [Hashes -> Nat]
    /\ slot \in [Slots -> [at : {"idle"} \cup CreateSteps \cup CommitSteps,
                           who : Identities \cup OpIds \cup {None}, base : Nat,
                           hash : Hashes \cup {None}]]

(* A version that can be read can be opened: its state is retained and still  *)
(* there, however often requests were retried, given up or raced              *)
(* (resumePlatformCommit retains before it commits).                          *)
VersionsRetained == \A v \in 1 .. head : versions[v] \in stored /\ count[versions[v]] >= 1

(* No reference leaks and none is counted twice: beyond the versions, a state *)
(* is referred to only for the creation or the pending intent that is still   *)
(* on record and will use it (the request id is the digest of the intent).    *)
RootsExact ==
    \A h \in Hashes :
        count[h] = Cardinality({v \in 1 .. head : versions[v] = h})
                 + Cardinality({r \in requests : /\ r.hash = h
                                                 /\ \/ r.kind = "create" /\ identity = None
                                                    \/ r.kind = "commit" /\ r.who \in InState("pending")})

(* A pending intent is always the next version: there is one at most, and the *)
(* head has not moved since, so commitRetained never fails on it with         *)
(* pending_head_changed.                                                      *)
PendingOnHead ==
    /\ \A o, p \in InState("pending") : o = p
    /\ \A o \in InState("pending") : intents[o].base = head

(* What a handler may rely on where it stands: nothing is committed before    *)
(* the document is there, what is retained is what the intent on record says, *)
(* and the last step comes after the retention.                               *)
HandlerInv(s) ==
    LET q == slot[s]
    IN  /\ q.at \in CreateSteps => q.who \in Identities /\ q.hash \in Hashes
        /\ q.at \in CommitSteps => q.who \in OpIds /\ identity # None
        /\ q.at \in {"begin", "retain", "commit"} => q.hash \in Hashes
        /\ q.at \in {"retain", "commit"} =>
              q.who \in DOMAIN intents /\ intents[q.who].base = q.base /\ intents[q.who].hash = q.hash
        /\ q.at = "finishCreation" => RequestOf(s, "create") \in requests
        /\ q.at = "commit" => RequestOf(s, "commit") \in requests

(* A request on record has its reference, and what is referred to is there.   *)
ReferencesInv ==
    /\ \A r \in requests : count[r.hash] >= 1
    /\ \A h \in Hashes : count[h] >= 1 => h \in stored

(* The inductive invariant: types, at most one pending intent (for the next   *)
(* version), handlers and references.                                         *)
PlatformInv ==
    /\ PlatformTypeOK /\ PendingOnHead /\ ReferencesInv
    /\ identity = None => DOMAIN intents = {}
    /\ \A s \in Slots : HandlerInv(s)

(* Receipts tell the truth: the state of a committed operation is the version *)
(* after its base, no two operations share a version, and every version but   *)
(* the first has its operation.                                               *)
ReceiptsTrue ==
    /\ \A o \in InState("committed") :
          intents[o].base + 1 \in 1 .. head /\ versions[intents[o].base + 1] = intents[o].hash
    /\ \A o, p \in InState("committed") : intents[o].base = intents[p].base => o = p
    /\ \A v \in 2 .. head : \E o \in InState("committed") : intents[o].base = v - 1

(* The document implements the log of commits: a version is never changed, an *)
(* operation is decided once and together with its version, and a receipt is  *)
(* the same for every later retry (beginCommit, commitRetained).              *)
Unknown == [state |-> "none", base |-> 0, row |-> None]
Receipt(o) == IF o \in DOMAIN intents
              THEN [state |-> intents[o].state, base |-> intents[o].base, row |-> intents[o].hash]
              ELSE Unknown
Receipts == [o \in OpIds |-> Receipt(o)]
Promise == INSTANCE CommitLog WITH log <- versions, receipts <- Receipts
KeepsCommitLog == Promise!AbsSpec
================================================================================
