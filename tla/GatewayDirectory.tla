--------------------------- MODULE GatewayDirectory ---------------------------
(***************************************************************************)
(* The document directory of the gateway and the handlers that create,     *)
(* clone, probe and edit documents through it.                             *)
(*                                                                         *)
(* The gateway reserves a row, asks the document service to create the     *)
(* session, and records the outcome; the service goes on when the gateway  *)
(* gives up.  Each member of Slots is a request in progress, and each call *)
(* to the directory or the service is a step.  The document service is     *)
(* reduced to whether a session exists and which version it has committed. *)
(*                                                                         *)
(* One tenant, one document type and its service are fixed.  updated_at    *)
(* only orders the listing and is left out, and with it touch().           *)
(***************************************************************************)
EXTENDS Integers

CONSTANTS
    Slots,        \* requests that may be in progress together
    Docs,         \* document ids a client may ask for (X-Doc-Id)
    Keys,         \* values of Idempotency-Key
    None,         \* no such header
    MaxSessions,  \* bound: session ids drawn
    MaxVersion    \* bound: versions of a session

ASSUME DirectoryAssumption ==
    /\ MaxSessions \in Nat /\ MaxVersion \in Nat \ {0}
    /\ None \notin Docs \cup Keys

VARIABLES
    rows,      \* gateway_documents, by document id
    sessions,  \* the document service: state and version of every session
    slot,      \* the requests in progress
    drawn      \* session ids drawn so far

vars == <<rows, sessions, slot, drawn>>

--------------------------------------------------------------------------------
(* Values *)

Session == 1 .. MaxSessions
Absent  == [state |-> "absent", version |-> 0]
Idle    == [at |-> "idle", doc |-> None, session |-> 0, version |-> 0]

At(s, at)      == slot[s].at = at
Ended(s)       == slot' = [slot EXCEPT ![s] = Idle]
Moved(s, at)   == slot' = [slot EXCEPT ![s].at = at]
Seen(s, at, v) == slot' = [slot EXCEPT ![s].at = at, ![s].version = v]

Committed(n) == sessions[n].version >= 1
RowsOf(key)  == {d \in DOMAIN rows : rows[d].key = key}

--------------------------------------------------------------------------------
(* createDocument *)

(* A document id that is not asked for is generated, and so is the key: the   *)
(* number of the session stands for both.                                     *)
docIdOf(requested)         == IF requested = None THEN drawn + 1 ELSE requested
idempotencyKeyOf(key, doc) == IF key = None THEN doc ELSE key

NewRow(key, requested) ==
    [key |-> key, requested |-> requested, session |-> drawn + 1, state |-> "creating", version |-> 0]

(* Mutant of Free: the key is not looked at. *)
Free_key(doc, key) == doc \notin DOMAIN rows

(* INSERT OR IGNORE: primary key and unique idempotency key. *)
Free(doc, key) == doc \notin DOMAIN rows /\ RowsOf(key) = {}

(* What a replay does with the row it finds. *)
Replayed(s, d) ==
    IF rows[d].state = "creating"
    THEN slot' = [slot EXCEPT ![s] = [at |-> "probe", doc |-> d, session |-> rows[d].session,
                                      version |-> 0]]
    ELSE Ended(s)

(* reserve(), and the answer to a reservation that was not created.  The      *)
(* lookup that follows an ignored insert finds what it would have found at    *)
(* the insert or later, so the two are one step.                              *)
Reserve(s, requested, key) ==
    LET doc  == docIdOf(requested)
        idem == idempotencyKeyOf(key, doc)
    IN  /\ slot[s].at \in {"idle", "cloned"}
        /\ drawn < MaxSessions /\ drawn' = drawn + 1
        /\ IF Free(doc, idem)
           THEN /\ rows' = [d \in DOMAIN rows \cup {doc} |->
                              IF d = doc THEN NewRow(idem, requested) ELSE rows[d]]
                /\ slot' = [slot EXCEPT ![s] = [at |-> "forward", doc |-> doc,
                                                session |-> drawn + 1, version |-> 0]]
           ELSE /\ \/ \E d \in RowsOf(idem) : rows[d].requested = requested /\ Replayed(s, d)
                   \/ (\A d \in RowsOf(idem) : rows[d].requested # requested) /\ Ended(s)
                /\ UNCHANGED rows
        /\ UNCHANGED sessions

(* forwardToWorker: the request reaches the service. *)
ForwardCreate(s) ==
    /\ At(s, "forward")
    /\ sessions' = [sessions EXCEPT ![slot[s].session].state = "running"]
    /\ Moved(s, "wait")
    /\ UNCHANGED <<rows, drawn>>

(* The service stores the identity of the session, commits version 1, or      *)
(* refuses; it does so whether or not the gateway still waits.                *)
OpenSession(n) ==
    /\ sessions[n].state = "running"
    /\ sessions' = [sessions EXCEPT ![n].state = "open"]
    /\ UNCHANGED <<rows, slot, drawn>>

CommitSession(n) ==
    /\ sessions[n].state = "open" /\ ~Committed(n)
    /\ sessions' = [sessions EXCEPT ![n].version = 1]
    /\ UNCHANGED <<rows, slot, drawn>>

RefuseSession(n) ==
    /\ sessions[n].state \in {"running", "open"} /\ ~Committed(n)
    /\ sessions' = [sessions EXCEPT ![n].state = "refused"]
    /\ UNCHANGED <<rows, slot, drawn>>

(* Mutant of CreateOutcome: what is not known is taken for a success. *)
CreateOutcome_assumed(s, outcome) ==
    IF sessions[slot[s].session].state = "refused" THEN Moved(s, "failed") ELSE Seen(s, "ready", 1)

(* The answer: a success carries version 1; any other status below 500 ends   *)
(* in markFailed, also a success whose body cannot be read; a 5xx, a timeout  *)
(* or a lost connection says nothing.                                         *)
CreateOutcome(s, outcome) ==
    LET n == slot[s].session
    IN  CASE outcome = "answer" /\ Committed(n) -> Seen(s, "ready", 1)
          [] outcome = "answer" /\ ~Committed(n) -> Moved(s, "failed")
          [] outcome = "truncated" -> Moved(s, "failed")
          [] outcome = "unknown" -> Ended(s)

(* What can come back: no answer below 500 before the service has decided,    *)
(* and no success that is cut short unless it succeeded.                      *)
Outcomes(n) ==
    {"unknown"} \cup (IF sessions[n].state = "refused" \/ Committed(n) THEN {"answer"} ELSE {})
                \cup (IF Committed(n) THEN {"truncated"} ELSE {})

CreateAnswer(s) ==
    /\ At(s, "wait")
    /\ \E outcome \in Outcomes(slot[s].session) : CreateOutcome(s, outcome)
    /\ UNCHANGED <<rows, sessions, drawn>>

--------------------------------------------------------------------------------
(* The directory *)

(* Mutant of MarkReady: the state is not looked at. *)
MarkReady_any(s) ==
    /\ At(s, "ready")
    /\ rows' = [rows EXCEPT ![slot[s].doc].state = "ready", ![slot[s].doc].version = slot[s].version]
    /\ Ended(s)
    /\ UNCHANGED <<sessions, drawn>>

(* markReady() takes the version it is given and throws on a failed row. *)
MarkReady(s) ==
    /\ At(s, "ready")
    /\ LET d == slot[s].doc
       IN  rows' = IF rows[d].state \in {"creating", "ready"}
                   THEN [rows EXCEPT ![d].state = "ready", ![d].version = slot[s].version]
                   ELSE rows
    /\ Ended(s)
    /\ UNCHANGED <<sessions, drawn>>

(* markFailed() throws on a ready row. *)
MarkFailed(s) ==
    /\ At(s, "failed")
    /\ LET d == slot[s].doc
       IN  rows' = IF rows[d].state \in {"creating", "failed"}
                   THEN [rows EXCEPT ![d].state = "failed"] ELSE rows
    /\ Ended(s)
    /\ UNCHANGED <<sessions, drawn>>

(* advanceVersion() only goes forward, and only on a ready row. *)
AdvanceVersion(s) ==
    /\ At(s, "advance")
    /\ LET d == slot[s].doc
       IN  rows' = IF rows[d].state = "ready" /\ rows[d].version < slot[s].version
                   THEN [rows EXCEPT ![d].version = slot[s].version] ELSE rows
    /\ Ended(s)
    /\ UNCHANGED <<sessions, drawn>>

--------------------------------------------------------------------------------
(* Requests for one document *)

Begin(s, d, at) ==
    slot' = [slot EXCEPT ![s] = [at |-> at, doc |-> d, session |-> rows[d].session, version |-> 0]]

(* GET of a document: only a row in creating is probed. *)
GetStatus(s, d) ==
    /\ At(s, "idle") /\ d \in DOMAIN rows /\ rows[d].state = "creating"
    /\ Begin(s, d, "probe")
    /\ UNCHANGED <<rows, sessions, drawn>>

(* The status of the session has exists = true and a positive version. *)
Confirmed(n) == sessions[n].state = "open" /\ Committed(n)

(* reconcileCreatingDocument *)
Probe(s) ==
    /\ At(s, "probe")
    /\ LET n == slot[s].session
       IN  IF Confirmed(n) THEN Seen(s, "ready", sessions[n].version)
           ELSE Ended(s)
    /\ UNCHANGED <<rows, sessions, drawn>>

(* apply, rollback, run, reset and commit-recover go through a ready row. *)
BeginEdit(s, d) ==
    /\ At(s, "idle") /\ d \in DOMAIN rows /\ rows[d].state = "ready"
    /\ Begin(s, d, "edit")
    /\ UNCHANGED <<rows, sessions, drawn>>

(* apply and rollback commit a version and the answer carries it; after run   *)
(* and reset the directory is only touched.                                   *)
Edit(s) ==
    /\ At(s, "edit")
    /\ LET n == slot[s].session
       IN  /\ sessions[n].version < MaxVersion
           /\ sessions' = [sessions EXCEPT ![n].version = @ + 1]
           /\ Seen(s, "advance", sessions[n].version + 1) \/ Ended(s)
    /\ UNCHANGED <<rows, drawn>>

(* commit-recover, or the retry of an explicit apply: a receipt names a       *)
(* version committed earlier.                                                 *)
Recover(s) ==
    /\ At(s, "edit")
    /\ \E v \in 1 .. sessions[slot[s].session].version : Seen(s, "advance", v)
    /\ UNCHANGED <<rows, sessions, drawn>>

(* cloneDocument: the source must be ready and its snapshot is taken before   *)
(* the target is reserved.                                                    *)
CloneSource(s, d) ==
    /\ At(s, "idle") /\ d \in DOMAIN rows /\ rows[d].state = "ready"
    /\ Moved(s, "cloned")
    /\ UNCHANGED <<rows, sessions, drawn>>

(* The gateway stops, a call fails or an answer is lost. *)
Fail(s) ==
    /\ ~At(s, "idle")
    /\ Ended(s)
    /\ UNCHANGED <<rows, sessions, drawn>>

Init ==
    /\ rows = <<>> /\ drawn = 0
    /\ sessions = [n \in Session |-> Absent]
    /\ slot = [s \in Slots |-> Idle]

Handler(s) ==
    \/ \E requested \in Docs \cup {None}, key \in Keys \cup {None} : Reserve(s, requested, key)
    \/ ForwardCreate(s) \/ CreateAnswer(s)
    \/ MarkReady(s) \/ MarkFailed(s) \/ AdvanceVersion(s)
    \/ \E d \in DOMAIN rows : GetStatus(s, d) \/ BeginEdit(s, d) \/ CloneSource(s, d)
    \/ Probe(s) \/ Edit(s) \/ Recover(s)
    \/ Fail(s)

Service(n) == OpenSession(n) \/ CommitSession(n) \/ RefuseSession(n)

Next ==
    \/ \E s \in Slots : Handler(s)
    \/ \E n \in Session : Service(n)

Spec == Init /\ [][Next]_vars

--------------------------------------------------------------------------------
(* Properties *)

Steps == {"idle", "cloned", "forward", "wait", "ready", "failed", "advance", "probe", "edit"}

(* Rows, sessions and requests have their types. *)
DirTypeOK ==
    /\ drawn \in 0 .. MaxSessions
    /\ DOMAIN rows \subseteq Docs \cup Session
    /\ \A d \in DOMAIN rows :
          /\ rows[d].session \in 1 .. drawn
          /\ rows[d].state \in {"creating", "ready", "failed"}
          /\ rows[d].version \in 0 .. MaxVersion
    /\ \A n \in Session : /\ sessions[n].state \in {"absent", "running", "open", "refused"}
                          /\ sessions[n].version \in 0 .. MaxVersion
    /\ \A s \in Slots : slot[s].at \in Steps /\ slot[s].session \in 0 .. drawn

(* A ready row is not a promise but a fact: its session has committed, and    *)
(* the version shown was committed.  Creation answers, probes and edits of    *)
(* several requests may set it in any order (markReady, advanceVersion).      *)
ReadyIsCommitted ==
    \A d \in DOMAIN rows : rows[d].state = "ready" =>
        rows[d].version \in 1 .. sessions[rows[d].session].version

(* One idempotency key means one session: a session that was asked for is     *)
(* named by a row, so no retry or race leaves one behind that nobody can      *)
(* reach, and no two rows share a key or a session (reserve).                 *)
OneSessionPerKey ==
    /\ \A n \in Session : sessions[n] # Absent => \E d \in DOMAIN rows : rows[d].session = n
    /\ \A d, e \in DOMAIN rows :
          rows[d].key = rows[e].key \/ rows[d].session = rows[e].session => d = e

(* A row fails only after the service has decided: as long as the create      *)
(* request may still commit, the row is creating (createDocument leaves it    *)
(* alone on a timeout or a 5xx).                                              *)
FailedIsDecided ==
    \A d \in DOMAIN rows : rows[d].state = "failed" =>
        LET n == rows[d].session IN sessions[n].state = "refused" \/ Committed(n)

(* Well-formed rows that say only what the service has done: ready means      *)
(* committed, failed means decided, however late its answers come.            *)
RowsTruthful == DirTypeOK /\ ReadyIsCommitted /\ FailedIsDecided

(* Late answers do not undo a decision: a row that is ready or failed stays   *)
(* so, and keeps its session and key (markReady and markFailed).              *)
DecisionsFinal ==
    [][\A d \in DOMAIN rows :
          /\ rows'[d].session = rows[d].session /\ rows'[d].key = rows[d].key
          /\ rows[d].state # "creating" => rows'[d].state = rows[d].state]_vars

(* What the protocol document promises of a failed row: the creation failed   *)
(* for good, so there is no document behind it.                               *)
FailedHasNoDocument ==
    \A d \in DOMAIN rows : rows[d].state = "failed" => ~Committed(rows[d].session)
================================================================================
