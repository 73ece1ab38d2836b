------------------------- MODULE GatewayDirectoryProof -------------------------
(***************************************************************************)
(* The document directory, for any number of requests, documents, keys,    *)
(* sessions and versions: rows say only what the document service has      *)
(* done, a key means one session, and a decision is final.                 *)
(***************************************************************************)
EXTENDS GatewayDirectory, TLAPS

--------------------------------------------------------------------------------
(* The inductive invariant *)

Row     == [key : Keys \cup Docs \cup Session, requested : Docs \cup {None}, session : Session,
            state : {"creating", "ready", "failed"}, version : 0 .. MaxVersion]
SessionRow == [state : {"absent", "running", "open", "refused"}, version : 0 .. MaxVersion]
HandlerType == [at : Steps, doc : Docs \cup Session \cup {None}, session : 0 .. MaxSessions,
                version : 0 .. MaxVersion]

(* The service has answered the creation, or will never answer otherwise. *)
Decided(n) == sessions[n].state = "refused" \/ Committed(n)

Types ==
    /\ drawn \in 0 .. MaxSessions
    /\ DOMAIN rows \subseteq Docs \cup Session
    /\ \A d \in DOMAIN rows : rows[d] \in Row /\ rows[d].session <= drawn
    /\ sessions \in [Session -> SessionRow]
    /\ slot \in [Slots -> HandlerType] /\ \A s \in Slots : slot[s].session <= drawn

(* What a request may rely on where it stands: it works on the session that   *)
(* its row names, a creation is forwarded to a session that nobody has seen,  *)
(* and the version or the failure that it is about to record is a fact.       *)
HandlerInv(s) ==
    LET q == slot[s]
    IN  /\ q.at \notin {"idle", "cloned"} => q.doc \in DOMAIN rows /\ rows[q.doc].session = q.session
        /\ q.at = "forward" => sessions[q.session] = Absent
        /\ q.at = "edit" => Committed(q.session)
        /\ q.at \in {"ready", "advance"} => q.version \in 1 .. sessions[q.session].version
        /\ q.at = "failed" => Decided(q.session)

(* A session is asked for by one request only. *)
ForwardOnce ==
    \A s, u \in Slots :
        slot[s].at = "forward" /\ slot[u].at = "forward" /\ slot[s].session = slot[u].session => s = u

DirectoryInv ==
    /\ Types /\ ReadyIsCommitted /\ FailedIsDecided /\ OneSessionPerKey /\ ForwardOnce
    /\ \A s \in Slots : HandlerInv(s)

--------------------------------------------------------------------------------
(* Steps *)

(* Rows keep their session, and what the service has done stays done. *)
Grown ==
    /\ drawn <= drawn'
    /\ \A d \in DOMAIN rows : d \in DOMAIN rows' /\ rows'[d].session = rows[d].session
    /\ \A n \in Session : /\ sessions[n].version <= sessions'[n].version
                          /\ sessions[n].state = "refused" => sessions'[n].state = "refused"

(* A request that does not take the step keeps what it relies on, if the step *)
(* takes nothing back and does not reach a session it has yet to ask for.     *)
LEMMA OthersKept ==
    ASSUME DirectoryInv, Types', Grown, NEW u \in Slots, slot'[u] = slot[u],
           slot[u].at = "forward" => sessions'[slot[u].session] = sessions[slot[u].session]
    PROVE  HandlerInv(u)'
<1>1. HandlerInv(u) /\ slot[u] \in HandlerType /\ Types
  BY DEF DirectoryInv, Types
<1>2. slot[u].at \notin {"idle", "cloned"} =>
         /\ slot[u].doc \in DOMAIN rows' /\ rows'[slot[u].doc].session = slot[u].session
         /\ slot[u].session \in Session
  BY <1>1 DEF HandlerInv, Grown, Types, Row
<1>3. \A n \in Session : /\ sessions[n].version \in Int /\ sessions'[n].version \in Int
                         /\ sessions[n].version <= sessions'[n].version
  BY <1>1 DEF Grown, Types, SessionRow
<1>4. \A n \in Session : /\ Committed(n) => Committed(n)'
                         /\ Decided(n) => Decided(n)'
  BY <1>3 DEF Grown, Committed, Decided
<1>5. slot[u].at = "edit" => Committed(slot[u].session)'
  BY <1>1, <1>2, <1>4 DEF HandlerInv
<1>6. slot[u].at = "failed" => Decided(slot[u].session)'
  BY <1>1, <1>2, <1>4 DEF HandlerInv
<1>7. slot[u].at \in {"ready", "advance"} => slot[u].version \in 1 .. sessions'[slot[u].session].version
  BY <1>1, <1>2, <1>3 DEF HandlerInv
<1>8. slot[u].at = "forward" => sessions'[slot[u].session] = Absent
  BY <1>1 DEF HandlerInv
<1>9. QED
  BY <1>2, <1>5, <1>6, <1>7, <1>8 DEF HandlerInv, Committed, Decided

(* A step of one request keeps the invariant if it keeps the tables in order. *)
LEMMA StepKeeps ==
    ASSUME DirectoryInv, NEW s \in Slots, Types', ReadyIsCommitted', FailedIsDecided', OneSessionPerKey',
           Grown, HandlerInv(s)', slot'[s].at # "forward",
           \A u \in Slots \ {s} :
              /\ slot'[u] = slot[u]
              /\ slot[u].at = "forward" => sessions'[slot[u].session] = sessions[slot[u].session]
    PROVE  DirectoryInv'
<1>1. \A u \in Slots : HandlerInv(u)'
  BY OthersKept
<1>2. ForwardOnce'
  BY DEF DirectoryInv, ForwardOnce
<1>3. QED
  BY <1>1, <1>2 DEF DirectoryInv

(* A step that only moves its request. *)
LEMMA MoveKeeps ==
    ASSUME DirectoryInv, NEW s \in Slots, UNCHANGED <<rows, sessions, drawn>>,
           slot' \in [Slots -> HandlerType], slot'[s].session <= drawn, slot'[s].at # "forward",
           \A u \in Slots \ {s} : slot'[u] = slot[u], HandlerInv(s)'
    PROVE  DirectoryInv'
<1>1. Types'
  BY DEF DirectoryInv, Types
<1>2. ReadyIsCommitted' /\ FailedIsDecided' /\ OneSessionPerKey'
  BY DEF DirectoryInv, ReadyIsCommitted, FailedIsDecided, OneSessionPerKey, Committed
<1>3. Grown
  BY DEF DirectoryInv, Types, Grown, SessionRow
<1>4. QED
  BY <1>1, <1>2, <1>3, StepKeeps

(* A request that ends relies on nothing. *)
LEMMA EndedOne ==
    ASSUME slot \in [Slots -> HandlerType], MaxSessions \in Nat, MaxVersion \in Nat, NEW s \in Slots, Ended(s)
    PROVE  /\ slot' \in [Slots -> HandlerType] /\ slot'[s] = Idle
           /\ slot'[s].at = "idle" /\ slot'[s].session = 0
           /\ \A u \in Slots \ {s} : slot'[u] = slot[u]
           /\ HandlerInv(s)'
<1>1. Idle \in HandlerType /\ Idle.at = "idle" /\ Idle.session = 0
  BY DEF Idle, HandlerType, Steps
<1>2. /\ slot' \in [Slots -> HandlerType] /\ slot'[s] = Idle
      /\ \A u \in Slots \ {s} : slot'[u] = slot[u]
  BY <1>1 DEF Ended
<1>3. HandlerInv(s)'
  BY <1>1, <1>2 DEF HandlerInv
<1>4. QED
  BY <1>1, <1>2, <1>3

(* A request that goes on keeps its document and session. *)
LEMMA MovedOne ==
    ASSUME slot \in [Slots -> HandlerType], NEW s \in Slots, NEW to \in Steps, Moved(s, to)
    PROVE  /\ slot' \in [Slots -> HandlerType]
           /\ slot'[s] = [slot[s] EXCEPT !.at = to] /\ slot'[s].at = to /\ slot'[s].doc = slot[s].doc
           /\ slot'[s].session = slot[s].session /\ slot'[s].version = slot[s].version
           /\ \A u \in Slots \ {s} : slot'[u] = slot[u]
BY DEF Moved, HandlerType

(* A request that goes on with a version it has been told. *)
LEMMA SeenOne ==
    ASSUME slot \in [Slots -> HandlerType], NEW s \in Slots, NEW to \in Steps, NEW v \in 0 .. MaxVersion,
           Seen(s, to, v)
    PROVE  /\ slot' \in [Slots -> HandlerType]
           /\ slot'[s].at = to /\ slot'[s].doc = slot[s].doc
           /\ slot'[s].session = slot[s].session /\ slot'[s].version = v
           /\ \A u \in Slots \ {s} : slot'[u] = slot[u]
BY DEF Seen, HandlerType

(* Ending a request, for whatever reason, keeps the invariant. *)
LEMMA EndKeeps ==
    ASSUME DirectoryInv, NEW s \in Slots, UNCHANGED <<rows, sessions, drawn>>, Ended(s)
    PROVE  DirectoryInv'
<1>1. slot \in [Slots -> HandlerType] /\ drawn \in Nat
  BY DirectoryAssumption DEF DirectoryInv, Types
<1>2. QED
  BY <1>1, EndedOne, MoveKeeps, DirectoryAssumption

--------------------------------------------------------------------------------
(* Requests that only move *)

(* The facts of a request that is in progress. *)
LEMMA HandlerFacts ==
    ASSUME DirectoryInv, NEW s \in Slots
    PROVE  /\ slot \in [Slots -> HandlerType] /\ HandlerInv(s) /\ slot[s] \in HandlerType
           /\ drawn \in Nat /\ MaxSessions \in Nat /\ MaxVersion \in Nat \ {0}
           /\ slot[s].session <= drawn
           /\ slot[s].at \notin {"idle", "cloned"} =>
                 /\ slot[s].doc \in DOMAIN rows /\ rows[slot[s].doc].session = slot[s].session
                 /\ rows[slot[s].doc] \in Row /\ slot[s].session \in Session
                 /\ sessions[slot[s].session] \in SessionRow
BY DirectoryAssumption DEF DirectoryInv, Types, HandlerInv, Row

(* A request that starts on a row works on the session of the row. *)
LEMMA BeginKeeps ==
    ASSUME DirectoryInv, NEW s \in Slots, NEW d \in DOMAIN rows, NEW at \in {"probe", "edit"},
           Begin(s, d, at), UNCHANGED <<rows, sessions, drawn>>,
           at = "edit" => rows[d].state = "ready"
    PROVE  DirectoryInv'
<1>1. /\ slot \in [Slots -> HandlerType] /\ MaxVersion \in Nat
      /\ rows[d] \in Row /\ rows[d].session <= drawn /\ d \in Docs \cup Session
  BY HandlerFacts DEF DirectoryInv, Types
<1> DEFINE q == [at |-> at, doc |-> d, session |-> rows[d].session, version |-> 0]
<1>2. q \in HandlerType /\ q.at = at /\ q.doc = d /\ q.session = rows[d].session
  BY <1>1, DirectoryAssumption DEF HandlerType, Steps, Row, Session
<1>3. slot' = [slot EXCEPT ![s] = q]
  BY DEF Begin
<1> HIDE DEF q
<1>4. /\ slot' \in [Slots -> HandlerType] /\ slot'[s] = q
      /\ \A u \in Slots \ {s} : slot'[u] = slot[u]
  BY <1>1, <1>2, <1>3
<1>5. at = "edit" => Committed(rows[d].session)
  BY <1>1 DEF DirectoryInv, ReadyIsCommitted, Committed, Types, Row, SessionRow
<1>6. HandlerInv(s)'
  BY <1>2, <1>4, <1>5 DEF HandlerInv, Committed
<1>7. QED
  BY <1>1, <1>2, <1>4, <1>6, MoveKeeps

(* reconcileCreatingDocument goes on only with a version the session has. *)
LEMMA ProbeKeeps ==
    ASSUME DirectoryInv, NEW s \in Slots, Probe(s)
    PROVE  DirectoryInv'
<1> DEFINE n == slot[s].session
<1>1. CASE ~Confirmed(n)
  BY <1>1, EndKeeps DEF Probe
<1>2. CASE Confirmed(n)
  <2>1. /\ slot[s].at = "probe" /\ Seen(s, "ready", sessions[n].version) /\ UNCHANGED <<rows, sessions, drawn>>
    BY <1>2 DEF Probe, At
  <2>2. n \in Session /\ sessions[n] \in SessionRow /\ slot[s].doc \in DOMAIN rows /\ rows[slot[s].doc].session = n
    BY <2>1, HandlerFacts
  <2>3. sessions[n].version \in 0 .. MaxVersion /\ sessions[n].version >= 1
    BY <1>2, <2>2 DEF SessionRow, Confirmed, Committed
  <2>4. /\ slot' \in [Slots -> HandlerType] /\ slot'[s].at = "ready" /\ slot'[s].doc = slot[s].doc
        /\ slot'[s].session = n /\ slot'[s].version = sessions[n].version
        /\ \A u \in Slots \ {s} : slot'[u] = slot[u]
    BY <2>1, <2>3, HandlerFacts, SeenOne DEF Steps
  <2>5. HandlerInv(s)'
    BY <2>1, <2>2, <2>3, <2>4 DEF HandlerInv
  <2>6. QED
    BY <2>1, <2>4, <2>5, HandlerFacts, MoveKeeps
<1>3. QED
  BY <1>1, <1>2

(* A receipt names a version that was committed. *)
LEMMA RecoverKeeps ==
    ASSUME DirectoryInv, NEW s \in Slots, Recover(s)
    PROVE  DirectoryInv'
<1> DEFINE n == slot[s].session
<1>1. slot[s].at = "edit" /\ UNCHANGED <<rows, sessions, drawn>>
  BY DEF Recover, At
<1>2. n \in Session /\ sessions[n] \in SessionRow /\ slot[s].doc \in DOMAIN rows /\ rows[slot[s].doc].session = n
  BY <1>1, HandlerFacts
<1>3. PICK v \in 1 .. sessions[n].version : Seen(s, "advance", v)
  BY DEF Recover
<1>4. v \in 0 .. MaxVersion
  BY <1>2, DirectoryAssumption DEF SessionRow
<1>5. /\ slot' \in [Slots -> HandlerType] /\ slot'[s].at = "advance" /\ slot'[s].doc = slot[s].doc
      /\ slot'[s].session = n /\ slot'[s].version = v
      /\ \A u \in Slots \ {s} : slot'[u] = slot[u]
  BY <1>3, <1>4, HandlerFacts, SeenOne DEF Steps
<1>6. HandlerInv(s)'
  BY <1>1, <1>2, <1>5 DEF HandlerInv
<1>7. QED
  BY <1>1, <1>5, <1>6, HandlerFacts, MoveKeeps

(* createDocument records only what the service has decided: a success below  *)
(* version 1, or a failure before the decision, cannot come back.             *)
LEMMA CreateAnswerKeeps ==
    ASSUME DirectoryInv, NEW s \in Slots, CreateAnswer(s)
    PROVE  DirectoryInv'
<1> DEFINE n == slot[s].session
<1>1. slot[s].at = "wait" /\ UNCHANGED <<rows, sessions, drawn>>
  BY DEF CreateAnswer, At
<1>2. /\ n \in Session /\ sessions[n] \in SessionRow /\ slot[s].doc \in DOMAIN rows /\ rows[slot[s].doc].session = n
      /\ slot \in [Slots -> HandlerType] /\ 1 \in 0 .. MaxVersion
  BY <1>1, HandlerFacts
<1>3. \/ Committed(n) /\ Seen(s, "ready", 1)
      \/ Decided(n) /\ Moved(s, "failed")
      \/ Ended(s)
  <2>1. PICK outcome \in Outcomes(n) : CreateOutcome(s, outcome)
    BY DEF CreateAnswer
  <2>2. \/ outcome = "unknown"
        \/ outcome = "answer" /\ Decided(n)
        \/ outcome = "truncated" /\ Committed(n)
    BY DEF Outcomes, Decided
  <2>3. QED
    BY <2>1, <2>2 DEF CreateOutcome, Decided
<1>4. CASE Ended(s)
  BY <1>1, <1>4, EndKeeps
<1>5. CASE Committed(n) /\ Seen(s, "ready", 1)
  <2>1. /\ slot' \in [Slots -> HandlerType] /\ slot'[s].at = "ready" /\ slot'[s].doc = slot[s].doc
        /\ slot'[s].session = n /\ slot'[s].version = 1
        /\ \A u \in Slots \ {s} : slot'[u] = slot[u]
    BY <1>2, <1>5, SeenOne DEF Steps
  <2>2. HandlerInv(s)'
    BY <1>1, <1>2, <1>5, <2>1 DEF HandlerInv, Committed, SessionRow
  <2>3. QED
    BY <1>1, <2>1, <2>2, HandlerFacts, MoveKeeps
<1>6. CASE Decided(n) /\ Moved(s, "failed")
  <2>1. /\ slot' \in [Slots -> HandlerType] /\ slot'[s].at = "failed" /\ slot'[s].doc = slot[s].doc
        /\ slot'[s].session = n
        /\ \A u \in Slots \ {s} : slot'[u] = slot[u]
    BY <1>2, <1>6, MovedOne DEF Steps
  <2>2. HandlerInv(s)'
    BY <1>1, <1>2, <1>6, <2>1 DEF HandlerInv, Decided, Committed
  <2>3. QED
    BY <1>1, <2>1, <2>2, HandlerFacts, MoveKeeps
<1>7. QED
  BY <1>3, <1>4, <1>5, <1>6

(* A clone waits with nothing in hand. *)
LEMMA CloneSourceKeeps ==
    ASSUME DirectoryInv, NEW s \in Slots, NEW d \in DOMAIN rows, CloneSource(s, d)
    PROVE  DirectoryInv'
<1>1. /\ slot' \in [Slots -> HandlerType] /\ slot'[s].at = "cloned" /\ slot'[s].session = slot[s].session
      /\ \A u \in Slots \ {s} : slot'[u] = slot[u]
      /\ UNCHANGED <<rows, sessions, drawn>>
  BY HandlerFacts, MovedOne DEF CloneSource, Steps
<1>2. HandlerInv(s)'
  BY <1>1 DEF HandlerInv
<1>3. QED
  BY <1>1, <1>2, HandlerFacts, MoveKeeps

--------------------------------------------------------------------------------
(* Requests that change a row *)

(* A row that is changed by a request that ends: it keeps key and session,    *)
(* and its new state is a fact.                                               *)
LEMMA RowKeeps ==
    ASSUME DirectoryInv, NEW s \in Slots, Ended(s), UNCHANGED <<sessions, drawn>>,
           NEW d \in DOMAIN rows, NEW row \in Row, rows' = [rows EXCEPT ![d] = row],
           row.key = rows[d].key, row.session = rows[d].session,
           row.state = "ready" => row.version \in 1 .. sessions[row.session].version,
           row.state = "failed" => Decided(row.session)
    PROVE  DirectoryInv'
<1>1. /\ slot' \in [Slots -> HandlerType] /\ slot'[s].at = "idle" /\ slot'[s].session = 0
      /\ \A u \in Slots \ {s} : slot'[u] = slot[u]
      /\ HandlerInv(s)'
  BY HandlerFacts, EndedOne
<1>2. /\ DOMAIN rows' = DOMAIN rows /\ rows'[d] = row
      /\ \A e \in DOMAIN rows \ {d} : rows'[e] = rows[e]
  OBVIOUS
<1>3. /\ \A e \in DOMAIN rows : rows'[e].key = rows[e].key /\ rows'[e].session = rows[e].session
  BY <1>2
<1>4. Types'
  BY <1>1, <1>2, HandlerFacts DEF DirectoryInv, Types
<1>5. ReadyIsCommitted' /\ FailedIsDecided'
  BY <1>2 DEF DirectoryInv, ReadyIsCommitted, FailedIsDecided, Decided, Committed
<1>6. OneSessionPerKey'
  BY <1>2, <1>3 DEF DirectoryInv, OneSessionPerKey
<1>7. Grown
  BY <1>2, <1>3 DEF DirectoryInv, Types, Grown, SessionRow
<1>8. QED
  BY <1>1, <1>4, <1>5, <1>6, <1>7, StepKeeps

(* markReady, markFailed and advanceVersion record what the request knows. *)
LEMMA MarkKeeps ==
    ASSUME DirectoryInv, NEW s \in Slots, MarkReady(s) \/ MarkFailed(s) \/ AdvanceVersion(s)
    PROVE  DirectoryInv'
<1> DEFINE d == slot[s].doc
<1>1. /\ slot[s].at \in {"ready", "failed", "advance"} /\ Ended(s) /\ UNCHANGED <<sessions, drawn>>
  BY DEF MarkReady, MarkFailed, AdvanceVersion, At
<1>2. /\ d \in DOMAIN rows /\ rows[d] \in Row /\ rows[d].session = slot[s].session
      /\ slot[s].version \in 0 .. MaxVersion /\ HandlerInv(s)
  BY <1>1, HandlerFacts DEF HandlerType
<1>3. CASE UNCHANGED rows
  BY <1>1, <1>3, EndKeeps
<1>4. CASE MarkReady(s) /\ rows' = [rows EXCEPT ![d].state = "ready", ![d].version = slot[s].version]
  <2> DEFINE row == [rows[d] EXCEPT !.state = "ready", !.version = slot[s].version]
  <2>1. /\ row \in Row /\ row.key = rows[d].key /\ row.session = rows[d].session
        /\ row.state = "ready" /\ row.version = slot[s].version
    BY <1>2 DEF Row
  <2>2. rows' = [rows EXCEPT ![d] = row]
    BY <1>2, <1>4
  <2>3. slot[s].version \in 1 .. sessions[rows[d].session].version
    BY <1>2, <1>4 DEF HandlerInv, MarkReady, At
  <2> HIDE DEF row
  <2>4. QED
    BY <1>1, <1>2, <2>1, <2>2, <2>3, RowKeeps
<1>5. CASE MarkFailed(s) /\ rows' = [rows EXCEPT ![d].state = "failed"]
  <2> DEFINE row == [rows[d] EXCEPT !.state = "failed"]
  <2>1. row \in Row /\ row.key = rows[d].key /\ row.session = rows[d].session /\ row.state = "failed"
    BY <1>2 DEF Row
  <2>2. rows' = [rows EXCEPT ![d] = row]
    BY <1>2, <1>5
  <2>3. Decided(rows[d].session)
    BY <1>2, <1>5 DEF HandlerInv, MarkFailed, At
  <2> HIDE DEF row
  <2>4. QED
    BY <1>1, <1>2, <2>1, <2>2, <2>3, RowKeeps
<1>6. CASE AdvanceVersion(s) /\ rows[d].state = "ready" /\ rows' = [rows EXCEPT ![d].version = slot[s].version]
  <2> DEFINE row == [rows[d] EXCEPT !.version = slot[s].version]
  <2>1. /\ row \in Row /\ row.key = rows[d].key /\ row.session = rows[d].session
        /\ row.state = "ready" /\ row.version = slot[s].version
    BY <1>2, <1>6 DEF Row
  <2>2. rows' = [rows EXCEPT ![d] = row]
    BY <1>2, <1>6
  <2>3. slot[s].version \in 1 .. sessions[rows[d].session].version
    BY <1>2, <1>6 DEF HandlerInv, AdvanceVersion, At
  <2> HIDE DEF row
  <2>4. QED
    BY <1>1, <1>2, <2>1, <2>2, <2>3, RowKeeps
<1>7. QED
  BY <1>3, <1>4, <1>5, <1>6 DEF MarkReady, MarkFailed, AdvanceVersion

--------------------------------------------------------------------------------
(* The service *)

(* A session that has been asked for goes on: its version never falls and a   *)
(* refusal is final, so rows and requests keep their facts.                   *)
LEMMA SessionGrows ==
    ASSUME DirectoryInv, NEW n \in Session, NEW q \in SessionRow, sessions' = [sessions EXCEPT ![n] = q],
           UNCHANGED <<rows, drawn>>, sessions[n].version <= q.version,
           sessions[n].state = "refused" => q.state = "refused",
           \E d \in DOMAIN rows : rows[d].session = n
    PROVE  /\ sessions' \in [Session -> SessionRow] /\ sessions'[n] = q
           /\ \A m \in Session \ {n} : sessions'[m] = sessions[m]
           /\ ReadyIsCommitted' /\ FailedIsDecided' /\ OneSessionPerKey' /\ Grown
<1>1. /\ sessions \in [Session -> SessionRow] /\ drawn \in Int
      /\ \A d \in DOMAIN rows : rows[d] \in Row
  BY DEF DirectoryInv, Types
<1>2. /\ sessions' \in [Session -> SessionRow] /\ sessions'[n] = q
      /\ \A m \in Session \ {n} : sessions'[m] = sessions[m]
  BY <1>1
<1>3. \A m \in Session : /\ sessions[m].version \in Int /\ sessions'[m].version \in Int
                         /\ sessions[m].version <= sessions'[m].version
                         /\ sessions[m].state = "refused" => sessions'[m].state = "refused"
  BY <1>1, <1>2 DEF SessionRow
<1>4. ReadyIsCommitted'
  BY <1>1, <1>3 DEF DirectoryInv, ReadyIsCommitted, Row
<1>5. FailedIsDecided'
  BY <1>1, <1>3 DEF DirectoryInv, FailedIsDecided, Committed, Row
<1>6. OneSessionPerKey'
  BY <1>2 DEF DirectoryInv, OneSessionPerKey
<1>7. Grown
  BY <1>1, <1>3 DEF Grown
<1>8. QED
  BY <1>2, <1>4, <1>5, <1>6, <1>7

(* The service acts on sessions that were asked for only: they have a row, and *)
(* no request is still about to ask for them.                                  *)
LEMMA ServiceKeeps ==
    ASSUME DirectoryInv, NEW n \in Session, Service(n)
    PROVE  DirectoryInv'
<1>1. /\ sessions \in [Session -> SessionRow] /\ sessions[n] \in SessionRow /\ UNCHANGED <<rows, slot, drawn>>
      /\ slot \in [Slots -> HandlerType]
  BY DEF DirectoryInv, Types, Service, OpenSession, CommitSession, RefuseSession
<1>2. sessions[n].state \in {"running", "open"} /\ sessions[n] # Absent
  BY DEF Service, OpenSession, CommitSession, RefuseSession, Absent
<1>3. PICK q \in SessionRow : /\ sessions' = [sessions EXCEPT ![n] = q]
                              /\ sessions[n].version <= q.version
  <2>1. CASE OpenSession(n)
    <3> DEFINE q == [sessions[n] EXCEPT !.state = "open"]
    <3>1. q \in SessionRow /\ sessions[n].version <= q.version
      BY <1>1, <2>1, DirectoryAssumption DEF SessionRow, OpenSession
    <3>2. sessions' = [sessions EXCEPT ![n] = q]
      BY <1>1, <2>1 DEF OpenSession
    <3>3. QED
      BY <3>1, <3>2
  <2>2. CASE CommitSession(n)
    <3> DEFINE q == [sessions[n] EXCEPT !.version = 1]
    <3>1. q \in SessionRow /\ sessions[n].version <= q.version
      BY <1>1, <2>2, DirectoryAssumption DEF SessionRow, CommitSession, Committed
    <3>2. sessions' = [sessions EXCEPT ![n] = q]
      BY <1>1, <2>2 DEF CommitSession
    <3>3. QED
      BY <3>1, <3>2
  <2>3. CASE RefuseSession(n)
    <3> DEFINE q == [sessions[n] EXCEPT !.state = "refused"]
    <3>1. q \in SessionRow /\ sessions[n].version <= q.version
      BY <1>1, <2>3, DirectoryAssumption DEF SessionRow, RefuseSession
    <3>2. sessions' = [sessions EXCEPT ![n] = q]
      BY <1>1, <2>3 DEF RefuseSession
    <3>3. QED
      BY <3>1, <3>2
  <2>4. QED
    BY <2>1, <2>2, <2>3 DEF Service
<1>4. \E d \in DOMAIN rows : rows[d].session = n
  BY <1>2 DEF DirectoryInv, OneSessionPerKey
<1>5. /\ sessions' \in [Session -> SessionRow]
      /\ \A m \in Session \ {n} : sessions'[m] = sessions[m]
      /\ ReadyIsCommitted' /\ FailedIsDecided' /\ OneSessionPerKey' /\ Grown
  BY <1>1, <1>2, <1>3, <1>4, SessionGrows
<1>6. Types' /\ ForwardOnce'
  BY <1>1, <1>5 DEF DirectoryInv, Types, ForwardOnce
<1>7. ASSUME NEW u \in Slots PROVE HandlerInv(u)'
  <2>1. slot[u].at = "forward" => sessions'[slot[u].session] = sessions[slot[u].session]
    BY <1>2, <1>5, HandlerFacts DEF HandlerInv
  <2>2. QED
    BY <1>1, <1>5, <1>6, <2>1, OthersKept
<1>8. QED
  BY <1>5, <1>6, <1>7 DEF DirectoryInv

(* The first request that reaches a new session. *)
LEMMA ForwardCreateKeeps ==
    ASSUME DirectoryInv, NEW s \in Slots, ForwardCreate(s)
    PROVE  DirectoryInv'
<1> DEFINE n == slot[s].session
           q == [sessions[n] EXCEPT !.state = "running"]
<1>1. slot[s].at = "forward" /\ UNCHANGED <<rows, drawn>> /\ Moved(s, "wait")
  BY DEF ForwardCreate, At
<1>2. /\ n \in Session /\ slot[s].doc \in DOMAIN rows /\ rows[slot[s].doc].session = n
      /\ sessions[n] = Absent /\ sessions[n] \in SessionRow /\ slot \in [Slots -> HandlerType]
      /\ sessions \in [Session -> SessionRow]
  BY <1>1, HandlerFacts DEF HandlerInv, DirectoryInv, Types
<1>3. /\ q \in SessionRow /\ q.version = sessions[n].version /\ sessions[n].state # "refused"
      /\ sessions[n].version \in Int /\ sessions' = [sessions EXCEPT ![n] = q]
  BY <1>2 DEF SessionRow, Absent, ForwardCreate
<1> HIDE DEF q
<1>4. /\ sessions' \in [Session -> SessionRow]
      /\ \A m \in Session \ {n} : sessions'[m] = sessions[m]
      /\ ReadyIsCommitted' /\ FailedIsDecided' /\ OneSessionPerKey' /\ Grown
  <2>1. sessions[n].version <= q.version
    BY <1>3
  <2>2. QED
    BY <1>1, <1>2, <1>3, <2>1, SessionGrows
<1>5. /\ slot' \in [Slots -> HandlerType] /\ slot'[s].at = "wait" /\ slot'[s].doc = slot[s].doc
      /\ slot'[s].session = n
      /\ \A u \in Slots \ {s} : slot'[u] = slot[u]
  BY <1>1, <1>2, MovedOne DEF Steps
<1>6. Types'
  BY <1>1, <1>4, <1>5 DEF DirectoryInv, Types
<1>7. HandlerInv(s)'
  BY <1>1, <1>2, <1>5 DEF HandlerInv
<1>8. \A u \in Slots \ {s} : slot[u].at = "forward" => sessions'[slot[u].session] = sessions[slot[u].session]
  <2> SUFFICES ASSUME NEW u \in Slots \ {s}, slot[u].at = "forward"
               PROVE  sessions'[slot[u].session] = sessions[slot[u].session]
    OBVIOUS
  <2>1. slot[u].session # n
    BY <1>1 DEF DirectoryInv, ForwardOnce
  <2>2. slot[u].session \in Session
    BY HandlerFacts
  <2>3. QED
    BY <1>4, <2>1, <2>2
<1>9. QED
  BY <1>4, <1>5, <1>6, <1>7, <1>8, StepKeeps

(* An edit of a session that has committed before. *)
LEMMA EditKeeps ==
    ASSUME DirectoryInv, NEW s \in Slots, Edit(s)
    PROVE  DirectoryInv'
<1> DEFINE n == slot[s].session
           q == [sessions[n] EXCEPT !.version = @ + 1]
           v == sessions[n].version + 1
<1>1. slot[s].at = "edit" /\ UNCHANGED <<rows, drawn>> /\ sessions[n].version < MaxVersion
      /\ (Seen(s, "advance", v) \/ Ended(s))
  BY DEF Edit, At
<1>2. /\ n \in Session /\ slot[s].doc \in DOMAIN rows /\ rows[slot[s].doc].session = n
      /\ Committed(n) /\ sessions[n] \in SessionRow /\ slot \in [Slots -> HandlerType]
      /\ sessions \in [Session -> SessionRow]
  BY <1>1, HandlerFacts DEF HandlerInv, DirectoryInv, Types
<1>3. /\ q \in SessionRow /\ q.version = v /\ q.state = sessions[n].state
      /\ sessions[n].version \in Int /\ sessions' = [sessions EXCEPT ![n] = q]
      /\ v \in 1 .. MaxVersion /\ v \in 0 .. MaxVersion /\ sessions[n] # Absent
  BY <1>1, <1>2, DirectoryAssumption DEF SessionRow, Absent, Edit, Committed
<1> HIDE DEF q
<1>4. /\ sessions' \in [Session -> SessionRow] /\ sessions'[n] = q
      /\ \A m \in Session \ {n} : sessions'[m] = sessions[m]
      /\ ReadyIsCommitted' /\ FailedIsDecided' /\ OneSessionPerKey' /\ Grown
  <2>1. sessions[n].version <= q.version
    BY <1>3
  <2>2. QED
    BY <1>1, <1>2, <1>3, <2>1, SessionGrows
<1>5. /\ slot' \in [Slots -> HandlerType] /\ slot'[s].at # "forward" /\ slot'[s].session <= drawn
      /\ \A u \in Slots \ {s} : slot'[u] = slot[u]
      /\ HandlerInv(s)'
  <2>1. CASE Ended(s)
    BY <2>1, EndedOne, HandlerFacts
  <2>2. CASE Seen(s, "advance", v)
    <3>1. /\ slot' \in [Slots -> HandlerType] /\ slot'[s].at = "advance" /\ slot'[s].doc = slot[s].doc
          /\ slot'[s].session = n /\ slot'[s].version = v
          /\ \A u \in Slots \ {s} : slot'[u] = slot[u]
      BY <1>2, <1>3, <2>2, SeenOne DEF Steps
    <3>2. HandlerInv(s)'
      BY <1>1, <1>2, <1>3, <1>4, <3>1 DEF HandlerInv
    <3>3. QED
      BY <3>1, <3>2, HandlerFacts
  <2>3. QED
    BY <1>1, <2>1, <2>2
<1>6. Types'
  BY <1>1, <1>4, <1>5 DEF DirectoryInv, Types
<1>7. \A u \in Slots \ {s} : slot[u].at = "forward" => sessions'[slot[u].session] = sessions[slot[u].session]
  BY <1>3, <1>4, HandlerFacts DEF HandlerInv
<1>8. QED
  BY <1>4, <1>5, <1>6, <1>7, StepKeeps

--------------------------------------------------------------------------------
(* reserve() *)

(* A reservation that is created: the row, its key and its session are new. *)
LEMMA ReservedKeeps ==
    ASSUME DirectoryInv, NEW s \in Slots, NEW requested \in Docs \cup {None},
           NEW doc \in Docs \cup Session, NEW idem \in Keys \cup Docs \cup Session,
           Free(doc, idem), drawn < MaxSessions, drawn' = drawn + 1, sessions' = sessions,
           rows' = [d \in DOMAIN rows \cup {doc} |-> IF d = doc THEN NewRow(idem, requested) ELSE rows[d]],
           slot' = [slot EXCEPT ![s] = [at |-> "forward", doc |-> doc, session |-> drawn + 1, version |-> 0]]
    PROVE  DirectoryInv'
<1> DEFINE row == NewRow(idem, requested)
           q   == [at |-> "forward", doc |-> doc, session |-> drawn + 1, version |-> 0]
<1>1. /\ Types /\ drawn \in Nat /\ drawn + 1 \in Session /\ drawn' \in 0 .. MaxSessions /\ 0 \in 0 .. MaxVersion
      /\ doc \notin DOMAIN rows /\ \A d \in DOMAIN rows : rows[d].key # idem
  BY DirectoryAssumption DEF DirectoryInv, Types, Session, Free, RowsOf
<1>2. /\ row \in Row /\ row.key = idem /\ row.session = drawn + 1 /\ row.state = "creating"
  BY <1>1 DEF NewRow, Row
<1>3. q \in HandlerType /\ q.at = "forward" /\ q.doc = doc /\ q.session = drawn + 1
  BY <1>1 DEF HandlerType, Steps, Session
<1> HIDE DEF row, q
<1>4. /\ DOMAIN rows' = DOMAIN rows \cup {doc} /\ rows'[doc] = row
      /\ \A d \in DOMAIN rows : rows'[d] = rows[d]
  BY <1>1 DEF row
<1>5. /\ slot' \in [Slots -> HandlerType] /\ slot'[s] = q
      /\ \A u \in Slots \ {s} : slot'[u] = slot[u]
  BY <1>1, <1>3 DEF Types, q
<1>6. /\ \A d \in DOMAIN rows : rows[d] \in Row /\ rows[d].session \in Session /\ rows[d].session < drawn + 1
      /\ \A u \in Slots : slot[u].session < drawn + 1
      /\ \A n \in Session : sessions[n] \in SessionRow
  <2>1. \A d \in DOMAIN rows : rows[d] \in Row /\ rows[d].session \in Session /\ rows[d].session <= drawn
    BY <1>1 DEF Types, Row
  <2>2. \A u \in Slots : slot[u].session \in 0 .. MaxSessions /\ slot[u].session <= drawn
    BY <1>1 DEF Types, HandlerType
  <2>3. QED
    BY <1>1, <2>1, <2>2 DEF Types, Session
<1>7. Types'
  <2>1. \A d \in DOMAIN rows' : rows'[d] \in Row /\ rows'[d].session <= drawn'
    BY <1>1, <1>2, <1>4, <1>6 DEF Session
  <2>2. \A u \in Slots : slot'[u].session <= drawn'
    BY <1>1, <1>3, <1>5, <1>6 DEF Types, HandlerType
  <2>3. QED
    BY <1>1, <1>4, <1>5, <2>1, <2>2 DEF Types
<1>8. ReadyIsCommitted' /\ FailedIsDecided'
  BY <1>2, <1>4 DEF DirectoryInv, ReadyIsCommitted, FailedIsDecided, Committed
<1>9. sessions[drawn + 1] = Absent
  <2>1. \A d \in DOMAIN rows : rows[d].session # drawn + 1
    BY <1>1, <1>6 DEF Session
  <2>2. QED
    BY <1>1, <2>1 DEF DirectoryInv, OneSessionPerKey
<1>10. OneSessionPerKey'
  <2>1. \A n \in Session : sessions'[n] # Absent => \E d \in DOMAIN rows' : rows'[d].session = n
    BY <1>4 DEF DirectoryInv, OneSessionPerKey
  <2>2. \A d \in DOMAIN rows : rows'[d].key # rows'[doc].key /\ rows'[d].session # rows'[doc].session
    BY <1>1, <1>2, <1>4, <1>6 DEF Session
  <2>3. \A d, e \in DOMAIN rows : rows'[d].key = rows'[e].key \/ rows'[d].session = rows'[e].session => d = e
    BY <1>4 DEF DirectoryInv, OneSessionPerKey
  <2>4. ASSUME NEW d \in DOMAIN rows', NEW e \in DOMAIN rows',
               rows'[d].key = rows'[e].key \/ rows'[d].session = rows'[e].session
        PROVE  d = e
    BY <1>4, <2>2, <2>3, <2>4
  <2>5. QED
    BY <2>1, <2>4 DEF OneSessionPerKey
<1>11. Grown
  BY <1>1, <1>4, <1>6 DEF Grown, SessionRow
<1>12. HandlerInv(s)'
  BY <1>2, <1>3, <1>4, <1>5, <1>9 DEF HandlerInv
<1>13. \A u \in Slots \ {s} : HandlerInv(u)'
  BY <1>5, <1>7, <1>11, OthersKept
<1>14. ForwardOnce'
  <2>1. \A u \in Slots \ {s} : slot'[u].session # slot'[s].session
    BY <1>1, <1>3, <1>5, <1>6 DEF Types, HandlerType
  <2>2. QED
    BY <1>5, <2>1 DEF DirectoryInv, ForwardOnce
<1>15. QED
  BY <1>7, <1>8, <1>10, <1>12, <1>13, <1>14 DEF DirectoryInv

(* A reservation, created or not: a repeated one goes on with the row of its  *)
(* key.                                                                       *)
LEMMA ReserveKeeps ==
    ASSUME DirectoryInv, NEW s \in Slots, NEW requested \in Docs \cup {None}, NEW key \in Keys \cup {None},
           Reserve(s, requested, key)
    PROVE  DirectoryInv'
<1> DEFINE doc  == docIdOf(requested)
           idem == idempotencyKeyOf(key, doc)
<1>1. /\ drawn < MaxSessions /\ drawn' = drawn + 1 /\ sessions' = sessions /\ drawn \in Nat
      /\ drawn + 1 \in Session
  BY DirectoryAssumption DEF Reserve, DirectoryInv, Types, Session
<1>2. doc \in Docs \cup Session /\ idem \in Keys \cup Docs \cup Session
  BY <1>1 DEF docIdOf, idempotencyKeyOf
<1>3. CASE Free(doc, idem)
  BY <1>1, <1>2, <1>3, ReservedKeeps DEF Reserve
<1>4. CASE ~Free(doc, idem)
  <2>1. /\ rows' = rows
        /\ \/ \E d \in RowsOf(idem) : Replayed(s, d)
           \/ Ended(s)
    BY <1>4 DEF Reserve
  <2>2. \/ Ended(s)
        \/ \E d \in DOMAIN rows : Begin(s, d, "probe")
    BY <2>1 DEF Replayed, Begin, RowsOf
  <2>3. /\ slot' \in [Slots -> HandlerType] /\ slot'[s].session <= drawn /\ slot'[s].at # "forward"
        /\ \A u \in Slots \ {s} : slot'[u] = slot[u]
        /\ HandlerInv(s)'
    <3>1. CASE Ended(s)
      BY <3>1, EndedOne, HandlerFacts
    <3>2. ASSUME NEW d \in DOMAIN rows, Begin(s, d, "probe")
          PROVE  /\ slot' \in [Slots -> HandlerType] /\ slot'[s].session <= drawn /\ slot'[s].at # "forward"
                 /\ \A u \in Slots \ {s} : slot'[u] = slot[u]
                 /\ HandlerInv(s)'
      <4> DEFINE q == [at |-> "probe", doc |-> d, session |-> rows[d].session, version |-> 0]
      <4>1. /\ q \in HandlerType /\ q.at = "probe" /\ q.doc = d /\ q.session = rows[d].session
            /\ rows[d].session <= drawn /\ slot \in [Slots -> HandlerType]
        BY DirectoryAssumption DEF DirectoryInv, Types, HandlerType, Row, Steps, Session
      <4>2. slot' = [slot EXCEPT ![s] = q]
        BY <3>2 DEF Begin
      <4> HIDE DEF q
      <4>3. /\ slot' \in [Slots -> HandlerType] /\ slot'[s] = q
            /\ \A u \in Slots \ {s} : slot'[u] = slot[u]
        BY <4>1, <4>2
      <4>4. HandlerInv(s)'
        BY <2>1, <4>1, <4>3 DEF HandlerInv
      <4>5. QED
        BY <4>1, <4>3, <4>4
    <3>3. QED
      BY <2>2, <3>1, <3>2
  <2>4. Types'
    <3>1. /\ drawn' \in 0 .. MaxSessions
          /\ \A d \in DOMAIN rows : rows[d] \in Row /\ rows[d].session <= drawn'
      BY <1>1, DirectoryAssumption DEF DirectoryInv, Types, Row, Session
    <3>2. \A u \in Slots : slot'[u].session <= drawn'
      <4>1. \A u \in Slots : slot'[u].session \in Int /\ slot'[u].session <= drawn
        BY <2>3 DEF DirectoryInv, Types, HandlerType
      <4>2. QED
        BY <1>1, <4>1
    <3>3. QED
      BY <1>1, <2>1, <2>3, <3>1, <3>2 DEF DirectoryInv, Types
  <2>5. ReadyIsCommitted' /\ FailedIsDecided' /\ OneSessionPerKey'
    BY <1>1, <2>1 DEF DirectoryInv, ReadyIsCommitted, FailedIsDecided, OneSessionPerKey, Committed
  <2>6. Grown
    BY <1>1, <2>1 DEF DirectoryInv, Types, Grown, SessionRow
  <2>7. QED
    BY <1>1, <2>3, <2>4, <2>5, <2>6, StepKeeps
<1>5. QED
  BY <1>3, <1>4

--------------------------------------------------------------------------------
(* The theorems *)

(* Every step keeps the invariant. *)
LEMMA DirectoryStep ==
    ASSUME DirectoryInv, [Next]_vars
    PROVE  DirectoryInv'
<1>1. ASSUME NEW s \in Slots, Handler(s) PROVE DirectoryInv'
  <2>1. CASE \E requested \in Docs \cup {None}, key \in Keys \cup {None} : Reserve(s, requested, key)
    BY <2>1, ReserveKeeps
  <2>2. CASE MarkReady(s) \/ MarkFailed(s) \/ AdvanceVersion(s)
    BY <2>2, MarkKeeps
  <2>3. ASSUME NEW d \in DOMAIN rows, GetStatus(s, d) \/ BeginEdit(s, d) \/ CloneSource(s, d)
        PROVE  DirectoryInv'
    BY <2>3, BeginKeeps, CloneSourceKeeps DEF GetStatus, BeginEdit
  <2>4. CASE Fail(s)
    BY <2>4, EndKeeps DEF Fail
  <2>5. QED
    BY <1>1, <2>1, <2>2, <2>3, <2>4, ForwardCreateKeeps, CreateAnswerKeeps, ProbeKeeps, EditKeeps, RecoverKeeps
       DEF Handler
<1>2. CASE UNCHANGED vars
  BY <1>2 DEF vars, DirectoryInv, Types, ReadyIsCommitted, FailedIsDecided, OneSessionPerKey, ForwardOnce,
              HandlerInv, Decided, Committed
<1>3. QED
  BY <1>1, <1>2, ServiceKeeps DEF Next

(* The inductive invariant holds in every reachable state. *)
THEOREM DirectoryCorrect == Spec => []DirectoryInv
<1>1. Init => DirectoryInv
  <2> SUFFICES ASSUME Init PROVE DirectoryInv
    OBVIOUS
  <2>1. /\ Idle \in HandlerType /\ Idle.at = "idle" /\ Idle.session = 0 /\ Absent \in SessionRow
    BY DirectoryAssumption DEF Idle, HandlerType, Steps, Absent, SessionRow
  <2>2. DOMAIN rows = {} /\ drawn = 0 /\ slot = [s \in Slots |-> Idle] /\ sessions = [n \in Session |-> Absent]
    BY DEF Init
  <2>3. Types
    BY <2>1, <2>2, DirectoryAssumption DEF Types
  <2>4. \A s \in Slots : HandlerInv(s)
    BY <2>1, <2>2 DEF HandlerInv
  <2>5. ReadyIsCommitted /\ FailedIsDecided /\ OneSessionPerKey /\ ForwardOnce
    BY <2>1, <2>2 DEF ReadyIsCommitted, FailedIsDecided, OneSessionPerKey, ForwardOnce
  <2>6. QED
    BY <2>3, <2>4, <2>5 DEF DirectoryInv
<1>2. DirectoryInv /\ [Next]_vars => DirectoryInv'
  BY DirectoryStep
<1>3. QED
  BY <1>1, <1>2, PTL DEF Spec

(* A row tells the truth about the service: ready means that the session has  *)
(* committed the version shown, failed means that the service has decided,    *)
(* in whatever order answers, probes and edits arrive (markReady, markFailed, *)
(* advanceVersion).                                                           *)
THEOREM RowsNeverLie == Spec => []RowsTruthful
<1>1. DirectoryInv => RowsTruthful
  <2> SUFFICES ASSUME DirectoryInv PROVE RowsTruthful
    OBVIOUS
  <2>1. Types
    BY DEF DirectoryInv
  <2>2. \A d \in DOMAIN rows : /\ rows[d].session \in 1 .. drawn
                               /\ rows[d].state \in {"creating", "ready", "failed"}
                               /\ rows[d].version \in 0 .. MaxVersion
    BY <2>1 DEF Types, Row, Session
  <2>3. \A n \in Session : /\ sessions[n].state \in {"absent", "running", "open", "refused"}
                           /\ sessions[n].version \in 0 .. MaxVersion
    BY <2>1 DEF Types, SessionRow
  <2>4. \A s \in Slots : slot[s].at \in Steps /\ slot[s].session \in 0 .. drawn
    <3> SUFFICES ASSUME NEW s \in Slots PROVE slot[s].at \in Steps /\ slot[s].session \in 0 .. drawn
      OBVIOUS
    <3>1. slot[s] \in HandlerType /\ slot[s].session <= drawn
      BY <2>1 DEF Types
    <3>2. QED
      BY <2>1, <3>1 DEF Types, HandlerType
  <2>5. QED
    BY <2>1, <2>2, <2>3, <2>4 DEF DirectoryInv, RowsTruthful, DirTypeOK, Types
<1>2. QED
  BY <1>1, DirectoryCorrect, PTL

(* One idempotency key means one session, and no session that was asked for   *)
(* is without its row, whatever was retried or raced (reserve).               *)
THEOREM KeyMeansOneSession == Spec => []OneSessionPerKey
<1>1. DirectoryInv => OneSessionPerKey
  BY DEF DirectoryInv
<1>2. QED
  BY <1>1, DirectoryCorrect, PTL

(* A row that is ready or failed stays so and keeps its session and key,      *)
(* however late an answer comes (markReady and markFailed look at the state). *)
THEOREM DecisionsStay == Spec => DecisionsFinal
<1> DEFINE Final == \A d \in DOMAIN rows :
                       /\ rows'[d].session = rows[d].session /\ rows'[d].key = rows[d].key
                       /\ rows[d].state # "creating" => rows'[d].state = rows[d].state
<1>1. DirectoryInv /\ [Next]_vars => [Final]_vars
  <2> SUFFICES ASSUME DirectoryInv, [Next]_vars PROVE Final
    OBVIOUS
  <2>1. \A d \in DOMAIN rows : rows[d] \in Row
    BY DEF DirectoryInv, Types
  <2>2. CASE rows' = rows
    BY <2>2
  <2>3. ASSUME NEW s \in Slots, NEW requested, NEW key, Reserve(s, requested, key), rows' # rows PROVE Final
    BY <2>3 DEF Reserve, Free
  <2>4. ASSUME NEW s \in Slots, MarkReady(s) PROVE Final
    BY <2>1, <2>4 DEF MarkReady, Row
  <2>5. ASSUME NEW s \in Slots, MarkFailed(s) PROVE Final
    BY <2>1, <2>5 DEF MarkFailed, Row
  <2>6. ASSUME NEW s \in Slots, AdvanceVersion(s) PROVE Final
    BY <2>1, <2>6 DEF AdvanceVersion, Row
  <2>7. ASSUME NEW s \in Slots, Handler(s), rows' # rows PROVE Final
    BY <2>3, <2>4, <2>5, <2>6, <2>7
       DEF Handler, ForwardCreate, CreateAnswer, GetStatus, BeginEdit, CloneSource, Probe, Edit, Recover, Fail
  <2>8. QED
    BY <2>2, <2>7 DEF Next, Service, OpenSession, CommitSession, RefuseSession, vars
<1>2. QED
  BY <1>1, DirectoryCorrect, PTL DEF Spec, DecisionsFinal
================================================================================
