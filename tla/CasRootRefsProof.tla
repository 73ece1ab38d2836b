--------------------------- MODULE CasRootRefsProof ---------------------------
(***************************************************************************)
(* The ledger of a reference domain is correct for any number of tenants,  *)
(* commands, retries and restarts.  LedgerInv rests on the primary keys    *)
(* alone; GateInv needs the tenant's gate as well, and so holds as long as *)
(* no tenant object restarts in the middle of a command.  From the first   *)
(* follows that balances reconcile with the events, from both that the     *)
(* counts do; the sum over a set of updates is compared with the number of *)
(* its acquisitions less that of its releases.                             *)
(***************************************************************************)
EXTENDS CasRootRefs, FiniteSetTheorems, WellFoundedInduction, TLAPS

(* The changes of an update are signs on some of the hashes. *)
LEMMA ChangeFacts ==
    ASSUME NEW c \in Change
    PROVE  /\ DOMAIN c \subseteq Hash
           /\ \A h \in DOMAIN c : c[h] \in {-1, 1}
BY DEF Change

(* A slot that is not idle holds a command. *)
LEMMA BusySlot ==
    ASSUME TypeOK, NEW s \in Slot, cmd[s].phase # "idle"
    PROVE  cmd[s] \in Command
BY DEF TypeOK, Idle

(* What stays the same of a command while it is worked on. *)
SameRequest(c, e) ==
    c.t = e.t /\ c.d = e.d /\ c.req = e.req /\ c.change = e.change /\ c.gated = e.gated

(* An answer closes the command and touches no other slot. *)
LEMMA AnswerFacts ==
    ASSUME TypeOK, NEW s \in Slot, cmd[s] \in Command,
           NEW what \in Answers, NEW rev \in Nat, Answer(s, what, rev)
    PROVE  /\ cmd' \in [Slot -> Command \cup {Idle}]
           /\ cmd'[s].phase = "answered" /\ cmd'[s].answer = what /\ cmd'[s].rev = rev
           /\ SameRequest(cmd'[s], cmd[s])
           /\ \A u \in Slot \ {s} : cmd'[u] = cmd[u]
<1>. DEFINE c == [cmd[s] EXCEPT !.phase = "answered", !.answer = what, !.rev = rev]
<1>1. cmd' = [cmd EXCEPT ![s] = c]
  BY DEF Answer, TypeOK
<1>2. /\ c \in Command /\ c.phase = "answered" /\ c.answer = what /\ c.rev = rev
      /\ SameRequest(c, cmd[s])
  BY DEF Command, SameRequest
<1>. QED  BY <1>1, <1>2 DEF TypeOK

(* A retry starts the command over or closes it as busy. *)
LEMMA RetryFacts ==
    ASSUME TypeOK, NEW s \in Slot, cmd[s] \in Command, Retry(s)
    PROVE  /\ cmd' \in [Slot -> Command \cup {Idle}]
           /\ \/ cmd'[s].phase = "check" /\ cmd'[s].answer = cmd[s].answer
              \/ cmd'[s].phase = "answered" /\ cmd'[s].answer = "busy"
           /\ SameRequest(cmd'[s], cmd[s])
           /\ \A u \in Slot \ {s} : cmd'[u] = cmd[u]
<1>1. CASE cmd[s].attempt < MaxAttempts
  <2>. DEFINE n == cmd[s].attempt + 1
              c == [cmd[s] EXCEPT !.phase = "check", !.attempt = n]
  <2>1. cmd' = [cmd EXCEPT ![s] = c]
    BY <1>1 DEF Retry, TypeOK
  <2>2. n \in 1 .. MaxAttempts
    BY <1>1, AttemptAssumption DEF Command
  <2>. HIDE DEF n
  <2>3. c \in Command /\ c.phase = "check" /\ c.answer = cmd[s].answer /\ SameRequest(c, cmd[s])
    BY <2>2 DEF Command, SameRequest
  <2>. QED  BY <2>1, <2>3 DEF TypeOK
<1>2. CASE ~(cmd[s].attempt < MaxAttempts)
  <2>1. Answer(s, "busy", 0)
    BY <1>2 DEF Retry
  <2>. QED  BY <2>1, AnswerFacts DEF Answers
<1>. QED  BY <1>1, <1>2

--------------------------------------------------------------------------------
(* An accepted batch extends the ledger by exactly the next revision. *)

(* The primary key of the events admits only a batch planned from the current *)
(* revision, so the guarded update of the revision always matches.           *)
LEMMA BatchExtends ==
    ASSUME LedgerInv, NEW s \in Slot, cmd[s].phase = "commit",
           BatchAccepted(cmd[s]), ApplyBatch(cmd[s])
    PROVE  /\ RevisionTaken(cmd[s])
           /\ revision[cmd[s].d] = cmd[s].seen
           /\ revision' = [revision EXCEPT ![cmd[s].d] = cmd[s].seen + 1]
           /\ NewRecord(cmd[s]) \in Record
           /\ NewRecord(cmd[s]).d = cmd[s].d /\ NewRecord(cmd[s]).rev = cmd[s].seen + 1
<1>. DEFINE c == cmd[s]
<1>1. c \in Command
  BY BusySlot DEF LedgerInv
<1>2. c.d \in Domain /\ c.seen \in Nat /\ revision[c.d] \in Nat /\ c.seen <= revision[c.d]
  BY <1>1 DEF LedgerInv, TypeOK, PlansOnReached, Command
<1>3. c.seen + 1 \notin 1 .. revision[c.d]
  <2>1. {e.rev : e \in {f \in events : f.d = c.d}} = 1 .. revision[c.d]
    BY <1>2 DEF LedgerInv, EventLogGapFree
  <2>. QED  BY <2>1 DEF BatchAccepted
<1>4. revision[c.d] = c.seen
  BY <1>2, <1>3
<1>5. RevisionTaken(c)
  BY <1>4 DEF RevisionTaken
<1>6. NewRecord(c) \in Record
  BY <1>1, <1>2 DEF NewRecord, Record, Command
<1>. QED  BY <1>4, <1>5, <1>6 DEF ApplyBatch, NewRecord

(* The new event takes the next number, and its request was not on record. *)
LEMMA BatchKeepsLedger ==
    ASSUME LedgerInv, NEW s \in Slot, cmd[s].phase = "commit",
           BatchAccepted(cmd[s]), ApplyBatch(cmd[s])
    PROVE  EventLogGapFree' /\ AppliedOnce'
<1>. DEFINE c == cmd[s]
            n == NewRecord(c)
<1>1. c \in Command /\ n \in Record
  BY BusySlot, BatchExtends DEF LedgerInv
<1>2. /\ revision[c.d] = c.seen
      /\ revision' = [revision EXCEPT ![c.d] = c.seen + 1]
      /\ n.d = c.d /\ n.rev = c.seen + 1 /\ n.t = c.t /\ n.req = c.req
  BY BatchExtends DEF NewRecord
<1>3. events' = events \cup {n} /\ requests' = requests \cup {n}
  BY DEF ApplyBatch
<1>4. c.d \in Domain /\ c.seen \in Nat /\ revision \in [Domain -> Nat] /\ events \subseteq Record
  BY <1>1 DEF LedgerInv, TypeOK, Command
<1>5. ASSUME NEW d \in Domain
      PROVE  /\ {e.rev : e \in {f \in events' : f.d = d}} = 1 .. revision'[d]
             /\ \A e, f \in events' : e.d = d /\ f.d = d /\ e.rev = f.rev => e = f
  <2>1. /\ {e.rev : e \in {f \in events : f.d = d}} = 1 .. revision[d]
        /\ \A e, f \in events : e.d = d /\ f.d = d /\ e.rev = f.rev => e = f
    BY DEF LedgerInv, EventLogGapFree
  <2>2. CASE d = c.d
    <3>1. {e.rev : e \in {f \in events' : f.d = d}}
            = {e.rev : e \in {f \in events : f.d = d}} \cup {c.seen + 1}
      BY <1>2, <1>3, <2>2
    <3>2. (1 .. c.seen) \cup {c.seen + 1} = 1 .. c.seen + 1
      BY <1>4
    <3>3. revision'[d] = c.seen + 1 /\ revision[d] = c.seen
      BY <1>2, <1>4, <2>2
    <3>4. \A e \in events : e.d = d => e.rev # n.rev
      BY <1>2, <2>2 DEF BatchAccepted
    <3>. QED  BY <1>3, <2>1, <3>1, <3>2, <3>3, <3>4
  <2>3. CASE d # c.d
    <3>1. {f \in events' : f.d = d} = {f \in events : f.d = d}
      BY <1>2, <1>3, <2>3
    <3>2. revision'[d] = revision[d]
      BY <1>2, <1>4, <2>3
    <3>. QED  BY <1>2, <1>3, <2>1, <2>3, <3>1, <3>2
  <2>. QED  BY <2>2, <2>3
<1>6. AppliedOnce'
  <2>1. requests = events
    BY DEF LedgerInv, AppliedOnce
  <2>2. \A r \in events : ~(r.t = n.t /\ r.d = n.d /\ r.req = n.req)
    BY <1>2, <2>1 DEF BatchAccepted, Recorded
  <2>. QED  BY <1>3, <2>1, <2>2 DEF LedgerInv, AppliedOnce
<1>. QED  BY <1>5, <1>6 DEF EventLogGapFree

(* Counts stay natural numbers by the CHECK, revisions only grow. *)
LEMMA BatchKeepsTypes ==
    ASSUME LedgerInv, NEW s \in Slot, cmd[s].phase = "commit",
           BatchAccepted(cmd[s]), ApplyBatch(cmd[s])
    PROVE  /\ rootCount' \in [Tenant -> [Hash -> Nat]]
           /\ balance' \in [Domain -> [Tenant -> [Hash -> Int]]]
           /\ revision' \in [Domain -> Nat]
           /\ events' \subseteq Record
           /\ requests' \subseteq Record
           /\ \A d \in Domain : revision[d] <= revision'[d]
<1>. DEFINE c == cmd[s]
<1>1. /\ c.t \in Tenant /\ c.d \in Domain /\ c.change \in Change /\ c.seen \in Nat
      /\ c.bal \in [Hash -> Int]
  BY BusySlot DEF LedgerInv, Command, PlansOnReached
<1>2. /\ DOMAIN c.change \subseteq Hash
      /\ \A h \in DOMAIN c.change : c.change[h] \in {-1, 1}
  BY <1>1, ChangeFacts
<1>3. rootCount' \in [Tenant -> [Hash -> Nat]]
  <2>1. \A h \in DOMAIN c.change :
            node[c.t][h] # "absent" => rootCount[c.t][h] + c.change[h] >= 0
    BY DEF BatchAccepted, CountsHold
  <2>. DEFINE new == [h \in Hash |-> IF h \in DOMAIN c.change /\ node[c.t][h] # "absent"
                                     THEN rootCount[c.t][h] + c.change[h] ELSE rootCount[c.t][h]]
  <2>2. rootCount' = [rootCount EXCEPT ![c.t] = new]
    BY <1>1 DEF ApplyBatch, LedgerInv, TypeOK
  <2>3. new \in [Hash -> Nat]
    <3>1. rootCount[c.t] \in [Hash -> Nat]
      BY <1>1 DEF LedgerInv, TypeOK
    <3>. QED  BY <1>2, <2>1, <3>1
  <2>. QED  BY <1>1, <2>2, <2>3 DEF LedgerInv, TypeOK
<1>4. balance' \in [Domain -> [Tenant -> [Hash -> Int]]]
  <2>. DEFINE new == [h \in Hash |-> IF h \in DOMAIN c.change THEN c.bal[h] + c.change[h]
                                     ELSE balance[c.d][c.t][h]]
  <2>1. balance' = [balance EXCEPT ![c.d] = [balance[c.d] EXCEPT ![c.t] = new]]
    BY <1>1 DEF ApplyBatch, LedgerInv, TypeOK
  <2>2. new \in [Hash -> Int]
    <3>1. balance[c.d][c.t] \in [Hash -> Int]
      BY <1>1 DEF LedgerInv, TypeOK
    <3>. QED  BY <1>1, <1>2, <3>1
  <2>3. [balance[c.d] EXCEPT ![c.t] = new] \in [Tenant -> [Hash -> Int]]
    BY <1>1, <2>2 DEF LedgerInv, TypeOK
  <2>. QED  BY <1>1, <2>1, <2>3 DEF LedgerInv, TypeOK
<1>5. revision' \in [Domain -> Nat] /\ \A d \in Domain : revision[d] <= revision'[d]
  <2>1. revision' = [revision EXCEPT ![c.d] = c.seen + 1] /\ revision[c.d] = c.seen
    BY BatchExtends
  <2>2. revision \in [Domain -> Nat]
    BY DEF LedgerInv, TypeOK
  <2>. QED  BY <1>1, <2>1, <2>2
<1>6. events' \subseteq Record /\ requests' \subseteq Record
  BY BatchExtends DEF ApplyBatch, LedgerInv, TypeOK
<1>. QED  BY <1>3, <1>4, <1>5, <1>6

--------------------------------------------------------------------------------
(* The ledger *)

(* The empty ledger. *)
LEMMA LedgerInit == Init => LedgerInv
<1>. SUFFICES ASSUME Init PROVE LedgerInv
  OBVIOUS
<1>1. TypeOK
  BY AttemptAssumption DEF Init, TypeOK
<1>2. PlansOnReached
  BY DEF Init, PlansOnReached, Idle
<1>3. EventLogGapFree /\ AppliedOnce
  BY DEF Init, EventLogGapFree, AppliedOnce
<1>. QED  BY <1>1, <1>2, <1>3 DEF LedgerInv

(* A step that writes no table and plans nothing keeps the ledger. *)
LEMMA QuietStep ==
    ASSUME LedgerInv, UNCHANGED tables,
           node' \in [Tenant -> [Hash -> {"absent", "row", "ready"}]],
           restarts' \in 0 .. MaxRestarts,
           cmd' \in [Slot -> Command \cup {Idle}],
           \A u \in Slot : cmd'[u].phase = "commit" =>
               \/ /\ cmd[u].phase = "commit" /\ cmd'[u].bal = cmd[u].bal
                  /\ cmd'[u].seen = cmd[u].seen /\ cmd'[u].d = cmd[u].d
               \/ /\ cmd'[u].bal \in [Hash -> Int] /\ cmd'[u].seen = revision[cmd'[u].d]
                  /\ cmd'[u].d \in Domain
    PROVE  LedgerInv'
<1>1. TypeOK'
  BY DEF LedgerInv, TypeOK, tables
<1>2. PlansOnReached'
  BY DEF LedgerInv, TypeOK, PlansOnReached, tables
<1>3. EventLogGapFree' /\ AppliedOnce'
  BY DEF LedgerInv, EventLogGapFree, AppliedOnce, tables
<1>. QED  BY <1>1, <1>2, <1>3 DEF LedgerInv

(* A step that commits a batch and then answers or retries keeps it too. *)
LEMMA BatchStep ==
    ASSUME LedgerInv, NEW s \in Slot, cmd[s].phase = "commit",
           BatchAccepted(cmd[s]), ApplyBatch(cmd[s]), UNCHANGED <<node, restarts>>,
           cmd' \in [Slot -> Command \cup {Idle}],
           cmd'[s].phase # "commit", \A u \in Slot \ {s} : cmd'[u] = cmd[u]
    PROVE  LedgerInv'
<1>1. TypeOK'
  BY BatchKeepsTypes DEF LedgerInv, TypeOK
<1>2. PlansOnReached'
  <2>. SUFFICES ASSUME NEW u \in Slot, cmd'[u].phase = "commit"
                PROVE  cmd'[u].bal \in [Hash -> Int] /\ cmd'[u].seen <= revision'[cmd'[u].d]
    BY DEF PlansOnReached
  <2>1. u # s /\ cmd'[u] = cmd[u]
    OBVIOUS
  <2>2. cmd[u].bal \in [Hash -> Int] /\ cmd[u].seen <= revision[cmd[u].d]
    BY <2>1 DEF LedgerInv, PlansOnReached
  <2>3. cmd[u].d \in Domain /\ cmd[u].seen \in Nat
    BY <2>1, BusySlot DEF LedgerInv, Command
  <2>4. revision[cmd[u].d] <= revision'[cmd[u].d] /\ revision \in [Domain -> Nat]
        /\ revision' \in [Domain -> Nat]
    BY <2>3, BatchKeepsTypes DEF LedgerInv, TypeOK
  <2>. QED  BY <2>1, <2>2, <2>3, <2>4
<1>3. EventLogGapFree' /\ AppliedOnce'
  BY BatchKeepsLedger
<1>. QED  BY <1>1, <1>2, <1>3 DEF LedgerInv

(* Only batches write the ledger; every other step reads it or moves a command. *)
LEMMA LedgerStep == LedgerInv /\ [Next]_vars => LedgerInv'
<1>. SUFFICES ASSUME LedgerInv, [Next]_vars PROVE LedgerInv'
  OBVIOUS
<1>0. TypeOK
  BY DEF LedgerInv
<1>1. ASSUME NEW t \in Tenant, NEW h \in Hash, NodeReady(t, h) \/ NodeCollected(t, h)
      PROVE  LedgerInv'
  <2>1. node' \in [Tenant -> [Hash -> {"absent", "row", "ready"}]]
    <3>1. PICK to \in {"absent", "row", "ready"} : node' = [node EXCEPT ![t][h] = to]
      BY <1>1 DEF NodeReady, NodeCollected
    <3>2. [node[t] EXCEPT ![h] = to] \in [Hash -> {"absent", "row", "ready"}]
      BY <1>0 DEF TypeOK
    <3>. QED  BY <1>0, <3>1, <3>2 DEF TypeOK
  <2>2. UNCHANGED <<tables, cmd, restarts>>
    BY <1>1 DEF NodeReady, NodeCollected
  <2>. QED  BY <1>0, <2>1, <2>2, QuietStep DEF TypeOK
<1>2. ASSUME NEW s \in Slot, NEW t \in Tenant, NEW d \in Domain, NEW req \in RequestId,
             NEW change \in Change, forwardRootRefs(s, t, d, req, change)
      PROVE  LedgerInv'
  <2>. DEFINE c == Forwarded(t, d, req, change)
  <2>1. c \in Command /\ c.phase = "check"
    BY AttemptAssumption DEF Forwarded, Command, Answers
  <2>2. cmd' = [cmd EXCEPT ![s] = c] /\ UNCHANGED <<node, tables, restarts>>
    BY <1>2 DEF forwardRootRefs
  <2>3. /\ cmd' \in [Slot -> Command \cup {Idle}]
        /\ cmd'[s].phase = "check" /\ \A u \in Slot \ {s} : cmd'[u] = cmd[u]
    BY <1>0, <2>1, <2>2 DEF TypeOK
  <2>. QED  BY <1>0, <2>2, <2>3, QuietStep DEF TypeOK
<1>3. ASSUME NEW s \in Slot, CheckUpdate(s) PROVE LedgerInv'
  <2>1. cmd[s] \in Command
    BY <1>0, <1>3, BusySlot DEF CheckUpdate
  <2>2. UNCHANGED <<node, tables, restarts>>
    BY <1>3 DEF CheckUpdate
  <2>3. /\ cmd' \in [Slot -> Command \cup {Idle}]
        /\ cmd'[s].phase # "commit" /\ \A u \in Slot \ {s} : cmd'[u] = cmd[u]
    <3>1. CASE \E r \in Recorded(cmd[s]) : Answer(s, "idempotent", r.rev)
      <4>1. PICK r \in Recorded(cmd[s]) : Answer(s, "idempotent", r.rev)
        BY <3>1
      <4>2. r.rev \in Nat
        BY <1>0 DEF TypeOK, Recorded, Record
      <4>. QED  BY <1>0, <2>1, <4>1, <4>2, AnswerFacts DEF Answers
    <3>2. CASE Answer(s, "conflict", 0) \/ Answer(s, "invalid", 0)
      BY <1>0, <2>1, <3>2, AnswerFacts DEF Answers
    <3>3. CASE cmd' = [cmd EXCEPT ![s].phase = "plan"]
      <4>. DEFINE c == [cmd[s] EXCEPT !.phase = "plan"]
      <4>1. c \in Command /\ c.phase = "plan"
        BY <2>1 DEF Command
      <4>2. cmd' = [cmd EXCEPT ![s] = c]
        BY <3>3
      <4>. QED  BY <1>0, <4>1, <4>2 DEF TypeOK
    <3>. QED  BY <1>3, <3>1, <3>2, <3>3 DEF CheckUpdate
  <2>. QED  BY <1>0, <2>2, <2>3, QuietStep DEF TypeOK
<1>4. ASSUME NEW s \in Slot, ReadDomainState(s) PROVE LedgerInv'
  <2>. DEFINE c == [cmd[s] EXCEPT !.phase = "commit", !.seen = revision[cmd[s].d],
                                  !.bal = balance[cmd[s].d][cmd[s].t]]
  <2>1. cmd[s] \in Command
    BY <1>0, <1>4, BusySlot DEF ReadDomainState
  <2>2. cmd[s].d \in Domain /\ cmd[s].t \in Tenant
    BY <2>1 DEF Command
  <2>3. revision[cmd[s].d] \in Nat /\ balance[cmd[s].d][cmd[s].t] \in [Hash -> Int]
    BY <1>0, <2>2 DEF TypeOK
  <2>4. /\ c \in Command /\ c.seen = revision[c.d] /\ c.bal \in [Hash -> Int] /\ c.d \in Domain
    BY <2>1, <2>2, <2>3 DEF Command
  <2>5. cmd' = [cmd EXCEPT ![s] = c] /\ UNCHANGED <<node, tables, restarts>>
    BY <1>4 DEF ReadDomainState
  <2>6. /\ cmd' \in [Slot -> Command \cup {Idle}]
        /\ cmd'[s] = c /\ \A u \in Slot \ {s} : cmd'[u] = cmd[u]
    BY <1>0, <2>4, <2>5 DEF TypeOK
  <2>. HIDE DEF c
  <2>. QED  BY <1>0, <2>4, <2>5, <2>6, QuietStep DEF TypeOK
<1>5. ASSUME NEW s \in Slot, CommitUpdate(s) PROVE LedgerInv'
  <2>1. /\ cmd[s].phase = "commit" /\ BatchAccepted(cmd[s]) /\ ApplyBatch(cmd[s])
        /\ UNCHANGED <<node, restarts>>
    BY <1>5 DEF CommitUpdate
  <2>2. cmd[s] \in Command
    BY <1>0, <2>1, BusySlot
  <2>3. Answer(s, "applied", cmd[s].seen + 1)
    BY <1>5, <2>1, BatchExtends DEF CommitUpdate
  <2>4. cmd[s].seen + 1 \in Nat
    BY <2>2 DEF Command
  <2>5. /\ cmd' \in [Slot -> Command \cup {Idle}]
        /\ cmd'[s].phase # "commit" /\ \A u \in Slot \ {s} : cmd'[u] = cmd[u]
    BY <1>0, <2>2, <2>3, <2>4, AnswerFacts DEF Answers
  <2>. QED  BY <2>1, <2>5, BatchStep
<1>6. ASSUME NEW s \in Slot, CommitRejected(s) \/ StorageFails(s) PROVE LedgerInv'
  <2>1. cmd[s].phase # "idle" /\ Retry(s) /\ UNCHANGED <<node, tables, restarts>>
    BY <1>6 DEF CommitRejected, StorageFails
  <2>2. /\ cmd' \in [Slot -> Command \cup {Idle}]
        /\ cmd'[s].phase # "commit" /\ \A u \in Slot \ {s} : cmd'[u] = cmd[u]
    BY <1>0, <2>1, BusySlot, RetryFacts
  <2>. QED  BY <1>0, <2>1, <2>2, QuietStep DEF TypeOK
<1>7. ASSUME NEW s \in Slot, CommitAnswerLost(s) PROVE LedgerInv'
  <2>1. /\ cmd[s].phase = "commit" /\ BatchAccepted(cmd[s]) /\ ApplyBatch(cmd[s])
        /\ Retry(s) /\ UNCHANGED <<node, restarts>>
    BY <1>7 DEF CommitAnswerLost
  <2>2. /\ cmd' \in [Slot -> Command \cup {Idle}]
        /\ cmd'[s].phase # "commit" /\ \A u \in Slot \ {s} : cmd'[u] = cmd[u]
    BY <1>0, <2>1, BusySlot, RetryFacts
  <2>. QED  BY <2>1, <2>2, BatchStep
<1>8. ASSUME NEW s \in Slot, Respond(s) \/ DomainRestart(s) PROVE LedgerInv'
  <2>1. cmd' = [cmd EXCEPT ![s] = Idle] /\ UNCHANGED <<node, tables, restarts>>
    BY <1>8 DEF Respond, DomainRestart
  <2>2. /\ cmd' \in [Slot -> Command \cup {Idle}]
        /\ cmd'[s].phase # "commit" /\ \A u \in Slot \ {s} : cmd'[u] = cmd[u]
    BY <1>0, <2>1 DEF TypeOK, Idle
  <2>. QED  BY <1>0, <2>1, <2>2, QuietStep DEF TypeOK
<1>9. ASSUME NEW t \in Tenant, TenantRestart(t) PROVE LedgerInv'
  <2>1. UNCHANGED <<node, tables>> /\ restarts' \in 0 .. MaxRestarts
    BY <1>0, <1>9, AttemptAssumption DEF TypeOK, TenantRestart
  <2>2. ASSUME NEW u \in Slot
        PROVE  /\ cmd'[u] \in Command \cup {Idle} /\ cmd'[u].phase = cmd[u].phase
               /\ cmd'[u].bal = cmd[u].bal /\ cmd'[u].seen = cmd[u].seen /\ cmd'[u].d = cmd[u].d
    <3>. DEFINE c == [cmd[u] EXCEPT !.gated = FALSE]
    <3>1. cmd[u] \in Command => c \in Command
      BY DEF Command
    <3>2. cmd[u].t = t => cmd[u] # Idle
      BY NoOneAssumption DEF Idle
    <3>3. cmd[u] \in Command \cup {Idle}
      BY <1>0 DEF TypeOK
    <3>4. (cmd[u].t = t /\ cmd'[u] = c) \/ cmd'[u] = cmd[u]
      BY <1>9 DEF TenantRestart
    <3>5. /\ c.phase = cmd[u].phase /\ c.bal = cmd[u].bal
          /\ c.seen = cmd[u].seen /\ c.d = cmd[u].d
      BY <3>3 DEF Command, Idle
    <3>. HIDE DEF c
    <3>. QED  BY <3>1, <3>2, <3>3, <3>4, <3>5
  <2>3. cmd' \in [Slot -> Command \cup {Idle}]
    <3>1. cmd' = [u \in Slot |-> cmd'[u]]
      BY <1>9 DEF TenantRestart
    <3>. QED  BY <2>2, <3>1
  <2>. QED  BY <1>0, <2>1, <2>2, <2>3, QuietStep DEF TypeOK
<1>10. CASE UNCHANGED vars
  BY <1>0, <1>10, QuietStep DEF TypeOK, vars
<1>. QED  BY <1>1, <1>2, <1>3, <1>4, <1>5, <1>6, <1>7, <1>8, <1>9, <1>10 DEF Next

(* The ledger invariant holds whatever fails, is retried or restarts.        *)
THEOREM LedgerCorrect == Spec => []LedgerInv
BY LedgerInit, LedgerStep, PTL DEF Spec

(* The audit log of every domain has no gap and no repetition, although no   *)
(* lock is held between reading the revision and committing the next one.    *)
THEOREM EventLogCorrect == Spec => []EventLogGapFree
<1>1. LedgerInv => EventLogGapFree
  BY DEF LedgerInv
<1>. QED  BY <1>1, LedgerCorrect, PTL

(* No request is applied twice, whatever is retried, lost or restarted.      *)
THEOREM RequestsAppliedOnce == Spec => []AppliedOnce
<1>1. LedgerInv => AppliedOnce
  BY DEF LedgerInv
<1>. QED  BY <1>1, LedgerCorrect, PTL

--------------------------------------------------------------------------------
(* What the gate adds *)

(* No command is under way and nothing is counted. *)
LEMMA GateInit == Init => GateInv
<1>. SUFFICES ASSUME Init PROVE GateInv
  OBVIOUS
<1>1. \A s \in Slot : cmd[s].phase = "idle" /\ cmd[s].answer = "none"
  BY DEF Init, Idle
<1>2. CountedNodesKept
  BY DEF Init, CountedNodesKept
<1>. QED  BY <1>1, <1>2 DEF GateInv, GateHeld, ChecksHold, StillChecked, AnswersHonest, HonestAnswer

(* The slot of an idle command belongs to no tenant. *)
LEMMA IdleSlot ==
    ASSUME TypeOK, NEW s \in Slot, cmd[s].phase = "idle"
    PROVE  cmd[s] = Idle /\ cmd[s].t \notin Tenant
<1>1. cmd[s] \notin Command
  BY DEF Command
<1>2. cmd[s] = Idle
  BY <1>1 DEF TypeOK
<1>3. Idle.t = NoOne
  BY DEF Idle
<1>. QED  BY <1>2, <1>3, NoOneAssumption

(* Working on one command leaves the gates as they are. *)
LEMMA GateKept ==
    ASSUME TypeOK, GateHeld, NEW s \in Slot, cmd[s].phase # "idle",
           SameRequest(cmd'[s], cmd[s]), \A u \in Slot \ {s} : cmd'[u] = cmd[u]
    PROVE  GateHeld'
BY DEF GateHeld, SameRequest

(* Closing a command releases its gate. *)
LEMMA GateReleasedBy ==
    ASSUME TypeOK, GateHeld, NEW s \in Slot, cmd' = [cmd EXCEPT ![s] = Idle]
    PROVE  GateHeld'
<1>1. cmd'[s] = Idle /\ \A u \in Slot \ {s} : cmd'[u] = cmd[u]
  BY DEF TypeOK
<1>2. \A u \in Slot : cmd[u].phase # "idle" => cmd[u].t \in Tenant
  BY BusySlot DEF Command
<1>. QED  BY <1>1, <1>2, NoOneAssumption DEF GateHeld, Idle

(* Answers already given stay honest when another command is recorded: it    *)
(* is another tenant's.                                                      *)
LEMMA OthersHonest ==
    ASSUME GateInv, NEW s \in Slot, cmd[s].phase = "commit",
           ApplyBatch(cmd[s]), NEW u \in Slot \ {s}, cmd'[u] = cmd[u]
    PROVE  HonestAnswer(u)'
<1>1. events' = events \cup {NewRecord(cmd[s])} /\ NewRecord(cmd[s]).t = cmd[s].t
  BY DEF ApplyBatch, NewRecord
<1>2. cmd[u].t # cmd[s].t
  BY DEF GateInv, GateHeld
<1>3. OnRecord(cmd[u])' = OnRecord(cmd[u])
  BY <1>1, <1>2 DEF OnRecord
<1>4. HonestAnswer(u)
  BY DEF GateInv, AnswersHonest
<1>. QED  BY <1>3, <1>4 DEF HonestAnswer

(* The counts stay on ready nodes when a checked update commits. *)
LEMMA CountsStayOnReady ==
    ASSUME LedgerInv, GateInv, NEW s \in Slot, cmd[s].phase = "commit",
           ApplyBatch(cmd[s]), UNCHANGED node
    PROVE  CountedNodesKept'
<1>. DEFINE c == cmd[s]
<1>1. c.t \in Tenant /\ c.change \in Change
  BY BusySlot DEF LedgerInv, Command
<1>2. /\ DOMAIN c.change \subseteq Hash
      /\ \A h \in DOMAIN c.change : c.change[h] \in {-1, 1}
  BY <1>1, ChangeFacts
<1>3. \A h \in DOMAIN c.change : c.change[h] > 0 => node[c.t][h] = "ready"
  BY DEF GateInv, ChecksHold, StillChecked
<1>4. rootCount \in [Tenant -> [Hash -> Nat]]
  BY DEF LedgerInv, TypeOK
<1>5. \A t \in Tenant, h \in Hash : rootCount[t][h] > 0 => node[t][h] = "ready"
  BY DEF GateInv, CountedNodesKept
<1>. SUFFICES ASSUME NEW t \in Tenant, NEW h \in Hash, rootCount'[t][h] > 0
              PROVE  node[t][h] = "ready"
  BY DEF CountedNodesKept
<1>6. CASE rootCount'[t][h] = rootCount[t][h]
  BY <1>5, <1>6
<1>7. CASE t = c.t /\ h \in DOMAIN c.change /\ rootCount'[t][h] = rootCount[t][h] + c.change[h]
  <2>1. c.change[h] > 0 \/ rootCount[t][h] > 0
    <3>1. rootCount[t][h] \in Nat /\ c.change[h] \in {-1, 1}
      BY <1>2, <1>4, <1>7
    <3>. QED  BY <1>7, <3>1
  <2>. QED  BY <1>3, <1>5, <1>7, <2>1
<1>8. \/ rootCount'[t][h] = rootCount[t][h]
      \/ t = c.t /\ h \in DOMAIN c.change /\ rootCount'[t][h] = rootCount[t][h] + c.change[h]
  <2>. DEFINE new == [k \in Hash |-> IF k \in DOMAIN c.change /\ node[c.t][k] # "absent"
                                     THEN rootCount[c.t][k] + c.change[k] ELSE rootCount[c.t][k]]
  <2>1. rootCount' = [rootCount EXCEPT ![c.t] = new]
    BY <1>1, <1>4 DEF ApplyBatch
  <2>2. new[h] = rootCount[c.t][h]
        \/ (h \in DOMAIN c.change /\ new[h] = rootCount[c.t][h] + c.change[h])
    OBVIOUS
  <2>. HIDE DEF new
  <2>. QED  BY <1>1, <1>4, <2>1, <2>2
<1>. QED  BY <1>6, <1>7, <1>8

(* A step on one command that records nothing, leaves the nodes alone and    *)
(* answers honestly keeps the invariant.                                     *)
LEMMA GateQuietStep ==
    ASSUME TypeOK, GateInv, NEW s \in Slot, cmd[s].phase # "idle", UNCHANGED <<node, tables>>,
           SameRequest(cmd'[s], cmd[s]), \A u \in Slot \ {s} : cmd'[u] = cmd[u],
           StillChecked(s)', HonestAnswer(s)'
    PROVE  GateInv'
<1>1. GateHeld'
  BY GateKept DEF GateInv
<1>2. ASSUME NEW u \in Slot \ {s} PROVE StillChecked(u)' /\ HonestAnswer(u)'
  <2>1. StillChecked(u) /\ HonestAnswer(u)
    BY DEF GateInv, ChecksHold, AnswersHonest
  <2>. QED  BY <2>1 DEF StillChecked, HonestAnswer, OnRecord, tables
<1>3. CountedNodesKept'
  BY DEF GateInv, CountedNodesKept, tables
<1>. QED  BY <1>1, <1>2, <1>3 DEF GateInv, ChecksHold, AnswersHonest

(* The same for a step that commits the batch of the command.                *)
LEMMA GateBatchStep ==
    ASSUME LedgerInv, GateInv, NEW s \in Slot, cmd[s].phase = "commit",
           ApplyBatch(cmd[s]), UNCHANGED node,
           SameRequest(cmd'[s], cmd[s]), \A u \in Slot \ {s} : cmd'[u] = cmd[u],
           StillChecked(s)', HonestAnswer(s)'
    PROVE  GateInv'
<1>1. GateHeld'
  BY GateKept DEF GateInv, LedgerInv
<1>2. ASSUME NEW u \in Slot \ {s} PROVE StillChecked(u)' /\ HonestAnswer(u)'
  <2>1. StillChecked(u)
    BY DEF GateInv, ChecksHold
  <2>. QED  BY <2>1, OthersHonest DEF StillChecked
<1>3. CountedNodesKept'
  BY CountsStayOnReady
<1>. QED  BY <1>1, <1>2, <1>3 DEF GateInv, ChecksHold, AnswersHonest

(* Without restarts of tenant objects no step takes a gate from a command. *)
LEMMA GateStep ==
    ASSUME MaxRestarts = 0
    PROVE  LedgerInv /\ GateInv /\ [Next]_vars => GateInv'
<1>. SUFFICES ASSUME LedgerInv, GateInv, [Next]_vars PROVE GateInv'
  OBVIOUS
<1>0. TypeOK
  BY DEF LedgerInv
<1>1. ASSUME NEW t \in Tenant, NEW h \in Hash, NodeReady(t, h) \/ NodeCollected(t, h)
      PROVE  GateInv'
  <2>1. UNCHANGED <<tables, cmd, restarts>>
    BY <1>1 DEF NodeReady, NodeCollected
  <2>2. GateHeld' /\ AnswersHonest'
    BY <2>1 DEF GateInv, GateHeld, AnswersHonest, HonestAnswer, OnRecord, tables
  <2>3. PICK to \in {"absent", "row", "ready"} : node' = [node EXCEPT ![t][h] = to]
    BY <1>1 DEF NodeReady, NodeCollected
  <2>4. ASSUME NEW k \in Tenant, NEW g \in Hash, node[k][g] = "ready", node'[k][g] # "ready"
        PROVE  k = t /\ GateFree(t) /\ rootCount[k][g] = 0
    <3>1. k = t /\ g = h
      BY <1>0, <2>3, <2>4 DEF TypeOK
    <3>. QED  BY <1>1, <2>4, <3>1 DEF NodeReady, NodeCollected
  <2>5. CountedNodesKept'
    <3>1. \A k \in Tenant, g \in Hash : rootCount[k][g] > 0 => node'[k][g] = "ready"
      BY <2>4 DEF GateInv, CountedNodesKept
    <3>. QED  BY <2>1, <3>1 DEF CountedNodesKept, tables
  <2>6. ASSUME NEW u \in Slot PROVE StillChecked(u)'
    <3>1. StillChecked(u)
      BY DEF GateInv, ChecksHold
    <3>2. ASSUME cmd[u].phase \in {"plan", "commit"}, NEW g \in DOMAIN cmd[u].change
          PROVE  /\ node'[cmd[u].t][g] # "absent"
                 /\ cmd[u].change[g] > 0 => node'[cmd[u].t][g] = "ready"
      <4>1. cmd[u].t \in Tenant /\ g \in Hash
        <5>1. cmd[u].t \in Tenant /\ cmd[u].change \in Change
          BY <1>0, <3>2, BusySlot DEF Command
        <5>. QED  BY <5>1, ChangeFacts
      <4>2. ~GateFree(cmd[u].t)
        BY <3>2 DEF GateInv, GateHeld, GateFree
      <4>3. /\ node[cmd[u].t][g] # "absent"
            /\ cmd[u].change[g] > 0 => node[cmd[u].t][g] = "ready"
        BY <3>1, <3>2 DEF StillChecked
      <4>4. node'[cmd[u].t][g] \in {node[cmd[u].t][g], "ready"}
        <5>1. CASE cmd[u].t = t /\ g = h
          BY <1>0, <1>1, <4>2, <4>3, <5>1 DEF NodeReady, NodeCollected, TypeOK
        <5>2. CASE ~(cmd[u].t = t /\ g = h)
          BY <1>0, <2>3, <4>1, <5>2 DEF TypeOK
        <5>. QED  BY <5>1, <5>2
      <4>. QED  BY <4>3, <4>4
    <3>. QED  BY <2>1, <3>1, <3>2 DEF StillChecked
  <2>. QED  BY <2>2, <2>5, <2>6 DEF GateInv, ChecksHold
<1>2. ASSUME NEW s \in Slot, NEW t \in Tenant, NEW d \in Domain, NEW req \in RequestId,
             NEW change \in Change, forwardRootRefs(s, t, d, req, change)
      PROVE  GateInv'
  <2>1. /\ cmd'[s] = Forwarded(t, d, req, change) /\ \A u \in Slot \ {s} : cmd'[u] = cmd[u]
        /\ UNCHANGED <<node, tables>>
    BY <1>0, <1>2 DEF forwardRootRefs, TypeOK
  <2>2. /\ cmd'[s].phase = "check" /\ cmd'[s].answer = "none" /\ cmd'[s].gated /\ cmd'[s].t = t
    BY <2>1 DEF Forwarded
  <2>3. \A u \in Slot : cmd[u].t # t
    <3>1. \A u \in Slot : cmd[u].phase = "idle" => cmd[u].t # t
      BY <1>0, IdleSlot
    <3>2. \A u \in Slot : cmd[u].phase # "idle" => cmd[u].t # t
      BY <1>2 DEF forwardRootRefs, GateFree, GateInv, GateHeld
    <3>. QED  BY <3>1, <3>2
  <2>4. GateHeld'
    BY <2>1, <2>2, <2>3 DEF GateInv, GateHeld
  <2>5. ASSUME NEW u \in Slot PROVE StillChecked(u)' /\ HonestAnswer(u)'
    <3>1. StillChecked(u) /\ HonestAnswer(u)
      BY DEF GateInv, ChecksHold, AnswersHonest
    <3>. QED  BY <2>1, <2>2, <3>1 DEF StillChecked, HonestAnswer, OnRecord, tables
  <2>6. CountedNodesKept'
    BY <2>1 DEF GateInv, CountedNodesKept, tables
  <2>. QED  BY <2>4, <2>5, <2>6 DEF GateInv, ChecksHold, AnswersHonest
<1>3. ASSUME NEW s \in Slot, CheckUpdate(s) PROVE GateInv'
  <2>. DEFINE c == cmd[s]
  <2>1. c \in Command /\ c.phase = "check" /\ UNCHANGED <<node, tables>>
    BY <1>0, <1>3, BusySlot DEF CheckUpdate
  <2>2. requests = events /\ events \subseteq Record
    BY DEF LedgerInv, TypeOK, AppliedOnce
  <2>3. CASE \E r \in Recorded(c) : r.change = c.change /\ Answer(s, "idempotent", r.rev)
    <3>1. PICK r \in Recorded(c) : r.change = c.change /\ Answer(s, "idempotent", r.rev)
      BY <2>3
    <3>2. r.rev \in Nat /\ r \in OnRecord(c)
      BY <2>2, <3>1 DEF Recorded, Record, OnRecord
    <3>3. /\ cmd'[s].phase = "answered" /\ cmd'[s].answer = "idempotent" /\ cmd'[s].rev = r.rev
          /\ SameRequest(cmd'[s], c) /\ \A u \in Slot \ {s} : cmd'[u] = cmd[u]
      BY <1>0, <2>1, <3>1, <3>2, AnswerFacts DEF Answers
    <3>4. StillChecked(s)' /\ HonestAnswer(s)'
      BY <2>1, <3>2, <3>3 DEF StillChecked, HonestAnswer, OnRecord, SameRequest, tables
    <3>. QED  BY <1>0, <2>1, <3>3, <3>4, GateQuietStep
  <2>4. CASE OnRecord(c) = {} /\ (Answer(s, "conflict", 0) \/ Answer(s, "invalid", 0))
    <3>1. /\ cmd'[s].phase = "answered" /\ cmd'[s].answer \in {"conflict", "invalid"}
          /\ SameRequest(cmd'[s], c) /\ \A u \in Slot \ {s} : cmd'[u] = cmd[u]
      BY <1>0, <2>1, <2>4, AnswerFacts DEF Answers
    <3>2. StillChecked(s)' /\ HonestAnswer(s)'
      BY <2>1, <2>4, <3>1 DEF StillChecked, HonestAnswer, OnRecord, SameRequest, tables
    <3>. QED  BY <1>0, <2>1, <3>1, <3>2, GateQuietStep
  <2>5. CASE ~Invalid(c) /\ cmd' = [cmd EXCEPT ![s].phase = "plan"]
    <3>1. /\ cmd'[s].phase = "plan" /\ cmd'[s].answer = c.answer
          /\ SameRequest(cmd'[s], c) /\ \A u \in Slot \ {s} : cmd'[u] = cmd[u]
      BY <1>0, <2>1, <2>5 DEF TypeOK, SameRequest, Command
    <3>2. c.answer = "none"
      BY <2>1 DEF GateInv, ChecksHold, StillChecked
    <3>3. \A h \in DOMAIN c.change :
              node[c.t][h] # "absent" /\ (c.change[h] > 0 => node[c.t][h] = "ready")
      BY <2>5 DEF Invalid
    <3>4. StillChecked(s)' /\ HonestAnswer(s)'
      BY <2>1, <3>1, <3>2, <3>3 DEF StillChecked, HonestAnswer, SameRequest
    <3>. QED  BY <1>0, <2>1, <3>1, <3>4, GateQuietStep
  <2>6. CASE Recorded(c) # {}
    <3>1. PICK r \in Recorded(c) : IF r.change = c.change THEN Answer(s, "idempotent", r.rev)
                                                         ELSE Answer(s, "conflict", 0)
      BY <1>3, <2>6 DEF CheckUpdate
    <3>2. r.change # c.change => OnRecord(c) = {}
      BY <2>2 DEF LedgerInv, AppliedOnce, Recorded, OnRecord
    <3>. QED  BY <2>3, <2>4, <3>1, <3>2
  <2>7. CASE Recorded(c) = {}
    <3>1. OnRecord(c) = {}
      BY <2>2, <2>7 DEF Recorded, OnRecord
    <3>2. CASE Invalid(c)
      BY <1>3, <2>4, <2>7, <3>1, <3>2 DEF CheckUpdate
    <3>3. CASE ~Invalid(c)
      BY <1>3, <2>5, <2>7, <3>3 DEF CheckUpdate
    <3>. QED  BY <3>2, <3>3
  <2>. QED  BY <2>6, <2>7
<1>4. ASSUME NEW s \in Slot, ReadDomainState(s) PROVE GateInv'
  <2>1. cmd[s] \in Command /\ cmd[s].phase = "plan" /\ UNCHANGED <<node, tables>>
    BY <1>0, <1>4, BusySlot DEF ReadDomainState
  <2>2. /\ cmd'[s].phase = "commit" /\ cmd'[s].answer = cmd[s].answer
        /\ SameRequest(cmd'[s], cmd[s]) /\ \A u \in Slot \ {s} : cmd'[u] = cmd[u]
    BY <1>0, <1>4, <2>1 DEF ReadDomainState, TypeOK, SameRequest, Command
  <2>3. StillChecked(s)
    BY DEF GateInv, ChecksHold
  <2>4. StillChecked(s)' /\ HonestAnswer(s)'
    BY <2>1, <2>2, <2>3 DEF StillChecked, HonestAnswer, SameRequest
  <2>. QED  BY <1>0, <2>1, <2>2, <2>4, GateQuietStep
<1>5. ASSUME NEW s \in Slot, CommitUpdate(s) PROVE GateInv'
  <2>1. /\ cmd[s].phase = "commit" /\ BatchAccepted(cmd[s]) /\ ApplyBatch(cmd[s])
        /\ UNCHANGED <<node, restarts>>
    BY <1>5 DEF CommitUpdate
  <2>2. cmd[s] \in Command
    BY <1>0, <2>1, BusySlot
  <2>3. Answer(s, "applied", cmd[s].seen + 1) /\ cmd[s].seen + 1 \in Nat
    BY <1>5, <2>1, <2>2, BatchExtends DEF CommitUpdate, Command
  <2>4. /\ cmd'[s].phase = "answered" /\ cmd'[s].answer = "applied"
        /\ cmd'[s].rev = cmd[s].seen + 1
        /\ SameRequest(cmd'[s], cmd[s]) /\ \A u \in Slot \ {s} : cmd'[u] = cmd[u]
    BY <1>0, <2>2, <2>3, AnswerFacts DEF Answers
  <2>5. NewRecord(cmd[s]) \in events'
    BY <2>1 DEF ApplyBatch
  <2>6. StillChecked(s)' /\ HonestAnswer(s)'
    BY <2>4, <2>5 DEF StillChecked, HonestAnswer, OnRecord, NewRecord, SameRequest
  <2>. QED  BY <2>1, <2>4, <2>6, GateBatchStep
<1>6. ASSUME NEW s \in Slot, CommitRejected(s) \/ StorageFails(s) \/ CommitAnswerLost(s)
      PROVE  GateInv'
  <2>1. cmd[s].phase \in {"check", "plan", "commit"} /\ Retry(s) /\ UNCHANGED node
    BY <1>6 DEF CommitRejected, StorageFails, CommitAnswerLost
  <2>2. cmd[s] \in Command
    BY <1>0, <2>1, BusySlot
  <2>3. /\ \/ cmd'[s].phase = "check" /\ cmd'[s].answer = cmd[s].answer
           \/ cmd'[s].phase = "answered" /\ cmd'[s].answer = "busy"
        /\ SameRequest(cmd'[s], cmd[s]) /\ \A u \in Slot \ {s} : cmd'[u] = cmd[u]
    BY <1>0, <2>1, <2>2, RetryFacts
  <2>4. cmd[s].answer = "none"
    BY <2>1 DEF GateInv, ChecksHold, StillChecked
  <2>5. StillChecked(s)' /\ HonestAnswer(s)'
    BY <2>3, <2>4 DEF StillChecked, HonestAnswer
  <2>6. CASE UNCHANGED tables
    BY <1>0, <2>1, <2>3, <2>5, <2>6, GateQuietStep
  <2>7. CASE cmd[s].phase = "commit" /\ ApplyBatch(cmd[s])
    BY <2>1, <2>3, <2>5, <2>7, GateBatchStep
  <2>. QED  BY <1>6, <2>6, <2>7 DEF CommitRejected, StorageFails, CommitAnswerLost
<1>7. ASSUME NEW s \in Slot, Respond(s) \/ DomainRestart(s) PROVE GateInv'
  <2>1. cmd' = [cmd EXCEPT ![s] = Idle] /\ UNCHANGED <<node, tables>>
    BY <1>7 DEF Respond, DomainRestart
  <2>2. cmd'[s] = Idle /\ \A u \in Slot \ {s} : cmd'[u] = cmd[u]
    BY <1>0, <2>1 DEF TypeOK
  <2>3. GateHeld'
    BY <1>0, <2>1, GateReleasedBy DEF GateInv
  <2>4. ASSUME NEW u \in Slot PROVE StillChecked(u)' /\ HonestAnswer(u)'
    <3>1. StillChecked(u) /\ HonestAnswer(u)
      BY DEF GateInv, ChecksHold, AnswersHonest
    <3>2. Idle.answer = "none" /\ Idle.phase = "idle"
      BY DEF Idle
    <3>. QED  BY <2>1, <2>2, <3>1, <3>2 DEF StillChecked, HonestAnswer, OnRecord, tables
  <2>5. CountedNodesKept'
    BY <2>1 DEF GateInv, CountedNodesKept, tables
  <2>. QED  BY <2>3, <2>4, <2>5 DEF GateInv, ChecksHold, AnswersHonest
<1>8. ASSUME NEW t \in Tenant, TenantRestart(t) PROVE GateInv'
  BY <1>0, <1>8 DEF TypeOK, TenantRestart
<1>9. CASE UNCHANGED vars
  <2>1. UNCHANGED <<node, tables, cmd>>
    BY <1>9 DEF vars
  <2>. QED  BY <2>1 DEF GateInv, GateHeld, ChecksHold, StillChecked, AnswersHonest,
                       HonestAnswer, OnRecord, CountedNodesKept, tables
<1>. QED  BY <1>1, <1>2, <1>3, <1>4, <1>5, <1>6, <1>7, <1>8, <1>9 DEF Next

(* Under the tenant's gate every caller is told the truth about its update,  *)
(* even if an earlier attempt was committed and its answer lost.             *)
THEOREM AnswersCorrect ==
    ASSUME MaxRestarts = 0
    PROVE  Spec => []AnswersHonest
<1>1. LedgerInv /\ GateInv => AnswersHonest
  BY DEF GateInv
<1>2. LedgerInv /\ GateInv /\ [Next]_vars => GateInv'
  BY GateStep
<1>. QED  BY <1>1, <1>2, GateInit, LedgerCorrect, PTL DEF Spec

(* Under the tenant's gate no collection removes a node between the check of *)
(* an update and its commit: what is counted is there.                       *)
THEOREM CountedNodesStay ==
    ASSUME MaxRestarts = 0
    PROVE  Spec => []CountedNodesKept
<1>1. LedgerInv /\ GateInv => CountedNodesKept
  BY DEF GateInv
<1>2. LedgerInv /\ GateInv /\ [Next]_vars => GateInv'
  BY GateStep
<1>. QED  BY <1>1, <1>2, GateInit, LedgerCorrect, PTL DEF Spec

--------------------------------------------------------------------------------
(* Sums over the ledger *)

(* A set of numbers has a least one. *)
LEMMA LeastNat ==
    ASSUME NEW T, T \subseteq Nat, T # {}
    PROVE  \E n \in T : \A m \in T : n <= m
<1>1. IsWellFoundedOn(OpToRel(<, Nat), Nat)
  BY NatLessThanWellFounded, Zenon
<1>2. PICK n \in T : \A m \in T : ~(<<m, n>> \in OpToRel(<, Nat))
  BY <1>1, WFMin, Zenon
<1>3. \A m \in T : ~(m < n)
  BY <1>2 DEF OpToRel
<1>4. QED
  BY <1>3

(* Updates acquire and release one reference per hash: their sum is the      *)
(* number of acquisitions less that of releases.                             *)
Plus(E, h)  == {e \in E : DeltaOf(e, h) = 1}
Minus(E, h) == {e \in E : DeltaOf(e, h) = -1}
Net(E, h)   == Cardinality(Plus(E, h)) - Cardinality(Minus(E, h))

Signed(E, h) == \A e \in E : DeltaOf(e, h) \in {-1, 0, 1}

(* The updates on record change a count by one at most. *)
LEMMA RecordsSigned ==
    ASSUME NEW E, E \subseteq Record, NEW h
    PROVE  Signed(E, h)
<1> SUFFICES ASSUME NEW e \in E PROVE DeltaOf(e, h) \in {-1, 0, 1}
  BY DEF Signed
<1>1. e.change \in Change
  BY DEF Record
<1>2. \A g \in DOMAIN e.change : e.change[g] \in {-1, 1}
  BY <1>1, ChangeFacts
<1>3. QED
  BY <1>2 DEF DeltaOf

(* One update more. *)
LEMMA NetAdd ==
    ASSUME NEW E, IsFiniteSet(E), NEW h, NEW x, x \notin E, DeltaOf(x, h) \in {-1, 0, 1}
    PROVE  Net(E, h) \in Int /\ Net(E \cup {x}, h) = Net(E, h) + DeltaOf(x, h)
<1>1. Plus(E, h) \in SUBSET E /\ Minus(E, h) \in SUBSET E
  BY DEF Plus, Minus
<1>2. IsFiniteSet(Plus(E, h)) /\ IsFiniteSet(Minus(E, h))
  BY <1>1, FS_Subset
<1>3. Cardinality(Plus(E, h)) \in Nat /\ Cardinality(Minus(E, h)) \in Nat
  BY <1>2, FS_CardinalityType
<1>4. x \notin Plus(E, h) /\ x \notin Minus(E, h)
  BY DEF Plus, Minus
<1>5. CASE DeltaOf(x, h) = 1
  <2>1. Plus(E \cup {x}, h) = Plus(E, h) \cup {x} /\ Minus(E \cup {x}, h) = Minus(E, h)
    BY <1>5 DEF Plus, Minus
  <2>2. Cardinality(Plus(E, h) \cup {x}) = Cardinality(Plus(E, h)) + 1
    BY <1>2, <1>4, FS_AddElement
  <2>3. QED
    BY <1>3, <1>5, <2>1, <2>2 DEF Net
<1>6. CASE DeltaOf(x, h) = -1
  <2>1. Minus(E \cup {x}, h) = Minus(E, h) \cup {x} /\ Plus(E \cup {x}, h) = Plus(E, h)
    BY <1>6 DEF Plus, Minus
  <2>2. Cardinality(Minus(E, h) \cup {x}) = Cardinality(Minus(E, h)) + 1
    BY <1>2, <1>4, FS_AddElement
  <2>3. QED
    BY <1>3, <1>6, <2>1, <2>2 DEF Net
<1>7. CASE DeltaOf(x, h) = 0
  <2>1. Minus(E \cup {x}, h) = Minus(E, h) /\ Plus(E \cup {x}, h) = Plus(E, h)
    BY <1>7 DEF Plus, Minus
  <2>2. QED
    BY <1>3, <1>7, <2>1 DEF Net
<1>8. QED
  BY <1>5, <1>6, <1>7

(* The sum takes its summands in some order; the order does not matter. *)
LEMMA SumIsNet ==
    ASSUME NEW E, IsFiniteSet(E), NEW h, Signed(E, h)
    PROVE  SumOver(E, h) = Net(E, h)
<1> DEFINE first(s) == CHOOSE x \in s : TRUE
           Sum(k, s) == IF s = {} THEN 0 ELSE DeltaOf(first(s), h) + k[s \ {first(s)}]
           f == [s \in SUBSET E |-> Net(s, h)]
           g == CHOOSE k : k = [s \in SUBSET E |-> Sum(k, s)]
<1>1. SumOver(E, h) = g[E]
  BY DEF SumOver, MapThenSumSet, MapThenFoldSet
<1>2. \A s \in SUBSET E : s # {} => first(s) \in s
  OBVIOUS
<1> HIDE DEF first
<1>3. Net({}, h) = 0
  <2>1. Plus({}, h) = {} /\ Minus({}, h) = {}
    BY DEF Plus, Minus
  <2>2. Cardinality({}) = 0
    BY FS_EmptySet
  <2>3. QED
    BY <2>1, <2>2 DEF Net
<1>4. ASSUME NEW s \in SUBSET E, s # {}
      PROVE  /\ s \ {first(s)} \in SUBSET E
             /\ Net(s \ {first(s)}, h) \in Int
             /\ Net(s, h) = DeltaOf(first(s), h) + Net(s \ {first(s)}, h)
             /\ Cardinality(s \ {first(s)}) \in Nat /\ Cardinality(s) \in Nat
             /\ Cardinality(s \ {first(s)}) < Cardinality(s)
  <2> DEFINE x == first(s)
             u == s \ {x}
  <2>1. x \in s /\ x \in E
    BY <1>2, <1>4
  <2>2. DeltaOf(x, h) \in {-1, 0, 1}
    BY <2>1 DEF Signed
  <2>3. u \in SUBSET E /\ x \notin u /\ u \cup {x} = s
    BY <2>1
  <2>4. IsFiniteSet(s) /\ IsFiniteSet(u)
    BY <2>3, FS_Subset
  <2>5. Cardinality(s) \in Nat /\ Cardinality(u) \in Nat
    BY <2>4, FS_CardinalityType
  <2> HIDE DEF u, x
  <2>6. Cardinality(u \cup {x}) = Cardinality(u) + 1
    BY <2>3, <2>4, FS_AddElement
  <2>7. Net(u, h) \in Int /\ Net(u \cup {x}, h) = Net(u, h) + DeltaOf(x, h)
    BY <2>2, <2>3, <2>4, NetAdd
  <2>8. Net(s, h) = DeltaOf(x, h) + Net(u, h) /\ Cardinality(u) < Cardinality(s)
    BY <2>2, <2>3, <2>5, <2>6, <2>7
  <2>9. QED
    BY <2>3, <2>5, <2>7, <2>8 DEF u, x
<1>5. \A s \in SUBSET E : f[s] = Net(s, h)
  OBVIOUS
<1>6. f = [s \in SUBSET E |-> Sum(f, s)]
  <2>1. ASSUME NEW s \in SUBSET E PROVE Net(s, h) = Sum(f, s)
    <3>1. CASE s = {}
      BY <1>3, <3>1
    <3>2. CASE s # {}
      <4>1. s \ {first(s)} \in SUBSET E /\ Net(s, h) = DeltaOf(first(s), h) + Net(s \ {first(s)}, h)
        BY <1>4, <3>2
      <4>2. f[s \ {first(s)}] = Net(s \ {first(s)}, h)
        BY <1>5, <4>1
      <4> HIDE DEF f
      <4>3. QED
        BY <3>2, <4>1, <4>2
    <3>3. QED
      BY <3>1, <3>2
  <2>2. f = [s \in SUBSET E |-> Net(s, h)]
    OBVIOUS
  <2> HIDE DEF f, Sum
  <2>3. QED
    BY <2>1, <2>2
<1> HIDE DEF f
<1>7. g = [s \in SUBSET E |-> Sum(g, s)]
  BY <1>6
<1> HIDE DEF g
<1>8. ASSUME NEW s \in SUBSET E, g[s] # f[s]
      PROVE  s # {} /\ g[s \ {first(s)}] # f[s \ {first(s)}]
  <2>1. g[s] = Sum(g, s) /\ f[s] = Sum(f, s)
    BY <1>6, <1>7
  <2>2. QED
    BY <1>8, <2>1
<1>9. g[E] = f[E]
  <2> DEFINE B == {s \in SUBSET E : g[s] # f[s]}
             T == {Cardinality(s) : s \in B}
  <2>1. SUFFICES ASSUME g[E] # f[E] PROVE FALSE
    OBVIOUS
  <2>2. E \in B
    BY <2>1
  <2>3. \A s \in B : Cardinality(s) \in Nat
    BY <1>4, <1>8
  <2>4. T \subseteq Nat /\ T # {}
    BY <2>2, <2>3
  <2>5. PICK n \in T : \A m \in T : n <= m
    <3> HIDE DEF T
    <3> QED
      BY <2>4, LeastNat
  <2>6. PICK s \in B : n = Cardinality(s)
    BY <2>5
  <2> DEFINE u == s \ {first(s)}
  <2>7. s \in SUBSET E /\ s # {} /\ g[u] # f[u]
    BY <1>8, <2>6
  <2>8. u \in SUBSET E /\ Cardinality(u) < Cardinality(s) /\ Cardinality(u) \in Nat /\ Cardinality(s) \in Nat
    BY <1>4, <2>7
  <2>9. u \in B
    BY <2>7, <2>8
  <2> HIDE DEF u, B
  <2>10. Cardinality(u) \in T
    BY <2>9
  <2> HIDE DEF T
  <2>11. QED
    BY <2>5, <2>6, <2>8, <2>10
<1>10. QED
  BY <1>1, <1>5, <1>9

(* An update that is new to the sum adds its change. *)
LEMMA SumAdd ==
    ASSUME NEW E, IsFiniteSet(E), E \subseteq Record, NEW n \in Record, n \notin E, NEW h
    PROVE  SumOver(E \cup {n}, h) = SumOver(E, h) + DeltaOf(n, h)
<1>1. IsFiniteSet(E \cup {n}) /\ E \cup {n} \subseteq Record
  BY FS_AddElement
<1>2. Signed(E, h) /\ Signed(E \cup {n}, h)
  BY <1>1, RecordsSigned
<1>3. DeltaOf(n, h) \in {-1, 0, 1}
  BY <1>2 DEF Signed
<1>4. SumOver(E, h) = Net(E, h) /\ SumOver(E \cup {n}, h) = Net(E \cup {n}, h)
  BY <1>1, <1>2, SumIsNet
<1>5. Net(E \cup {n}, h) = Net(E, h) + DeltaOf(n, h)
  BY <1>3, NetAdd
<1>6. QED
  BY <1>4, <1>5

--------------------------------------------------------------------------------
(* The counts and the balances *)

(* A plan that would still be accepted was made from the balances of now. *)
FreshPlan(s) ==
    cmd[s].phase = "commit" /\ cmd[s].seen = revision[cmd[s].d]
        => cmd[s].bal = balance[cmd[s].d][cmd[s].t]

BalanceInv == IsFiniteSet(events) /\ (\A s \in Slot : FreshPlan(s)) /\ BalancesReconcile

CountInv == IsFiniteSet(events) /\ CountsReconcile

(* The plan of a command is the one it had, or was made in this step. *)
PlanKept(u) ==
    /\ cmd[u].phase = "commit" /\ cmd'[u].seen = cmd[u].seen /\ cmd'[u].bal = cmd[u].bal
    /\ cmd'[u].d = cmd[u].d /\ cmd'[u].t = cmd[u].t
PlanMade(u) == cmd'[u].bal = balance[cmd'[u].d][cmd'[u].t]
Plans == \A u \in Slot : cmd'[u].phase = "commit" => PlanKept(u) \/ PlanMade(u)

(* The step that commits the batch of a command. *)
Batch(s) ==
    /\ cmd[s].phase = "commit" /\ BatchAccepted(cmd[s]) /\ ApplyBatch(cmd[s])
    /\ cmd'[s].phase # "commit" /\ \A u \in Slot \ {s} : cmd'[u] = cmd[u]

(* The tables are written by batches only. *)
LEMMA OnlyBatchesWrite ==
    ASSUME LedgerInv, [Next]_vars
    PROVE  (UNCHANGED tables /\ Plans) \/ \E s \in Slot : Batch(s)
<1>0. TypeOK
  BY DEF LedgerInv
<1>1. ASSUME NEW s \in Slot, UNCHANGED tables, \A u \in Slot \ {s} : cmd'[u] = cmd[u],
             cmd'[s].phase = "commit" => PlanMade(s)
      PROVE  UNCHANGED tables /\ Plans
  BY <1>1 DEF Plans, PlanKept
<1>2. ASSUME NEW t \in Tenant, NEW h \in Hash, NodeReady(t, h) \/ NodeCollected(t, h)
      PROVE  UNCHANGED tables /\ Plans
  BY <1>2 DEF NodeReady, NodeCollected, Plans, PlanKept
<1>3. ASSUME NEW s \in Slot, NEW t \in Tenant, NEW d \in Domain, NEW req \in RequestId,
             NEW change \in Change, forwardRootRefs(s, t, d, req, change)
      PROVE  UNCHANGED tables /\ Plans
  <2>1. cmd'[s].phase = "check" /\ \A u \in Slot \ {s} : cmd'[u] = cmd[u]
    BY <1>0, <1>3 DEF forwardRootRefs, Forwarded, TypeOK
  <2>2. QED
    BY <1>1, <1>3, <2>1 DEF forwardRootRefs
<1>4. ASSUME NEW s \in Slot, CheckUpdate(s) PROVE UNCHANGED tables /\ Plans
  <2>1. cmd[s] \in Command
    BY <1>0, <1>4, BusySlot DEF CheckUpdate
  <2>2. cmd'[s].phase # "commit" /\ \A u \in Slot \ {s} : cmd'[u] = cmd[u]
    BY <1>0, <1>4, <2>1 DEF CheckUpdate, Answer, TypeOK, Command
  <2>3. QED
    BY <1>1, <1>4, <2>2 DEF CheckUpdate
<1>5. ASSUME NEW s \in Slot, ReadDomainState(s) PROVE UNCHANGED tables /\ Plans
  <2>1. cmd[s] \in Command
    BY <1>0, <1>5, BusySlot DEF ReadDomainState
  <2>2. PlanMade(s) /\ \A u \in Slot \ {s} : cmd'[u] = cmd[u]
    BY <1>0, <1>5, <2>1 DEF ReadDomainState, PlanMade, TypeOK, Command
  <2>3. QED
    BY <1>1, <1>5, <2>2 DEF ReadDomainState
<1>6. ASSUME NEW s \in Slot, CommitUpdate(s) PROVE Batch(s)
  <2>1. cmd[s] \in Command /\ cmd[s].phase = "commit" /\ BatchAccepted(cmd[s]) /\ ApplyBatch(cmd[s])
    BY <1>0, <1>6, BusySlot DEF CommitUpdate
  <2>2. Answer(s, "applied", cmd[s].seen + 1) /\ cmd[s].seen + 1 \in Nat
    BY <1>6, <2>1, BatchExtends DEF CommitUpdate, Command
  <2>3. cmd'[s].phase = "answered" /\ \A u \in Slot \ {s} : cmd'[u] = cmd[u]
    BY <1>0, <2>1, <2>2, AnswerFacts DEF Answers
  <2>4. QED
    BY <2>1, <2>3 DEF Batch
<1>7. ASSUME NEW s \in Slot, CommitRejected(s) \/ StorageFails(s) \/ CommitAnswerLost(s)
      PROVE  (UNCHANGED tables /\ Plans) \/ Batch(s)
  <2>1. cmd[s] \in Command /\ Retry(s)
    BY <1>0, <1>7, BusySlot DEF CommitRejected, StorageFails, CommitAnswerLost
  <2>2. cmd'[s].phase # "commit" /\ \A u \in Slot \ {s} : cmd'[u] = cmd[u]
    BY <1>0, <2>1, RetryFacts
  <2>3. UNCHANGED tables => Plans
    BY <1>1, <2>2
  <2>4. QED
    BY <1>7, <2>2, <2>3 DEF CommitRejected, StorageFails, CommitAnswerLost, Batch
<1>8. ASSUME NEW s \in Slot, Respond(s) \/ DomainRestart(s) PROVE UNCHANGED tables /\ Plans
  <2>1. cmd'[s].phase = "idle" /\ \A u \in Slot \ {s} : cmd'[u] = cmd[u]
    BY <1>0, <1>8 DEF Respond, DomainRestart, Idle, TypeOK
  <2>2. QED
    BY <1>1, <1>8, <2>1 DEF Respond, DomainRestart
<1>9. ASSUME NEW t \in Tenant, TenantRestart(t) PROVE UNCHANGED tables /\ Plans
  <2>1. ASSUME NEW u \in Slot, cmd'[u].phase = "commit" PROVE PlanKept(u)
    <3>1. CASE cmd[u].t = t
      <4>1. cmd'[u] = [cmd[u] EXCEPT !.gated = FALSE]
        BY <1>9, <3>1 DEF TenantRestart
      <4>2. cmd[u] \in Command \cup {Idle}
        BY <1>0 DEF TypeOK
      <4>3. QED
        BY <2>1, <4>1, <4>2 DEF PlanKept, Command, Idle
    <3>2. CASE cmd[u].t # t
      BY <1>9, <2>1, <3>2 DEF TenantRestart, PlanKept
    <3>3. QED
      BY <3>1, <3>2
  <2>2. QED
    BY <1>9, <2>1 DEF TenantRestart, Plans
<1>10. CASE UNCHANGED vars
  BY <1>10 DEF vars, Plans, PlanKept
<1>11. QED
  BY <1>2, <1>3, <1>4, <1>5, <1>6, <1>7, <1>8, <1>9, <1>10 DEF Next

(* A batch records an update that was not on record. *)
LEMMA BatchRecords ==
    ASSUME LedgerInv, NEW s \in Slot, Batch(s)
    PROVE  /\ NewRecord(cmd[s]) \in Record \ events
           /\ events' = events \cup {NewRecord(cmd[s])}
           /\ cmd[s] \in Command
           /\ revision[cmd[s].d] = cmd[s].seen
           /\ revision' = [revision EXCEPT ![cmd[s].d] = cmd[s].seen + 1]
<1>1. cmd[s].phase = "commit" /\ BatchAccepted(cmd[s]) /\ ApplyBatch(cmd[s])
  BY DEF Batch
<1>2. /\ revision[cmd[s].d] = cmd[s].seen
      /\ revision' = [revision EXCEPT ![cmd[s].d] = cmd[s].seen + 1]
      /\ NewRecord(cmd[s]) \in Record
      /\ NewRecord(cmd[s]).d = cmd[s].d /\ NewRecord(cmd[s]).rev = cmd[s].seen + 1
  BY <1>1, BatchExtends
<1>3. cmd[s] \in Command
  BY <1>1, BusySlot DEF LedgerInv
<1>4. NewRecord(cmd[s]) \notin events
  BY <1>1, <1>2 DEF BatchAccepted
<1>5. QED
  BY <1>1, <1>2, <1>3, <1>4 DEF ApplyBatch

(* The sum over an empty ledger. *)
LEMMA SumOverNothing ==
    ASSUME NEW h
    PROVE  SumOver({}, h) = 0
<1>1. IsFiniteSet({}) /\ Cardinality({}) = 0
  BY FS_EmptySet
<1>2. Signed({}, h)
  BY DEF Signed
<1>3. SumOver({}, h) = Net({}, h)
  BY <1>1, <1>2, SumIsNet
<1>4. Plus({}, h) = {} /\ Minus({}, h) = {}
  BY DEF Plus, Minus
<1>5. QED
  BY <1>1, <1>3, <1>4 DEF Net

(* A set of updates picked by tenant, or by tenant and domain, gains the new  *)
(* record or stays as it is.                                                  *)
LEMMA SumAfter ==
    ASSUME NEW E, IsFiniteSet(E), E \subseteq Record, NEW n \in Record \ E, NEW h,
           NEW E1, NEW E2, E1 \subseteq E, E2 = IF n \in E2 THEN E1 \cup {n} ELSE E1
    PROVE  SumOver(E2, h) = IF n \in E2 THEN SumOver(E1, h) + DeltaOf(n, h) ELSE SumOver(E1, h)
<1>1. IsFiniteSet(E1) /\ E1 \subseteq Record /\ n \notin E1 /\ n \in Record
  BY FS_Subset
<1>2. SumOver(E1 \cup {n}, h) = SumOver(E1, h) + DeltaOf(n, h)
  BY <1>1, SumAdd
<1>3. QED
  BY <1>2

(* A batch adds its change to the balances its plan was made from, and makes *)
(* every other plan of the domain stale.                                      *)
LEMMA BalanceStep == LedgerInv /\ BalanceInv /\ [Next]_vars => BalanceInv'
<1> SUFFICES ASSUME LedgerInv, BalanceInv, [Next]_vars PROVE BalanceInv'
  OBVIOUS
<1>0. TypeOK
  BY DEF LedgerInv
<1>1. CASE UNCHANGED tables /\ Plans
  <2>1. ASSUME NEW u \in Slot PROVE FreshPlan(u)'
    <3>1. FreshPlan(u)
      BY DEF BalanceInv
    <3>2. QED
      BY <1>1, <3>1 DEF Plans, PlanKept, PlanMade, FreshPlan, tables
  <2>2. IsFiniteSet(events') /\ BalancesReconcile'
    BY <1>1 DEF BalanceInv, BalancesReconcile, tables
  <2>3. QED
    BY <2>1, <2>2 DEF BalanceInv
<1>2. ASSUME NEW s \in Slot, Batch(s) PROVE BalanceInv'
  <2> DEFINE c == cmd[s]
             n == NewRecord(c)
  <2>1. /\ n \in Record \ events /\ events' = events \cup {n} /\ c \in Command
        /\ revision[c.d] = c.seen /\ revision' = [revision EXCEPT ![c.d] = c.seen + 1]
    BY <1>2, BatchRecords
  <2>2. /\ c.t \in Tenant /\ c.d \in Domain /\ c.change \in Change /\ c.seen \in Nat
        /\ n.t = c.t /\ n.d = c.d /\ n.change = c.change
    BY <2>1 DEF Command, NewRecord
  <2>3. c.bal = balance[c.d][c.t]
    BY <1>2, <2>1 DEF BalanceInv, FreshPlan, Batch
  <2>4. IsFiniteSet(events')
    BY <2>1, FS_AddElement DEF BalanceInv
  <2>5. ASSUME NEW u \in Slot PROVE FreshPlan(u)'
    <3> SUFFICES ASSUME cmd'[u].phase = "commit", cmd'[u].seen = revision'[cmd'[u].d]
                 PROVE  cmd'[u].bal = balance'[cmd'[u].d][cmd'[u].t]
      BY DEF FreshPlan
    <3>1. cmd'[u] = cmd[u] /\ cmd[u].phase = "commit"
      BY <1>2 DEF Batch
    <3>2. cmd[u].d \in Domain /\ cmd[u].t \in Tenant /\ cmd[u].seen \in Nat
      BY <1>0, <3>1, BusySlot DEF Command
    <3>3. cmd[u].seen <= revision[cmd[u].d]
      BY <3>1 DEF LedgerInv, PlansOnReached
    <3>4. cmd[u].d # c.d
      BY <1>0, <2>1, <2>2, <3>1, <3>2, <3>3 DEF TypeOK
    <3>5. revision'[cmd[u].d] = revision[cmd[u].d]
      BY <1>0, <2>1, <3>2, <3>4 DEF TypeOK
    <3>6. cmd[u].bal = balance[cmd[u].d][cmd[u].t]
      BY <3>1, <3>5 DEF BalanceInv, FreshPlan
    <3>7. balance'[cmd[u].d] = balance[cmd[u].d]
      BY <1>0, <1>2, <3>2, <3>4 DEF Batch, ApplyBatch, TypeOK
    <3>8. QED
      BY <3>1, <3>6, <3>7
  <2>6. ASSUME NEW d \in Domain, NEW t \in Tenant, NEW h \in Hash
        PROVE  balance'[d][t][h] = SumOver({e \in events' : e.t = t /\ e.d = d}, h)
    <3> DEFINE E1 == {e \in events : e.t = t /\ e.d = d}
               E2 == {e \in events' : e.t = t /\ e.d = d}
    <3>1. balance[d][t][h] = SumOver(E1, h) /\ balance[d][t][h] \in Int
      BY <1>0 DEF BalanceInv, BalancesReconcile, TypeOK
    <3>2. n \in E2 <=> t = c.t /\ d = c.d
      BY <2>1, <2>2
    <3>3. E1 \subseteq events /\ E2 = IF n \in E2 THEN E1 \cup {n} ELSE E1
      BY <2>1, <2>2, <3>2
    <3>4. IsFiniteSet(events) /\ events \subseteq Record
      BY <1>0 DEF BalanceInv, TypeOK
    <3>5. SumOver(E2, h) = IF n \in E2 THEN SumOver(E1, h) + DeltaOf(n, h) ELSE SumOver(E1, h)
      <4> HIDE DEF E1, E2, n
      <4> QED
        BY <2>1, <3>3, <3>4, SumAfter
    <3>6. CASE t = c.t /\ d = c.d
      <4>1. balance'[d][t][h] = IF h \in DOMAIN c.change THEN c.bal[h] + c.change[h] ELSE balance[d][t][h]
        BY <1>0, <1>2, <2>2, <3>6 DEF Batch, ApplyBatch, TypeOK
      <4>2. DeltaOf(n, h) = IF h \in DOMAIN c.change THEN c.change[h] ELSE 0
        BY <2>2 DEF DeltaOf
      <4>3. balance'[d][t][h] = balance[d][t][h] + DeltaOf(n, h)
        BY <2>3, <3>1, <3>6, <4>1, <4>2
      <4> HIDE DEF E1, E2, n
      <4>4. QED
        BY <3>1, <3>2, <3>5, <3>6, <4>3 DEF E2
    <3>7. CASE ~(t = c.t /\ d = c.d)
      <4>1. balance'[d][t] = balance[d][t]
        BY <1>0, <1>2, <2>2, <3>7 DEF Batch, ApplyBatch, TypeOK
      <4> HIDE DEF E1, E2, n
      <4>2. QED
        BY <3>1, <3>2, <3>5, <3>7, <4>1 DEF E2
    <3>8. QED
      BY <3>6, <3>7
  <2>7. QED
    BY <2>4, <2>5, <2>6 DEF BalanceInv, BalancesReconcile
<1>3. QED
  BY <1>1, <1>2, OnlyBatchesWrite

(* Nothing is on record and everything is zero. *)
LEMMA BalanceInit == Init => BalanceInv /\ CountInv
<1> SUFFICES ASSUME Init PROVE BalanceInv /\ CountInv
  OBVIOUS
<1>1. IsFiniteSet(events)
  BY FS_EmptySet DEF Init
<1>2. \A s \in Slot : FreshPlan(s)
  BY DEF Init, FreshPlan, Idle
<1>3. BalancesReconcile
  <2> SUFFICES ASSUME NEW d \in Domain, NEW t \in Tenant, NEW h \in Hash
               PROVE  balance[d][t][h] = SumOver({e \in events : e.t = t /\ e.d = d}, h)
    BY DEF BalancesReconcile
  <2>1. {e \in events : e.t = t /\ e.d = d} = {} /\ balance[d][t][h] = 0
    BY DEF Init
  <2>2. QED
    BY <2>1, SumOverNothing
<1>4. CountsReconcile
  <2> SUFFICES ASSUME NEW t \in Tenant, NEW h \in Hash
               PROVE  rootCount[t][h] = SumOver({e \in events : e.t = t}, h)
    BY DEF CountsReconcile
  <2>1. {e \in events : e.t = t} = {} /\ rootCount[t][h] = 0
    BY DEF Init
  <2>2. QED
    BY <2>1, SumOverNothing
<1>5. QED
  BY <1>1, <1>2, <1>3, <1>4 DEF BalanceInv, CountInv

(* The balance of every tenant in every domain is the sum of its events there, *)
(* although commit writes balances that were read before: the primary key of   *)
(* the event table refuses every plan whose balances are not those of now,     *)
(* whoever restarts.                                                           *)
THEOREM BalancesStayReconciled == Spec => []BalancesReconcile
<1>1. Init => BalanceInv
  BY BalanceInit
<1>2. BalanceInv => BalancesReconcile
  BY DEF BalanceInv
<1>3. QED
  BY <1>1, <1>2, BalanceStep, LedgerCorrect, PTL DEF Spec

(* A batch reaches the row of every node it names: the check found the row,  *)
(* and the gate has kept it since.                                           *)
LEMMA CountStep == LedgerInv /\ GateInv /\ CountInv /\ [Next]_vars => CountInv'
<1> SUFFICES ASSUME LedgerInv, GateInv, CountInv, [Next]_vars PROVE CountInv'
  OBVIOUS
<1>0. TypeOK
  BY DEF LedgerInv
<1>1. CASE UNCHANGED tables
  BY <1>1 DEF CountInv, CountsReconcile, tables
<1>2. ASSUME NEW s \in Slot, Batch(s) PROVE CountInv'
  <2> DEFINE c == cmd[s]
             n == NewRecord(c)
  <2>1. n \in Record \ events /\ events' = events \cup {n} /\ c \in Command
    BY <1>2, BatchRecords
  <2>2. /\ c.t \in Tenant /\ c.change \in Change
        /\ n.t = c.t /\ n.change = c.change
    BY <2>1 DEF Command, NewRecord
  <2>3. IsFiniteSet(events')
    BY <2>1, FS_AddElement DEF CountInv
  <2>4. ASSUME NEW h \in DOMAIN c.change PROVE node[c.t][h] # "absent"
    <3>1. StillChecked(s) /\ c.phase = "commit"
      BY <1>2 DEF GateInv, ChecksHold, Batch
    <3>2. QED
      BY <3>1 DEF StillChecked
  <2>5. ASSUME NEW t \in Tenant, NEW h \in Hash
        PROVE  rootCount'[t][h] = SumOver({e \in events' : e.t = t}, h)
    <3> DEFINE E1 == {e \in events : e.t = t}
               E2 == {e \in events' : e.t = t}
    <3>1. rootCount[t][h] = SumOver(E1, h) /\ rootCount[t][h] \in Nat
      BY <1>0 DEF CountInv, CountsReconcile, TypeOK
    <3>2. n \in E2 <=> t = c.t
      BY <2>1, <2>2
    <3>3. E1 \subseteq events /\ E2 = IF n \in E2 THEN E1 \cup {n} ELSE E1
      BY <2>1, <2>2, <3>2
    <3>4. IsFiniteSet(events) /\ events \subseteq Record
      BY <1>0 DEF CountInv, TypeOK
    <3>5. SumOver(E2, h) = IF n \in E2 THEN SumOver(E1, h) + DeltaOf(n, h) ELSE SumOver(E1, h)
      <4> HIDE DEF E1, E2, n
      <4> QED
        BY <2>1, <3>3, <3>4, SumAfter
    <3>6. CASE t = c.t
      <4>1. rootCount'[t][h] = IF h \in DOMAIN c.change /\ node[c.t][h] # "absent"
                               THEN rootCount[t][h] + c.change[h] ELSE rootCount[t][h]
        BY <1>0, <1>2, <2>2, <3>6 DEF Batch, ApplyBatch, TypeOK
      <4>2. DeltaOf(n, h) = IF h \in DOMAIN c.change THEN c.change[h] ELSE 0
        BY <2>2 DEF DeltaOf
      <4>3. rootCount'[t][h] = rootCount[t][h] + DeltaOf(n, h)
        BY <2>4, <3>1, <4>1, <4>2
      <4> HIDE DEF E1, E2, n
      <4>4. QED
        BY <3>1, <3>2, <3>5, <3>6, <4>3 DEF E2
    <3>7. CASE t # c.t
      <4>1. rootCount'[t] = rootCount[t]
        BY <1>0, <1>2, <2>2, <3>7 DEF Batch, ApplyBatch, TypeOK
      <4> HIDE DEF E1, E2, n
      <4>2. QED
        BY <3>1, <3>2, <3>5, <3>7, <4>1 DEF E2
    <3>8. QED
      BY <3>6, <3>7
  <2>6. QED
    BY <2>3, <2>5 DEF CountInv, CountsReconcile
<1>3. QED
  BY <1>1, <1>2, OnlyBatchesWrite

(* Under the tenant's gate the count that governs a node's life is the sum of  *)
(* the tenant's accepted updates over all domains: no batch meets a node whose *)
(* row is gone, where its change would be lost.                                *)
THEOREM CountsStayReconciled ==
    ASSUME MaxRestarts = 0
    PROVE  Spec => []CountsReconcile
<1>1. Init => GateInv /\ CountInv
  BY GateInit, BalanceInit
<1>2. CountInv => CountsReconcile
  BY DEF CountInv
<1>3. LedgerInv /\ GateInv /\ [Next]_vars => GateInv'
  BY GateStep
<1>4. QED
  BY <1>1, <1>2, <1>3, CountStep, LedgerCorrect, PTL DEF Spec
================================================================================
