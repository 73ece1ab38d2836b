------------------------------ MODULE CasRootRefs ------------------------------
(***************************************************************************)
(* Root reference updates: a tenant's Durable Object canonicalizes an      *)
(* update and forwards it, inside its mutation gate, to the Durable Object *)
(* of the reference domain.  The domain object has no gate: commands of    *)
(* different tenants interleave between its reads and its commit, which is *)
(* one D1 batch guarded by the primary keys of the event and the request   *)
(* table.  Failures are retried a bounded number of times.                 *)
(*                                                                         *)
(* While the gate of a tenant is held nothing else changes its counts, its *)
(* balances or its rows, so the reads of one attempt are two steps here:   *)
(* what only this tenant can change, and what other tenants can change.    *)
(***************************************************************************)
EXTENDS Integers, FiniteSets, FiniteSetsExt

CONSTANTS
    Tenant, Domain, Hash,
    RequestId,       \* ids the callers use, and use again when they retry
    Slot,            \* commands under way at the same time
    MaxAttempts,     \* maxAttempts of withDomainRetry
    MaxRestarts,     \* bound: restarts of tenant objects explored
    NoOne            \* the tenant, domain and request of an idle slot

ASSUME AttemptAssumption == MaxAttempts \in Nat \ {0} /\ MaxRestarts \in Nat
ASSUME NoOneAssumption == NoOne \notin Tenant \cup Domain \cup RequestId

VARIABLES
    node,       \* node[t][h]: "absent", a "row" without object, or "ready"
    rootCount,  \* root_ref_count of the row
    balance,    \* cas_root_domain_refs: balance[d][t][h], 0 when there is no row
    revision,   \* cas_root_domain_revisions
    events,     \* cas_root_domain_events
    requests,   \* cas_root_ref_requests
    cmd,        \* the command in each slot
    restarts    \* restarts of tenant objects so far

tables == <<rootCount, balance, revision, events, requests>>
vars   == <<node, tables, cmd, restarts>>

(* An update names at least one hash, each with a nonzero delta. *)
Change == UNION {[S -> {-1, 1}] : S \in SUBSET Hash \ {{}}}

(* What both the event and the request table record of an accepted update.  *)
Record == [d : Domain, t : Tenant, req : RequestId, change : Change, rev : Nat]

Idle == [phase |-> "idle", gated |-> FALSE, t |-> NoOne, d |-> NoOne, req |-> NoOne, change |-> <<>>,
         attempt |-> 0, seen |-> 0, bal |-> <<>>, answer |-> "none", rev |-> 0]

(* An answer is final when it is not "none": accepted, a repetition of an   *)
(* accepted update, refused by validation, or given up as busy.             *)
Answers == {"none", "applied", "idempotent", "conflict", "invalid", "busy"}

(* A command that is not idle: the fields it was forwarded with, and what    *)
(* its attempts have read and answered.                                      *)
Command == [phase : {"check", "plan", "commit", "answered"}, gated : BOOLEAN,
            t : Tenant, d : Domain, req : RequestId, change : Change,
            attempt : 1 .. MaxAttempts, seen : Nat, bal : [Hash -> Int] \cup {<<>>},
            answer : Answers, rev : Nat]

TypeOK ==
    /\ node \in [Tenant -> [Hash -> {"absent", "row", "ready"}]]
    /\ rootCount \in [Tenant -> [Hash -> Nat]]
    /\ balance \in [Domain -> [Tenant -> [Hash -> Int]]]
    /\ revision \in [Domain -> Nat]
    /\ events \subseteq Record
    /\ requests \subseteq Record
    /\ cmd \in [Slot -> Command \cup {Idle}]
    /\ restarts \in 0 .. MaxRestarts

Init ==
    /\ node = [t \in Tenant |-> [h \in Hash |-> "absent"]]
    /\ rootCount = [t \in Tenant |-> [h \in Hash |-> 0]]
    /\ balance = [d \in Domain |-> [t \in Tenant |-> [h \in Hash |-> 0]]]
    /\ revision = [d \in Domain |-> 0]
    /\ events = {}
    /\ requests = {}
    /\ cmd = [s \in Slot |-> Idle]
    /\ restarts = 0

--------------------------------------------------------------------------------
(* The tenant's other operations, as far as this module sees them *)

GateFree(t) == \A s \in Slot : cmd[s].t = t => ~cmd[s].gated

(* An insertion writes the row of a node, with or without its object; the    *)
(* object of a row that lacks it is put back without the gate.               *)
NodeReady(t, h) ==
    /\ \/ GateFree(t) /\ node[t][h] = "absent" /\ \E to \in {"row", "ready"} : node' = [node EXCEPT ![t][h] = to]
       \/ node[t][h] = "row" /\ node' = [node EXCEPT ![t][h] = "ready"]
    /\ UNCHANGED <<tables, cmd, restarts>>

(* A collection removes the object and then the row of a node that has no    *)
(* root references.                                                          *)
NodeCollected(t, h) ==
    /\ GateFree(t)
    /\ rootCount[t][h] = 0
    /\ \/ node[t][h] = "ready" /\ node' = [node EXCEPT ![t][h] = "row"]
       \/ node[t][h] = "row" /\ node' = [node EXCEPT ![t][h] = "absent"]
    /\ UNCHANGED <<tables, cmd, restarts>>

--------------------------------------------------------------------------------
(* One update *)

(* The tenant object takes its gate and forwards the canonical update. *)
Forwarded(t, d, req, change) ==
    [phase |-> "check", gated |-> TRUE, t |-> t, d |-> d, req |-> req, change |-> change,
     attempt |-> 1, seen |-> 0, bal |-> <<>>, answer |-> "none", rev |-> 0]

forwardRootRefs(s, t, d, req, change) ==
    /\ cmd[s].phase = "idle"
    /\ GateFree(t)
    /\ cmd' = [cmd EXCEPT ![s] = Forwarded(t, d, req, change)]
    /\ UNCHANGED <<node, tables, restarts>>

Answer(s, what, rev) ==
    cmd' = [cmd EXCEPT ![s].phase = "answered", ![s].answer = what, ![s].rev = rev]

(* Mutant: the request is looked up by id and payload. *)
Recorded_byPayload(c) ==
    {r \in requests : r.t = c.t /\ r.d = c.d /\ r.req = c.req /\ r.change = c.change}

(* The recorded request with the same tenant, domain and id, if any. *)
Recorded(c) == {r \in requests : r.t = c.t /\ r.d = c.d /\ r.req = c.req}

(* Mutant: what is acquired need not have its object. *)
Invalid_rowOnly(c) ==
    \/ \E h \in DOMAIN c.change : node[c.t][h] = "absent"
    \/ \E h \in DOMAIN c.change : rootCount[c.t][h] + c.change[h] < 0

Invalid(c) ==
    \/ \E h \in DOMAIN c.change : node[c.t][h] = "absent"
    \/ \E h \in DOMAIN c.change : rootCount[c.t][h] + c.change[h] < 0
    \/ \E h \in DOMAIN c.change : c.change[h] > 0 /\ node[c.t][h] # "ready"

(* Mutant: validated before the request is looked up. *)
CheckUpdate_validateFirst(s) ==
    LET c == cmd[s] IN
    /\ c.phase = "check"
    /\ IF Invalid(c) THEN Answer(s, "invalid", 0)
       ELSE IF Recorded(c) # {}
       THEN \E r \in Recorded(c) :
               IF r.change = c.change THEN Answer(s, "idempotent", r.rev)
                                      ELSE Answer(s, "conflict", 0)
       ELSE cmd' = [cmd EXCEPT ![s].phase = "plan"]
    /\ UNCHANGED <<node, tables, restarts>>

(* A known request is answered from its record whatever the nodes are now;  *)
(* a new one is validated against the aggregate counts.                     *)
CheckUpdate(s) ==
    LET c == cmd[s] IN
    /\ c.phase = "check"
    /\ IF Recorded(c) # {}
       THEN \E r \in Recorded(c) :
               IF r.change = c.change THEN Answer(s, "idempotent", r.rev)
                                      ELSE Answer(s, "conflict", 0)
       ELSE IF Invalid(c) THEN Answer(s, "invalid", 0)
            ELSE cmd' = [cmd EXCEPT ![s].phase = "plan"]
    /\ UNCHANGED <<node, tables, restarts>>

(* readDomainState: the revision to build on and the tenant's balances. *)
ReadDomainState(s) ==
    LET c == cmd[s] IN
    /\ c.phase = "plan"
    /\ cmd' = [cmd EXCEPT ![s].phase = "commit", ![s].seen = revision[c.d],
                          ![s].bal = balance[c.d][c.t]]
    /\ UNCHANGED <<node, tables, restarts>>

(* Mutant: attempts are not counted. *)
Retry_forever(s) == cmd' = [cmd EXCEPT ![s].phase = "check"]

(* A retryable failure: another attempt from the start, or BUSY. *)
Retry(s) ==
    IF cmd[s].attempt < MaxAttempts
    THEN cmd' = [cmd EXCEPT ![s].phase = "check", ![s].attempt = @ + 1]
    ELSE Answer(s, "busy", 0)

(* The CHECK on root_ref_count: the update of a node without a row matches   *)
(* nothing and cannot fail.                                                  *)
CountsHold(c) ==
    \A h \in DOMAIN c.change :
       node[c.t][h] # "absent" => rootCount[c.t][h] + c.change[h] >= 0

(* Mutants: one of the two tables has no primary key. *)
BatchAccepted_noEventKey(c) ==
    /\ Recorded(c) = {}
    /\ CountsHold(c)
BatchAccepted_noRequestKey(c) ==
    /\ \A e \in events : e.d = c.d => e.rev # c.seen + 1
    /\ CountsHold(c)

(* The batch commits unless a primary key (the event's revision, the        *)
(* request's id) or the CHECK on the counts stops it.                       *)
BatchAccepted(c) ==
    /\ \A e \in events : e.d = c.d => e.rev # c.seen + 1
    /\ Recorded(c) = {}
    /\ CountsHold(c)

NewRecord(c) == [d |-> c.d, t |-> c.t, req |-> c.req, change |-> c.change, rev |-> c.seen + 1]

(* The revision row is inserted, or updated if it is the one that was read. *)
RevisionTaken(c) == revision[c.d] = 0 \/ revision[c.d] = c.seen

(* Mutant: the counts of the nodes are set from the balance. *)
ApplyBatch_countOfDomain(c) ==
    /\ revision' = IF RevisionTaken(c) THEN [revision EXCEPT ![c.d] = c.seen + 1] ELSE revision
    /\ rootCount' = [rootCount EXCEPT ![c.t] =
          [h \in Hash |-> IF h \in DOMAIN c.change THEN c.bal[h] + c.change[h] ELSE @[h]]]
    /\ balance' = [balance EXCEPT ![c.d][c.t] =
          [h \in Hash |-> IF h \in DOMAIN c.change THEN c.bal[h] + c.change[h] ELSE @[h]]]
    /\ events' = events \cup {NewRecord(c)}
    /\ requests' = requests \cup {NewRecord(c)}

ApplyBatch(c) ==
    /\ revision' = IF RevisionTaken(c) THEN [revision EXCEPT ![c.d] = c.seen + 1] ELSE revision
    /\ rootCount' = [rootCount EXCEPT ![c.t] =
          [h \in Hash |-> IF h \in DOMAIN c.change /\ node[c.t][h] # "absent"
                          THEN @[h] + c.change[h] ELSE @[h]]]
    /\ balance' = [balance EXCEPT ![c.d][c.t] =
          [h \in Hash |-> IF h \in DOMAIN c.change THEN c.bal[h] + c.change[h] ELSE @[h]]]
    /\ events' = events \cup {NewRecord(c)}
    /\ requests' = requests \cup {NewRecord(c)}

CommitUpdate(s) ==
    LET c == cmd[s] IN
    /\ c.phase = "commit"
    /\ BatchAccepted(c)
    /\ ApplyBatch(c)
    /\ IF RevisionTaken(c) THEN Answer(s, "applied", c.seen + 1) ELSE Retry(s)
    /\ UNCHANGED <<node, restarts>>

CommitRejected(s) ==
    /\ cmd[s].phase = "commit"
    /\ ~BatchAccepted(cmd[s])
    /\ Retry(s)
    /\ UNCHANGED <<node, tables, restarts>>

(* D1 or R2 throws: a read, a batch without effect, or a batch that was     *)
(* committed and whose answer is lost.                                      *)
StorageFails(s) ==
    /\ cmd[s].phase \in {"check", "plan", "commit"}
    /\ Retry(s)
    /\ UNCHANGED <<node, tables, restarts>>

CommitAnswerLost(s) ==
    /\ cmd[s].phase = "commit"
    /\ BatchAccepted(cmd[s])
    /\ ApplyBatch(cmd[s])
    /\ Retry(s)
    /\ UNCHANGED <<node, restarts>>

(* The answer, seen by the caller or lost on the way, releases the gate. *)
Respond(s) ==
    /\ cmd[s].phase = "answered"
    /\ cmd' = [cmd EXCEPT ![s] = Idle]
    /\ UNCHANGED <<node, tables, restarts>>

(* The domain object restarts: the command is gone and the gate released. *)
DomainRestart(s) ==
    /\ cmd[s].phase \in {"check", "plan", "commit"}
    /\ cmd' = [cmd EXCEPT ![s] = Idle]
    /\ UNCHANGED <<node, tables, restarts>>

(* The tenant object restarts: its gate is lost, the command it forwarded    *)
(* goes on at the domain.                                                    *)
TenantRestart(t) ==
    /\ restarts < MaxRestarts
    /\ restarts' = restarts + 1
    /\ cmd' = [s \in Slot |-> IF cmd[s].t = t THEN [cmd[s] EXCEPT !.gated = FALSE] ELSE cmd[s]]
    /\ UNCHANGED <<node, tables>>

Step(s) == CheckUpdate(s) \/ ReadDomainState(s) \/ CommitUpdate(s) \/ CommitRejected(s) \/ Respond(s)

Next ==
    \/ \E t \in Tenant, h \in Hash : NodeReady(t, h) \/ NodeCollected(t, h)
    \/ \E s \in Slot, t \in Tenant, d \in Domain, req \in RequestId, change \in Change :
          forwardRootRefs(s, t, d, req, change)
    \/ \E s \in Slot : CheckUpdate(s)
    \/ \E s \in Slot : ReadDomainState(s)
    \/ \E s \in Slot : CommitUpdate(s)
    \/ \E s \in Slot : CommitRejected(s)
    \/ \E s \in Slot : StorageFails(s)
    \/ \E s \in Slot : CommitAnswerLost(s)
    \/ \E s \in Slot : Respond(s)
    \/ \E s \in Slot : DomainRestart(s)
    \/ \E t \in Tenant : TenantRestart(t)

Spec == Init /\ [][Next]_vars

(* The domain object goes on with every command it has been given; nothing   *)
(* makes storage fail or succeed.                                            *)
FairSpec == Spec /\ \A s \in Slot : WF_vars(Step(s))

--------------------------------------------------------------------------------
(* Properties *)

(* Every domain's events are numbered 1 to its revision without gap or      *)
(* repetition, although updates of several tenants race for the same next   *)
(* revision.                                                                *)
EventLogGapFree ==
    \A d \in Domain :
       /\ {e.rev : e \in {f \in events : f.d = d}} = 1 .. revision[d]
       /\ \A e, f \in events : e.d = d /\ f.d = d /\ e.rev = f.rev => e = f

(* A request is applied at most once, whatever is retried or lost, and the  *)
(* audit log and the idempotency table record the same updates.             *)
AppliedOnce ==
    /\ requests = events
    /\ \A e, f \in events : e.t = f.t /\ e.d = f.d /\ e.req = f.req => e = f

(* What the caller is told is true: an accepted update is on record with    *)
(* the revision in the answer, a refused one has not been applied, not even *)
(* by an earlier attempt whose answer was lost.                             *)
OnRecord(c) == {r \in events : r.t = c.t /\ r.d = c.d /\ r.req = c.req /\ r.change = c.change}
HonestAnswer(s) ==
    LET c == cmd[s] IN
    /\ c.answer \in {"applied", "idempotent"} => \E r \in OnRecord(c) : r.rev = c.rev
    /\ c.answer \in {"conflict", "invalid"} => OnRecord(c) = {}
AnswersHonest == \A s \in Slot : HonestAnswer(s)

(* A count is positive only on a node that is still there with its object:   *)
(* no collection gets between the check of an update and its commit.         *)
CountedNodesKept == \A t \in Tenant, h \in Hash : rootCount[t][h] > 0 => node[t][h] = "ready"

(* What an update changes at a hash, and the sum over some of the updates. *)
DeltaOf(e, h) == IF h \in DOMAIN e.change THEN e.change[h] ELSE 0
SumOver(E, h) == MapThenSumSet(LAMBDA e : DeltaOf(e, h), E)

(* The aggregate count that governs a node's life is the sum of the changes   *)
(* of the tenant's accepted updates, over all domains: commit applies each    *)
(* update to every node it names, once.                                       *)
CountsReconcile ==
    \A t \in Tenant, h \in Hash : rootCount[t][h] = SumOver({e \in events : e.t = t}, h)

(* The domain's balance of a tenant is the sum of that tenant's events in the *)
(* domain, although it is computed from balances read before the commit.      *)
BalancesReconcile ==
    \A d \in Domain, t \in Tenant, h \in Hash :
       balance[d][t][h] = SumOver({e \in events : e.t = t /\ e.d = d}, h)

(* The inductive invariant of the ledger: a plan never starts from a         *)
(* revision the domain has not reached.                                      *)
PlansOnReached ==
    \A s \in Slot : cmd[s].phase = "commit" =>
        cmd[s].bal \in [Hash -> Int] /\ cmd[s].seen <= revision[cmd[s].d]
LedgerInv == TypeOK /\ PlansOnReached /\ EventLogGapFree /\ AppliedOnce

(* What the gate adds as long as no tenant object restarts: one command per  *)
(* tenant, whose checks still hold when it commits.                          *)
GateHeld ==
    \A s \in Slot : cmd[s].phase # "idle" =>
        cmd[s].gated /\ \A u \in Slot : cmd[u].t = cmd[s].t => u = s
StillChecked(s) ==
    LET c == cmd[s] IN
    /\ c.answer # "none" => c.phase = "answered"
    /\ c.phase \in {"plan", "commit"} =>
          \A h \in DOMAIN c.change :
             node[c.t][h] # "absent" /\ (c.change[h] > 0 => node[c.t][h] = "ready")
ChecksHold == \A s \in Slot : StillChecked(s)
GateInv == GateHeld /\ ChecksHold /\ AnswersHonest /\ CountedNodesKept

(* Every forwarded command is answered and lets go of its tenant's gate. *)
GateReleased == \A s \in Slot : cmd[s].phase # "idle" ~> cmd[s].phase = "idle"
================================================================================
