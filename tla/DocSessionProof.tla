---------------------------- MODULE DocSessionProof ----------------------------
(***************************************************************************)
(* One document session on Azure, for any number of replicas, requests,    *)
(* batches and failures: restore points are safe, acknowledged batches     *)
(* stay, and what sessions load, cache and record is the content of its    *)
(* version.                                                                *)
(***************************************************************************)
EXTENDS DocSession, FiniteSetTheorems, WellFoundedInduction, TLAPS

--------------------------------------------------------------------------------
(* Documents that are computed step by step *)

(* A set of numbers has a least one. *)
LEMMA LeastNat ==
    ASSUME NEW T, T \subseteq Nat, T # {}
    PROVE  \E n \in T : \A m \in T : n <= m
<1>1. IsWellFoundedOn(OpToRel(<, Nat), Nat)
  BY NatLessThanWellFounded, Zenon
<1>2. PICK n \in T : \A m \in T : ~(<<m, n>> \in OpToRel(<, Nat))
  BY <1>1, WFMin, Zenon
<1>3. \A m \in T : ~(m < n)
  BY <1>2 DEF OpToRel
<1>4. QED
  BY <1>3

(* A plan says for each step how its document comes about: it is given, it is *)
(* the document before with a batch more, or that of an earlier step.         *)
Planned(p, f, v) ==
    IF p[v].how = "set" THEN p[v].x
    ELSE IF p[v].how = "append" THEN Append(f[v - 1], p[v].x)
    ELSE f[p[v].x]

Plan(p) ==
    \A v \in Nat : /\ v = 0 => p[v].how = "set"
                   /\ p[v].how \notin {"set", "append"} => p[v].x \in 0 .. v - 1

Prefix(p, g, n) == \A v \in 0 .. n : g[v] = Planned(p, g, v)

(* Two computations of the same plan agree. *)
LEMMA PrefixUnique ==
    ASSUME NEW p, Plan(p), NEW n \in Nat, NEW m \in Nat, NEW g, NEW h, Prefix(p, g, n), Prefix(p, h, m),
           NEW v \in 0 .. n, v <= m
    PROVE  g[v] = h[v]
<1> DEFINE T == {w \in 0 .. n : w <= m /\ g[w] # h[w]}
<1>0. SUFFICES ASSUME g[v] # h[v] PROVE FALSE
  OBVIOUS
<1>1. T \subseteq Nat /\ v \in T
  BY <1>0
<1>2. PICK w \in T : \A u \in T : w <= u
  BY <1>1, LeastNat
<1>3. w \in 0 .. n /\ w \in 0 .. m /\ w \in Nat /\ g[w] # h[w] /\ \A u \in 0 .. w - 1 : g[u] = h[u]
  BY <1>2
<1>4. g[w] = Planned(p, g, w) /\ h[w] = Planned(p, h, w)
  BY <1>3 DEF Prefix
<1>5. p[w].how = "append" => w - 1 \in 0 .. w - 1
  BY <1>3 DEF Plan
<1>6. p[w].how \notin {"set", "append"} => p[w].x \in 0 .. w - 1
  BY <1>3 DEF Plan
<1>7. QED
  BY <1>3, <1>4, <1>5, <1>6 DEF Planned

(* A plan can be computed as far as one likes. *)
LEMMA PrefixExists ==
    ASSUME NEW p, Plan(p), NEW n \in Nat
    PROVE  \E g : Prefix(p, g, n)
<1> DEFINE T == {w \in Nat : ~\E g : Prefix(p, g, w)}
<1>1. SUFFICES ASSUME T # {} PROVE FALSE
  OBVIOUS
<1>2. PICK w \in T : \A u \in T : w <= u
  BY <1>1, LeastNat
<1>3. w \in Nat /\ (w # 0 => w - 1 \in Nat /\ \E g : Prefix(p, g, w - 1))
  BY <1>2
<1>4. PICK g : w # 0 => Prefix(p, g, w - 1)
  BY <1>3
<1> DEFINE h == [v \in 0 .. w |-> IF v = w THEN Planned(p, g, w) ELSE g[v]]
<1>5. \A v \in 0 .. w : Planned(p, h, v) = Planned(p, g, v)
  <2>1. SUFFICES ASSUME NEW v \in 0 .. w PROVE Planned(p, h, v) = Planned(p, g, v)
    OBVIOUS
  <2>2. \A u \in 0 .. v - 1 : h[u] = g[u]
    BY <1>3
  <2>3. /\ p[v].how = "append" => v - 1 \in 0 .. v - 1
        /\ p[v].how \notin {"set", "append"} => p[v].x \in 0 .. v - 1
    BY <1>3 DEF Plan
  <2> HIDE DEF h
  <2>4. QED
    BY <2>2, <2>3 DEF Planned
<1>6. Prefix(p, h, w)
  <2>1. SUFFICES ASSUME NEW v \in 0 .. w PROVE h[v] = Planned(p, g, v)
    BY <1>5 DEF Prefix
  <2>2. CASE v = w
    BY <2>2
  <2>3. CASE v # w
    <3>1. w # 0 /\ v \in 0 .. w - 1
      BY <1>3, <2>3
    <3>2. QED
      BY <1>4, <2>3, <3>1 DEF Prefix
  <2>4. QED
    BY <2>2, <2>3
<1>7. QED
  BY <1>2, <1>6

(* A plan computes one function. *)
LEMMA PlanComputed ==
    ASSUME NEW p, Plan(p)
    PROVE  \E f : f = [v \in Nat |-> Planned(p, f, v)]
<1> DEFINE G(n) == CHOOSE g : Prefix(p, g, n)
           f    == [v \in Nat |-> G(v)[v]]
<1>1. \A n \in Nat : Prefix(p, G(n), n)
  BY PrefixExists
<1> HIDE DEF G
<1>2. ASSUME NEW v \in Nat PROVE f[v] = Planned(p, f, v)
  <2>1. Prefix(p, G(v), v)
    BY <1>1
  <2>2. \A u \in 0 .. v - 1 : f[u] = G(v)[u]
    <3>1. SUFFICES ASSUME NEW u \in 0 .. v - 1 PROVE G(u)[u] = G(v)[u]
      OBVIOUS
    <3>2. u \in Nat /\ u \in 0 .. u /\ u <= v /\ Prefix(p, G(u), u)
      BY <1>1
    <3>3. QED
      BY <2>1, <3>2, PrefixUnique
  <2>3. /\ p[v].how = "append" => v - 1 \in 0 .. v - 1
        /\ p[v].how \notin {"set", "append"} => p[v].x \in 0 .. v - 1
    BY DEF Plan
  <2>4. f[v] = G(v)[v] /\ G(v)[v] = Planned(p, G(v), v)
    BY <2>1 DEF Prefix
  <2> HIDE DEF f
  <2>5. Planned(p, G(v), v) = Planned(p, f, v)
    BY <2>2, <2>3 DEF Planned
  <2>6. QED
    BY <2>4, <2>5
<1>3. f = [v \in Nat |-> Planned(p, f, v)]
  <2>1. f = [v \in Nat |-> f[v]]
    OBVIOUS
  <2> HIDE DEF f
  <2>2. QED
    BY <1>2, <2>1
<1>4. QED
  BY <1>3

--------------------------------------------------------------------------------
(* Replay and content, for a log D and restore points S *)

ReplayOf(D, d, first, last) ==
    LET at[v \in Nat] ==
          IF v < first THEN d
          ELSE IF v \in DOMAIN D /\ D[v].kind = "apply"
               THEN Append(at[v - 1], D[v].batch)
               ELSE at[v - 1]
    IN  at[last]

ContentsIn(D, S) ==
    LET at[w \in Nat] ==
          IF w = 0 \/ w \notin DOMAIN D THEN NoDoc
          ELSE CASE D[w].kind = "create"   -> S[w]
                 [] D[w].kind = "apply"    -> Append(at[w - 1], D[w].batch)
                 [] OTHER                  -> at[D[w].target]
    IN  at

ContentsOf(D, S, v) == ContentsIn(D, S)[v]

(* They are what the session computes. *)
LEMMA SameOperators ==
    /\ \A d, first, last : Replay(d, first, last) = ReplayOf(deltas, d, first, last)
    /\ \A v : Contents(v) = ContentsOf(deltas, snapshots, v)
    /\ \A v : Contents(v)' = ContentsOf(deltas', snapshots', v)
BY DEF Replay, ReplayOf, Contents, ContentsOf, ContentsIn

Row ==
    [kind : {"create"}, batch : {NoDoc}, target : {0}]
      \cup [kind : {"apply"}, batch : Batches, target : {0}]
      \cup [kind : {"rollback"}, batch : {NoDoc}, target : Nat]

Log(D) == \A v \in DOMAIN D : v \in Nat \ {0} /\ D[v] \in Row

(* A rollback restores an earlier version. *)
TargetsBefore(D) == \A v \in DOMAIN D : D[v].kind = "rollback" => D[v].target < v

(* f is the replay of the rows of D from first on, applied to d. *)
Replays(f, D, d, first) ==
    \A v \in Nat : f[v] = IF v < first THEN d
                          ELSE IF v \in DOMAIN D /\ D[v].kind = "apply" THEN Append(f[v - 1], D[v].batch)
                          ELSE f[v - 1]

(* A replay applies the batches of its rows one after the other. *)
LEMMA ReplayEquation ==
    ASSUME NEW D, NEW d, NEW first \in Nat \ {0}, NEW last
    PROVE  \E f : Replays(f, D, d, first) /\ ReplayOf(D, d, first, last) = f[last]
<1> DEFINE p == [v \in Nat |-> IF v < first THEN [how |-> "set", x |-> d]
                               ELSE IF v \in DOMAIN D /\ D[v].kind = "apply" THEN [how |-> "append", x |-> D[v].batch]
                               ELSE [how |-> "copy", x |-> v - 1]]
           Body(f, v) == IF v < first THEN d
                         ELSE IF v \in DOMAIN D /\ D[v].kind = "apply" THEN Append(f[v - 1], D[v].batch)
                         ELSE f[v - 1]
<1>1. Plan(p)
  BY DEF Plan
<1>2. \A f : \A v \in Nat : Planned(p, f, v) = Body(f, v)
  BY DEF Planned
<1> HIDE DEF p
<1>3. PICK g : g = [v \in Nat |-> Planned(p, g, v)]
  BY <1>1, PlanComputed
<1>4. g = [v \in Nat |-> Body(g, v)]
  BY <1>2, <1>3
<1>5. \E f : f = [v \in Nat |-> Body(f, v)] /\ ReplayOf(D, d, first, last) = f[last]
  BY <1>4 DEF ReplayOf
<1>6. PICK f : f = [v \in Nat |-> Body(f, v)] /\ ReplayOf(D, d, first, last) = f[last]
  BY <1>5
<1>7. Replays(f, D, d, first)
  BY <1>6 DEF Replays
<1>8. QED
  BY <1>6, <1>7

(* A replay of a document is a document. *)
LEMMA ReplayType ==
    ASSUME NEW D, Log(D), NEW d \in Seq(Batches), NEW first \in Nat \ {0}, NEW last \in Nat
    PROVE  ReplayOf(D, d, first, last) \in Seq(Batches)
<1>1. PICK f : Replays(f, D, d, first) /\ ReplayOf(D, d, first, last) = f[last]
  BY ReplayEquation
<1> DEFINE T == {v \in Nat : f[v] \notin Seq(Batches)}
<1>2. SUFFICES ASSUME last \in T PROVE FALSE
  BY <1>1
<1>3. PICK w \in T : \A u \in T : w <= u
  BY <1>2, LeastNat
<1>4. w \in Nat /\ f[w] \notin Seq(Batches) /\ w >= first /\ f[w - 1] \in Seq(Batches)
  BY <1>1, <1>3 DEF Replays
<1>5. w \in DOMAIN D /\ D[w].kind = "apply" => D[w].batch \in Batches
  BY DEF Log, Row
<1>6. f[w] = IF w \in DOMAIN D /\ D[w].kind = "apply" THEN Append(f[w - 1], D[w].batch) ELSE f[w - 1]
  BY <1>1, <1>4 DEF Replays
<1>7. QED
  BY <1>4, <1>5, <1>6

(* The content of a version is that of its restore point, or of the version   *)
(* before with its batch.                                                     *)
LEMMA ContentsStep ==
    ASSUME NEW D, NEW S, Log(D), TargetsBefore(D), NEW v \in DOMAIN D
    PROVE  /\ D[v].kind = "create" => ContentsOf(D, S, v) = S[v]
           /\ D[v].kind = "apply" => ContentsOf(D, S, v) = Append(ContentsOf(D, S, v - 1), D[v].batch)
<1> DEFINE Body(f, w) == IF w = 0 \/ w \notin DOMAIN D THEN NoDoc
                         ELSE CASE D[w].kind = "create"   -> S[w]
                                [] D[w].kind = "apply"    -> Append(f[w - 1], D[w].batch)
                                [] OTHER                  -> f[D[w].target]
           p == [w \in Nat |-> IF w = 0 \/ w \notin DOMAIN D THEN [how |-> "set", x |-> NoDoc]
                               ELSE IF D[w].kind = "create" THEN [how |-> "set", x |-> S[w]]
                               ELSE IF D[w].kind = "apply" THEN [how |-> "append", x |-> D[w].batch]
                               ELSE [how |-> "copy", x |-> D[w].target]]
<1>1. \A w \in DOMAIN D : /\ w \in Nat \ {0} /\ D[w].kind \in {"create", "apply", "rollback"}
                          /\ D[w].kind = "rollback" => D[w].target \in 0 .. w - 1
  BY DEF Log, Row, TargetsBefore
<1>2. Plan(p)
  BY <1>1 DEF Plan
<1>3. \A f : \A w \in Nat : Planned(p, f, w) = Body(f, w)
  BY <1>1 DEF Planned
<1> HIDE DEF p
<1>4. PICK g : g = [w \in Nat |-> Planned(p, g, w)]
  BY <1>2, PlanComputed
<1>5. g = [w \in Nat |-> Body(g, w)]
  BY <1>3, <1>4
<1>6. \E f : f = [w \in Nat |-> Body(f, w)] /\ ContentsIn(D, S) = f
  BY <1>5 DEF ContentsIn
<1>7. PICK f : f = [w \in Nat |-> Body(f, w)] /\ ContentsOf(D, S, v) = f[v] /\ ContentsOf(D, S, v - 1) = f[v - 1]
  BY <1>6 DEF ContentsOf
<1>8. f[v] = Body(f, v)
  BY <1>1, <1>7
<1>9. QED
  BY <1>1, <1>7, <1>8

(* The versions up to n are a creation and the batches applied to it. *)
Straight(D, n) ==
    /\ Log(D) /\ TargetsBefore(D)
    /\ 1 .. n \subseteq DOMAIN D /\ D[1].kind = "create" /\ \A v \in 2 .. n : D[v].kind = "apply"

(* What goes on from the content of a version with the batches after it has   *)
(* the content of the later versions.                                         *)
LEMMA Climbs ==
    ASSUME NEW D, NEW S, NEW n \in Nat \ {0}, Straight(D, n), NEW k \in 1 .. n, NEW f,
           f[k] = ContentsOf(D, S, k), \A v \in k + 1 .. n : f[v] = Append(f[v - 1], D[v].batch)
    PROVE  f[n] = ContentsOf(D, S, n)
<1> DEFINE T == {v \in Nat : v \in k .. n /\ f[v] # ContentsOf(D, S, v)}
<1>1. SUFFICES ASSUME f[n] # ContentsOf(D, S, n) PROVE FALSE
  OBVIOUS
<1>2. T \subseteq Nat /\ n \in T
  BY <1>1
<1>3. PICK w \in T : \A u \in T : w <= u
  BY <1>2, LeastNat
<1>4. w \in k .. n /\ w # k /\ f[w] # ContentsOf(D, S, w)
  BY <1>3
<1>5. /\ w \in k + 1 .. n /\ w \in 2 .. n /\ w \in DOMAIN D /\ D[w].kind = "apply"
      /\ Log(D) /\ TargetsBefore(D)
  BY <1>4 DEF Straight
<1>6. f[w - 1] = ContentsOf(D, S, w - 1)
  BY <1>3, <1>5
<1>7. ContentsOf(D, S, w) = Append(ContentsOf(D, S, w - 1), D[w].batch)
  BY <1>5, ContentsStep
<1>8. QED
  BY <1>4, <1>5, <1>6, <1>7

(* A replay from a version that is known gives the content of a later one. *)
LEMMA ReplayFromVersion ==
    ASSUME NEW D, NEW S, NEW n \in Nat \ {0}, Straight(D, n), NEW k \in 1 .. n
    PROVE  ReplayOf(D, ContentsOf(D, S, k), k + 1, n) = ContentsOf(D, S, n)
<1>1. PICK f : Replays(f, D, ContentsOf(D, S, k), k + 1) /\ ReplayOf(D, ContentsOf(D, S, k), k + 1, n) = f[n]
  BY ReplayEquation
<1>2. f[k] = ContentsOf(D, S, k)
  BY <1>1 DEF Replays
<1>3. \A v \in k + 1 .. n : f[v] = Append(f[v - 1], D[v].batch)
  <2>1. SUFFICES ASSUME NEW v \in k + 1 .. n PROVE f[v] = Append(f[v - 1], D[v].batch)
    OBVIOUS
  <2>2. v \in Nat /\ ~(v < k + 1) /\ v \in DOMAIN D /\ D[v].kind = "apply"
    BY DEF Straight
  <2>3. QED
    BY <1>1, <2>2 DEF Replays
<1>4. QED
  BY <1>1, <1>2, <1>3, Climbs

(* A replay on init() is right if the session was created empty. *)
LEMMA ReplayFromInit ==
    ASSUME NEW D, NEW S, NEW n \in Nat \ {0}, Straight(D, n), S[1] = <<>>
    PROVE  ReplayOf(D, <<>>, 1, n) = ContentsOf(D, S, n)
<1>1. PICK f : Replays(f, D, <<>>, 1) /\ ReplayOf(D, <<>>, 1, n) = f[n]
  BY ReplayEquation
<1>2. 1 \in DOMAIN D /\ D[1].kind = "create" /\ f[0] = <<>> /\ f[1] = f[1 - 1]
  BY <1>1 DEF Replays, Straight
<1>3. f[1] = ContentsOf(D, S, 1)
  BY <1>2, ContentsStep DEF Straight
<1>4. \A v \in 1 + 1 .. n : f[v] = Append(f[v - 1], D[v].batch)
  <2>1. SUFFICES ASSUME NEW v \in 1 + 1 .. n PROVE f[v] = Append(f[v - 1], D[v].batch)
    OBVIOUS
  <2>2. v \in Nat /\ ~(v < 1) /\ v \in DOMAIN D /\ D[v].kind = "apply"
    BY DEF Straight
  <2>3. QED
    BY <1>1, <2>2 DEF Replays
<1>5. PICK k \in 1 .. n : k = 1
  OBVIOUS
<1>6. f[n] = ContentsOf(D, S, n)
  <2>1. f[k] = ContentsOf(D, S, k) /\ \A v \in k + 1 .. n : f[v] = Append(f[v - 1], D[v].batch)
    BY <1>3, <1>4, <1>5
  <2>2. QED
    BY <2>1, Climbs
<1>7. QED
  BY <1>1, <1>6

(* The content of a version depends on the rows up to it alone. *)
LEMMA ContentsAgree ==
    ASSUME NEW D, NEW S, NEW E, NEW R, NEW n \in Nat \ {0}, Straight(D, n), Straight(E, n),
           \A v \in 1 .. n : E[v] = D[v], R[1] = S[1]
    PROVE  ContentsOf(E, R, n) = ContentsOf(D, S, n)
<1> DEFINE f == [v \in Nat |-> ContentsOf(E, R, v)]
<1>1. f[1] = ContentsOf(D, S, 1)
  <2>1. 1 \in DOMAIN D /\ 1 \in DOMAIN E /\ D[1].kind = "create" /\ E[1].kind = "create"
    BY DEF Straight
  <2>2. ContentsOf(E, R, 1) = R[1] /\ ContentsOf(D, S, 1) = S[1]
    BY <2>1, ContentsStep DEF Straight
  <2>3. QED
    BY <2>2
<1>2. \A v \in 1 + 1 .. n : f[v] = Append(f[v - 1], D[v].batch)
  <2>1. SUFFICES ASSUME NEW v \in 1 + 1 .. n PROVE f[v] = Append(f[v - 1], D[v].batch)
    OBVIOUS
  <2>2. /\ v \in DOMAIN E /\ E[v].kind = "apply" /\ E[v] = D[v] /\ v \in Nat /\ v - 1 \in Nat
        /\ Log(E) /\ TargetsBefore(E)
    BY DEF Straight
  <2>3. ContentsOf(E, R, v) = Append(ContentsOf(E, R, v - 1), E[v].batch)
    BY <2>2, ContentsStep
  <2>4. QED
    BY <2>2, <2>3
<1> HIDE DEF f
<1>3. f[n] = ContentsOf(D, S, n)
  <2>1. PICK k \in 1 .. n : k = 1
    OBVIOUS
  <2>2. f[k] = ContentsOf(D, S, k) /\ \A v \in k + 1 .. n : f[v] = Append(f[v - 1], D[v].batch)
    BY <1>1, <1>2, <2>1
  <2>3. PICK g : g = f
    OBVIOUS
  <2>4. /\ g[k] = ContentsOf(D, S, k) /\ \A v \in k + 1 .. n : g[v] = Append(g[v - 1], D[v].batch)
        /\ n \in Nat \ {0} /\ k \in 1 .. n /\ Straight(D, n)
    BY <2>2, <2>3
  <2>5. g[n] = ContentsOf(D, S, n)
    BY ONLY <2>4, Climbs
  <2>6. QED
    BY <2>3, <2>5
<1>4. QED
  BY <1>3 DEF f

--------------------------------------------------------------------------------
(* The inductive invariant: tables and requests *)

Kinds   == {"none", "create", "clone", "apply", "rollback", "snapshot", "read"}
Request == [kind : Kinds, arg : Seq(Batches) \cup Batches \cup Nat \cup {NoDoc}, base : Nat,
            doc : Seq(Batches) \cup {NoDoc}, version : Nat, at : Ats]

New(q)    == q.kind \in {"create", "clone"}
Writes(q) == q.kind \in {"create", "clone", "apply", "rollback"}

(* The store R retains what document d mentions, for restore point v. *)
Pinned(R, v, d) ==
    refsOfDoc(d) # {} => <<"snapshot", v>> \in DOMAIN R /\ R[<<"snapshot", v>>] = refsOfDoc(d)

(* A request holds a document exactly when it has a version; a document to be *)
(* recorded is stored and, from the record on, retained.                      *)
RequestOK(q, B, R) ==
    /\ q \in Request /\ (q.doc = NoDoc <=> q.version = 0)
    /\ New(q) => q.arg \in Seq(Batches) /\ q.base = 0
    /\ q.kind = "apply" => q.arg \in Batches
    /\ q.kind = "rollback" => q.arg \in Nat \ {0}
    /\ q.at \in {"cache", "durable"} => q.doc = NoDoc
    /\ q.at \notin {"idle", "cache", "durable", "since", "loaded"} => q.doc # NoDoc
    /\ q.at \in {"refs", "undo"} => q.kind = "apply"
    /\ q.at = "head" => q.kind = "rollback"
    /\ q.at \in {"append", "insert", "save"} => Writes(q)
    /\ q.at \in {"threshold", "blob", "record"} => q.kind \in {"apply", "rollback", "snapshot"}
    /\ q.at = "pin" => Writes(q) \/ q.kind = "snapshot"
    /\ New(q) /\ q.at \in {"pin", "append", "insert"} => q.version = 1 /\ q.doc \in B
    /\ q.at \in {"pin", "record"} => q.doc \in B
    /\ q.at = "record" \/ (New(q) /\ q.at \in {"append", "insert"}) => Pinned(R, q.version, q.doc)

Bounded(D) == \E n \in Nat : \A v \in DOMAIN D : v <= n

Tables ==
    /\ registered \in BOOLEAN /\ removed \in BOOLEAN /\ overtaken \in BOOLEAN /\ misapplied \in BOOLEAN
    /\ Log(deltas) /\ Bounded(deltas) /\ Bounded(snapshots)
    /\ \A v \in DOMAIN snapshots : v \in Nat \ {0} /\ snapshots[v] \in blobs /\ Pinned(requests, v, snapshots[v])
    /\ blobs \subseteq Seq(Batches)
    /\ cache = NoEntry \/ cache \in [version : Nat \ {0}, doc : Seq(Batches)]
    /\ arrivals \in 0 .. MaxRequests /\ faults \in 0 .. MaxFaults

SessionInv ==
    /\ Tables
    /\ DOMAIN slot = Slots /\ \A s \in Slots : RequestOK(slot[s], blobs, requests)

--------------------------------------------------------------------------------
(* Heads and references *)

(* The newest row of a table with finitely many versions. *)
LEMMA NewestOne ==
    ASSUME NEW D, DOMAIN D \subseteq Nat \ {0}, Bounded(D)
    PROVE  /\ Newest(D) \in Nat /\ (Newest(D) = 0 <=> DOMAIN D = {})
           /\ DOMAIN D # {} => Newest(D) \in DOMAIN D
           /\ \A v \in DOMAIN D : v <= Newest(D)
<1>1. CASE DOMAIN D = {}
  BY <1>1 DEF Newest
<1>2. CASE DOMAIN D # {}
  <2> DEFINE T == {n \in Nat : \A v \in DOMAIN D : v <= n}
  <2>1. T \subseteq Nat /\ T # {}
    BY DEF Bounded
  <2>2. PICK m \in T : \A n \in T : m <= n
    BY <2>1, LeastNat
  <2>3. m \in DOMAIN D
    <3>1. SUFFICES ASSUME m \notin DOMAIN D PROVE FALSE
      OBVIOUS
    <3>2. PICK v \in DOMAIN D : TRUE
      BY <1>2
    <3>3. m \in Nat /\ v <= m /\ v \in Nat \ {0}
      BY <2>2, <3>2
    <3>4. m - 1 \in Nat /\ \A w \in DOMAIN D : w <= m - 1
      BY <2>2, <3>1, <3>3
    <3>5. QED
      BY <2>2, <3>3, <3>4
  <2>4. \E v \in DOMAIN D : \A w \in DOMAIN D : w <= v
    BY <2>2, <2>3
  <2>5. Newest(D) \in DOMAIN D /\ \A w \in DOMAIN D : w <= Newest(D)
    BY <1>2, <2>4 DEF Newest
  <2>6. QED
    BY <1>2, <2>5
<1>3. QED
  BY <1>1, <1>2

(* A table with one more row. *)
LEMMA WithOne ==
    ASSUME NEW f, NEW k, NEW x
    PROVE  /\ DOMAIN With(f, k, x) = DOMAIN f \cup {k} /\ With(f, k, x)[k] = x
           /\ \A y \in DOMAIN f \ {k} : With(f, k, x)[y] = f[y]
BY DEF With

(* One more version keeps a table bounded. *)
LEMMA BoundedWith ==
    ASSUME NEW D, DOMAIN D \subseteq Nat, Bounded(D), NEW k \in Nat, NEW x
    PROVE  Bounded(With(D, k, x))
<1>1. PICK n \in Nat : \A v \in DOMAIN D : v <= n
  BY DEF Bounded
<1>2. n + k \in Nat /\ \A v \in DOMAIN D \cup {k} : v <= n + k
  BY <1>1
<1>3. DOMAIN With(D, k, x) = DOMAIN D \cup {k}
  BY WithOne
<1>4. QED
  BY <1>2, <1>3 DEF Bounded

(* The head of the log. *)
LEMMA HeadOne ==
    ASSUME Tables
    PROVE  /\ head \in Nat /\ (head = 0 <=> DOMAIN deltas = {}) /\ DOMAIN deltas \subseteq Nat \ {0}
           /\ DOMAIN deltas # {} => head \in DOMAIN deltas
           /\ \A v \in DOMAIN deltas : v <= head
<1>1. DOMAIN deltas \subseteq Nat \ {0} /\ Bounded(deltas)
  BY DEF Tables, Log
<1>2. QED
  BY <1>1, NewestOne DEF head

(* The reference that latestSnapshotRef finds. *)
LEMMA ReferenceOne ==
    ASSUME Tables, NEW t \in Nat
    PROVE  LET ref == latestSnapshotRef(t)
           IN  /\ ref \in Nat /\ ref <= t
               /\ ref # 0 => ref \in DOMAIN snapshots /\ snapshots[ref] \in Seq(Batches)
               /\ ref = 0 => \A v \in DOMAIN snapshots : ~(v <= t)
<1> DEFINE f == [v \in {w \in DOMAIN snapshots : w <= t} |-> snapshots[v]]
<1>1. DOMAIN f = {w \in DOMAIN snapshots : w <= t} /\ latestSnapshotRef(t) = Newest(f)
  BY DEF latestSnapshotRef
<1> HIDE DEF f
<1>2. DOMAIN f \subseteq Nat \ {0} /\ Bounded(f)
  BY <1>1 DEF Tables, Bounded
<1>3. /\ Newest(f) \in Nat /\ (Newest(f) = 0 <=> DOMAIN f = {})
      /\ DOMAIN f # {} => Newest(f) \in DOMAIN f
  BY <1>2, NewestOne
<1>4. \A v \in DOMAIN snapshots : snapshots[v] \in Seq(Batches)
  BY DEF Tables
<1>5. QED
  BY <1>1, <1>3, <1>4

(* The reference that load() and #shouldSnapshot find. *)
LEMMA NewestReference ==
    ASSUME Tables
    PROVE  /\ newestSnapshotRef \in Nat
           /\ newestSnapshotRef # 0 =>
                 newestSnapshotRef \in DOMAIN snapshots /\ snapshots[newestSnapshotRef] \in Seq(Batches)
           /\ newestSnapshotRef = 0 => DOMAIN snapshots = {}
<1>1. /\ DOMAIN snapshots \subseteq Nat \ {0} /\ Bounded(snapshots)
      /\ \A v \in DOMAIN snapshots : snapshots[v] \in Seq(Batches)
  BY DEF Tables
<1>2. QED
  BY <1>1, NewestOne DEF newestSnapshotRef

--------------------------------------------------------------------------------
(* Steps of one request *)

(* Blobs and root updates are never taken back. *)
Grows ==
    /\ blobs \subseteq blobs'
    /\ \A id \in DOMAIN requests : id \in DOMAIN requests' /\ requests'[id] = requests[id]

Others(s) == DOMAIN slot' = Slots /\ \A t \in Slots \ {s} : slot'[t] = slot[t]

Kept(q, r)    == q.kind = r.kind /\ q.arg = r.arg /\ q.base = r.base
SameDoc(q, r) == q.doc = r.doc /\ q.version = r.version

(* A request that rests keeps what it relies on. *)
LEMMA RequestStays ==
    ASSUME Grows, NEW q, RequestOK(q, blobs, requests)
    PROVE  RequestOK(q, blobs', requests')
<1>1. \A v, d : Pinned(requests, v, d) => Pinned(requests', v, d)
  BY DEF Grows, Pinned
<1>2. QED
  BY <1>1 DEF Grows, RequestOK

(* One request moves. *)
LEMMA SlotStep ==
    ASSUME SessionInv, Tables', Grows, NEW s \in Slots, Others(s), RequestOK(slot'[s], blobs', requests')
    PROVE  SessionInv'
<1>1. \A t \in Slots : RequestOK(slot'[t], blobs', requests')
  BY RequestStays DEF SessionInv, Others
<1>2. QED
  BY <1>1 DEF SessionInv, Others

(* What is known of a request. *)
LEMMA RequestFacts ==
    ASSUME SessionInv, NEW s \in Slots
    PROVE  /\ Tables /\ DOMAIN slot = Slots /\ RequestOK(slot[s], blobs, requests) /\ slot[s] \in Request
           /\ slot[s].base \in Nat /\ slot[s].version \in Nat
           /\ slot[s].doc # NoDoc => slot[s].doc \in Seq(Batches) /\ slot[s].version \in Nat \ {0}
BY DEF SessionInv, RequestOK, Request

(* A request goes on with what it has. *)
LEMMA MovedOne ==
    ASSUME SessionInv, NEW s \in Slots, NEW to \in Ats, Moved(s, to)
    PROVE  /\ Others(s) /\ slot'[s] \in Request /\ slot'[s].at = to
           /\ Kept(slot'[s], slot[s]) /\ SameDoc(slot'[s], slot[s])
BY RequestFacts DEF Moved, Others, Request, Kept, SameDoc

(* A request ends. *)
LEMMA AnsweredOne ==
    ASSUME SessionInv, NEW s \in Slots, Answered(s)
    PROVE  Others(s) /\ slot'[s] = Idle /\ RequestOK(slot'[s], blobs', requests')
<1>1. Others(s) /\ slot'[s] = Idle
  BY RequestFacts DEF Answered, Others
<1>2. RequestOK(Idle, blobs', requests')
  BY DEF Idle, RequestOK, Request, Kinds, Ats, New, Writes
<1>3. QED
  BY <1>1, <1>2

(* A failure is counted. *)
LEMMA FaultCounted ==
    ASSUME Tables, Fault \/ UNCHANGED faults
    PROVE  faults' \in 0 .. MaxFaults
<1>1. faults \in 0 .. MaxFaults /\ MaxFaults \in Nat
  BY BoundAssumption DEF Tables
<1>2. QED
  BY <1>1 DEF Fault

(* Tables that a step leaves alone, or to which it only adds what it keeps. *)
LEMMA TablesQuiet ==
    ASSUME Tables, Grows, blobs' \subseteq Seq(Batches), UNCHANGED <<registered, deltas, snapshots, cache, removed, overtaken, misapplied>>,
           arrivals' \in 0 .. MaxRequests, faults' \in 0 .. MaxFaults
    PROVE  Tables'
<1>1. \A v, d : Pinned(requests, v, d) => Pinned(requests', v, d)
  BY DEF Grows, Pinned
<1>2. \A v \in DOMAIN snapshots' : v \in Nat \ {0} /\ snapshots'[v] \in blobs' /\ Pinned(requests', v, snapshots'[v])
  BY <1>1 DEF Tables, Grows
<1>3. QED
  BY <1>2 DEF Tables, Log, Bounded

(* The same for a step that touches no table. *)
LEMMA NothingChanges ==
    ASSUME SessionInv, UNCHANGED <<dbVars, blobs, cache, requests, histVars>>, arrivals' \in 0 .. MaxRequests,
           Fault \/ UNCHANGED faults
    PROVE  Tables' /\ Grows
<1>1. /\ Tables /\ Grows
      /\ UNCHANGED <<registered, deltas, snapshots, cache, removed, overtaken, misapplied, blobs>>
  BY DEF SessionInv, dbVars, histVars, Grows
<1>2. blobs' \subseteq Seq(Batches) /\ faults' \in 0 .. MaxFaults
  BY <1>1, FaultCounted DEF Tables
<1>3. QED
  BY <1>1, <1>2, TablesQuiet

(* A request that ends without touching a table. *)
LEMMA EndKeeps ==
    ASSUME SessionInv, NEW s \in Slots, Answered(s), UNCHANGED <<dbVars, blobs, cache, requests, histVars, arrivals>>,
           Fault \/ UNCHANGED faults
    PROVE  SessionInv'
<1>1. arrivals' \in 0 .. MaxRequests
  BY DEF SessionInv, Tables
<1>2. QED
  BY <1>1, NothingChanges, AnsweredOne, SlotStep

(* A request arrives. *)
LEMMA ArriveFields ==
    ASSUME SessionInv, NEW s \in Slots, NEW kind \in Kinds, NEW arg, NEW base \in Nat, Arrive(s, kind, arg, base),
           arg \in Seq(Batches) \cup Batches \cup Nat \cup {NoDoc}
    PROVE  /\ Others(s) /\ slot'[s] \in Request /\ slot'[s].kind = kind /\ slot'[s].arg = arg /\ slot'[s].base = base
           /\ slot'[s].at = "cache" /\ slot'[s].doc = NoDoc /\ slot'[s].version = 0
<1> DEFINE q == [Idle EXCEPT !.kind = kind, !.arg = arg, !.base = base, !.at = "cache"]
<1>1. /\ q \in Request /\ q.kind = kind /\ q.arg = arg /\ q.base = base /\ q.at = "cache" /\ q.doc = NoDoc /\ q.version = 0
  BY DEF Idle, Request, Ats
<1>2. slot' = [slot EXCEPT ![s] = q]
  BY DEF Arrive
<1> HIDE DEF q
<1>3. QED
  BY <1>1, <1>2, RequestFacts DEF Others

(* What a client may ask for. *)
Asks(kind, arg, base) ==
    /\ kind \in Kinds \ {"none"} /\ arg \in Seq(Batches) \cup Batches \cup Nat \cup {NoDoc} /\ base \in Nat
    /\ kind \in {"create", "clone"} => arg \in Seq(Batches) /\ base = 0
    /\ kind = "apply" => arg \in Batches
    /\ kind = "rollback" => arg \in Nat \ {0}

(* An arrival is a request that a client may make. *)
LEMMA ArriveAsks ==
    ASSUME SessionInv, NEW s \in Slots, ArriveAny(s)
    PROVE  \E kind, arg, base : Arrive(s, kind, arg, base) /\ Asks(kind, arg, base)
<1>1. /\ head \in Nat /\ MaxAhead \in Nat
      /\ InitialDocs \subseteq Seq(Batches) /\ CloneDocs \subseteq Seq(Batches)
  BY RequestFacts, HeadOne, ValueAssumption, BoundAssumption
<1>2. CASE \E d \in InitialDocs : Arrive(s, "create", d, 0)
  <2>1. PICK d \in InitialDocs : Arrive(s, "create", d, 0)
    BY <1>2
  <2>2. Asks("create", d, 0)
    BY <1>1 DEF Asks, Kinds
  <2>3. QED
    BY <2>1, <2>2
<1>3. CASE \E d \in InitialDocs \cup CloneDocs : Arrive(s, "clone", d, 0)
  <2>1. PICK d \in InitialDocs \cup CloneDocs : Arrive(s, "clone", d, 0)
    BY <1>3
  <2>2. Asks("clone", d, 0)
    BY <1>1 DEF Asks, Kinds
  <2>3. QED
    BY <2>1, <2>2
<1>4. CASE \E b \in Batches, base \in 0 .. head + MaxAhead : Arrive(s, "apply", b, base)
  <2>1. PICK b \in Batches, base \in 0 .. head + MaxAhead : Arrive(s, "apply", b, base)
    BY <1>4
  <2>2. Asks("apply", b, base)
    BY <1>1 DEF Asks, Kinds
  <2>3. QED
    BY <2>1, <2>2
<1>5. CASE \E target \in 1 .. head + MaxAhead : Arrive(s, "rollback", target, 0)
  <2>1. PICK target \in 1 .. head + MaxAhead : Arrive(s, "rollback", target, 0)
    BY <1>5
  <2>2. Asks("rollback", target, 0)
    BY <1>1 DEF Asks, Kinds
  <2>3. QED
    BY <2>1, <2>2
<1>6. Asks("snapshot", NoDoc, 0) /\ Asks("read", NoDoc, 0)
  BY DEF Asks, Kinds
<1>7. QED
  BY <1>2, <1>3, <1>4, <1>5, <1>6 DEF ArriveAny

(* An arrival touches the registration only. *)
LEMMA ArriveKeeps ==
    ASSUME SessionInv, NEW s \in Slots, ArriveAny(s)
    PROVE  SessionInv'
<1>1. PICK kind, arg, base : Arrive(s, kind, arg, base) /\ Asks(kind, arg, base)
  BY ArriveAsks
<1>2. /\ Others(s) /\ slot'[s] \in Request /\ slot'[s].kind = kind /\ slot'[s].arg = arg /\ slot'[s].base = base
      /\ slot'[s].at = "cache" /\ slot'[s].doc = NoDoc /\ slot'[s].version = 0
  BY <1>1, ArriveFields DEF Asks
<1>3. RequestOK(slot'[s], blobs', requests')
  BY <1>1, <1>2 DEF RequestOK, New, Asks
<1>4. /\ Grows /\ UNCHANGED <<deltas, snapshots, blobs, cache, requests, removed, overtaken, misapplied, faults>>
      /\ registered' = registered \/ registered' = TRUE
      /\ arrivals < MaxRequests /\ arrivals' = arrivals + 1
  BY <1>1 DEF Arrive, Grows, histVars
<1>5. Tables /\ registered \in BOOLEAN /\ arrivals \in 0 .. MaxRequests /\ MaxRequests \in Nat
  BY BoundAssumption DEF SessionInv, Tables
<1>6. registered' \in BOOLEAN /\ arrivals' \in 0 .. MaxRequests
  <2>1. registered' \in BOOLEAN
    BY <1>4, <1>5, Zenon
  <2>2. arrivals' \in 0 .. MaxRequests
    BY <1>4, <1>5
  <2>3. QED
    BY <2>1, <2>2
<1>7. Tables'
  BY <1>4, <1>5, <1>6 DEF Tables, Log, Bounded
<1>8. QED
  BY <1>2, <1>3, <1>4, <1>7, SlotStep

(* A request that goes on without touching a table. *)
LEMMA StepKeeps ==
    ASSUME SessionInv, NEW s \in Slots, Others(s), RequestOK(slot'[s], blobs, requests),
           UNCHANGED <<dbVars, blobs, cache, requests, histVars, arrivals>>, Fault \/ UNCHANGED faults
    PROVE  SessionInv'
<1>1. arrivals' \in 0 .. MaxRequests
  BY DEF SessionInv, Tables
<1>2. QED
  BY <1>1, NothingChanges, SlotStep

Takes(s, d, v, to) == slot' = [slot EXCEPT ![s].doc = d, ![s].version = v, ![s].at = to]

(* A request takes a document with its version. *)
LEMMA TakesOne ==
    ASSUME SessionInv, NEW s \in Slots, NEW d \in Seq(Batches), NEW v \in Nat \ {0}, NEW to \in Ats,
           Takes(s, d, v, to)
    PROVE  /\ Others(s) /\ slot'[s] \in Request /\ slot'[s].at = to
           /\ Kept(slot'[s], slot[s]) /\ slot'[s].doc = d /\ slot'[s].version = v
           /\ d # NoDoc
BY RequestFacts, ValueAssumption DEF Takes, Others, Request, Kept

(* load() finds the cache. *)
LEMMA LoadCachedKeeps ==
    ASSUME SessionInv, NEW s \in Slots, LoadCached(s)
    PROVE  SessionInv'
<1>1. RequestOK(slot[s], blobs, requests) /\ slot[s].at = "cache"
  BY RequestFacts DEF LoadCached, At
<1>2. cache.doc \in Seq(Batches) /\ cache.version \in Nat \ {0}
  BY DEF LoadCached, SessionInv, Tables
<1>3. /\ Others(s) /\ slot'[s] \in Request /\ slot'[s].at = "since" /\ Kept(slot'[s], slot[s])
      /\ slot'[s].doc = cache.doc /\ slot'[s].version = cache.version /\ cache.doc # NoDoc
  <2>1. Takes(s, cache.doc, cache.version, "since") /\ "since" \in Ats
    BY DEF LoadCached, Takes, Ats
  <2>2. QED
    BY <1>2, <2>1, TakesOne
<1>4. RequestOK(slot'[s], blobs, requests)
  BY <1>1, <1>2, <1>3 DEF RequestOK, New, Kept
<1>5. QED
  BY <1>3, <1>4, StepKeeps DEF LoadCached

(* load() misses the cache. *)
LEMMA LoadMissedKeeps ==
    ASSUME SessionInv, NEW s \in Slots, LoadMissed(s)
    PROVE  SessionInv'
<1>1. RequestOK(slot[s], blobs, requests) /\ slot[s].at = "cache"
  BY RequestFacts DEF LoadMissed, At
<1>2. /\ Others(s) /\ slot'[s] \in Request /\ slot'[s].at = "durable"
      /\ Kept(slot'[s], slot[s]) /\ SameDoc(slot'[s], slot[s])
  BY MovedOne DEF LoadMissed, Ats
<1>3. RequestOK(slot'[s], blobs, requests)
  BY <1>1, <1>2 DEF RequestOK, New, Kept, SameDoc
<1>4. QED
  BY <1>2, <1>3, StepKeeps DEF LoadMissed

(* load() reads the newest restore point. *)
LEMMA LoadDurableKeeps ==
    ASSUME SessionInv, NEW s \in Slots, LoadDurable(s)
    PROVE  SessionInv'
<1> DEFINE ref == newestSnapshotRef
<1>1. RequestOK(slot[s], blobs, requests) /\ slot[s].at = "durable"
  BY RequestFacts DEF LoadDurable, At
<1>2. ref \in Nat /\ (ref # 0 => ref \in DOMAIN snapshots /\ snapshots[ref] \in Seq(Batches))
  BY RequestFacts, NewestReference
<1>3. /\ UNCHANGED <<dbVars, blobs, cache, requests, histVars, faults, arrivals>>
      /\ \/ ref = 0 /\ Moved(s, "since")
         \/ Answered(s)
         \/ /\ ref # 0
            /\ Takes(s, snapshots[ref], ref, "since")
  BY DEF LoadDurable, Takes
<1> HIDE DEF ref
<1>4. CASE ref = 0 /\ Moved(s, "since")
  <2>1. /\ Others(s) /\ slot'[s] \in Request /\ slot'[s].at = "since"
        /\ Kept(slot'[s], slot[s]) /\ SameDoc(slot'[s], slot[s])
    BY <1>4, MovedOne DEF Ats
  <2>2. RequestOK(slot'[s], blobs, requests)
    BY <1>1, <2>1 DEF RequestOK, New, Kept, SameDoc
  <2>3. QED
    BY <1>3, <2>1, <2>2, StepKeeps
<1>5. CASE Answered(s)
  BY <1>3, <1>5, EndKeeps
<1>6. CASE ref # 0 /\ Takes(s, snapshots[ref], ref, "since")
  <2>1. /\ Others(s) /\ slot'[s] \in Request /\ slot'[s].at = "since" /\ Kept(slot'[s], slot[s])
        /\ slot'[s].doc = snapshots[ref] /\ slot'[s].version = ref /\ snapshots[ref] # NoDoc
    BY <1>2, <1>6, TakesOne DEF Ats
  <2>2. RequestOK(slot'[s], blobs, requests)
    BY <1>1, <1>6, <2>1 DEF RequestOK, New, Kept
  <2>3. QED
    BY <1>3, <2>1, <2>2, StepKeeps
<1>7. QED
  BY <1>3, <1>4, <1>5, <1>6

(* load() replays the rows after its version. *)
LEMMA LoadReplayKeeps ==
    ASSUME SessionInv, NEW s \in Slots, LoadReplay(s)
    PROVE  SessionInv'
<1> DEFINE start == IF slot[s].doc = NoDoc THEN <<>> ELSE slot[s].doc
           n == slot[s].version + 1
           d == Replay(start, n, head)
<1>1. RequestOK(slot[s], blobs, requests) /\ slot[s].at = "since"
  BY RequestFacts DEF LoadReplay, At
<1>2. start \in Seq(Batches) /\ n \in Nat \ {0} /\ head \in Nat /\ Log(deltas)
  BY RequestFacts, HeadOne DEF Tables
<1>3. d \in Seq(Batches)
  <2>1. d = ReplayOf(deltas, start, n, head)
    BY SameOperators
  <2> HIDE DEF start, n, d
  <2>2. QED
    BY <1>2, <2>1, ReplayType
<1>4. /\ UNCHANGED <<dbVars, blobs, cache, requests, histVars, faults, arrivals>>
      /\ \/ Moved(s, "loaded")
         \/ /\ DOMAIN deltas # {}
            /\ Takes(s, d, head, "writeback")
  BY DEF LoadReplay, Takes
<1> HIDE DEF start, n, d
<1>5. CASE Moved(s, "loaded")
  <2>1. /\ Others(s) /\ slot'[s] \in Request /\ slot'[s].at = "loaded"
        /\ Kept(slot'[s], slot[s]) /\ SameDoc(slot'[s], slot[s])
    BY <1>5, MovedOne DEF Ats
  <2>2. RequestOK(slot'[s], blobs, requests)
    BY <1>1, <2>1 DEF RequestOK, New, Kept, SameDoc
  <2>3. QED
    BY <1>4, <2>1, <2>2, StepKeeps
<1>6. CASE DOMAIN deltas # {} /\ Takes(s, d, head, "writeback")
  <2>0. head \in Nat \ {0}
    BY <1>6, RequestFacts, HeadOne
  <2>1. /\ Others(s) /\ slot'[s] \in Request /\ slot'[s].at = "writeback" /\ Kept(slot'[s], slot[s])
        /\ slot'[s].doc = d /\ slot'[s].version = head /\ d # NoDoc
    BY <1>3, <1>6, <2>0, TakesOne DEF Ats
  <2>2. RequestOK(slot'[s], blobs, requests)
    BY <1>1, <2>0, <2>1 DEF RequestOK, New, Kept
  <2>3. QED
    BY <1>4, <2>1, <2>2, StepKeeps
<1>7. QED
  BY <1>4, <1>5, <1>6

(* A request that has a document writes it to the cache. *)
LEMMA CacheWritten ==
    ASSUME SessionInv, NEW s \in Slots, slot[s].doc # NoDoc, saveSnapshotCache(s), Fault \/ UNCHANGED faults,
           UNCHANGED <<dbVars, blobs, requests, histVars, arrivals>>
    PROVE  Tables' /\ Grows
<1>1. cache' \in [version : Nat \ {0}, doc : Seq(Batches)]
  BY RequestFacts DEF saveSnapshotCache
<1>2. Tables /\ faults' \in 0 .. MaxFaults
  BY FaultCounted DEF SessionInv
<1>3. Grows
  BY DEF Grows
<1>4. Tables'
  BY <1>1, <1>2 DEF Tables, Log, Bounded, dbVars, histVars
<1>5. QED
  BY <1>3, <1>4

(* load() writes what it replayed back. *)
LEMMA LoadWriteBackKeeps ==
    ASSUME SessionInv, NEW s \in Slots, LoadWriteBack(s)
    PROVE  SessionInv'
<1>1. RequestOK(slot[s], blobs, requests) /\ slot[s].at = "writeback" /\ slot[s].doc # NoDoc
  BY RequestFacts DEF LoadWriteBack, At, RequestOK
<1>2. /\ Others(s) /\ slot'[s] \in Request /\ slot'[s].at = "loaded"
      /\ Kept(slot'[s], slot[s]) /\ SameDoc(slot'[s], slot[s])
  BY MovedOne DEF LoadWriteBack, Ats
<1>3. RequestOK(slot'[s], blobs, requests)
  BY <1>1, <1>2 DEF RequestOK, New, Kept, SameDoc
<1>4. Tables' /\ Grows /\ UNCHANGED <<blobs, requests>>
  BY <1>1, CacheWritten DEF LoadWriteBack
<1>5. QED
  BY <1>2, <1>3, <1>4, SlotStep

Edits(s, d, to) == slot' = [slot EXCEPT ![s].doc = d, ![s].at = to]

(* A request takes a document for the version it has. *)
LEMMA EditsOne ==
    ASSUME SessionInv, NEW s \in Slots, NEW d \in Seq(Batches), NEW to \in Ats, slot[s].version # 0,
           Edits(s, d, to)
    PROVE  /\ Others(s) /\ slot'[s] \in Request /\ slot'[s].at = to
           /\ Kept(slot'[s], slot[s]) /\ slot'[s].doc = d /\ slot'[s].version = slot[s].version
           /\ d # NoDoc
BY RequestFacts, ValueAssumption DEF Edits, Others, Request, Kept

(* A step that only stores a document. *)
LEMMA BlobStored ==
    ASSUME SessionInv, NEW d \in Seq(Batches), blobs' = blobs \cup {d},
           UNCHANGED <<dbVars, cache, requests, histVars, faults, arrivals>>
    PROVE  Tables' /\ Grows
<1>1. Tables /\ Grows /\ blobs' \subseteq Seq(Batches)
  BY DEF SessionInv, Tables, Grows
<1>2. /\ UNCHANGED <<registered, deltas, snapshots, cache, removed, overtaken, misapplied>>
      /\ arrivals' \in 0 .. MaxRequests /\ faults' \in 0 .. MaxFaults
  BY <1>1 DEF dbVars, histVars, Tables
<1>3. QED
  BY <1>1, <1>2, TablesQuiet

(* A new document is stored. *)
LEMMA CreateBlobKeeps ==
    ASSUME SessionInv, NEW s \in Slots, CreateBlob(s)
    PROVE  SessionInv'
<1>1. /\ RequestOK(slot[s], blobs, requests) /\ slot[s].at = "loaded" /\ New(slot[s])
      /\ slot[s].arg \in Seq(Batches)
  BY RequestFacts DEF CreateBlob, At, New, RequestOK
<1>2. /\ UNCHANGED <<dbVars, cache, requests, histVars, faults, arrivals>>
      /\ \/ Answered(s) /\ UNCHANGED blobs
         \/ blobs' = blobs \cup {slot[s].arg} /\ Takes(s, slot[s].arg, 1, "pin")
  BY DEF CreateBlob, Takes
<1>3. CASE Answered(s) /\ UNCHANGED blobs
  BY <1>2, <1>3, EndKeeps
<1>4. CASE blobs' = blobs \cup {slot[s].arg} /\ Takes(s, slot[s].arg, 1, "pin")
  <2>1. "pin" \in Ats /\ 1 \in Nat \ {0}
    BY DEF Ats
  <2>2. /\ Others(s) /\ slot'[s] \in Request /\ slot'[s].at = "pin" /\ Kept(slot'[s], slot[s])
        /\ slot'[s].doc = slot[s].arg /\ slot'[s].version = 1 /\ slot'[s].doc # NoDoc
    BY <1>1, <1>4, <2>1, TakesOne
  <2>3. RequestOK(slot'[s], blobs', requests')
    BY <1>1, <1>2, <1>4, <2>2 DEF RequestOK, New, Writes, Kept
  <2>4. Tables' /\ Grows
    BY <1>1, <1>2, <1>4, BlobStored
  <2>5. QED
    BY <2>2, <2>3, <2>4, SlotStep
<1>5. QED
  BY <1>2, <1>3, <1>4

(* apply() is refused, or edits its working copy. *)
LEMMA ApplyCheckKeeps ==
    ASSUME SessionInv, NEW s \in Slots, ApplyCheck(s)
    PROVE  SessionInv'
<1> DEFINE d == Append(slot[s].doc, slot[s].arg)
<1>1. /\ RequestOK(slot[s], blobs, requests) /\ slot[s].at = "loaded" /\ slot[s].kind = "apply"
      /\ slot[s].arg \in Batches
  BY RequestFacts DEF ApplyCheck, At, RequestOK
<1>2. /\ UNCHANGED <<dbVars, blobs, cache, requests, histVars, faults, arrivals>>
      /\ \/ Answered(s)
         \/ slot[s].doc # NoDoc /\ Edits(s, d, "append")
  BY DEF ApplyCheck, Edits
<1>3. CASE Answered(s)
  BY <1>2, <1>3, EndKeeps
<1>4. CASE slot[s].doc # NoDoc /\ Edits(s, d, "append")
  <2>1. "append" \in Ats /\ d \in Seq(Batches) /\ slot[s].version # 0
    BY <1>1, <1>4, RequestFacts DEF Ats
  <2> HIDE DEF d
  <2>2. /\ Others(s) /\ slot'[s] \in Request /\ slot'[s].at = "append" /\ Kept(slot'[s], slot[s])
        /\ slot'[s].doc = d /\ slot'[s].version = slot[s].version /\ d # NoDoc
    BY <1>4, <2>1, EditsOne
  <2>3. RequestOK(slot'[s], blobs, requests)
    BY <1>1, <2>1, <2>2 DEF RequestOK, New, Writes, Kept
  <2>4. QED
    BY <1>2, <2>2, <2>3, StepKeeps
<1>5. QED
  BY <1>2, <1>3, <1>4

(* rollback() is refused, or rebuilds its target. *)
LEMMA RollbackBuildKeeps ==
    ASSUME SessionInv, NEW s \in Slots, RollbackBuild(s)
    PROVE  SessionInv'
<1> DEFINE ref == latestSnapshotRef(slot[s].arg)
           start == IF ref = 0 THEN <<>> ELSE snapshots[ref]
           d == Replay(start, ref + 1, slot[s].arg)
<1>1. /\ RequestOK(slot[s], blobs, requests) /\ slot[s].at = "loaded" /\ slot[s].kind = "rollback"
      /\ slot[s].arg \in Nat \ {0}
  BY RequestFacts DEF RollbackBuild, At, RequestOK
<1>2. ref \in Nat /\ ref + 1 \in Nat \ {0} /\ start \in Seq(Batches) /\ Log(deltas)
  <2>1. Tables /\ Log(deltas) /\ slot[s].arg \in Nat
    BY <1>1 DEF SessionInv, Tables
  <2>2. ref \in Nat /\ (ref # 0 => snapshots[ref] \in Seq(Batches))
    BY <2>1, ReferenceOne
  <2> HIDE DEF ref
  <2>3. QED
    BY <2>1, <2>2
<1>3. /\ UNCHANGED <<dbVars, blobs, cache, requests, histVars, faults, arrivals>>
      /\ \/ Answered(s)
         \/ slot[s].doc # NoDoc /\ Edits(s, d, "head")
  BY DEF RollbackBuild, Edits
<1>4. d \in Seq(Batches)
  <2>1. d = ReplayOf(deltas, start, ref + 1, slot[s].arg)
    BY SameOperators
  <2> HIDE DEF ref, start, d
  <2>2. QED
    BY <1>1, <1>2, <2>1, ReplayType
<1> HIDE DEF ref, start, d
<1>5. CASE Answered(s)
  BY <1>3, <1>5, EndKeeps
<1>6. CASE slot[s].doc # NoDoc /\ Edits(s, d, "head")
  <2>1. "head" \in Ats /\ slot[s].version # 0
    BY <1>1, <1>6, RequestFacts DEF Ats
  <2>2. /\ Others(s) /\ slot'[s] \in Request /\ slot'[s].at = "head" /\ Kept(slot'[s], slot[s])
        /\ slot'[s].doc = d /\ slot'[s].version = slot[s].version /\ d # NoDoc
    BY <1>4, <1>6, <2>1, EditsOne
  <2>3. RequestOK(slot'[s], blobs, requests)
    BY <1>1, <2>1, <2>2 DEF RequestOK, New, Writes, Kept
  <2>4. QED
    BY <1>3, <2>2, <2>3, StepKeeps
<1>7. QED
  BY <1>3, <1>5, <1>6

(* rollback() reads the head. *)
LEMMA RollbackHeadKeeps ==
    ASSUME SessionInv, NEW s \in Slots, RollbackHead(s)
    PROVE  SessionInv'
<1>1. /\ RequestOK(slot[s], blobs, requests) /\ slot[s].at = "head" /\ slot[s].kind = "rollback"
      /\ slot[s] \in Request /\ DOMAIN slot = Slots /\ head \in Nat
  BY RequestFacts, HeadOne DEF RollbackHead, At, RequestOK
<1>2. slot' = [slot EXCEPT ![s].base = head, ![s].at = "append"]
  BY DEF RollbackHead
<1>3. /\ Others(s) /\ slot'[s] \in Request /\ slot'[s].at = "append" /\ SameDoc(slot'[s], slot[s])
      /\ slot'[s].kind = "rollback" /\ slot'[s].arg = slot[s].arg
  BY <1>1, <1>2 DEF Others, Request, SameDoc, Ats
<1>4. RequestOK(slot'[s], blobs, requests)
  BY <1>1, <1>3 DEF RequestOK, New, Writes, SameDoc
<1>5. QED
  BY <1>3, <1>4, StepKeeps DEF RollbackHead

(* The statement takes its snapshot. *)
LEMMA InsertBeginKeeps ==
    ASSUME SessionInv, NEW s \in Slots, InsertBegin(s)
    PROVE  SessionInv'
<1>1. RequestOK(slot[s], blobs, requests) /\ slot[s].at = "append"
  BY RequestFacts DEF InsertBegin, At
<1>2. /\ UNCHANGED <<dbVars, blobs, cache, requests, histVars, faults, arrivals>>
      /\ Answered(s) \/ Moved(s, "insert")
  BY DEF InsertBegin
<1>3. CASE Answered(s)
  BY <1>2, <1>3, EndKeeps
<1>4. CASE Moved(s, "insert")
  <2>1. /\ Others(s) /\ slot'[s] \in Request /\ slot'[s].at = "insert"
        /\ Kept(slot'[s], slot[s]) /\ SameDoc(slot'[s], slot[s])
    BY <1>4, MovedOne DEF Ats
  <2>2. RequestOK(slot'[s], blobs, requests)
    BY <1>1, <2>1 DEF RequestOK, New, Writes, Kept, SameDoc
  <2>3. QED
    BY <1>2, <2>1, <2>2, StepKeeps
<1>5. QED
  BY <1>2, <1>3, <1>4

(* The row that a request appends. *)
LEMMA RowOfOne ==
    ASSUME SessionInv, NEW s \in Slots, Writes(slot[s])
    PROVE  RowOf(s) \in Row
<1>1. RequestOK(slot[s], blobs, requests)
  BY RequestFacts
<1>2. CASE slot[s].kind = "apply"
  BY <1>1, <1>2 DEF RowOf, ApplyRow, Row, RequestOK
<1>3. CASE slot[s].kind = "rollback"
  BY <1>1, <1>3 DEF RowOf, RollbackRow, Row, RequestOK
<1>4. CASE slot[s].kind \in {"create", "clone"}
  BY <1>4 DEF RowOf, CreateRow, Row
<1>5. QED
  BY <1>2, <1>3, <1>4 DEF Writes

(* A log with one more row is a log. *)
LEMMA LogWith ==
    ASSUME NEW D, Log(D), Bounded(D), NEW v \in Nat \ {0}, NEW x \in Row
    PROVE  Log(With(D, v, x)) /\ Bounded(With(D, v, x))
<1>1. DOMAIN D \subseteq Nat
  BY DEF Log
<1>2. Bounded(With(D, v, x))
  BY <1>1, BoundedWith
<1>3. /\ DOMAIN With(D, v, x) = DOMAIN D \cup {v} /\ With(D, v, x)[v] = x
      /\ \A y \in DOMAIN D \ {v} : With(D, v, x)[y] = D[y]
  BY DEF With
<1>4. Log(With(D, v, x))
  BY <1>3 DEF Log
<1>5. QED
  BY <1>2, <1>4

(* A restore point that is stored and retained may be recorded. *)
LEMMA RecordedOne ==
    ASSUME Tables, NEW v \in Nat \ {0}, NEW d \in blobs, Pinned(requests, v, d)
    PROVE  /\ Bounded(With(snapshots, v, d))
           /\ \A w \in DOMAIN With(snapshots, v, d) :
                 /\ w \in Nat \ {0} /\ With(snapshots, v, d)[w] \in blobs
                 /\ Pinned(requests, w, With(snapshots, v, d)[w])
<1>1. DOMAIN snapshots \subseteq Nat /\ Bounded(snapshots)
  BY DEF Tables
<1>2. Bounded(With(snapshots, v, d))
  BY <1>1, BoundedWith
<1>3. /\ DOMAIN With(snapshots, v, d) = DOMAIN snapshots \cup {v} /\ With(snapshots, v, d)[v] = d
      /\ \A y \in DOMAIN snapshots \ {v} : With(snapshots, v, d)[y] = snapshots[y]
  BY DEF With
<1>4. QED
  BY <1>2, <1>3 DEF Tables

(* The row that an insert adds, and the restore point of a new document. *)
Inserts(s) ==
    LET v == NextVersion(s)
    IN  /\ v \notin DOMAIN deltas
        /\ deltas' = With(deltas, v, RowOf(s))
        /\ snapshots' = IF New(slot[s]) THEN With(snapshots, v, slot[s].doc) ELSE snapshots
        /\ overtaken' = (overtaken \/ Overtakes(s))
        /\ misapplied' = (misapplied \/ Misapplies(s))
        /\ UNCHANGED <<registered, blobs, cache, requests, acked, removed, faults, arrivals>>

(* An insert is a conflict, or adds its row. *)
LEMMA InsertCases ==
    ASSUME SessionInv, NEW s \in Slots, InsertCommit(s)
    PROVE  \/ Answered(s) /\ UNCHANGED <<dbVars, blobs, cache, requests, histVars, faults, arrivals>>
           \/ /\ Inserts(s) /\ Others(s) /\ slot'[s] \in Request /\ Kept(slot'[s], slot[s])
              /\ slot'[s].doc = slot[s].doc /\ slot'[s].version = NextVersion(s)
              /\ slot'[s].at = IF slot[s].kind = "apply" THEN "refs" ELSE "save"
<1> DEFINE v == NextVersion(s)
           to == IF slot[s].kind = "apply" THEN "refs" ELSE "save"
<1>1. CASE ~KeyFree(v)
  BY <1>1 DEF InsertCommit, dbVars, histVars
<1>2. CASE KeyFree(v)
  <2>1. Inserts(s) /\ slot' = [slot EXCEPT ![s].version = v, ![s].at = to]
    BY <1>2 DEF InsertCommit, Inserts, New, KeyFree
  <2>2. v \in Nat /\ to \in Ats
    BY RequestFacts DEF NextVersion, Ats
  <2> HIDE DEF v, to
  <2>3. /\ Others(s) /\ slot'[s] \in Request /\ Kept(slot'[s], slot[s])
        /\ slot'[s].doc = slot[s].doc /\ slot'[s].version = v /\ slot'[s].at = to
    BY <2>1, <2>2, RequestFacts DEF Others, Request, Kept
  <2>4. QED
    BY <2>1, <2>3 DEF v, to
<1>3. QED
  BY <1>1, <1>2

(* A row is added. *)
LEMMA InsertCommitKeeps ==
    ASSUME SessionInv, NEW s \in Slots, InsertCommit(s)
    PROVE  SessionInv'
<1> DEFINE v == NextVersion(s)
<1>1. RequestOK(slot[s], blobs, requests) /\ slot[s].at = "insert" /\ Tables
  BY RequestFacts DEF InsertCommit, At
<1>2. v \in Nat \ {0} /\ (New(slot[s]) => v = 1) /\ Writes(slot[s])
  BY <1>1, RequestFacts DEF NextVersion, RequestOK
<1>3. CASE Answered(s) /\ UNCHANGED <<dbVars, blobs, cache, requests, histVars, faults, arrivals>>
  BY <1>3, EndKeeps
<1>4. CASE /\ Inserts(s) /\ Others(s) /\ slot'[s] \in Request /\ Kept(slot'[s], slot[s])
           /\ slot'[s].doc = slot[s].doc /\ slot'[s].version = NextVersion(s)
           /\ slot'[s].at = IF slot[s].kind = "apply" THEN "refs" ELSE "save"
  <2>1. RequestOK(slot'[s], blobs, requests)
    BY <1>1, <1>2, <1>4 DEF RequestOK, New, Writes, Kept
  <2>2. Log(deltas') /\ Bounded(deltas')
    <3>1. Log(deltas) /\ Bounded(deltas) /\ RowOf(s) \in Row /\ deltas' = With(deltas, v, RowOf(s))
      BY <1>1, <1>2, <1>4, RowOfOne DEF Tables, Inserts
    <3>2. QED
      BY <1>2, <3>1, LogWith
  <2>3. /\ Bounded(snapshots') /\ UNCHANGED <<blobs, requests>>
        /\ \A w \in DOMAIN snapshots' : w \in Nat \ {0} /\ snapshots'[w] \in blobs /\ Pinned(requests, w, snapshots'[w])
    <3>1. UNCHANGED <<blobs, requests>>
      BY <1>4 DEF Inserts
    <3>2. CASE New(slot[s])
      <4>1. slot[s].doc \in blobs /\ Pinned(requests, v, slot[s].doc) /\ snapshots' = With(snapshots, v, slot[s].doc)
        BY <1>1, <1>2, <1>4, <3>2 DEF RequestOK, Inserts
      <4>2. QED
        BY <1>1, <1>2, <3>1, <4>1, RecordedOne
    <3>3. CASE ~New(slot[s])
      BY <1>1, <1>4, <3>1, <3>3 DEF Inserts, Tables
    <3>4. QED
      BY <3>2, <3>3
  <2>4. overtaken' \in BOOLEAN /\ misapplied' \in BOOLEAN /\ UNCHANGED <<registered, cache, removed, faults, arrivals>>
    BY <1>4 DEF Inserts
  <2>5. Tables' /\ Grows
    BY <1>1, <2>2, <2>3, <2>4 DEF Tables, Grows
  <2>6. QED
    BY <1>4, <2>1, <2>3, <2>5, SlotStep
<1>5. QED
  BY <1>3, <1>4, InsertCases

(* The store takes an update, and takes nothing back. *)
LEMMA UpdateOne ==
    ASSUME NEW id, NEW refs, UpdateAccepted(id, refs), updateRootRefs(id, refs), UNCHANGED blobs
    PROVE  Grows /\ id \in DOMAIN requests' /\ requests'[id] = refs
BY DEF UpdateAccepted, updateRootRefs, With, Grows

(* A root update, with or without effect. *)
LEMMA StoreKeeps ==
    ASSUME SessionInv, Grows, NEW s \in Slots, Others(s), RequestOK(slot'[s], blobs', requests'),
           UNCHANGED <<dbVars, blobs, cache, histVars, arrivals>>, Fault \/ UNCHANGED faults
    PROVE  SessionInv'
<1>1. Tables /\ UNCHANGED <<registered, deltas, snapshots, cache, removed, overtaken, misapplied>>
  BY DEF SessionInv, dbVars, histVars
<1>2. blobs' \subseteq Seq(Batches) /\ arrivals' \in 0 .. MaxRequests /\ faults' \in 0 .. MaxFaults
  BY <1>1, FaultCounted DEF Tables
<1>3. QED
  BY <1>1, <1>2, TablesQuiet, SlotStep

(* The references of a row are committed, or the row is to be removed. *)
LEMMA CommitRefsKeeps ==
    ASSUME SessionInv, NEW s \in Slots, CommitRefs(s)
    PROVE  SessionInv'
<1>1. RequestOK(slot[s], blobs, requests) /\ slot[s].at = "refs"
  BY RequestFacts DEF CommitRefs, At
<1>2. PICK to \in {"save", "undo"} : Moved(s, to)
  BY DEF CommitRefs
<1>3. /\ Others(s) /\ slot'[s] \in Request /\ slot'[s].at = to
      /\ Kept(slot'[s], slot[s]) /\ SameDoc(slot'[s], slot[s])
  BY <1>2, MovedOne DEF Ats
<1>4. RequestOK(slot'[s], blobs, requests)
  BY <1>1, <1>3 DEF RequestOK, New, Writes, Kept, SameDoc
<1>5. UNCHANGED <<dbVars, blobs, cache, histVars, arrivals>> /\ (Fault \/ UNCHANGED faults)
  BY DEF CommitRefs
<1>6. Grows
  <2>1. CASE UNCHANGED requests
    BY <1>5, <2>1 DEF Grows
  <2>2. CASE ~UNCHANGED requests
    <3>1. PICK id, refs : UpdateAccepted(id, refs) /\ updateRootRefs(id, refs)
      BY <2>2 DEF CommitRefs
    <3>2. QED
      BY <1>5, <3>1, UpdateOne
  <2>3. QED
    BY <2>1, <2>2
<1>7. RequestOK(slot'[s], blobs', requests')
  BY <1>4, <1>6, RequestStays
<1>8. QED
  BY <1>3, <1>5, <1>6, <1>7, StoreKeeps

(* A row is removed, or stays. *)
LEMMA UndoAppendKeeps ==
    ASSUME SessionInv, NEW s \in Slots, UndoAppend(s)
    PROVE  SessionInv'
<1>1. Tables /\ faults' \in 0 .. MaxFaults
  BY FaultCounted DEF SessionInv, UndoAppend
<1>2. Log(deltas') /\ Bounded(deltas')
  <2>1. DOMAIN deltas' \subseteq DOMAIN deltas /\ \A w \in DOMAIN deltas' : deltas'[w] = deltas[w]
    BY DEF UndoAppend
  <2>2. QED
    BY <1>1, <2>1 DEF Tables, Log, Bounded
<1>3. removed' \in BOOLEAN
  <2>1. removed \in BOOLEAN /\ (removed' = removed \/ removed' = (removed \/ head = slot[s].version))
    BY <1>1 DEF Tables, UndoAppend
  <2>2. QED
    BY <2>1
<1>4. UNCHANGED <<registered, snapshots, blobs, cache, requests, acked, overtaken, misapplied, arrivals>> /\ Answered(s)
  BY DEF UndoAppend
<1>5. Tables' /\ Grows
  BY <1>1, <1>2, <1>3, <1>4 DEF Tables, Bounded, Grows
<1>6. QED
  BY <1>4, <1>5, AnsweredOne, SlotStep

(* The cache is written after a write. *)
LEMMA SaveCacheKeeps ==
    ASSUME SessionInv, NEW s \in Slots, SaveCache(s)
    PROVE  SessionInv'
<1>1. RequestOK(slot[s], blobs, requests) /\ slot[s].at = "save" /\ slot[s].doc # NoDoc
  BY RequestFacts DEF SaveCache, At, RequestOK
<1>2. UNCHANGED <<dbVars, blobs, requests, histVars, arrivals>> /\ (Fault \/ UNCHANGED faults)
  BY DEF SaveCache
<1>3. \/ saveSnapshotCache(s) /\ Answered(s)
      \/ saveSnapshotCache(s) /\ ~New(slot[s]) /\ Moved(s, "threshold")
      \/ Answered(s) /\ UNCHANGED cache
  BY DEF SaveCache, New
<1>4. CASE saveSnapshotCache(s) /\ Answered(s)
  BY <1>1, <1>2, <1>4, CacheWritten, AnsweredOne, SlotStep
<1>5. CASE saveSnapshotCache(s) /\ ~New(slot[s]) /\ Moved(s, "threshold")
  <2>1. /\ Others(s) /\ slot'[s] \in Request /\ slot'[s].at = "threshold"
        /\ Kept(slot'[s], slot[s]) /\ SameDoc(slot'[s], slot[s])
    BY <1>5, MovedOne DEF Ats
  <2>2. RequestOK(slot'[s], blobs, requests)
    BY <1>1, <1>5, <2>1 DEF RequestOK, New, Writes, Kept, SameDoc
  <2>3. Tables' /\ Grows /\ UNCHANGED <<blobs, requests>>
    BY <1>1, <1>2, <1>5, CacheWritten
  <2>4. QED
    BY <2>1, <2>2, <2>3, SlotStep
<1>6. CASE Answered(s) /\ UNCHANGED cache
  BY <1>2, <1>6, EndKeeps
<1>7. QED
  BY <1>3, <1>4, <1>5, <1>6

(* The threshold decides between an answer and a restore point. *)
LEMMA CheckThresholdKeeps ==
    ASSUME SessionInv, NEW s \in Slots, CheckThreshold(s)
    PROVE  SessionInv'
<1>1. RequestOK(slot[s], blobs, requests) /\ slot[s].at = "threshold"
  BY RequestFacts DEF CheckThreshold, At
<1>2. UNCHANGED <<registered, deltas, snapshots, blobs, cache, requests, removed, overtaken, misapplied, faults, arrivals>>
  BY DEF CheckThreshold, dbVars
<1>3. Tables' /\ Grows
  BY <1>2 DEF SessionInv, Tables, Log, Bounded, Grows
<1>4. CASE Answered(s)
  BY <1>3, <1>4, AnsweredOne, SlotStep
<1>5. CASE Moved(s, "blob")
  <2>1. /\ Others(s) /\ slot'[s] \in Request /\ slot'[s].at = "blob"
        /\ Kept(slot'[s], slot[s]) /\ SameDoc(slot'[s], slot[s])
    BY <1>5, MovedOne DEF Ats
  <2>2. RequestOK(slot'[s], blobs', requests')
    BY <1>1, <1>2, <2>1 DEF RequestOK, New, Writes, Kept, SameDoc
  <2>3. QED
    BY <1>3, <2>1, <2>2, SlotStep
<1>6. QED
  BY <1>4, <1>5 DEF CheckThreshold

(* A restore point is asked for. *)
LEMMA SnapshotRequestKeeps ==
    ASSUME SessionInv, NEW s \in Slots, SnapshotRequest(s)
    PROVE  SessionInv'
<1>1. RequestOK(slot[s], blobs, requests) /\ slot[s].at = "loaded" /\ slot[s].kind = "snapshot"
  BY RequestFacts DEF SnapshotRequest, At
<1>2. UNCHANGED <<dbVars, blobs, cache, requests, histVars, faults, arrivals>>
  BY DEF SnapshotRequest
<1>3. CASE Answered(s)
  BY <1>2, <1>3, EndKeeps
<1>4. CASE slot[s].doc # NoDoc /\ Moved(s, "blob")
  <2>1. /\ Others(s) /\ slot'[s] \in Request /\ slot'[s].at = "blob"
        /\ Kept(slot'[s], slot[s]) /\ SameDoc(slot'[s], slot[s])
    BY <1>4, MovedOne DEF Ats
  <2>2. RequestOK(slot'[s], blobs, requests)
    BY <1>1, <1>4, <2>1 DEF RequestOK, New, Writes, Kept, SameDoc
  <2>3. QED
    BY <1>2, <2>1, <2>2, StepKeeps
<1>5. QED
  BY <1>3, <1>4 DEF SnapshotRequest

(* The blob of a restore point is stored. *)
LEMMA WriteBlobKeeps ==
    ASSUME SessionInv, NEW s \in Slots, WriteBlob(s)
    PROVE  SessionInv'
<1>1. RequestOK(slot[s], blobs, requests) /\ slot[s].at = "blob" /\ slot[s].doc \in Seq(Batches)
  BY RequestFacts DEF WriteBlob, At, RequestOK
<1>2. blobs' = blobs \cup {slot[s].doc} /\ UNCHANGED <<dbVars, cache, requests, histVars, faults, arrivals>>
  BY DEF WriteBlob
<1>3. /\ Others(s) /\ slot'[s] \in Request /\ slot'[s].at = "pin"
      /\ Kept(slot'[s], slot[s]) /\ SameDoc(slot'[s], slot[s])
  BY MovedOne DEF WriteBlob, Ats
<1>4. RequestOK(slot'[s], blobs', requests')
  BY <1>1, <1>2, <1>3 DEF RequestOK, New, Writes, Kept, SameDoc
<1>5. QED
  BY <1>1, <1>2, <1>3, <1>4, BlobStored, SlotStep

(* What a restore point mentions is retained before it goes on. *)
LEMMA PinSnapshotKeeps ==
    ASSUME SessionInv, NEW s \in Slots, PinSnapshot(s)
    PROVE  SessionInv'
<1> DEFINE id == <<"snapshot", slot[s].version>>
           refs == refsOfDoc(slot[s].doc)
<1>1. RequestOK(slot[s], blobs, requests) /\ slot[s].at = "pin"
  BY RequestFacts DEF PinSnapshot, At
<1>2. UNCHANGED <<dbVars, blobs, cache, histVars, arrivals>> /\ (Fault \/ UNCHANGED faults)
  BY DEF PinSnapshot
<1>3. UNCHANGED requests \/ (UpdateAccepted(id, refs) /\ updateRootRefs(id, refs))
  BY DEF PinSnapshot
<1>4. Grows
  BY <1>2, <1>3, UpdateOne DEF Grows
<1>5. CASE Answered(s)
  BY <1>2, <1>4, <1>5, AnsweredOne, StoreKeeps
<1>6. CASE Moved(s, AfterPin(s)) /\ (refs = {} \/ (UpdateAccepted(id, refs) /\ updateRootRefs(id, refs)))
  <2>0. AfterPin(s) \in Ats /\ AfterPin(s) = (IF New(slot[s]) THEN "append" ELSE "record")
    BY DEF AfterPin, Ats, New
  <2>1. /\ Others(s) /\ slot'[s] \in Request /\ slot'[s].at = AfterPin(s)
        /\ Kept(slot'[s], slot[s]) /\ SameDoc(slot'[s], slot[s])
    BY <1>6, <2>0, MovedOne
  <2>2. Pinned(requests', slot[s].version, slot[s].doc)
    BY <1>2, <1>6, UpdateOne DEF Pinned
  <2>3. RequestOK(slot[s], blobs', requests')
    BY <1>1, <1>4, RequestStays
  <2>4. RequestOK(slot'[s], blobs', requests')
    BY <1>1, <2>0, <2>1, <2>2, <2>3 DEF RequestOK, New, Writes, Kept, SameDoc
  <2>5. QED
    BY <1>2, <1>4, <2>1, <2>4, StoreKeeps
<1>7. QED
  BY <1>5, <1>6 DEF PinSnapshot, PinFailed

(* A restore point is recorded. *)
LEMMA RecordSnapshotKeeps ==
    ASSUME SessionInv, NEW s \in Slots, RecordSnapshot(s)
    PROVE  SessionInv'
<1> DEFINE v == slot[s].version
           d == slot[s].doc
<1>1. RequestOK(slot[s], blobs, requests) /\ slot[s].at = "record" /\ Tables
  BY RequestFacts DEF RecordSnapshot, At
<1>2. v \in Nat \ {0} /\ d \in blobs /\ Pinned(requests, v, d)
  BY <1>1, RequestFacts DEF RequestOK
<1>3. /\ UNCHANGED <<registered, deltas, blobs, cache, requests, removed, overtaken, misapplied, faults, arrivals>>
      /\ Answered(s) /\ snapshots' = With(snapshots, v, d)
  BY DEF RecordSnapshot
<1>4. /\ Bounded(snapshots')
      /\ \A w \in DOMAIN snapshots' : w \in Nat \ {0} /\ snapshots'[w] \in blobs /\ Pinned(requests, w, snapshots'[w])
  BY <1>1, <1>2, <1>3, RecordedOne
<1>5. Tables' /\ Grows
  BY <1>1, <1>3, <1>4 DEF Tables, Log, Bounded, Grows
<1>6. QED
  BY <1>3, <1>5, AnsweredOne, SlotStep

--------------------------------------------------------------------------------
(* Restore points *)

(* One step keeps the tables and the requests well formed. *)
LEMMA SessionStep ==
    ASSUME SessionInv, [Next]_vars
    PROVE  SessionInv'
<1>1. CASE UNCHANGED vars
  <2>1. UNCHANGED <<registered, deltas, snapshots, blobs, cache, requests, slot, removed, overtaken, misapplied,
                  arrivals, faults>>
    BY <1>1 DEF vars, dbVars, histVars
  <2>2. QED
    BY <2>1 DEF SessionInv, Tables, Log, Bounded
<1>2. CASE Next
  <2>1. PICK s \in Slots : ArriveAny(s) \/ Step(s) \/ Crash(s)
    BY <1>2 DEF Next
  <2>2. CASE ArriveAny(s)
    BY <2>2, ArriveKeeps
  <2>3. CASE Crash(s)
    BY <2>3, EndKeeps DEF Crash
  <2>4. CASE AnswerRead(s)
    BY <2>4, EndKeeps DEF AnswerRead
  <2>5. CASE Step(s) /\ ~AnswerRead(s)
    BY <2>5, LoadCachedKeeps, LoadMissedKeeps, LoadDurableKeeps, LoadReplayKeeps, LoadWriteBackKeeps, CreateBlobKeeps,
       ApplyCheckKeeps, RollbackBuildKeeps, RollbackHeadKeeps, InsertBeginKeeps, InsertCommitKeeps, CommitRefsKeeps,
       UndoAppendKeeps, SaveCacheKeeps, CheckThresholdKeeps, SnapshotRequestKeeps, WriteBlobKeeps, PinSnapshotKeeps,
       RecordSnapshotKeeps DEF Step
  <2>6. QED
    BY <2>1, <2>2, <2>3, <2>4, <2>5
<1>3. QED
  BY <1>1, <1>2

(* The session starts without rows and without requests. *)
LEMMA SessionInit == Init => SessionInv
<1> SUFFICES ASSUME Init PROVE SessionInv
  OBVIOUS
<1>1. \A s \in Slots : slot[s] = Idle
  BY DEF Init
<1>2. RequestOK(Idle, blobs, requests)
  BY DEF Idle, RequestOK, Request, Kinds, Ats, New, Writes
<1>3. DOMAIN deltas = {} /\ DOMAIN snapshots = {} /\ blobs = CloneDocs /\ cache = NoEntry
  BY DEF Init
<1>4. Tables
  <2>1. Log(deltas) /\ Bounded(deltas) /\ Bounded(snapshots)
    BY <1>3 DEF Log, Bounded
  <2>2. blobs \subseteq Seq(Batches)
    BY <1>3, ValueAssumption
  <2>3. arrivals \in 0 .. MaxRequests /\ faults \in 0 .. MaxFaults
    BY BoundAssumption DEF Init
  <2>4. registered \in BOOLEAN /\ removed \in BOOLEAN /\ overtaken \in BOOLEAN /\ misapplied \in BOOLEAN
    BY DEF Init
  <2>5. QED
    BY <1>3, <2>1, <2>2, <2>3, <2>4 DEF Tables
<1>5. QED
  BY <1>1, <1>2, <1>4 DEF SessionInv, Init

(* The invariant of the tables and the requests. *)
THEOREM SessionCorrect == Spec => []SessionInv
BY SessionInit, SessionStep, PTL DEF Spec

(* What the runs check of the restore points. *)
LEMMA RestorePointsFollow == SessionInv => RestorePointsInv
<1>1. SUFFICES ASSUME SessionInv PROVE RestorePointsInv
  OBVIOUS
<1>2. RestorePointsSafe
  BY <1>1 DEF SessionInv, Tables, RestorePointsSafe, Pinned
<1>3. TypeOK
  <2>1. \A v \in DOMAIN deltas : v \in Nat \ {0} /\ deltas[v].kind \in {"create", "apply", "rollback"}
    BY <1>1 DEF SessionInv, Tables, Log, Row
  <2>2. \A s \in Slots : slot[s].at \in Ats /\ (slot[s].at \notin {"idle", "cache", "durable", "since", "loaded"} =>
                                                   slot[s].doc \in Seq(Batches))
    BY <1>1, RequestFacts DEF RequestOK, Request
  <2>3. cache # NoEntry => cache.doc \in Seq(Batches) /\ cache.version \in Nat \ {0}
    BY <1>1 DEF SessionInv, Tables
  <2>4. QED
    BY <1>1, <2>1, <2>2, <2>3 DEF SessionInv, Tables, TypeOK
<1>4. QED
  BY <1>2, <1>3 DEF RestorePointsInv

(* However many replicas serve the session and wherever they fail, a restore  *)
(* point is recorded only when its blob is stored and everything its document *)
(* mentions is retained under the restore point's own request id              *)
(* (#writeSnapshot, create and initFromHash).                                 *)
THEOREM RestorePointsStaySafe == Spec => []RestorePointsInv
BY SessionCorrect, RestorePointsFollow, PTL

--------------------------------------------------------------------------------
(* Acknowledged batches *)

(* From its insert to its answer an apply owns the row of its version. *)
Owns(q) == q.kind = "apply" /\ q.at \in {"refs", "undo", "save", "threshold", "blob", "pin", "record"}

(* The store R retains what batch b mentions, for the row of version v. *)
Retained(R, v, b) ==
    refsOfBatch(b) # {} => <<"apply", v>> \in DOMAIN R /\ R[<<"apply", v>>] = refsOfBatch(b)

Logged(D, v, b) == v \in DOMAIN D /\ D[v] = ApplyRow(b)

(* The row of an apply is its own, and its references are retained before it  *)
(* goes on to the cache.                                                      *)
RowOwned(q, D, R) ==
    Owns(q) => Logged(D, q.version, q.arg) /\ (q.at \notin {"refs", "undo"} => Retained(R, q.version, q.arg))

Owned ==
    /\ \A s \in Slots : RowOwned(slot[s], deltas, requests)
    /\ \A s \in Slots : \A t \in Slots \ {s} :
          Owns(slot[s]) /\ Owns(slot[t]) => slot[s].version # slot[t].version
    /\ \A a \in acked : Logged(deltas, a.version, a.batch) /\ Retained(requests, a.version, a.batch)
    /\ \A s \in Slots : Owns(slot[s]) => \A a \in acked : a.version # slot[s].version

(* A request that owns a row after a step owned it before. *)
SameRow(q, r) == Owns(q) => Owns(r) /\ q.version = r.version /\ q.arg = r.arg

(* Blobs and root updates are never taken back, whatever the step. *)
LEMMA StepGrows ==
    ASSUME NEW s \in Slots, ArriveAny(s) \/ Step(s) \/ Crash(s)
    PROVE  Grows
<1>1. CASE UNCHANGED <<blobs, requests>>
  BY <1>1 DEF Grows
<1>2. CASE CreateBlob(s)
  BY <1>2 DEF CreateBlob, Grows
<1>3. CASE WriteBlob(s)
  BY <1>3 DEF WriteBlob, Grows
<1>4. CASE CommitRefs(s)
  <2>1. UNCHANGED blobs /\ (UNCHANGED requests \/ \E id, refs : UpdateAccepted(id, refs) /\ updateRootRefs(id, refs))
    BY <1>4 DEF CommitRefs
  <2>2. QED
    BY <2>1, UpdateOne DEF Grows
<1>5. CASE PinSnapshot(s)
  <2>1. UNCHANGED blobs /\ (UNCHANGED requests \/ \E id, refs : UpdateAccepted(id, refs) /\ updateRootRefs(id, refs))
    BY <1>5 DEF PinSnapshot
  <2>2. QED
    BY <2>1, UpdateOne DEF Grows
<1>6. ArriveAny(s) \/ Crash(s) => UNCHANGED <<blobs, requests>>
  BY DEF ArriveAny, Arrive, Crash
<1>7. LoadCached(s) \/ LoadMissed(s) \/ LoadDurable(s) \/ LoadReplay(s) \/ LoadWriteBack(s) => UNCHANGED <<blobs, requests>>
  BY DEF LoadCached, LoadMissed, LoadDurable, LoadReplay, LoadWriteBack
<1>8. ApplyCheck(s) \/ RollbackBuild(s) \/ RollbackHead(s) \/ InsertBegin(s) \/ InsertCommit(s) => UNCHANGED <<blobs, requests>>
  BY DEF ApplyCheck, RollbackBuild, RollbackHead, InsertBegin, InsertCommit
<1>9. UndoAppend(s) \/ SaveCache(s) \/ CheckThreshold(s) \/ SnapshotRequest(s) \/ RecordSnapshot(s) \/ AnswerRead(s)
        => UNCHANGED <<blobs, requests>>
  BY DEF UndoAppend, SaveCache, CheckThreshold, SnapshotRequest, RecordSnapshot, AnswerRead
<1>10. QED
  BY <1>1, <1>2, <1>3, <1>4, <1>5, <1>6, <1>7, <1>8, <1>9 DEF Step

(* A step that leaves the log and the acknowledgements alone, and whose       *)
(* request owns nothing new.                                                  *)
LEMMA OwnedQuiet ==
    ASSUME SessionInv, Owned, Grows, NEW s \in Slots, Others(s), UNCHANGED <<deltas, acked>>,
           SameRow(slot'[s], slot[s]),
           Owns(slot'[s]) /\ slot'[s].at \notin {"refs", "undo"} => Retained(requests', slot[s].version, slot[s].arg)
    PROVE  Owned'
<1>1. \A v, b : Retained(requests, v, b) => Retained(requests', v, b)
  BY DEF Retained, Grows
<1>2. \A t \in Slots : SameRow(slot'[t], slot[t])
  BY DEF SameRow, Others
<1>3. \A t \in Slots : RowOwned(slot'[t], deltas', requests')
  <2>1. SUFFICES ASSUME NEW t \in Slots PROVE RowOwned(slot'[t], deltas', requests')
    OBVIOUS
  <2>2. RowOwned(slot[t], deltas, requests)
    BY DEF Owned
  <2>3. CASE t = s
    BY <2>2, <2>3 DEF RowOwned, SameRow
  <2>4. CASE t # s
    BY <1>1, <2>2, <2>4 DEF RowOwned, Others
  <2>5. QED
    BY <2>3, <2>4
<1>4. \A t \in Slots : \A u \in Slots \ {t} : Owns(slot'[t]) /\ Owns(slot'[u]) => slot'[t].version # slot'[u].version
  BY <1>2 DEF Owned, SameRow
<1>5. \A a \in acked' : Logged(deltas', a.version, a.batch) /\ Retained(requests', a.version, a.batch)
  BY <1>1 DEF Owned
<1>6. \A t \in Slots : Owns(slot'[t]) => \A a \in acked' : a.version # slot'[t].version
  BY <1>2 DEF Owned, SameRow
<1>7. QED
  BY <1>3, <1>4, <1>5, <1>6 DEF Owned

(* The same when the request rests or ends. *)
LEMMA OwnedMoved ==
    ASSUME SessionInv, Owned, Grows, NEW s \in Slots, Others(s), UNCHANGED <<deltas, acked>>,
           SameRow(slot'[s], slot[s]), Owns(slot'[s]) => slot[s].at \notin {"refs", "undo"}
    PROVE  Owned'
<1>1. Owns(slot'[s]) => Retained(requests', slot[s].version, slot[s].arg)
  BY DEF Owned, RowOwned, SameRow, Retained, Grows
<1>2. QED
  BY <1>1, OwnedQuiet

(* A request that owns nothing after the step. *)
LEMMA OwnedElse ==
    ASSUME SessionInv, Owned, Grows, NEW s \in Slots, Others(s), UNCHANGED <<deltas, acked>>,
           slot'[s].at \notin {"refs", "undo", "save", "threshold", "blob", "pin", "record"} \/ slot'[s].kind # "apply"
    PROVE  Owned'
BY OwnedMoved DEF SameRow, Owns

(* A request that ended owns nothing. *)
LEMMA OwnedAnswered ==
    ASSUME SessionInv, Owned, Grows, NEW s \in Slots, Answered(s), UNCHANGED <<deltas, acked>>
    PROVE  Owned'
<1>1. Others(s) /\ slot'[s] = Idle
  BY AnsweredOne
<1>2. slot'[s].at = "idle"
  BY <1>1 DEF Idle
<1>3. QED
  BY <1>1, <1>2, OwnedElse

(* A request that moves on within what it owns. *)
LEMMA OwnedOn ==
    ASSUME SessionInv, Owned, Grows, NEW s \in Slots, NEW to \in Ats, Moved(s, to), UNCHANGED <<deltas, acked>>,
           slot[s].kind = "apply" => Owns(slot[s]) /\ slot[s].at \notin {"refs", "undo"}
    PROVE  Owned'
<1>1. Others(s) /\ slot'[s].at = to /\ Kept(slot'[s], slot[s]) /\ SameDoc(slot'[s], slot[s])
  BY MovedOne
<1>2. SameRow(slot'[s], slot[s]) /\ (Owns(slot'[s]) => slot[s].at \notin {"refs", "undo"})
  BY <1>1 DEF SameRow, Owns, Kept, SameDoc
<1>3. QED
  BY <1>1, <1>2, OwnedMoved

(* A request that is yet to write owns nothing. *)
LEMMA OwnedBefore ==
    ASSUME SessionInv, Owned, NEW s \in Slots,
           \/ ArriveAny(s) \/ LoadCached(s) \/ LoadMissed(s) \/ LoadDurable(s) \/ LoadReplay(s) \/ LoadWriteBack(s)
           \/ CreateBlob(s) \/ ApplyCheck(s) \/ RollbackBuild(s) \/ RollbackHead(s) \/ InsertBegin(s)
           \/ SnapshotRequest(s) \/ AnswerRead(s) \/ Crash(s)
    PROVE  Owned'
<1> USE RequestFacts
<1>0. /\ DOMAIN slot = Slots /\ slot[s] \in Request
      /\ "kind" \in DOMAIN slot[s] /\ "at" \in DOMAIN slot[s]
  BY DEF Request
<1>1. Grows
  BY StepGrows DEF Step
<1>2. CASE ArriveAny(s)
  <2>1. PICK kind, arg, base : Arrive(s, kind, arg, base) /\ Asks(kind, arg, base)
    BY <1>2, ArriveAsks
  <2>2. Others(s) /\ slot'[s].at = "cache"
    BY <2>1, ArriveFields DEF Asks
  <2>3. UNCHANGED <<deltas, acked>>
    BY <2>1 DEF Arrive, histVars
  <2>4. QED
    BY <1>1, <2>2, <2>3, OwnedElse
<1>3. CASE LoadCached(s) \/ LoadMissed(s) \/ LoadDurable(s) \/ LoadReplay(s) \/ LoadWriteBack(s)
  <2>1. UNCHANGED <<deltas, acked>>
    BY <1>3 DEF LoadCached, LoadMissed, LoadDurable, LoadReplay, LoadWriteBack, dbVars, histVars
  <2>2. CASE Answered(s)
    BY <1>1, <2>1, <2>2, OwnedAnswered
  <2>3. CASE ~Answered(s)
    <3>1. Others(s) /\ slot'[s].at \in {"since", "durable", "writeback", "loaded"}
      BY <1>0, <1>3, <2>3 DEF LoadCached, LoadMissed, LoadDurable, LoadReplay, LoadWriteBack, Moved, Others
    <3>2. QED
      BY <1>1, <2>1, <3>1, OwnedElse
  <2>4. QED
    BY <2>2, <2>3
<1>4. CASE ApplyCheck(s) \/ RollbackBuild(s) \/ RollbackHead(s) \/ InsertBegin(s)
  <2>1. UNCHANGED <<deltas, acked>>
    BY <1>4 DEF ApplyCheck, RollbackBuild, RollbackHead, InsertBegin, dbVars, histVars
  <2>2. CASE Answered(s)
    BY <1>1, <2>1, <2>2, OwnedAnswered
  <2>3. CASE ~Answered(s)
    <3>1. Others(s) /\ slot'[s].at \in {"append", "head", "insert"}
      BY <1>0, <1>4, <2>3 DEF ApplyCheck, RollbackBuild, RollbackHead, InsertBegin, Moved, Others
    <3>2. QED
      BY <1>1, <2>1, <3>1, OwnedElse
  <2>4. QED
    BY <2>2, <2>3
<1>5. CASE CreateBlob(s) \/ SnapshotRequest(s)
  <2>1. UNCHANGED <<deltas, acked>>
    BY <1>5 DEF CreateBlob, SnapshotRequest, dbVars, histVars
  <2>2. CASE Answered(s)
    BY <1>1, <2>1, <2>2, OwnedAnswered
  <2>3. CASE ~Answered(s)
    <3>1. Others(s) /\ slot'[s].kind # "apply"
      BY <1>0, <1>5, <2>3 DEF CreateBlob, SnapshotRequest, Moved, Others
    <3>2. QED
      BY <1>1, <2>1, <3>1, OwnedElse
  <2>4. QED
    BY <2>2, <2>3
<1>6. CASE AnswerRead(s) \/ Crash(s)
  <2>1. UNCHANGED <<deltas, acked>> /\ Answered(s)
    BY <1>6 DEF AnswerRead, Crash, dbVars, histVars
  <2>2. QED
    BY <1>1, <2>1, OwnedAnswered
<1>7. QED
  BY <1>2, <1>3, <1>4, <1>5, <1>6

(* A row is added at a version that nobody owns and nobody was promised. *)
LEMMA OwnedInsert ==
    ASSUME SessionInv, Owned, NEW s \in Slots, InsertCommit(s)
    PROVE  Owned'
<1> DEFINE v == NextVersion(s)
<1>1. Grows
  BY StepGrows DEF Step
<1>2. CASE Answered(s) /\ UNCHANGED <<dbVars, blobs, cache, requests, histVars, faults, arrivals>>
  BY <1>1, <1>2, OwnedAnswered DEF dbVars, histVars
<1>3. CASE /\ Inserts(s) /\ Others(s) /\ slot'[s] \in Request /\ Kept(slot'[s], slot[s])
           /\ slot'[s].doc = slot[s].doc /\ slot'[s].version = NextVersion(s)
           /\ slot'[s].at = IF slot[s].kind = "apply" THEN "refs" ELSE "save"
  <2>1. /\ v \notin DOMAIN deltas /\ UNCHANGED <<acked, requests>> /\ Others(s)
        /\ DOMAIN deltas' = DOMAIN deltas \cup {v} /\ deltas'[v] = RowOf(s)
        /\ \A w \in DOMAIN deltas : deltas'[w] = deltas[w]
    BY <1>3 DEF Inserts, With
  <2>2. slot[s].kind = "apply" => RowOf(s) = ApplyRow(slot[s].arg)
    BY DEF RowOf
  <2>3. Owns(slot'[s]) => slot'[s].kind = "apply" /\ slot'[s].arg = slot[s].arg /\ slot[s].kind = "apply" /\ slot'[s].at = "refs"
    BY <1>3 DEF Owns, Kept
  <2>4. slot'[s].version = v
    BY <1>3
  <2> HIDE DEF v
  <2>5. \A w, b : Logged(deltas, w, b) => Logged(deltas', w, b) /\ w # v
    BY <2>1 DEF Logged
  <2>6. \A t \in Slots \ {s} : slot'[t] = slot[t] /\ RowOwned(slot[t], deltas, requests) /\ (Owns(slot[t]) => slot[t].version # v)
    BY <2>1, <2>5 DEF Others, Owned, RowOwned
  <2>7. \A t \in Slots : RowOwned(slot'[t], deltas', requests')
    <3>1. RowOwned(slot'[s], deltas', requests')
      BY <2>1, <2>2, <2>3, <2>4 DEF RowOwned, Logged
    <3>2. \A t \in Slots \ {s} : RowOwned(slot'[t], deltas', requests')
      BY <2>1, <2>5, <2>6 DEF RowOwned
    <3>3. QED
      BY <3>1, <3>2
  <2>8. \A t \in Slots : \A u \in Slots \ {t} : Owns(slot'[t]) /\ Owns(slot'[u]) => slot'[t].version # slot'[u].version
    BY <2>4, <2>6 DEF Owned
  <2>9. \A a \in acked : Logged(deltas', a.version, a.batch) /\ Retained(requests', a.version, a.batch) /\ a.version # v
    BY <2>1, <2>5 DEF Owned
  <2>10. \A t \in Slots : Owns(slot'[t]) => \A a \in acked : a.version # slot'[t].version
    BY <2>4, <2>6, <2>9 DEF Owned
  <2>11. QED
    BY <2>1, <2>7, <2>8, <2>9, <2>10 DEF Owned
<1>4. QED
  BY <1>2, <1>3, InsertCases

(* References are retained before the row's request goes on. *)
LEMMA OwnedCommitRefs ==
    ASSUME SessionInv, Owned, NEW s \in Slots, CommitRefs(s)
    PROVE  Owned'
<1> DEFINE id == <<"apply", slot[s].version>>
           refs == refsOfBatch(slot[s].arg)
<1>1. Grows /\ UNCHANGED <<deltas, acked, blobs>>
  BY StepGrows DEF Step, CommitRefs, dbVars, histVars
<1>2. \/ Moved(s, "undo")
      \/ Moved(s, "save") /\ (refs = {} \/ (UpdateAccepted(id, refs) /\ updateRootRefs(id, refs)))
  BY DEF CommitRefs
<1>3. slot[s].at = "refs" /\ slot[s].kind = "apply"
  BY RequestFacts DEF CommitRefs, At, RequestOK
<1>4. PICK to \in {"undo", "save"} : Moved(s, to)
  BY <1>2
<1>5. Others(s) /\ slot'[s].at = to /\ Kept(slot'[s], slot[s]) /\ SameDoc(slot'[s], slot[s])
  BY <1>4, MovedOne DEF Ats
<1>6. SameRow(slot'[s], slot[s])
  BY <1>3, <1>5 DEF SameRow, Owns, Kept, SameDoc
<1>7. slot'[s].at \notin {"refs", "undo"} => Retained(requests', slot[s].version, slot[s].arg)
  <2>1. Moved(s, "undo") => slot'[s].at = "undo"
    BY MovedOne DEF Ats
  <2>2. refs = {} \/ (UpdateAccepted(id, refs) /\ updateRootRefs(id, refs))
           => Retained(requests', slot[s].version, slot[s].arg)
    BY <1>1, UpdateOne DEF Retained
  <2>3. QED
    BY <1>2, <2>1, <2>2
<1>8. QED
  BY <1>1, <1>5, <1>6, <1>7, OwnedQuiet

(* A request removes no row but its own. *)
LEMMA OwnedUndo ==
    ASSUME SessionInv, Owned, NEW s \in Slots, UndoAppend(s)
    PROVE  Owned'
<1>1. slot[s].at = "undo" /\ Owns(slot[s])
  BY RequestFacts DEF UndoAppend, At, RequestOK, Owns
<1>2. UNCHANGED <<acked, requests>> /\ Answered(s) /\ Others(s) /\ slot'[s] = Idle
  BY AnsweredOne DEF UndoAppend
<1>3. \A w \in DOMAIN deltas : w # slot[s].version => w \in DOMAIN deltas' /\ deltas'[w] = deltas[w]
  BY DEF UndoAppend
<1>4. ~Owns(slot'[s])
  BY <1>2 DEF Idle, Owns
<1>5. \A w, b : Logged(deltas, w, b) /\ w # slot[s].version => Logged(deltas', w, b)
  BY <1>3 DEF Logged
<1>6. \A t \in Slots : Owns(slot'[t]) => t # s /\ slot'[t] = slot[t]
  BY <1>2, <1>4 DEF Others
<1>7. \A t \in Slots : RowOwned(slot'[t], deltas', requests')
  <2>1. SUFFICES ASSUME NEW t \in Slots, Owns(slot'[t]) PROVE RowOwned(slot'[t], deltas', requests')
    BY DEF RowOwned
  <2>2. t # s /\ slot'[t] = slot[t] /\ RowOwned(slot[t], deltas, requests) /\ slot[t].version # slot[s].version
    BY <1>1, <1>6, <2>1 DEF Owned
  <2>3. QED
    BY <1>2, <1>5, <2>1, <2>2 DEF RowOwned
<1>8. \A a \in acked : Logged(deltas', a.version, a.batch) /\ Retained(requests', a.version, a.batch)
  BY <1>1, <1>2, <1>5 DEF Owned
<1>9. QED
  BY <1>2, <1>6, <1>7, <1>8 DEF Owned

(* An answer promises a row whose references are retained. *)
LEMMA OwnedAcknowledged ==
    ASSUME SessionInv, Owned, Grows, NEW s \in Slots, Answered(s), Acknowledge(s), UNCHANGED deltas,
           slot[s].at \in {"threshold", "record"}
    PROVE  Owned'
<1>1. CASE slot[s].kind # "apply"
  BY <1>1, OwnedAnswered DEF Acknowledge
<1>2. CASE slot[s].kind = "apply"
  <2>1. Owns(slot[s]) /\ Logged(deltas, slot[s].version, slot[s].arg) /\ Retained(requests, slot[s].version, slot[s].arg)
    BY <1>2 DEF Owned, RowOwned, Owns
  <2>2. acked' = acked \cup {[version |-> slot[s].version, batch |-> slot[s].arg]}
    BY <1>2 DEF Acknowledge
  <2>3. Others(s) /\ ~Owns(slot'[s])
    BY AnsweredOne DEF Idle, Owns
  <2>4. \A v, b : Retained(requests, v, b) => Retained(requests', v, b)
    BY DEF Retained, Grows
  <2>5. \A t \in Slots : Owns(slot'[t]) => t # s /\ slot'[t] = slot[t] /\ Owns(slot[t])
    BY <2>3 DEF Others
  <2>6. \A t \in Slots : RowOwned(slot'[t], deltas', requests')
    BY <2>4, <2>5 DEF Owned, RowOwned
  <2>7. \A t \in Slots : \A u \in Slots \ {t} : Owns(slot'[t]) /\ Owns(slot'[u]) => slot'[t].version # slot'[u].version
    BY <2>5 DEF Owned
  <2>8. \A a \in acked' : Logged(deltas', a.version, a.batch) /\ Retained(requests', a.version, a.batch)
    BY <2>1, <2>2, <2>4 DEF Owned
  <2>9. \A t \in Slots : Owns(slot'[t]) => \A a \in acked' : a.version # slot'[t].version
    BY <2>1, <2>2, <2>5 DEF Owned
  <2>10. QED
    BY <2>6, <2>7, <2>8, <2>9 DEF Owned
<1>3. QED
  BY <1>1, <1>2

(* One step keeps every owned and every promised row. *)
LEMMA OwnedStep ==
    ASSUME SessionInv, Owned, [Next]_vars
    PROVE  Owned'
<1>1. CASE UNCHANGED vars
  <2>1. UNCHANGED <<deltas, requests, slot, acked>>
    BY <1>1 DEF vars, dbVars, histVars
  <2>2. QED
    BY <2>1 DEF Owned
<1>2. CASE Next
  <2>1. PICK s \in Slots : ArriveAny(s) \/ Step(s) \/ Crash(s)
    BY <1>2 DEF Next
  <2>2. Grows /\ RequestOK(slot[s], blobs, requests)
    BY <2>1, StepGrows, RequestFacts
  <2>3. CASE SaveCache(s)
    <3>1. UNCHANGED <<deltas, acked>> /\ slot[s].at = "save" /\ "threshold" \in Ats
      BY <2>3 DEF SaveCache, At, dbVars, histVars, Ats
    <3>2. Answered(s) \/ Moved(s, "threshold")
      BY <2>3 DEF SaveCache
    <3>3. slot[s].kind = "apply" => Owns(slot[s]) /\ slot[s].at \notin {"refs", "undo"}
      BY <3>1 DEF Owns
    <3>4. QED
      BY <2>2, <3>1, <3>2, <3>3, OwnedAnswered, OwnedOn
  <2>4. CASE CheckThreshold(s)
    <3>1. UNCHANGED deltas /\ slot[s].at = "threshold" /\ "blob" \in Ats
      BY <2>4 DEF CheckThreshold, At, dbVars, Ats
    <3>2. (Answered(s) /\ Acknowledge(s)) \/ (Moved(s, "blob") /\ UNCHANGED acked)
      BY <2>4 DEF CheckThreshold
    <3>3. slot[s].kind = "apply" => Owns(slot[s]) /\ slot[s].at \notin {"refs", "undo"}
      BY <3>1 DEF Owns
    <3>4. QED
      BY <2>2, <3>1, <3>2, <3>3, OwnedAcknowledged, OwnedOn
  <2>5. CASE WriteBlob(s)
    <3>1. UNCHANGED <<deltas, acked>> /\ slot[s].at = "blob" /\ "pin" \in Ats /\ Moved(s, "pin")
      BY <2>5 DEF WriteBlob, At, dbVars, histVars, Ats
    <3>2. slot[s].kind = "apply" => Owns(slot[s]) /\ slot[s].at \notin {"refs", "undo"}
      BY <3>1 DEF Owns
    <3>3. QED
      BY <2>2, <3>1, <3>2, OwnedOn
  <2>6. CASE PinSnapshot(s)
    <3>1. UNCHANGED <<deltas, acked>> /\ slot[s].at = "pin" /\ AfterPin(s) \in Ats
      BY <2>6 DEF PinSnapshot, At, dbVars, histVars, Ats, AfterPin
    <3>2. Answered(s) \/ Moved(s, AfterPin(s))
      BY <2>6 DEF PinSnapshot, PinFailed
    <3>3. slot[s].kind = "apply" => Owns(slot[s]) /\ slot[s].at \notin {"refs", "undo"}
      BY <3>1 DEF Owns
    <3>4. QED
      BY <2>2, <3>1, <3>2, <3>3, OwnedAnswered, OwnedOn
  <2>7. CASE RecordSnapshot(s)
    <3>1. UNCHANGED deltas /\ slot[s].at = "record" /\ Answered(s) /\ Acknowledge(s)
      BY <2>7 DEF RecordSnapshot, At
    <3>2. QED
      BY <2>2, <3>1, OwnedAcknowledged
  <2>8. QED
    BY <2>1, <2>3, <2>4, <2>5, <2>6, <2>7, OwnedBefore, OwnedInsert, OwnedCommitRefs, OwnedUndo DEF Step
<1>3. QED
  BY <1>1, <1>2

(* Nobody owns a row at first. *)
LEMMA OwnedInit == Init => Owned
<1> SUFFICES ASSUME Init PROVE Owned
  OBVIOUS
<1>1. \A s \in Slots : ~Owns(slot[s])
  BY DEF Init, Idle, Owns
<1>2. QED
  BY <1>1 DEF Init, Owned, RowOwned

(* Every apply owns the row it inserted until it is answered. *)
THEOREM RowsOwned == Spec => []Owned
<1>1. SessionInv /\ Owned /\ [Next]_vars => Owned'
  BY OwnedStep
<1>2. QED
  BY <1>1, OwnedInit, SessionCorrect, PTL DEF Spec

(* A batch that apply answered with success stays in the log at its version   *)
(* with its references retained, however many replicas append, compensate and *)
(* fail meanwhile: a request removes no row but its own, and only before its  *)
(* answer (commitRootRefsOrRollback).                                         *)
THEOREM AcknowledgementsHold == Spec => []AcknowledgedKept
<1>1. Owned => AcknowledgedKept
  BY DEF Owned, AcknowledgedKept, Logged, Retained
<1>2. QED
  BY <1>1, RowsOwned, PTL

--------------------------------------------------------------------------------
(* Content *)

(* Document d is the content of version v, unless a rollback comes first. *)
Right(D, S, v, d) == Straight(D, v) => d = ContentsOf(D, S, v)

(* The log has no gaps, begins with a creation and its restore point, and     *)
(* every restore point is of a version that exists.                           *)
Shape(D, S, n) ==
    /\ DOMAIN D = 1 .. n /\ TargetsBefore(D)
    /\ \A v \in 1 .. n : D[v].kind = "create" <=> v = 1
    /\ DOMAIN S \subseteq 1 .. n /\ (n > 0 => 1 \in DOMAIN S)

(* A request that holds a version of the log. *)
Holds(q) == /\ q.at \notin {"idle", "cache", "durable"}
            /\ ~(New(q) /\ q.at \in {"pin", "append", "insert"})

(* What a request holds, reads or is about to write, in a log of n versions. *)
RequestRight(q, D, S, n) ==
    /\ Holds(q) => q.version <= n
    /\ Holds(q) /\ q.at \notin {"head", "append", "insert"} /\ q.version > 0 => Right(D, S, q.version, q.doc)
    /\ q.at = "since" /\ q.doc = NoDoc => n = 0 \/ S[1] = <<>>
    /\ q.kind = "apply" /\ q.at \in {"append", "insert"} =>
          /\ q.base \in 1 .. n
          /\ q.version = q.base /\ Straight(D, q.base) => q.doc = Append(ContentsOf(D, S, q.base), q.arg)
    /\ q.kind = "rollback" /\ q.at \in {"head", "append", "insert"} => q.arg <= n
    /\ q.kind = "rollback" /\ q.at \in {"append", "insert"} => q.base \in 1 .. n

EntryRight(c, D, S, n) == c # NoEntry => c.version <= n /\ Right(D, S, c.version, c.doc)

Calm == ~removed /\ ~overtaken /\ ~misapplied

Content ==
    /\ Shape(deltas, snapshots, head)
    /\ \A v \in DOMAIN snapshots : Right(deltas, snapshots, v, snapshots[v])
    /\ EntryRight(cache, deltas, snapshots, head)
    /\ \A s \in Slots : RequestRight(slot[s], deltas, snapshots, head)

ContentInv == Calm => Content

(* A longer log that keeps the rows and the first restore point. *)
Longer(D, S, n, E, R, m) ==
    /\ n \in Nat /\ m \in Nat /\ n <= m
    /\ Log(D) /\ TargetsBefore(D) /\ DOMAIN D = 1 .. n
    /\ \A v \in 1 .. n : E[v] = D[v]
    /\ n > 0 => R[1] = S[1]

(* What is straight up to a version is straight up to an earlier one. *)
LEMMA StraightPrefix ==
    ASSUME NEW D, NEW n \in Nat, Straight(D, n), NEW k \in 1 .. n
    PROVE  Straight(D, k)
BY DEF Straight

(* A version that is straight in the longer log was so before. *)
LEMMA StraightShared ==
    ASSUME NEW D, NEW S, NEW n, NEW E, NEW R, NEW m, Longer(D, S, n, E, R, m), NEW v \in 1 .. n, Straight(E, v)
    PROVE  Straight(D, v)
BY DEF Longer, Straight

(* The content of a version stays as the log grows. *)
LEMMA SameContents ==
    ASSUME NEW D, NEW S, NEW n, NEW E, NEW R, NEW m, Longer(D, S, n, E, R, m), NEW v \in 1 .. n, Straight(E, v)
    PROVE  Straight(D, v) /\ ContentsOf(E, R, v) = ContentsOf(D, S, v)
<1>1. Straight(D, v)
  BY StraightShared
<1>2. v \in Nat \ {0} /\ R[1] = S[1] /\ \A w \in 1 .. v : E[w] = D[w]
  BY DEF Longer
<1>3. QED
  BY <1>1, <1>2, ContentsAgree

(* What was right stays right. *)
LEMMA RightStays ==
    ASSUME NEW D, NEW S, NEW n, NEW E, NEW R, NEW m, Longer(D, S, n, E, R, m), NEW v \in 1 .. n, NEW d,
           Right(D, S, v, d)
    PROVE  Right(E, R, v, d)
BY SameContents DEF Right

(* The same for a request that rests. *)
LEMMA RequestRightStays ==
    ASSUME NEW D, NEW S, NEW n, NEW E, NEW R, NEW m, Longer(D, S, n, E, R, m),
           NEW q, NEW B, NEW U, RequestOK(q, B, U), RequestRight(q, D, S, n),
           q.at = "since" /\ q.doc = NoDoc => m = 0 \/ R[1] = <<>>
    PROVE  RequestRight(q, E, R, m)
<1>1. n \in Nat /\ m \in Nat /\ n <= m /\ q.base \in Nat /\ q.version \in Nat
  BY DEF Longer, RequestOK, Request
<1>2. Holds(q) /\ q.at \notin {"head", "append", "insert"} /\ q.version > 0 => Right(E, R, q.version, q.doc)
  <2>1. SUFFICES ASSUME Holds(q), q.at \notin {"head", "append", "insert"}, q.version > 0
                 PROVE  Right(E, R, q.version, q.doc)
    OBVIOUS
  <2>2. q.version \in 1 .. n /\ Right(D, S, q.version, q.doc)
    BY <1>1, <2>1 DEF RequestRight
  <2>3. QED
    BY <2>2, RightStays
<1>3. ASSUME q.kind = "apply", q.at \in {"append", "insert"}
      PROVE  /\ q.base \in 1 .. m
             /\ q.version = q.base /\ Straight(E, q.base) => q.doc = Append(ContentsOf(E, R, q.base), q.arg)
  <2>1. /\ q.base \in 1 .. n
        /\ q.version = q.base /\ Straight(D, q.base) => q.doc = Append(ContentsOf(D, S, q.base), q.arg)
    BY <1>1, <1>3 DEF RequestRight, RequestOK
  <2>2. Straight(E, q.base) => Straight(D, q.base) /\ ContentsOf(E, R, q.base) = ContentsOf(D, S, q.base)
    BY <2>1, SameContents
  <2>3. QED
    BY <1>1, <2>1, <2>2
<1>4. /\ Holds(q) => q.version <= m
      /\ q.kind = "rollback" /\ q.at \in {"head", "append", "insert"} => q.arg <= m
      /\ q.kind = "rollback" /\ q.at \in {"append", "insert"} => q.base \in 1 .. m
  <2>1. q.kind = "rollback" => q.arg \in Nat
    BY DEF RequestOK
  <2>2. QED
    BY <1>1, <2>1 DEF RequestRight
<1>5. QED
  BY <1>2, <1>3, <1>4 DEF RequestRight

(* What is known of the log and of a request. *)
LEMMA ContentFacts ==
    ASSUME SessionInv, Content, NEW s \in Slots
    PROVE  /\ head \in Nat /\ DOMAIN deltas = 1 .. head /\ Log(deltas) /\ TargetsBefore(deltas)
           /\ DOMAIN snapshots \subseteq 1 .. head /\ (head > 0 => 1 \in DOMAIN snapshots)
           /\ RequestRight(slot[s], deltas, snapshots, head)
           /\ RequestOK(slot[s], blobs, requests) /\ slot[s].version \in Nat /\ slot[s].base \in Nat
BY RequestFacts, HeadOne DEF Content, Shape, Tables

(* A step of one request that leaves log and restore points alone. *)
LEMMA ContentQuiet ==
    ASSUME SessionInv, Content, NEW s \in Slots, Others(s), UNCHANGED <<deltas, snapshots>>,
           EntryRight(cache', deltas, snapshots, head), RequestRight(slot'[s], deltas, snapshots, head)
    PROVE  Content'
<1>1. head' = head
  BY DEF head
<1>2. \A t \in Slots : RequestRight(slot'[t], deltas, snapshots, head)
  BY DEF Content, Others
<1>3. QED
  BY <1>1, <1>2 DEF Content

(* A request that ended holds nothing. *)
LEMMA ContentAnswered ==
    ASSUME SessionInv, Content, NEW s \in Slots, Answered(s), UNCHANGED <<deltas, snapshots>>,
           EntryRight(cache', deltas, snapshots, head)
    PROVE  Content'
<1>1. Others(s) /\ slot'[s] = Idle
  BY AnsweredOne
<1>2. RequestRight(Idle, deltas, snapshots, head)
  BY DEF RequestRight, Idle, Holds
<1>3. QED
  BY <1>1, <1>2, ContentQuiet

(* A request arrives without a document. *)
LEMMA ContentArrive ==
    ASSUME SessionInv, Content, NEW s \in Slots, ArriveAny(s)
    PROVE  Content'
<1>1. PICK kind, arg, base : Arrive(s, kind, arg, base) /\ Asks(kind, arg, base)
  BY ArriveAsks
<1>2. /\ Others(s) /\ slot'[s].kind = kind /\ slot'[s].arg = arg /\ slot'[s].base = base
      /\ slot'[s].at = "cache" /\ slot'[s].doc = NoDoc /\ slot'[s].version = 0
  BY <1>1, ArriveFields DEF Asks
<1>3. UNCHANGED <<deltas, snapshots, cache>>
  BY <1>1 DEF Arrive
<1>4. RequestRight(slot'[s], deltas, snapshots, head)
  BY <1>1, <1>2 DEF RequestRight, Holds, Asks
<1>5. QED
  BY <1>2, <1>3, <1>4, ContentQuiet DEF Content

(* load() takes the version of the cache or of the newest restore point. *)
LEMMA ContentLoad ==
    ASSUME SessionInv, Content, NEW s \in Slots, LoadCached(s) \/ LoadMissed(s) \/ LoadDurable(s)
    PROVE  Content'
<1> USE ContentFacts
<1>1. UNCHANGED <<deltas, snapshots, cache>> /\ EntryRight(cache', deltas, snapshots, head)
  BY DEF LoadCached, LoadMissed, LoadDurable, dbVars, Content
<1>2. slot[s].at \in {"cache", "durable"} /\ slot[s].doc = NoDoc /\ slot[s].version = 0
  BY DEF LoadCached, LoadMissed, LoadDurable, At, RequestOK
<1>3. CASE Answered(s)
  BY <1>1, <1>3, ContentAnswered
<1>4. CASE Moved(s, "durable")
  <2>1. Others(s) /\ slot'[s].at = "durable" /\ Kept(slot'[s], slot[s]) /\ SameDoc(slot'[s], slot[s])
    BY <1>4, MovedOne DEF Ats
  <2>2. RequestRight(slot'[s], deltas, snapshots, head)
    BY <2>1 DEF RequestRight, Holds, Kept, SameDoc
  <2>3. QED
    BY <1>1, <2>1, <2>2, ContentQuiet
<1>5. ASSUME NEW d \in Seq(Batches), NEW v \in 1 .. head, Takes(s, d, v, "since"), Right(deltas, snapshots, v, d)
      PROVE  Content'
  <2>1. v \in Nat \ {0} /\ "since" \in Ats
    BY DEF Ats
  <2>2. /\ Others(s) /\ slot'[s].at = "since" /\ Kept(slot'[s], slot[s])
        /\ slot'[s].doc = d /\ slot'[s].version = v /\ d # NoDoc
    BY <1>5, <2>1, TakesOne
  <2>3. RequestRight(slot'[s], deltas, snapshots, head)
    BY <1>5, <2>2 DEF RequestRight, Holds, Kept
  <2>4. QED
    BY <1>1, <2>2, <2>3, ContentQuiet
<1>6. CASE LoadCached(s)
  <2>1. /\ cache.doc \in Seq(Batches) /\ cache.version \in Nat \ {0} /\ Takes(s, cache.doc, cache.version, "since")
        /\ cache # NoEntry
    BY <1>6 DEF LoadCached, SessionInv, Tables, Takes
  <2>2. cache.version \in 1 .. head /\ Right(deltas, snapshots, cache.version, cache.doc)
    BY <2>1 DEF Content, EntryRight
  <2>3. QED
    BY <1>5, <2>1, <2>2
<1>7. CASE LoadDurable(s)
  <2> DEFINE ref == newestSnapshotRef
  <2>1. /\ ref \in Nat /\ (ref # 0 => ref \in DOMAIN snapshots /\ snapshots[ref] \in Seq(Batches))
        /\ ref = 0 => DOMAIN snapshots = {}
    BY NewestReference, RequestFacts
  <2>2. Answered(s) \/ (ref = 0 /\ Moved(s, "since")) \/ (ref # 0 /\ Takes(s, snapshots[ref], ref, "since"))
    BY <1>7 DEF LoadDurable, Takes
  <2> HIDE DEF ref
  <2>3. CASE ref = 0 /\ Moved(s, "since")
    <3>1. Others(s) /\ slot'[s].at = "since" /\ Kept(slot'[s], slot[s]) /\ SameDoc(slot'[s], slot[s])
      BY <2>3, MovedOne DEF Ats
    <3>2. head = 0
      BY <2>1, <2>3
    <3>3. RequestRight(slot'[s], deltas, snapshots, head)
      BY <1>2, <3>1, <3>2 DEF RequestRight, Holds, Kept, SameDoc
    <3>4. QED
      BY <1>1, <3>1, <3>3, ContentQuiet
  <2>4. CASE ref # 0 /\ Takes(s, snapshots[ref], ref, "since")
    <3>1. ref \in 1 .. head /\ Right(deltas, snapshots, ref, snapshots[ref])
      BY <2>1, <2>4 DEF Content
    <3>2. QED
      BY <1>5, <2>1, <2>4, <3>1
  <2>5. QED
    BY <1>3, <2>2, <2>3, <2>4
<1>8. QED
  BY <1>4, <1>6, <1>7 DEF LoadMissed

(* A replay from what load() found gives the content of the head. *)
LEMMA ReplayRight ==
    ASSUME SessionInv, Content, NEW s \in Slots, slot[s].at = "since", head > slot[s].version
    PROVE  LET start == IF slot[s].doc = NoDoc THEN <<>> ELSE slot[s].doc
           IN  Right(deltas, snapshots, head, Replay(start, slot[s].version + 1, head))
<1> DEFINE start == IF slot[s].doc = NoDoc THEN <<>> ELSE slot[s].doc
           k == slot[s].version
<1>0. /\ head \in Nat \ {0} /\ k \in Nat /\ (slot[s].doc = NoDoc <=> k = 0)
      /\ RequestRight(slot[s], deltas, snapshots, head)
  BY ContentFacts DEF RequestOK
<1>1. Replay(start, k + 1, head) = ReplayOf(deltas, start, k + 1, head)
  BY SameOperators
<1>2. ASSUME Straight(deltas, head)
      PROVE  ReplayOf(deltas, start, k + 1, head) = ContentsOf(deltas, snapshots, head)
  <2>1. CASE k = 0
    <3>1. snapshots[1] = <<>> /\ start = <<>> /\ k + 1 = 1
      BY <1>0, <2>1 DEF RequestRight
    <3>2. ReplayOf(deltas, <<>>, 1, head) = ContentsOf(deltas, snapshots, head)
      BY <1>0, <1>2, <3>1, ReplayFromInit
    <3>3. QED
      BY <3>1, <3>2
  <2>2. CASE k # 0
    <3>1. k \in 1 .. head /\ start = slot[s].doc /\ Right(deltas, snapshots, k, start)
      BY <1>0, <2>2 DEF RequestRight, Holds
    <3>2. Straight(deltas, k)
      BY <1>0, <1>2, <3>1, StraightPrefix
    <3>3. start = ContentsOf(deltas, snapshots, k)
      BY <3>1, <3>2 DEF Right
    <3> HIDE DEF k, start
    <3>4. ReplayOf(deltas, ContentsOf(deltas, snapshots, k), k + 1, head) = ContentsOf(deltas, snapshots, head)
      BY <1>0, <1>2, <3>1, ReplayFromVersion
    <3>5. QED
      BY <3>3, <3>4
  <2>3. QED
    BY <2>1, <2>2
<1>3. QED
  BY <1>1, <1>2 DEF Right

(* load() ends at the head. *)
LEMMA ContentReplay ==
    ASSUME SessionInv, Content, NEW s \in Slots, LoadReplay(s)
    PROVE  Content'
<1> DEFINE start == IF slot[s].doc = NoDoc THEN <<>> ELSE slot[s].doc
           d == Replay(start, slot[s].version + 1, head)
<1> USE ContentFacts
<1>1. /\ UNCHANGED <<deltas, snapshots, cache>> /\ EntryRight(cache', deltas, snapshots, head)
      /\ slot[s].at = "since"
  BY DEF LoadReplay, At, dbVars, Content
<1>2. CASE Moved(s, "loaded") /\ {v \in DOMAIN deltas : v > slot[s].version} = {}
  <2>1. Others(s) /\ slot'[s].at = "loaded" /\ Kept(slot'[s], slot[s]) /\ SameDoc(slot'[s], slot[s])
    BY <1>2, MovedOne DEF Ats
  <2>2. head <= slot[s].version
    <3>1. head \in Nat /\ DOMAIN deltas = 1 .. head /\ slot[s].version \in Nat
      OBVIOUS
    <3>2. QED
      BY <1>2, <3>1
  <2>3. RequestRight(slot'[s], deltas, snapshots, head)
    BY <1>1, <2>1, <2>2 DEF RequestRight, Holds, Kept, SameDoc
  <2>4. QED
    BY <1>1, <2>1, <2>3, ContentQuiet
<1>3. CASE Takes(s, d, head, "writeback") /\ {v \in DOMAIN deltas : v > slot[s].version} # {}
  <2>1. head \in Nat \ {0} /\ head > slot[s].version /\ slot[s].version \in Nat
    <3>1. head \in Nat /\ DOMAIN deltas = 1 .. head /\ slot[s].version \in Nat
      OBVIOUS
    <3>2. QED
      BY <1>3, <3>1
  <2>2. Right(deltas, snapshots, head, d)
    BY <1>1, <2>1, ReplayRight
  <2>3. d \in Seq(Batches)
    <3>1. start \in Seq(Batches) /\ slot[s].version + 1 \in Nat \ {0} /\ Log(deltas)
      BY RequestFacts DEF Tables
    <3>2. d = ReplayOf(deltas, start, slot[s].version + 1, head)
      BY SameOperators
    <3> HIDE DEF start, d
    <3>3. QED
      BY <2>1, <3>1, <3>2, ReplayType
  <2> HIDE DEF start, d
  <2>4. "writeback" \in Ats
    BY DEF Ats
  <2>5. /\ Others(s) /\ slot'[s].at = "writeback" /\ Kept(slot'[s], slot[s])
        /\ slot'[s].doc = d /\ slot'[s].version = head
    BY <1>3, <2>1, <2>3, <2>4, TakesOne
  <2>6. RequestRight(slot'[s], deltas, snapshots, head)
    BY <2>1, <2>2, <2>5 DEF RequestRight, Holds, Kept
  <2>7. QED
    BY <1>1, <2>5, <2>6, ContentQuiet
<1>4. QED
  BY <1>2, <1>3 DEF LoadReplay, Takes

(* The cache gets what the request holds. *)
LEMMA CacheRight ==
    ASSUME SessionInv, Content, NEW s \in Slots, slot[s].at \in {"writeback", "save"}, saveSnapshotCache(s)
    PROVE  EntryRight(cache', deltas, snapshots, head)
<1>1. slot[s].version \in 1 .. head /\ Right(deltas, snapshots, slot[s].version, slot[s].doc)
  BY ContentFacts DEF RequestRight, RequestOK, Holds
<1>2. cache'.version = slot[s].version /\ cache'.doc = slot[s].doc
  BY DEF saveSnapshotCache
<1>3. QED
  BY <1>1, <1>2 DEF EntryRight

(* load() writes the cache. *)
LEMMA ContentWriteBack ==
    ASSUME SessionInv, Content, NEW s \in Slots, LoadWriteBack(s)
    PROVE  Content'
<1>1. UNCHANGED <<deltas, snapshots>> /\ slot[s].at = "writeback" /\ EntryRight(cache', deltas, snapshots, head)
  BY CacheRight DEF LoadWriteBack, At, dbVars
<1>2. Others(s) /\ slot'[s].at = "loaded" /\ Kept(slot'[s], slot[s]) /\ SameDoc(slot'[s], slot[s])
  BY MovedOne DEF LoadWriteBack, Ats
<1>3. RequestRight(slot'[s], deltas, snapshots, head)
  BY <1>1, <1>2, ContentFacts DEF RequestRight, Holds, Kept, SameDoc
<1>4. QED
  BY <1>1, <1>2, <1>3, ContentQuiet

(* A request is refused, or prepares what it will write. *)
LEMMA ContentPrepare ==
    ASSUME SessionInv, Content, NEW s \in Slots,
           CreateBlob(s) \/ ApplyCheck(s) \/ RollbackBuild(s) \/ RollbackHead(s) \/ InsertBegin(s)
    PROVE  Content'
<1>0. /\ RequestRight(slot[s], deltas, snapshots, head) /\ RequestOK(slot[s], blobs, requests)
      /\ slot[s].version \in Nat /\ slot[s].base \in Nat /\ head \in Nat /\ DOMAIN deltas = 1 .. head
      /\ slot[s] \in Request /\ DOMAIN slot = Slots
  BY ContentFacts, RequestFacts
<1>1. UNCHANGED <<deltas, snapshots, cache>> /\ EntryRight(cache', deltas, snapshots, head)
  BY DEF CreateBlob, ApplyCheck, RollbackBuild, RollbackHead, InsertBegin, dbVars, Content
<1>2. CASE Answered(s)
  BY <1>1, <1>2, ContentAnswered
<1>3. CASE CreateBlob(s) /\ ~Answered(s)
  <2>1. Others(s) /\ slot'[s].at = "pin" /\ slot'[s].kind \in {"create", "clone"}
    BY <1>0, <1>3 DEF CreateBlob, Others, Request
  <2>2. RequestRight(slot'[s], deltas, snapshots, head)
    BY <2>1 DEF RequestRight, Holds, New
  <2>3. QED
    BY <1>1, <2>1, <2>2, ContentQuiet
<1>4. CASE ApplyCheck(s) /\ ~Answered(s)
  <2>1. /\ slot[s].at = "loaded" /\ slot[s].kind = "apply" /\ slot[s].doc # NoDoc /\ head = slot[s].base
        /\ slot' = [slot EXCEPT ![s].doc = Append(slot[s].doc, slot[s].arg), ![s].at = "append"]
    BY <1>4 DEF ApplyCheck, At
  <2>2. /\ Others(s) /\ slot'[s].at = "append" /\ Kept(slot'[s], slot[s])
        /\ slot'[s].doc = Append(slot[s].doc, slot[s].arg) /\ slot'[s].version = slot[s].version
    BY <1>0, <2>1 DEF Others, Request, Kept
  <2>3. /\ slot[s].version > 0 /\ slot[s].base \in 1 .. head
        /\ Right(deltas, snapshots, slot[s].version, slot[s].doc)
    BY <1>0, <2>1 DEF RequestRight, RequestOK, Holds
  <2>4. RequestRight(slot'[s], deltas, snapshots, head)
    BY <1>0, <2>1, <2>2, <2>3 DEF RequestRight, Holds, Kept, Right
  <2>5. QED
    BY <1>1, <2>2, <2>4, ContentQuiet
<1>5. CASE RollbackBuild(s) /\ ~Answered(s)
  <2>1. /\ slot[s].at = "loaded" /\ slot[s].kind = "rollback" /\ slot[s].arg \in DOMAIN deltas
    BY <1>5 DEF RollbackBuild, At
  <2>2. Others(s) /\ slot'[s].at = "head" /\ Kept(slot'[s], slot[s]) /\ slot'[s].version = slot[s].version
    BY <1>0, <1>5 DEF RollbackBuild, Others, Request, Kept
  <2>3. RequestRight(slot'[s], deltas, snapshots, head)
    BY <1>0, <2>1, <2>2 DEF RequestRight, Holds, Kept
  <2>4. QED
    BY <1>1, <2>2, <2>3, ContentQuiet
<1>6. CASE RollbackHead(s)
  <2>1. /\ slot[s].at = "head" /\ slot[s].kind = "rollback" /\ slot[s].version > 0
        /\ slot' = [slot EXCEPT ![s].base = head, ![s].at = "append"]
    BY <1>0, <1>6 DEF RollbackHead, At, RequestOK
  <2>2. /\ Others(s) /\ slot'[s].at = "append" /\ slot'[s].kind = "rollback" /\ slot'[s].arg = slot[s].arg
        /\ slot'[s].base = head /\ slot'[s].version = slot[s].version
    BY <1>0, <2>1 DEF Others, Request
  <2>3. RequestRight(slot'[s], deltas, snapshots, head)
    BY <1>0, <2>1, <2>2 DEF RequestRight, Holds, New
  <2>4. QED
    BY <1>1, <2>2, <2>3, ContentQuiet
<1>7. CASE InsertBegin(s) /\ ~Answered(s)
  <2>1. slot[s].at = "append" /\ Moved(s, "insert")
    BY <1>7 DEF InsertBegin, At
  <2>2. Others(s) /\ slot'[s].at = "insert" /\ Kept(slot'[s], slot[s]) /\ SameDoc(slot'[s], slot[s])
    BY <2>1, MovedOne DEF Ats
  <2>3. RequestRight(slot'[s], deltas, snapshots, head)
    BY <1>0, <2>1, <2>2 DEF RequestRight, Holds, New, Kept, SameDoc
  <2>4. QED
    BY <1>1, <2>2, <2>3, ContentQuiet
<1>8. QED
  BY <1>2, <1>3, <1>4, <1>5, <1>6, <1>7

(* A request appends at the head, whatever the log did since it looked. *)
LEMMA InsertAtHead ==
    ASSUME SessionInv, Content, NEW s \in Slots, slot[s].at = "insert", NextVersion(s) \notin DOMAIN deltas
    PROVE  /\ NextVersion(s) = head + 1 /\ head \in Nat
           /\ New(slot[s]) => head = 0
           /\ ~New(slot[s]) => head > 0 /\ slot[s].base = head
           /\ slot[s].kind = "rollback" => slot[s].arg \in Nat /\ slot[s].arg <= head
<1>1. /\ RequestRight(slot[s], deltas, snapshots, head) /\ RequestOK(slot[s], blobs, requests)
      /\ slot[s].version \in Nat /\ slot[s].base \in Nat /\ head \in Nat /\ DOMAIN deltas = 1 .. head
  BY ContentFacts
<1>2. slot[s].base >= head
  BY <1>1 DEF NextVersion
<1>3. CASE New(slot[s])
  BY <1>1, <1>2, <1>3 DEF RequestOK, NextVersion, New
<1>4. CASE slot[s].kind = "apply"
  BY <1>1, <1>2, <1>4 DEF RequestOK, RequestRight, NextVersion, New
<1>5. CASE slot[s].kind = "rollback"
  BY <1>1, <1>2, <1>5 DEF RequestOK, RequestRight, NextVersion, New
<1>6. QED
  BY <1>1, <1>3, <1>4, <1>5 DEF RequestOK, Writes, New

(* The log grows by one row and keeps its shape. *)
LEMMA InsertShape ==
    ASSUME SessionInv, SessionInv', Content, NEW s \in Slots, slot[s].at = "insert", Inserts(s)
    PROVE  /\ head' = head + 1 /\ Shape(deltas', snapshots', head + 1)
           /\ Longer(deltas, snapshots, head, deltas', snapshots', head + 1)
           /\ deltas'[head + 1] = RowOf(s)
<1> DEFINE v == NextVersion(s)
<1>1. /\ v = head + 1 /\ head \in Nat
      /\ New(slot[s]) => head = 0
      /\ ~New(slot[s]) => head > 0
      /\ slot[s].kind = "rollback" => slot[s].arg \in Nat /\ slot[s].arg <= head
  BY InsertAtHead DEF Inserts
<1>2. /\ DOMAIN deltas = 1 .. head /\ Log(deltas) /\ TargetsBefore(deltas)
      /\ DOMAIN snapshots \subseteq 1 .. head /\ (head > 0 => 1 \in DOMAIN snapshots)
      /\ \A w \in 1 .. head : deltas[w].kind = "create" <=> w = 1
  BY ContentFacts DEF Content, Shape
<1>3. /\ DOMAIN deltas' = DOMAIN deltas \cup {v} /\ deltas'[v] = RowOf(s)
      /\ \A w \in DOMAIN deltas : w # v => deltas'[w] = deltas[w]
      /\ snapshots' = IF New(slot[s]) THEN With(snapshots, v, slot[s].doc) ELSE snapshots
  BY DEF Inserts, With
<1>4. DOMAIN snapshots' = IF New(slot[s]) THEN DOMAIN snapshots \cup {v} ELSE DOMAIN snapshots
  BY <1>3 DEF With
<1>5. Writes(slot[s])
  BY ContentFacts DEF RequestOK
<1>6. /\ New(slot[s]) <=> RowOf(s).kind = "create"
      /\ RowOf(s).kind = "rollback" => slot[s].kind = "rollback" /\ RowOf(s).target = slot[s].arg
  BY <1>5 DEF RowOf, ApplyRow, RollbackRow, CreateRow, New, Writes
<1> HIDE DEF v
<1>7. DOMAIN deltas' = 1 .. head + 1 /\ \A w \in 1 .. head : deltas'[w] = deltas[w]
  BY <1>1, <1>2, <1>3
<1>8. head' = head + 1
  <2>1. Tables'
    BY DEF SessionInv
  <2>2. DOMAIN deltas' \subseteq Nat \ {0} /\ Bounded(deltas') /\ head' = Newest(deltas')
    BY <2>1 DEF head, Tables, Log
  <2>3. /\ head' \in Nat /\ (DOMAIN deltas' # {} => head' \in DOMAIN deltas')
        /\ \A w \in DOMAIN deltas' : w <= head'
    BY <2>2, NewestOne
  <2>4. head + 1 \in DOMAIN deltas'
    BY <1>1, <1>7
  <2>5. head' \in Nat /\ head' \in 1 .. head + 1 /\ head + 1 <= head' /\ head \in Nat
    BY ONLY <1>1, <1>7, <2>3, <2>4
  <2>6. PICK g, h : g = head /\ h = head'
    OBVIOUS
  <2>7. g \in Nat /\ h \in 1 .. g + 1 /\ g + 1 <= h
    BY <2>5, <2>6
  <2>8. h = g + 1
    BY <2>7
  <2>9. QED
    BY <2>6, <2>8
<1>9. TargetsBefore(deltas')
  BY <1>1, <1>2, <1>3, <1>6, <1>7 DEF TargetsBefore
<1>10. \A w \in 1 .. head + 1 : deltas'[w].kind = "create" <=> w = 1
  BY <1>1, <1>2, <1>3, <1>6, <1>7
<1>11. DOMAIN snapshots' \subseteq 1 .. head + 1 /\ 1 \in DOMAIN snapshots'
  BY <1>1, <1>2, <1>4
<1>12. Shape(deltas', snapshots', head + 1)
  BY <1>7, <1>9, <1>10, <1>11 DEF Shape
<1>13. head > 0 => snapshots'[1] = snapshots[1]
  BY <1>1, <1>3
<1>14. Longer(deltas, snapshots, head, deltas', snapshots', head + 1)
  BY <1>1, <1>2, <1>7, <1>13 DEF Longer
<1>15. QED
  BY <1>1, <1>3, <1>8, <1>12, <1>14

(* What the request appended is right if it had loaded its base. *)
LEMMA InsertRight ==
    ASSUME SessionInv, SessionInv', Content, NEW s \in Slots, slot[s].at = "insert", Inserts(s), ~Misapplies(s)
    PROVE  Right(deltas', snapshots', head + 1, slot[s].doc)
<1> DEFINE n == head + 1
<1>1. SUFFICES ASSUME Straight(deltas', n) PROVE slot[s].doc = ContentsOf(deltas', snapshots', n)
  BY DEF Right
<1>2. /\ Longer(deltas, snapshots, head, deltas', snapshots', n) /\ deltas'[n] = RowOf(s)
      /\ DOMAIN deltas' = 1 .. n /\ Log(deltas') /\ TargetsBefore(deltas') /\ head \in Nat /\ n \in DOMAIN deltas'
  BY InsertShape, ContentFacts DEF Shape, SessionInv, Tables
<1>3. /\ NextVersion(s) = n
      /\ New(slot[s]) => head = 0
      /\ ~New(slot[s]) => head > 0 /\ slot[s].base = head
  BY InsertAtHead DEF Inserts
<1>4. RequestOK(slot[s], blobs, requests) /\ RequestRight(slot[s], deltas, snapshots, head)
  BY ContentFacts
<1>5. CASE New(slot[s])
  <2>1. deltas'[n].kind = "create" /\ snapshots'[n] = slot[s].doc
    BY <1>2, <1>3, <1>5 DEF RowOf, CreateRow, New, Inserts, With
  <2>2. ContentsOf(deltas', snapshots', n) = snapshots'[n]
    BY <1>2, <2>1, ContentsStep
  <2>3. QED
    BY <2>1, <2>2
<1>6. CASE slot[s].kind = "apply"
  <2>1. deltas'[n].kind = "apply" /\ deltas'[n].batch = slot[s].arg /\ head > 0 /\ slot[s].base = head
    BY <1>2, <1>3, <1>6 DEF RowOf, ApplyRow, New
  <2>2. ContentsOf(deltas', snapshots', n) = Append(ContentsOf(deltas', snapshots', n - 1), slot[s].arg)
    <3> HIDE DEF n
    <3>1. /\ Log(deltas') /\ TargetsBefore(deltas') /\ n \in DOMAIN deltas'
          /\ deltas'[n].kind = "apply" /\ deltas'[n].batch = slot[s].arg
      BY <1>2, <2>1
    <3>2. PICK D, S, b : D = deltas' /\ S = snapshots' /\ b = slot[s].arg
      OBVIOUS
    <3>3. Log(D) /\ TargetsBefore(D) /\ n \in DOMAIN D /\ D[n].kind = "apply" /\ D[n].batch = b
      BY <3>1, <3>2
    <3>4. ContentsOf(D, S, n) = Append(ContentsOf(D, S, n - 1), D[n].batch)
      BY <3>3, ContentsStep
    <3>5. QED
      BY <3>2, <3>3, <3>4
  <2>3. n \in Nat /\ head \in 1 .. n /\ head \in 1 .. head /\ n - 1 = head
    BY <1>2, <2>1
  <2>4. Straight(deltas', head)
    BY <1>1, <2>3, StraightPrefix
  <2>5. Straight(deltas, head) /\ ContentsOf(deltas', snapshots', head) = ContentsOf(deltas, snapshots, head)
    BY <1>2, <2>3, <2>4, SameContents
  <2>6. slot[s].doc = Append(ContentsOf(deltas, snapshots, head), slot[s].arg)
    BY <1>4, <1>6, <2>1, <2>5 DEF RequestRight, Misapplies
  <2>7. QED
    BY <2>2, <2>3, <2>5, <2>6
<1>7. CASE slot[s].kind = "rollback"
  <2>1. deltas'[n].kind = "rollback" /\ n \in 2 .. n
    BY <1>2, <1>3, <1>7 DEF RowOf, RollbackRow, New
  <2>2. QED
    BY <1>1, <2>1 DEF Straight
<1>8. QED
  BY <1>4, <1>5, <1>6, <1>7 DEF RequestOK, Writes, New

(* A row is added to the version that was loaded, without a load() being       *)
(* overtaken.                                                                  *)
LEMMA ContentInsert ==
    ASSUME SessionInv, SessionInv', Content, NEW s \in Slots, InsertCommit(s), ~overtaken', ~misapplied'
    PROVE  Content'
<1>1. slot[s].at = "insert" /\ RequestOK(slot[s], blobs, requests)
  BY RequestFacts DEF InsertCommit, At
<1>2. CASE Answered(s) /\ UNCHANGED <<dbVars, blobs, cache, requests, histVars, faults, arrivals>>
  BY <1>2, ContentAnswered DEF dbVars, Content
<1>3. CASE /\ Inserts(s) /\ Others(s) /\ slot'[s] \in Request /\ Kept(slot'[s], slot[s])
           /\ slot'[s].doc = slot[s].doc /\ slot'[s].version = NextVersion(s)
           /\ slot'[s].at = IF slot[s].kind = "apply" THEN "refs" ELSE "save"
  <2>1. /\ head' = head + 1 /\ Shape(deltas', snapshots', head')
        /\ Longer(deltas, snapshots, head, deltas', snapshots', head')
        /\ Right(deltas', snapshots', head', slot[s].doc)
    <3>1. ~Misapplies(s)
      BY <1>3 DEF Inserts
    <3>2. QED
      BY <1>1, <1>3, <3>1, InsertShape, InsertRight
  <2>2. /\ NextVersion(s) = head' /\ head \in Nat
        /\ New(slot[s]) => head = 0
        /\ ~New(slot[s]) => head > 0 /\ slot[s].base = head
    BY <1>1, <1>3, <2>1, InsertAtHead DEF Inserts
  <2>3. \A v \in DOMAIN snapshots' : Right(deltas', snapshots', v, snapshots'[v])
    <3>1. SUFFICES ASSUME NEW v \in DOMAIN snapshots' PROVE Right(deltas', snapshots', v, snapshots'[v])
      OBVIOUS
    <3>2. CASE New(slot[s]) /\ v = head'
      <4>1. snapshots'[v] = slot[s].doc
        BY <1>3, <2>2, <3>2 DEF Inserts, With
      <4>2. QED
        BY <2>1, <3>2, <4>1
    <3>3. CASE ~(New(slot[s]) /\ v = head')
      <4>1. v \in DOMAIN snapshots /\ snapshots'[v] = snapshots[v]
        BY <1>3, <2>2, <3>3 DEF Inserts, With
      <4>2. v \in 1 .. head /\ Right(deltas, snapshots, v, snapshots[v])
        BY <4>1, ContentFacts DEF Content
      <4>3. QED
        BY <2>1, <4>1, <4>2, RightStays
    <3>4. QED
      BY <3>2, <3>3
  <2>4. EntryRight(cache', deltas', snapshots', head')
    <3>1. SUFFICES ASSUME cache # NoEntry
                   PROVE  cache.version <= head' /\ Right(deltas', snapshots', cache.version, cache.doc)
      BY <1>3 DEF EntryRight, Inserts
    <3>2. cache.version \in Nat \ {0} /\ cache.version <= head /\ Right(deltas, snapshots, cache.version, cache.doc)
      BY <3>1 DEF Content, EntryRight, SessionInv, Tables
    <3>3. cache.version \in 1 .. head /\ cache.version <= head'
      BY <2>1, <2>2, <3>2
    <3>4. QED
      BY <2>1, <3>2, <3>3, RightStays
  <2>5. \A t \in Slots : RequestRight(slot'[t], deltas', snapshots', head')
    <3>1. RequestRight(slot'[s], deltas', snapshots', head')
      BY <1>3, <2>1, <2>2 DEF RequestRight, Holds, Kept, New
    <3>2. ASSUME NEW t \in Slots, t # s PROVE RequestRight(slot'[t], deltas', snapshots', head')
      <4>1. /\ slot'[t] = slot[t] /\ RequestOK(slot[t], blobs, requests)
            /\ RequestRight(slot[t], deltas, snapshots, head)
        BY <1>3, <3>2, ContentFacts DEF Others
      <4>2. slot[t].at = "since" /\ slot[t].doc = NoDoc => head' = 0 \/ snapshots'[1] = <<>>
        <5>1. SUFFICES ASSUME slot[t].at = "since", slot[t].doc = NoDoc PROVE snapshots'[1] = <<>>
          OBVIOUS
        <5>2. CASE New(slot[s])
          <6>1. ~Overtakes(s)
            BY <1>3 DEF Inserts
          <6>2. slot[s].doc = <<>>
            BY <5>1, <5>2, <6>1 DEF Overtakes, At, New
          <6>3. snapshots'[1] = slot[s].doc
            BY <1>3, <2>1, <2>2, <5>2 DEF Inserts, With
          <6>4. QED
            BY <6>2, <6>3
        <5>3. CASE ~New(slot[s])
          BY <1>3, <2>2, <4>1, <5>1, <5>3 DEF Inserts, RequestRight
        <5>4. QED
          BY <5>2, <5>3
      <4>3. QED
        BY <2>1, <4>1, <4>2, RequestRightStays
    <3>3. QED
      BY <3>1, <3>2
  <2>6. QED
    BY <2>1, <2>3, <2>4, <2>5 DEF Content
<1>4. QED
  BY <1>2, <1>3, InsertCases

(* A request goes on with the version it holds, or ends. *)
LEMMA ContentOn ==
    ASSUME SessionInv, Content, NEW s \in Slots,
           \/ CommitRefs(s) \/ SaveCache(s) \/ CheckThreshold(s) \/ SnapshotRequest(s) \/ WriteBlob(s)
           \/ PinSnapshot(s) \/ AnswerRead(s) \/ Crash(s)
    PROVE  Content'
<1>0. RequestRight(slot[s], deltas, snapshots, head) /\ RequestOK(slot[s], blobs, requests)
  BY ContentFacts
<1>1. UNCHANGED <<deltas, snapshots>>
  BY DEF CommitRefs, SaveCache, CheckThreshold, SnapshotRequest, WriteBlob, PinSnapshot, AnswerRead, Crash, dbVars
<1>2. EntryRight(cache', deltas, snapshots, head)
  <2>1. CASE UNCHANGED cache
    BY <2>1 DEF Content
  <2>2. CASE SaveCache(s)
    BY <2>2, CacheRight DEF SaveCache, At, Content
  <2>3. QED
    BY <2>1, <2>2 DEF CommitRefs, CheckThreshold, SnapshotRequest, WriteBlob, PinSnapshot, AnswerRead, Crash
<1>3. CASE Answered(s)
  BY <1>1, <1>2, <1>3, ContentAnswered
<1>4. ASSUME NEW to \in {"save", "undo", "threshold", "blob", "pin", "record"}, Moved(s, to),
             slot[s].at \in {"refs", "save", "threshold", "loaded", "blob", "pin"}, New(slot[s]) => slot[s].at # "pin"
      PROVE  Content'
  <2>1. Others(s) /\ slot'[s].at = to /\ Kept(slot'[s], slot[s]) /\ SameDoc(slot'[s], slot[s])
    BY <1>4, MovedOne DEF Ats
  <2>2. RequestRight(slot'[s], deltas, snapshots, head)
    BY <1>0, <1>4, <2>1 DEF RequestRight, Holds, New, Kept, SameDoc
  <2>3. QED
    BY <1>1, <1>2, <2>1, <2>2, ContentQuiet
<1>5. CASE CommitRefs(s)
  BY <1>4, <1>5 DEF CommitRefs, At
<1>6. CASE SaveCache(s)
  BY <1>3, <1>4, <1>6 DEF SaveCache, At
<1>7. CASE CheckThreshold(s)
  BY <1>3, <1>4, <1>7 DEF CheckThreshold, At
<1>8. CASE SnapshotRequest(s)
  BY <1>3, <1>4, <1>8 DEF SnapshotRequest, At
<1>9. CASE WriteBlob(s)
  BY <1>4, <1>9 DEF WriteBlob, At
<1>10. CASE PinSnapshot(s)
  <2>1. slot[s].at = "pin" /\ (Answered(s) \/ Moved(s, AfterPin(s)))
    BY <1>10 DEF PinSnapshot, At, PinFailed
  <2>2. CASE ~New(slot[s]) /\ Moved(s, AfterPin(s))
    <3>1. AfterPin(s) = "record"
      BY <2>2 DEF AfterPin, New
    <3>2. QED
      BY <1>4, <2>1, <2>2, <3>1
  <2>3. CASE New(slot[s]) /\ Moved(s, AfterPin(s))
    <3>1. AfterPin(s) = "append" /\ "append" \in Ats
      BY <2>3 DEF AfterPin, New, Ats
    <3>2. Others(s) /\ slot'[s].at = "append" /\ Kept(slot'[s], slot[s]) /\ SameDoc(slot'[s], slot[s])
      BY <2>3, <3>1, MovedOne
    <3>3. RequestRight(slot'[s], deltas, snapshots, head)
      BY <2>3, <3>2 DEF RequestRight, Holds, New, Kept
    <3>4. QED
      BY <1>1, <1>2, <3>2, <3>3, ContentQuiet
  <2>4. QED
    BY <1>3, <2>1, <2>2, <2>3
<1>11. QED
  BY <1>3, <1>5, <1>6, <1>7, <1>8, <1>9, <1>10 DEF AnswerRead, Crash

(* Log and restore points that say the same as before. *)
LEMMA ContentSame ==
    ASSUME SessionInv, SessionInv', Content, NEW s \in Slots, Answered(s), UNCHANGED cache,
           DOMAIN deltas' = DOMAIN deltas, \A v \in DOMAIN deltas : deltas'[v] = deltas[v],
           DOMAIN snapshots \subseteq DOMAIN snapshots', DOMAIN snapshots' \subseteq DOMAIN deltas,
           \A v \in DOMAIN snapshots' : Right(deltas, snapshots, v, snapshots'[v]),
           head > 0 => snapshots'[1] = snapshots[1]
    PROVE  Content'
<1>1. /\ head \in Nat /\ DOMAIN deltas = 1 .. head /\ Log(deltas) /\ TargetsBefore(deltas)
      /\ \A v \in 1 .. head : deltas[v].kind = "create" <=> v = 1
      /\ head > 0 => 1 \in DOMAIN snapshots
  BY ContentFacts DEF Content, Shape
<1>2. head' = head
  BY DEF head, Newest
<1>3. Longer(deltas, snapshots, head, deltas', snapshots', head)
  BY <1>1 DEF Longer
<1>4. Shape(deltas', snapshots', head)
  BY <1>1 DEF Shape, TargetsBefore
<1>5. \A v \in DOMAIN snapshots' : Right(deltas', snapshots', v, snapshots'[v])
  BY <1>1, <1>3, RightStays
<1>6. EntryRight(cache', deltas', snapshots', head)
  <2>1. SUFFICES ASSUME cache # NoEntry PROVE cache.version <= head /\ Right(deltas', snapshots', cache.version, cache.doc)
    BY DEF EntryRight
  <2>2. /\ cache.version \in Nat \ {0} /\ cache.version <= head /\ cache.version \in 1 .. head
        /\ Right(deltas, snapshots, cache.version, cache.doc)
    BY <1>1, <2>1 DEF Content, EntryRight, SessionInv, Tables
  <2>3. QED
    BY <1>3, <2>2, RightStays
<1>7. \A t \in Slots : RequestRight(slot'[t], deltas', snapshots', head)
  <2>1. Others(s) /\ slot'[s] = Idle
    BY AnsweredOne
  <2>2. RequestRight(Idle, deltas', snapshots', head)
    BY DEF RequestRight, Idle, Holds
  <2>3. ASSUME NEW t \in Slots, t # s PROVE RequestRight(slot'[t], deltas', snapshots', head)
    <3>1. /\ slot'[t] = slot[t] /\ RequestOK(slot[t], blobs, requests)
          /\ RequestRight(slot[t], deltas, snapshots, head)
      BY <2>1, <2>3, ContentFacts DEF Others
    <3>2. slot[t].at = "since" /\ slot[t].doc = NoDoc => head = 0 \/ snapshots'[1] = <<>>
      BY <1>1, <3>1 DEF RequestRight
    <3>3. QED
      BY <1>3, <3>1, <3>2, RequestRightStays
  <2>4. QED
    BY <2>1, <2>2, <2>3
<1>8. QED
  BY <1>2, <1>4, <1>5, <1>6, <1>7 DEF Content

(* A row that is not removed stays. *)
LEMMA ContentUndo ==
    ASSUME SessionInv, SessionInv', Content, NEW s \in Slots, UndoAppend(s), ~removed'
    PROVE  Content'
<1>1. Answered(s) /\ UNCHANGED <<cache, snapshots>>
  BY DEF UndoAppend
<1>2. DOMAIN deltas' = DOMAIN deltas /\ \A v \in DOMAIN deltas : deltas'[v] = deltas[v]
  BY DEF UndoAppend
<1>3. /\ DOMAIN snapshots' \subseteq DOMAIN deltas
      /\ \A v \in DOMAIN snapshots' : Right(deltas, snapshots, v, snapshots'[v])
  BY <1>1, ContentFacts DEF Content
<1>4. QED
  BY <1>1, <1>2, <1>3, ContentSame

(* A restore point records the content of its version; that of the first      *)
(* version stays as it is.                                                    *)
LEMMA ContentRecord ==
    ASSUME SessionInv, SessionInv', Content, NEW s \in Slots, RecordSnapshot(s)
    PROVE  Content'
<1> DEFINE v == slot[s].version
           d == slot[s].doc
<1>1. Answered(s) /\ UNCHANGED <<cache, deltas>> /\ slot[s].at = "record"
  BY DEF RecordSnapshot, At
<1>2. DOMAIN snapshots' = DOMAIN snapshots \cup {v} /\ \A w \in DOMAIN snapshots' : snapshots'[w] = IF w = v THEN d ELSE snapshots[w]
  BY DEF RecordSnapshot, With
<1>3. /\ head \in Nat /\ DOMAIN deltas = 1 .. head /\ Log(deltas) /\ TargetsBefore(deltas)
      /\ \A w \in 1 .. head : deltas[w].kind = "create" <=> w = 1
      /\ DOMAIN snapshots \subseteq 1 .. head /\ (head > 0 => 1 \in DOMAIN snapshots)
  BY ContentFacts DEF Content, Shape
<1>4. v \in 1 .. head /\ Right(deltas, snapshots, v, d)
  BY <1>1, <1>3, ContentFacts DEF RequestRight, RequestOK, Holds, New
<1>5. \A w \in DOMAIN snapshots' : Right(deltas, snapshots, w, snapshots'[w])
  BY <1>2, <1>4 DEF Content
<1>6. head > 0 => snapshots'[1] = snapshots[1]
  <2>1. SUFFICES ASSUME head > 0, v = 1 PROVE d = snapshots[1]
    BY <1>2, <1>3
  <2>2. Straight(deltas, 1)
    BY <1>3, <2>1 DEF Straight
  <2>3. d = ContentsOf(deltas, snapshots, 1)
    BY <1>4, <2>1, <2>2 DEF Right
  <2>4. ContentsOf(deltas, snapshots, 1) = snapshots[1]
    <3>1. 1 \in DOMAIN deltas /\ deltas[1].kind = "create"
      BY <1>3, <2>1
    <3>2. QED
      BY <1>3, <3>1, ContentsStep
  <2>5. QED
    BY <2>3, <2>4
<1>7. DOMAIN snapshots \subseteq DOMAIN snapshots' /\ DOMAIN snapshots' \subseteq DOMAIN deltas
  BY <1>2, <1>3, <1>4
<1>8. QED
  BY <1>1, <1>5, <1>6, <1>7, ContentSame

(* One step keeps the content of every version. *)
LEMMA ContentStep ==
    ASSUME SessionInv, SessionInv', ContentInv, [Next]_vars
    PROVE  ContentInv'
<1>1. CASE UNCHANGED vars
  <2>1. UNCHANGED <<deltas, snapshots, cache, slot, removed, overtaken, misapplied>>
    BY <1>1 DEF vars, dbVars, histVars
  <2>2. head' = head
    BY <2>1 DEF head
  <2>3. QED
    BY <2>1, <2>2 DEF ContentInv, Calm, Content
<1>2. CASE Next
  <2>1. PICK s \in Slots : ArriveAny(s) \/ Step(s) \/ Crash(s)
    BY <1>2 DEF Next
  <2>2. SUFFICES ASSUME ~removed', ~overtaken', ~misapplied' PROVE Content'
    BY DEF ContentInv, Calm
  <2>3. Calm
    <3>1. CASE UNCHANGED <<removed, overtaken, misapplied>>
      BY <2>2, <3>1 DEF Calm
    <3>2. CASE UndoAppend(s)
      <4>1. ~overtaken /\ ~misapplied /\ (removed' = removed \/ removed' = (removed \/ head = slot[s].version))
        BY <2>2, <3>2 DEF UndoAppend
      <4>2. ~removed
        BY <2>2, <4>1
      <4>3. QED
        BY <4>1, <4>2 DEF Calm
    <3>3. CASE InsertCommit(s)
      BY <2>2, <3>3 DEF InsertCommit, Calm
    <3>4. ArriveAny(s) \/ Crash(s) => UNCHANGED <<removed, overtaken, misapplied>>
      BY DEF ArriveAny, Arrive, Crash, histVars
    <3>5. LoadCached(s) \/ LoadMissed(s) \/ LoadDurable(s) \/ LoadReplay(s) \/ LoadWriteBack(s)
            => UNCHANGED <<removed, overtaken, misapplied>>
      BY DEF LoadCached, LoadMissed, LoadDurable, LoadReplay, LoadWriteBack, histVars
    <3>6. CreateBlob(s) \/ ApplyCheck(s) \/ RollbackBuild(s) \/ RollbackHead(s) \/ InsertBegin(s) \/ CommitRefs(s)
            => UNCHANGED <<removed, overtaken, misapplied>>
      BY DEF CreateBlob, ApplyCheck, RollbackBuild, RollbackHead, InsertBegin, CommitRefs, histVars
    <3>7. SaveCache(s) \/ CheckThreshold(s) \/ SnapshotRequest(s) \/ WriteBlob(s) \/ PinSnapshot(s)
             \/ RecordSnapshot(s) \/ AnswerRead(s)
            => UNCHANGED <<removed, overtaken, misapplied>>
      BY DEF SaveCache, CheckThreshold, SnapshotRequest, WriteBlob, PinSnapshot, RecordSnapshot, AnswerRead, histVars
    <3>8. QED
      BY <2>1, <3>1, <3>2, <3>3, <3>4, <3>5, <3>6, <3>7 DEF Step
  <2>4. Content
    BY <2>3 DEF ContentInv
  <2>5. QED
    BY <2>1, <2>2, <2>4, ContentArrive, ContentLoad, ContentReplay, ContentWriteBack, ContentPrepare, ContentInsert,
       ContentUndo, ContentOn, ContentRecord DEF Step
<1>3. QED
  BY <1>1, <1>2

(* An empty log has nothing to get wrong. *)
LEMMA ContentInit == Init => ContentInv
<1> SUFFICES ASSUME Init PROVE Content
  BY DEF ContentInv
<1>1. DOMAIN deltas = {} /\ DOMAIN snapshots = {} /\ cache = NoEntry /\ head = 0
  BY DEF Init, head, Newest
<1>2. Shape(deltas, snapshots, head)
  BY <1>1 DEF Shape, TargetsBefore
<1>3. \A s \in Slots : RequestRight(slot[s], deltas, snapshots, head)
  BY DEF Init, Idle, RequestRight, Holds
<1>4. QED
  BY <1>1, <1>2, <1>3 DEF Content, EntryRight

(* The invariant behind the content of every version. *)
THEOREM ContentCorrect == Spec => []ContentInv
<1>1. SessionInv /\ SessionInv' /\ ContentInv /\ [Next]_vars => ContentInv'
  BY ContentStep
<1>2. QED
  BY <1>1, ContentInit, SessionCorrect, PTL DEF Spec

(* Until the first rollback the log is straight. *)
LEMMA ReplayableStraight ==
    ASSUME SessionInv, Content, NEW v \in 1 .. head, Replayable(v)
    PROVE  Straight(deltas, v)
<1>1. /\ head \in Nat /\ DOMAIN deltas = 1 .. head /\ Log(deltas) /\ TargetsBefore(deltas)
      /\ \A w \in 1 .. head : deltas[w].kind = "create" <=> w = 1
  BY HeadOne DEF SessionInv, Tables, Content, Shape
<1>2. \A w \in 1 .. v : deltas[w].kind # "rollback"
  BY <1>1 DEF Replayable, Rollbacks
<1>3. \A w \in 2 .. v : deltas[w].kind = "apply"
  <2>1. \A w \in DOMAIN deltas : deltas[w].kind \in {"create", "apply", "rollback"}
    BY <1>1 DEF Log, Row
  <2>2. QED
    BY <1>1, <1>2, <2>1
<1>4. QED
  BY <1>1, <1>3 DEF Straight

(* Unless a row was compensated, a load() overtaken by the creation or a row  *)
(* appended to a version that its request had not loaded, what sessions load, *)
(* cache, record and clone is the content that the history gives its version, *)
(* for every version before the first rollback: whatever base versions        *)
(* clients name, whatever replicas overwrite the cache in whatever order, and *)
(* wherever they fail.                                                        *)
THEOREM ContentStaysFaithful == Spec => []ContentFaithful
<1>1. ASSUME SessionInv, ContentInv PROVE ContentFaithful
  <2>1. SUFFICES ASSUME ~removed, ~overtaken, ~misapplied
                 PROVE  /\ \A v \in DOMAIN snapshots : Replayable(v) => snapshots[v] = Contents(v)
                        /\ cache /= NoEntry /\ Replayable(cache.version) => cache.doc = Contents(cache.version)
                        /\ \A s \in Slots :
                              slot[s].at \in {"writeback", "loaded", "refs", "save", "blob", "record"}
                                /\ slot[s].version > 0 /\ Replayable(slot[s].version)
                                => slot[s].doc = Contents(slot[s].version)
    BY DEF ContentFaithful
  <2>2. Content
    BY <1>1, <2>1 DEF ContentInv, Calm
  <2>3. ASSUME NEW v \in 1 .. head, NEW d, Right(deltas, snapshots, v, d), Replayable(v) PROVE d = Contents(v)
    BY <1>1, <2>2, <2>3, ReplayableStraight, SameOperators DEF Right
  <2>4. \A v \in DOMAIN snapshots : v \in 1 .. head /\ Right(deltas, snapshots, v, snapshots[v])
    BY <2>2 DEF Content, Shape
  <2>5. cache # NoEntry => cache.version \in 1 .. head /\ Right(deltas, snapshots, cache.version, cache.doc)
    BY <1>1, <2>2, HeadOne DEF Content, EntryRight, SessionInv, Tables
  <2>6. \A s \in Slots : slot[s].at \in {"writeback", "loaded", "refs", "save", "blob", "record"} /\ slot[s].version > 0
                            => slot[s].version \in 1 .. head /\ Right(deltas, snapshots, slot[s].version, slot[s].doc)
    BY <1>1, <2>2, ContentFacts DEF RequestRight, Holds
  <2>7. QED
    BY <2>3, <2>4, <2>5, <2>6
<1>2. QED
  BY <1>1, SessionCorrect, ContentCorrect, PTL
================================================================================
