----------------------------- MODULE CasTenantProof -----------------------------
(* Proofs about CasTenant, for every set of nodes, child lists and bounds.    *)
EXTENDS CasTenant, FiniteSetTheorems, FunctionTheorems, TLAPS

(* Every duration a caller can obtain after clamping is a positive number.    *)
LEMMA LeaseDurationsPositive == \A d \in LeaseDurations : d \in Nat /\ d > 0
BY TimeAssumption DEF LeaseDurations, clampLeaseDuration, Min2, Max2

(* A node's edge rows are finitely many, start at the node and lead to its    *)
(* children.                                                                  *)
LEMMA EdgesOfFacts ==
    ASSUME NEW h \in Hash
    PROVE  /\ IsFiniteSet(EdgesOf(h))
           /\ EdgesOf(h) \subseteq Hash \X Nat \X Hash
           /\ \A e \in EdgesOf(h) : e[1] = h /\ e[3] \in Children(h)
           /\ \A c \in Children(h) : \E e \in EdgesOf(h) : e[3] = c
           /\ Children(h) \subseteq Hash
           /\ h \notin Children(h)
<1>1. Refs[h] \in Seq(Hash)
  BY HashAssumption
<1>2. PICK n \in Nat : DOMAIN Refs[h] = 1 .. n
  BY <1>1
<1>3. \A i \in 1 .. n : Refs[h][i] \in Hash
  BY <1>1, <1>2
<1>4. IsFiniteSet(1 .. n)
  BY <1>2, FS_Interval
<1>5. IsFiniteSet(EdgesOf(h))
  <2> DEFINE f == [i \in 1 .. n |-> <<h, i, Refs[h][i]>>]
  <2>1. f \in [1 .. n -> EdgesOf(h)]
    BY <1>2 DEF EdgesOf
  <2>2. \A e \in EdgesOf(h) : \E i \in 1 .. n : f[i] = e
    BY <1>2 DEF EdgesOf
  <2> HIDE DEF f
  <2>3. f \in Surjection(1 .. n, EdgesOf(h))
    BY <2>1, <2>2, Fun_IsSurj
  <2> QED
    BY <2>3, <1>4, FS_Surjection
<1>6. EdgesOf(h) \subseteq Hash \X Nat \X Hash
  BY <1>2, <1>3 DEF EdgesOf
<1>7. \A e \in EdgesOf(h) : e[1] = h /\ e[3] \in Children(h)
  BY DEF EdgesOf, Children
<1>8. ASSUME NEW c \in Children(h)
      PROVE  \E e \in EdgesOf(h) : e[3] = c
  <2>1. PICK i \in DOMAIN Refs[h] : c = Refs[h][i]
    BY DEF Children
  <2>2. <<h, i, c>> \in EdgesOf(h)
    BY <2>1 DEF EdgesOf
  <2> QED
    BY <2>2
<1>9. Children(h) \subseteq Hash
  BY <1>2, <1>3 DEF Children
<1>10. h \notin Children(h)
  BY HashAssumption DEF Children
<1> QED
  BY <1>5, <1>6, <1>7, <1>8, <1>9, <1>10

(* The edge table is finite, so its occurrence counts are numbers.            *)
LEMMA EdgesFinite ==
    ASSUME TypeOK, EdgesExact
    PROVE  IsFiniteSet(edges)
<1> DEFINE f == [p \in rows |-> EdgesOf(p)]
<1> DEFINE T == {EdgesOf(p) : p \in rows}
<1>1. rows \subseteq Hash
  BY DEF TypeOK
<1>2. IsFiniteSet(rows)
  BY <1>1, HashAssumption, FS_Subset
<1>3. f \in [rows -> T]
  OBVIOUS
<1>4. \A t \in T : \E p \in rows : f[p] = t
  OBVIOUS
<1>5. \A S \in T : IsFiniteSet(S)
  BY <1>1, EdgesOfFacts
<1>6. edges = UNION T
  BY DEF EdgesExact
<1> HIDE DEF f, T
<1>7. f \in Surjection(rows, T)
  BY <1>3, <1>4, Fun_IsSurj
<1>8. IsFiniteSet(T)
  BY <1>7, <1>2, FS_Surjection
<1> QED
  BY <1>5, <1>6, <1>8, FS_UNION

(* Inserting a node keeps edges and child counts exact: commitNewNode adds    *)
(* one edge row and one increment per occurrence.                             *)
LEMMA InsertKeepsCounts ==
    ASSUME TypeOK, EdgesExact, ChildRefsExact,
           NEW h \in Hash, h \notin rows, Children(h) \subseteq rows,
           NEW d, commitNewNode(h, d)
    PROVE  EdgesExact' /\ ChildRefsExact' /\ childRefs' \in [Hash -> Nat]
<1>1. rows' = rows \cup {h} /\ edges' = edges \cup EdgesOf(h)
  BY DEF commitNewNode
<1>2. /\ IsFiniteSet(edges) /\ IsFiniteSet(EdgesOf(h))
      /\ \A e \in EdgesOf(h) : e[1] = h /\ e[3] \in Children(h)
  BY EdgesFinite, EdgesOfFacts
<1>3. \A e \in edges : e[1] \in rows
  BY EdgesOfFacts DEF EdgesExact, TypeOK
<1>4. EdgesExact'
  <2>1. edges' = UNION {EdgesOf(p) : p \in rows'}
    BY <1>1 DEF EdgesExact
  <2>2. \A e \in edges' : e[3] \in rows'
    BY <1>1, <1>2 DEF EdgesExact
  <2> QED
    BY <2>1, <2>2 DEF EdgesExact
<1>5. ASSUME NEW c \in Hash
      PROVE  childRefs'[c] = Cardinality(Incoming(c)') /\ childRefs'[c] \in Nat
  <2> DEFINE new == {e \in EdgesOf(h) : e[3] = c}
  <2> DEFINE old == Incoming(c)
  <2>1. Incoming(c)' = old \cup new
    BY <1>1 DEF Incoming
  <2>2. old \cap new = {}
    BY <1>2, <1>3 DEF Incoming
  <2>3. IsFiniteSet(old) /\ IsFiniteSet(new)
    BY <1>2, FS_Subset DEF Incoming
  <2>4. Cardinality(new) = Occurrences(h, c)
    BY DEF Occurrences
  <2>5. childRefs[c] = Cardinality(old)
    BY DEF ChildRefsExact
  <2>6. c \notin rows => new = {}
    BY <1>2
  <2> HIDE DEF new, old
  <2>8. Cardinality(old) \in Nat /\ Cardinality(new) \in Nat
    BY <2>3, FS_CardinalityType
  <2>10. Cardinality({}) = 0
    BY FS_EmptySet
  <2>11. Cardinality(old \cup new)
            = Cardinality(old) + Cardinality(new) - Cardinality(old \cap new)
    BY <2>3, FS_Union
  <2>7. Cardinality(old \cup new) = Cardinality(old) + Cardinality(new)
    BY <2>2, <2>8, <2>10, <2>11
  <2>9. childRefs'[c] = Cardinality(old) + Cardinality(new)
    <3>0. childRefs'[c] = IF c \in rows THEN childRefs[c] + Occurrences(h, c) ELSE childRefs[c]
      BY DEF commitNewNode
    <3>1. CASE c \in rows
      BY <3>0, <3>1, <2>4, <2>5
    <3>2. CASE c \notin rows
      <4>1. Cardinality(new) = 0
        BY <3>2, <2>6, <2>10
      <4> QED
        BY <3>0, <3>2, <4>1, <2>5, <2>8
    <3> QED
      BY <3>1, <3>2
  <2> QED
    BY <2>1, <2>7, <2>8, <2>9
<1>6. childRefs' = [c \in Hash |-> childRefs'[c]]
  BY DEF commitNewNode
<1> QED
  BY <1>4, <1>5, <1>6 DEF ChildRefsExact

(* Deleting an unreferenced node keeps them exact: commitDeletion takes back  *)
(* every occurrence the node contributed.                                     *)
LEMMA DeleteKeepsCounts ==
    ASSUME TypeOK, EdgesExact, ChildRefsExact,
           NEW h \in rows, childRefs[h] = 0, GcCommitDeletion(h)
    PROVE  EdgesExact' /\ ChildRefsExact' /\ childRefs' \in [Hash -> Nat]
<1>1. rows' = rows \ {h} /\ edges' = {e \in edges : e[1] # h}
  BY DEF GcCommitDeletion
<1>2. IsFiniteSet(edges)
  BY EdgesFinite
<1>3. \A p \in rows : \A e \in EdgesOf(p) : e[1] = p
  BY EdgesOfFacts DEF TypeOK
<1>4. Incoming(h) = {}
  BY <1>2, FS_Subset, FS_EmptySet DEF ChildRefsExact, Incoming, TypeOK
<1>5. EdgesExact'
  <2>1. edges' = UNION {EdgesOf(p) : p \in rows'}
    BY <1>1, <1>3 DEF EdgesExact
  <2>2. \A e \in edges' : e[3] \in rows'
    BY <1>1, <1>4 DEF EdgesExact, Incoming
  <2> QED
    BY <2>1, <2>2 DEF EdgesExact
<1>6. ASSUME NEW c \in Hash
      PROVE  childRefs'[c] = Cardinality(Incoming(c)') /\ childRefs'[c] \in Nat
  <2> DEFINE gone == {e \in edges : e[1] = h /\ e[3] = c}
  <2> DEFINE old == Incoming(c)
  <2>1. Incoming(c)' = old \ gone
    BY <1>1 DEF Incoming
  <2>2. old \cap gone = gone
    BY DEF Incoming
  <2>3. IsFiniteSet(old) /\ IsFiniteSet(gone)
    BY <1>2, FS_Subset DEF Incoming
  <2>5. childRefs[c] = Cardinality(old)
    BY DEF ChildRefsExact
  <2>6. c \notin rows => gone = {}
    BY DEF EdgesExact
  <2>9. childRefs'[c] = IF c \in rows THEN childRefs[c] - Cardinality(gone) ELSE childRefs[c]
    BY DEF GcCommitDeletion
  <2> HIDE DEF gone, old
  <2>7. IsFiniteSet(old \ gone) /\ Cardinality(old \ gone) = Cardinality(old) - Cardinality(gone)
    BY <2>2, <2>3, FS_Difference
  <2>8. /\ Cardinality(old) \in Nat /\ Cardinality(gone) \in Nat
        /\ Cardinality(old \ gone) \in Nat
    BY <2>3, <2>7, FS_CardinalityType
  <2>11. Cardinality({}) = 0
    BY FS_EmptySet
  <2>10. childRefs'[c] = Cardinality(old) - Cardinality(gone)
    <3>1. CASE c \in rows
      BY <3>1, <2>5, <2>9
    <3>2. CASE c \notin rows
      BY <3>2, <2>5, <2>6, <2>8, <2>9, <2>11
    <3> QED
      BY <3>1, <3>2
  <2> QED
    BY <2>1, <2>7, <2>8, <2>10
<1>7. childRefs' = [c \in Hash |-> childRefs'[c]]
  BY DEF GcCommitDeletion
<1> QED
  BY <1>5, <1>6, <1>7 DEF ChildRefsExact

(* A step that leaves rows, edges and counts alone keeps them exact.          *)
LEMMA SameRowsKeepCounts ==
    ASSUME EdgesExact, ChildRefsExact, UNCHANGED <<rows, edges, childRefs>>
    PROVE  EdgesExact' /\ ChildRefsExact'
BY DEF EdgesExact, ChildRefsExact, Incoming

(* A child list that passes the readiness check is all rows.                  *)
LEMMA ReadyChildrenAreRows ==
    ASSUME NEW h \in Hash, ChildrenReady(h)
    PROVE  Children(h) \subseteq rows
BY DEF ChildrenReady, isNodeReady

(* A step that leaves root references and root updates alone and removes      *)
(* nothing keeps rooted nodes ready and what the update under the gate has    *)
(* found; a collection starts only when there is no such update.              *)
LEMMA BusyStep ==
    ASSUME TypeOK, RootedReady, UpdatesChecked, UNCHANGED <<rootRefs, rootVars>>,
           rows \subseteq rows', objects \subseteq objects',
           faults' \in Nat, faults <= faults',
           gc'.phase = "idle" \/ gc' = gc \/ command[instance] = NoCommand
    PROVE  CommandTypes' /\ RootedReady' /\ UpdatesChecked'
<1>1. rootRefs' = rootRefs /\ instance' = instance /\ command' = command /\ exposed' = exposed
  BY DEF rootVars
<1>2. RootedReady' /\ CommandTypes'
  BY <1>1 DEF RootedReady, firmRoots, TypeOK, CommandTypes
<1>3. instance' <= faults'
  BY <1>1, BoundAssumption DEF TypeOK, CommandTypes, UpdatesChecked
<1>4. command'[instance'] # NoCommand => gc'.phase = "idle"
  BY <1>1 DEF UpdatesChecked
<1> QED
  BY <1>1, <1>2, <1>3, <1>4 DEF UpdatesChecked, Acquired

(* The same for the steps that also leave collection and failures alone.      *)
LEMMA QuietStep ==
    ASSUME StoreInv, UNCHANGED <<rootRefs, rootVars, gc, faults>>,
           rows \subseteq rows', objects \subseteq objects'
    PROVE  CommandTypes' /\ RootedReady' /\ UpdatesChecked' /\ UNCHANGED firmRoots
<1>1. faults' \in Nat /\ faults <= faults'
  BY BoundAssumption DEF StoreInv, TypeOK
<1>2. UNCHANGED <<rootRefs, rootVars>> /\ gc' = gc
  OBVIOUS
<1>3. UNCHANGED firmRoots
  BY DEF firmRoots, rootVars
<1> QED
  BY <1>1, <1>2, <1>3, BusyStep DEF StoreInv

(* The inductive invariant holds initially.                                   *)
LEMMA StoreInvInit == Init => StoreInv
<1> SUFFICES ASSUME Init PROVE StoreInv
  OBVIOUS
<1>1. TypeOK
  BY BoundAssumption DEF Init, TypeOK, CommandTypes, NoSession, NoUpload, NoGc
<1>2. EdgesExact
  BY DEF Init, EdgesExact
<1>3. ChildRefsExact
  <2>1. \A h \in Hash : Incoming(h) = {}
    BY DEF Init, Incoming
  <2> QED
    BY <2>1, FS_EmptySet DEF Init, ChildRefsExact
<1>4. RootedReady /\ GcFresh /\ LeasesPositive
  BY DEF Init, RootedReady, firmRoots, GcFresh, LeasesPositive, NoUpload, NoSession, NoGc
<1>5. UpdatesChecked
  BY BoundAssumption DEF Init, UpdatesChecked, NoCommand, NoGc, Acquired
<1> QED
  BY <1>1, <1>2, <1>3, <1>4, <1>5 DEF StoreInv

(* A root update under way: the changes it was forwarded with are well formed. *)
LEMMA CommandFacts ==
    ASSUME TypeOK, NEW n \in 0 .. MaxFaults, command[n] # NoCommand
    PROVE  /\ command[n] \in [phase : {"check", "commit"}, change : RootChanges]
           /\ DOMAIN command[n].change \subseteq Hash
           /\ \A h \in DOMAIN command[n].change : command[n].change[h] \in {-1, 1}
<1>1. command[n] \in [phase : {"check", "commit"}, change : RootChanges]
  BY DEF TypeOK, CommandTypes
<1>2. PICK D \in SUBSET Hash : command[n].change \in [D -> {-1, 1}]
  BY <1>1 DEF RootChanges
<1> QED
  BY <1>1, <1>2

(* Moving one update from step to step, or ending it, keeps UpdatesChecked if  *)
(* the update of the live instance reaches its commit only with what it        *)
(* acquires in place.                                                          *)
LEMMA CommandStep ==
    ASSUME TypeOK, UpdatesChecked, NEW n \in 0 .. MaxFaults, NEW c,
           command' = [command EXCEPT ![n] = c],
           UNCHANGED <<rows, objects, gc, instance, exposed>>,
           faults' \in Nat, faults <= faults',
           \/ c = NoCommand
           \/ n = instance /\ gc.phase = "idle"
           \/ command[n] # NoCommand /\ c.change = command[n].change,
           c.phase = "commit" /\ n = instance => Acquired(c) \subseteq rows \cap objects
    PROVE  UpdatesChecked'
<1>1. instance \in 0 .. MaxFaults /\ instance <= faults'
  BY BoundAssumption DEF TypeOK, CommandTypes, UpdatesChecked
<1>2. command'[n] = c /\ \A m \in 0 .. MaxFaults : m # n => command'[m] = command[m]
  BY DEF TypeOK, CommandTypes
<1>3. n > instance => c = NoCommand
  BY <1>1 DEF UpdatesChecked
<1>4. n < instance => Acquired(c) \subseteq exposed
  <2>1. Acquired(NoCommand) = {}
    BY DEF Acquired, NoCommand
  <2> QED
    BY <1>1, <2>1 DEF UpdatesChecked, Acquired
<1>5. command'[instance] # NoCommand => gc.phase = "idle"
  BY <1>1, <1>2 DEF UpdatesChecked
<1>6. command'[instance].phase = "commit" => Acquired(command'[instance]) \subseteq rows \cap objects
  BY <1>1, <1>2 DEF UpdatesChecked
<1>7. ASSUME NEW m \in 0 .. MaxFaults
      PROVE  /\ m < instance => Acquired(command'[m]) \subseteq exposed
             /\ m > instance => command'[m] = NoCommand
  BY <1>1, <1>2, <1>3, <1>4 DEF UpdatesChecked
<1> QED
  BY <1>1, <1>5, <1>6, <1>7 DEF UpdatesChecked, Acquired

(* The commit of an update raises the count of a node that is there, or of an  *)
(* exposed one, and of no node that a collection is about to remove.           *)
LEMMA CommitKeepsReady ==
    ASSUME StoreInv, NEW n \in 0 .. MaxFaults, CommitRootRefs(n)
    PROVE  RootedReady' /\ GcFresh' /\ rootRefs' \in [Hash -> Nat]
<1> DEFINE c == command[n]
<1> USE DEF StoreInv
<1>1. command[n] # NoCommand /\ command[n].phase = "commit"
  BY DEF CommitRootRefs, NoCommand
<1>2. UNCHANGED <<rows, lease, childRefs, objects, gc, exposed>>
  BY DEF CommitRootRefs
<1>3. ASSUME NEW h \in Hash, rootRefs'[h] # rootRefs[h]
      PROVE  /\ h \in DOMAIN c.change /\ h \in rows
             /\ rootRefs'[h] = rootRefs[h] + c.change[h] /\ rootRefs'[h] >= 0
  BY <1>3 DEF CommitRootRefs
<1>4. ASSUME NEW h \in Hash, rootRefs'[h] # rootRefs[h]
      PROVE  rootRefs'[h] \in Nat /\ (h \in Acquired(c) \/ rootRefs[h] > 0)
  <2>1. c.change[h] \in {-1, 1} /\ rootRefs[h] \in Nat
    BY <1>1, <1>3, <1>4, CommandFacts DEF TypeOK, CommandTypes
  <2> QED
    BY <1>3, <1>4, <2>1 DEF Acquired
<1>5. ASSUME NEW h \in Acquired(c), h \notin exposed
      PROVE  h \in rows /\ h \in objects /\ gc.phase = "idle"
  <2>1. n = instance
    BY <1>1, <1>5 DEF UpdatesChecked, TypeOK, CommandTypes
  <2> QED
    BY <1>1, <1>5, <2>1 DEF UpdatesChecked
<1>6. rootRefs' \in [Hash -> Nat]
  <2>1. \A h \in Hash : rootRefs'[h] \in Nat
    BY <1>4 DEF TypeOK, CommandTypes
  <2>2. rootRefs' = [h \in Hash |-> rootRefs'[h]]
    BY DEF CommitRootRefs, TypeOK, CommandTypes
  <2> QED
    BY <2>1, <2>2
<1> HIDE DEF c
<1>7. RootedReady'
  <2>1. ASSUME NEW h \in Hash, h \notin exposed, rootRefs'[h] > 0
        PROVE  h \in rows /\ h \in objects
    <3>1. CASE rootRefs'[h] = rootRefs[h]
      BY <2>1, <3>1 DEF RootedReady, firmRoots
    <3>2. CASE rootRefs'[h] # rootRefs[h]
      BY <1>4, <1>5, <2>1, <3>2 DEF RootedReady, firmRoots
    <3> QED
      BY <3>1, <3>2
  <2> QED
    BY <1>2, <2>1 DEF RootedReady, firmRoots
<1>8. GcFresh'
  <2>1. ASSUME NEW h \in Hash, h \notin exposed, rootRefs[h] = 0, gc.phase = "removed"
        PROVE  rootRefs'[h] = 0
    BY <1>4, <1>5, <2>1
  <2> QED
    BY <1>2, <2>1 DEF GcFresh, firmRoots, TypeOK, CommandTypes
<1> QED
  BY <1>6, <1>7, <1>8

(* No step of a root update, under the gate or after a restart without it,     *)
(* breaks the inductive invariant.                                             *)
LEMMA RootUpdateKeepsInv ==
    ASSUME StoreInv, RootUpdate
    PROVE  StoreInv'
<1> USE DEF StoreInv
<1>1. /\ UNCHANGED <<rows, lease, childRefs, edges, uploadVars, memVars, objects, gc, instance, exposed>>
      /\ faults' \in 0 .. MaxFaults /\ faults <= faults'
  BY BoundAssumption
     DEF RootUpdate, forwardRootRefs, CheckRootRefs, AnswerRootRefs, CommitRootRefs, RootRefsFail,
         rowVars, TypeOK
<1>2. EdgesExact' /\ ChildRefsExact'
  BY <1>1, SameRowsKeepCounts
<1>3. LeasesPositive'
  BY <1>1 DEF LeasesPositive, uploadVars, memVars
<1>4. instance \in 0 .. MaxFaults /\ faults' \in Nat
  BY <1>1, BoundAssumption DEF TypeOK, CommandTypes
<1> DEFINE Cmd == [phase : {"check", "commit"}, change : RootChanges] \cup {NoCommand}
<1>5. ASSUME NEW n \in 0 .. MaxFaults, NEW c \in Cmd, command' = [command EXCEPT ![n] = c],
             rootRefs' \in [Hash -> Nat]
      PROVE  TypeOK'
  <2>1. command' \in [0 .. MaxFaults -> Cmd]
    BY <1>5 DEF TypeOK, CommandTypes
  <2> QED
    BY <1>1, <1>5, <2>1 DEF TypeOK, CommandTypes, uploadVars, memVars
<1>6. ASSUME UNCHANGED rootRefs
      PROVE  RootedReady' /\ GcFresh' /\ rootRefs' \in [Hash -> Nat]
  BY <1>1, <1>6 DEF RootedReady, GcFresh, firmRoots, TypeOK, CommandTypes
<1>7. ASSUME NEW n \in 0 .. MaxFaults, command[n] # NoCommand, NEW p \in {"check", "commit"},
             command' = [command EXCEPT ![n].phase = p]
      PROVE  \E c \in Cmd : /\ command' = [command EXCEPT ![n] = c]
                            /\ c.phase = p /\ c.change = command[n].change
  <2>1. command[n] \in [phase : {"check", "commit"}, change : RootChanges]
    BY <1>7, CommandFacts
  <2>2. [command[n] EXCEPT !.phase = p] \in [phase : {"check", "commit"}, change : RootChanges]
    BY <2>1
  <2> QED
    BY <1>7, <2>1, <2>2
<1>8. ASSUME NEW change \in RootUpdates, forwardRootRefs(change)
      PROVE  StoreInv'
  <2> DEFINE c == [phase |-> "check", change |-> change]
  <2>1. /\ command' = [command EXCEPT ![instance] = c] /\ gc.phase = "idle" /\ UNCHANGED rootRefs
        /\ c.phase = "check" /\ c \in Cmd
    BY <1>8, BoundAssumption DEF forwardRootRefs, GateFree, rowVars
  <2> HIDE DEF c, Cmd
  <2>2. UpdatesChecked'
    BY <1>1, <1>4, <2>1, CommandStep
  <2> QED
    BY <1>2, <1>3, <1>4, <1>5, <1>6, <2>1, <2>2
<1>9. ASSUME NEW n \in 0 .. MaxFaults, AnswerRootRefs(n) \/ RootRefsFail(n) \/ CheckRootRefs(n)
                                      \/ CommitRootRefs(n),
             command' = [command EXCEPT ![n] = NoCommand]
      PROVE  StoreInv'
  <2>1. UpdatesChecked'
    BY <1>1, <1>4, <1>9, CommandStep DEF NoCommand
  <2>2. RootedReady' /\ GcFresh' /\ rootRefs' \in [Hash -> Nat]
    BY <1>6, <1>9, CommitKeepsReady
       DEF AnswerRootRefs, RootRefsFail, CheckRootRefs, rowVars
  <2> QED
    BY <1>2, <1>3, <1>5, <1>9, <2>1, <2>2
<1>10. ASSUME NEW n \in 0 .. MaxFaults, RootRefsFail(n) \/ CommitRootRefs(n),
              command' = [command EXCEPT ![n].phase = "check"]
       PROVE  StoreInv'
  <2>1. command[n] # NoCommand
    BY <1>10 DEF RootRefsFail, CommitRootRefs, NoCommand
  <2>2. PICK c \in Cmd : command' = [command EXCEPT ![n] = c] /\ c.phase = "check"
                          /\ c.change = command[n].change
    BY <1>7, <1>10, <2>1
  <2> HIDE DEF Cmd
  <2>3. UpdatesChecked'
    BY <1>1, <1>4, <2>1, <2>2, CommandStep
  <2>4. RootedReady' /\ GcFresh' /\ rootRefs' \in [Hash -> Nat]
    BY <1>6, <1>10, CommitKeepsReady DEF RootRefsFail, rowVars
  <2> QED
    BY <1>2, <1>3, <1>5, <2>2, <2>3, <2>4
<1>11. ASSUME NEW n \in 0 .. MaxFaults, CheckRootRefs(n)
       PROVE  StoreInv'
  <2>1. /\ command[n] # NoCommand /\ UNCHANGED rootRefs
        /\ command' = [command EXCEPT ![n].phase = "commit"]
        /\ Acquired(command[n]) \subseteq rows \cap objects
    BY <1>11 DEF CheckRootRefs, NoCommand, rowVars, Acquired
  <2>2. PICK c \in Cmd : command' = [command EXCEPT ![n] = c] /\ c.phase = "commit"
                          /\ c.change = command[n].change
    BY <1>7, <2>1
  <2>3. Acquired(c) \subseteq rows \cap objects
    BY <2>1, <2>2 DEF Acquired
  <2> HIDE DEF Cmd
  <2>4. UpdatesChecked'
    BY <1>1, <1>4, <2>1, <2>2, <2>3, CommandStep
  <2> QED
    BY <1>2, <1>3, <1>5, <1>6, <2>1, <2>2, <2>4
<1>12. ASSUME NEW n \in 0 .. MaxFaults, AnswerRootRefs(n) \/ RootRefsFail(n) \/ CommitRootRefs(n)
       PROVE  StoreInv'
  <2>1. \/ command' = [command EXCEPT ![n] = NoCommand]
        \/ /\ RootRefsFail(n) \/ CommitRootRefs(n)
           /\ command' = [command EXCEPT ![n].phase = "check"]
    BY <1>12 DEF AnswerRootRefs, RootRefsFail, CommitRootRefs
  <2> QED
    BY <1>9, <1>10, <1>12, <2>1
<1> HIDE DEF StoreInv
<1> QED
  BY <1>8, <1>11, <1>12 DEF RootUpdate

(* Every operation of the store preserves the inductive invariant.            *)
LEMMA StoreInvStep == StoreInv /\ [Next]_vars => StoreInv'
<1> SUFFICES ASSUME StoreInv, [Next]_vars PROVE StoreInv'
  OBVIOUS
<1> USE DEF StoreInv, rootVars
<1>1. ASSUME NEW h \in Hash, NEW d \in LeaseDurations, LeaseReadyNode(h, d)
      PROVE  StoreInv'
  <2>7. /\ UNCHANGED <<rootRefs, rootVars, gc, faults>>
        /\ rows \subseteq rows' /\ objects \subseteq objects'
    BY <1>1 DEF LeaseReadyNode, RenewReady, uploadVars
  <2>8. CommandTypes' /\ RootedReady' /\ UpdatesChecked' /\ UNCHANGED firmRoots
    BY <2>7, QuietStep
  <2>1. d \in Nat /\ lease' \in [Hash -> Nat]
    BY <1>1, LeaseDurationsPositive
       DEF TypeOK, LeaseReadyNode, RenewReady, nextNodeLease, Max2
  <2>2. TypeOK'
    BY <2>8, <1>1, <2>1, TimeAssumption
       DEF TypeOK, LeaseReadyNode, RenewReady, CacheAfterCheck, uploadVars
  <2>3. EdgesExact' /\ ChildRefsExact'
    BY <1>1, SameRowsKeepCounts DEF LeaseReadyNode, RenewReady
  <2>4. GcFresh' /\ LeasesPositive'
    BY <2>8, <1>1 DEF LeaseReadyNode, RenewReady, GcFresh, LeasesPositive, uploadVars,
         GateFree
  <2> QED
    BY <2>2, <2>3, <2>4, <2>8
<1>2. ASSUME NEW h \in Hash, NEW d \in LeaseDurations, AdoptOrphan(h, d)
      PROVE  StoreInv'
  <2>7. /\ UNCHANGED <<rootRefs, rootVars, gc, faults>>
        /\ rows \subseteq rows' /\ objects \subseteq objects'
    BY <1>2 DEF AdoptOrphan, commitNewNode, NoSession
  <2>8. CommandTypes' /\ RootedReady' /\ UpdatesChecked' /\ UNCHANGED firmRoots
    BY <2>7, QuietStep
  <2>1. d \in Nat
    BY LeaseDurationsPositive
  <2>2. EdgesExact' /\ ChildRefsExact' /\ childRefs' \in [Hash -> Nat]
    BY <1>2, ReadyChildrenAreRows, InsertKeepsCounts DEF AdoptOrphan
  <2>3. TypeOK'
    BY <2>8, <1>2, <2>1, <2>2, EdgesOfFacts, TimeAssumption
       DEF TypeOK, AdoptOrphan, commitNewNode, CacheAfterSet, CacheAfterCheck, NoSession
  <2>4. GcFresh' /\ LeasesPositive'
    BY <2>8, <1>2 DEF TypeOK, AdoptOrphan, commitNewNode, GcFresh, LeasesPositive, NoSession,
         GateFree
  <2> QED
    BY <2>2, <2>3, <2>4, <2>8
<1>3. ASSUME NEW h \in Hash, AdoptOrphanRejected(h)
      PROVE  StoreInv'
  <2>7. /\ UNCHANGED <<rootRefs, rootVars, gc, faults>>
        /\ rows \subseteq rows' /\ objects \subseteq objects'
    BY <1>3 DEF AdoptOrphanRejected, rowVars, uploadVars
  <2>8. CommandTypes' /\ RootedReady' /\ UpdatesChecked' /\ UNCHANGED firmRoots
    BY <2>7, QuietStep
  <2>1. TypeOK'
    BY <2>8, <1>3, TimeAssumption
       DEF TypeOK, AdoptOrphanRejected, CacheAfterCheck, rowVars, uploadVars
  <2>2. EdgesExact' /\ ChildRefsExact'
    BY <1>3, SameRowsKeepCounts DEF AdoptOrphanRejected, rowVars
  <2>3. GcFresh' /\ LeasesPositive'
    BY <2>8, <1>3 DEF AdoptOrphanRejected, GcFresh, LeasesPositive, rowVars, uploadVars
  <2> QED
    BY <2>1, <2>2, <2>3, <2>8
<1>4. ASSUME NEW h \in Hash, NEW d \in LeaseDurations, beginCanonicalNodeLease(h, d)
      PROVE  StoreInv'
  <2>7. /\ UNCHANGED <<rootRefs, rootVars, gc, faults>>
        /\ rows \subseteq rows' /\ objects \subseteq objects'
    BY <1>4 DEF beginCanonicalNodeLease, rowVars
  <2>8. CommandTypes' /\ RootedReady' /\ UpdatesChecked' /\ UNCHANGED firmRoots
    BY <2>7, QuietStep
  <2>1. d \in Nat /\ d > 0
    BY LeaseDurationsPositive
  <2>2. TypeOK'
    BY <2>8, <1>4, <2>1, TimeAssumption DEF TypeOK, beginCanonicalNodeLease, rowVars
  <2>3. EdgesExact' /\ ChildRefsExact'
    BY <1>4, SameRowsKeepCounts DEF beginCanonicalNodeLease, rowVars
  <2>4. GcFresh' /\ LeasesPositive'
    BY <2>8, <1>4, <2>1 DEF TypeOK, beginCanonicalNodeLease, GcFresh, LeasesPositive, rowVars
  <2> QED
    BY <2>2, <2>3, <2>4, <2>8
<1>5. ASSUME NEW h \in Hash, uploadCanonicalNode(h)
      PROVE  StoreInv'
  <2>7. /\ UNCHANGED <<rootRefs, rootVars, gc, faults>>
        /\ rows \subseteq rows' /\ objects \subseteq objects'
    BY <1>5 DEF uploadCanonicalNode, rowVars, uploadVars
  <2>8. CommandTypes' /\ RootedReady' /\ UpdatesChecked' /\ UNCHANGED firmRoots
    BY <2>7, QuietStep
  <2>1. TypeOK'
    BY <2>8, <1>5 DEF TypeOK, uploadCanonicalNode, rowVars, uploadVars
  <2>2. EdgesExact' /\ ChildRefsExact'
    BY <1>5, SameRowsKeepCounts DEF uploadCanonicalNode, rowVars
  <2>3. GcFresh' /\ LeasesPositive'
    BY <2>8, <1>5 DEF TypeOK, uploadCanonicalNode, GcFresh, LeasesPositive, rowVars,
         uploadVars
  <2> QED
    BY <2>1, <2>2, <2>3, <2>8
<1>6. ASSUME NEW h \in Hash, UploadRejected(h)
      PROVE  StoreInv'
  <2>7. /\ UNCHANGED <<rootRefs, rootVars, gc, faults>>
        /\ rows \subseteq rows' /\ objects \subseteq objects'
    BY <1>6 DEF UploadRejected, NoUpload, rowVars, uploadVars
  <2>8. CommandTypes' /\ RootedReady' /\ UpdatesChecked' /\ UNCHANGED firmRoots
    BY <2>7, QuietStep
  <2>1. TypeOK'
    BY <2>8, <1>6 DEF TypeOK, UploadRejected, NoUpload, rowVars, uploadVars
  <2>2. EdgesExact' /\ ChildRefsExact'
    BY <1>6, SameRowsKeepCounts DEF UploadRejected, rowVars
  <2>3. GcFresh' /\ LeasesPositive'
    BY <2>8, <1>6 DEF TypeOK, UploadRejected, GcFresh, LeasesPositive, NoUpload, rowVars,
         uploadVars
  <2> QED
    BY <2>1, <2>2, <2>3, <2>8
<1>7. ASSUME NEW h \in Hash, finalizeCanonicalNodeLease(h)
      PROVE  StoreInv'
  <2>7. /\ UNCHANGED <<rootRefs, rootVars, gc, faults>>
        /\ rows \subseteq rows' /\ objects \subseteq objects'
    BY <1>7 DEF finalizeCanonicalNodeLease, commitNewNode, NoUpload, NoSession
  <2>8. CommandTypes' /\ RootedReady' /\ UpdatesChecked' /\ UNCHANGED firmRoots
    BY <2>7, QuietStep
  <2>1. active[h].dur \in Nat
    BY DEF TypeOK
  <2>2. EdgesExact' /\ ChildRefsExact' /\ childRefs' \in [Hash -> Nat]
    <3>1. CASE h \in rows
      BY <1>7, <3>1, SameRowsKeepCounts DEF finalizeCanonicalNodeLease, TypeOK
    <3>2. CASE h \notin rows
      BY <1>7, <3>2, ReadyChildrenAreRows, InsertKeepsCounts DEF finalizeCanonicalNodeLease
    <3> QED
      BY <3>1, <3>2
  <2>3. rows' \subseteq Hash /\ edges' \subseteq Hash \X Nat \X Hash
    BY <1>7, EdgesOfFacts DEF TypeOK, finalizeCanonicalNodeLease, commitNewNode
  <2>4. /\ lease' \in [Hash -> Nat] /\ readyCache' \in [Hash -> Nat]
        /\ reservation' \in [Hash -> Nat] /\ rootRefs' = rootRefs
        /\ session' = [session EXCEPT ![h] = NoSession]
    <3>0. readyCache' \in [Hash -> Nat]
      <4>1. /\ CacheAfterSet({h}, Children(h)) \in [Hash -> Nat]
            /\ CacheAfterSet({h} \cup Children(h), {}) \in [Hash -> Nat]
        BY TimeAssumption DEF TypeOK, CacheAfterSet, CacheAfterCheck
      <4>2. \/ readyCache' = CacheAfterSet({h}, Children(h))
            \/ readyCache' = CacheAfterSet({h} \cup Children(h), {})
        BY <1>7 DEF finalizeCanonicalNodeLease, commitNewNode
      <4> QED
        BY <4>1, <4>2
    <3>1. lease' \in [Hash -> Nat]
      <4>1. nextNodeLease(h, active[h].dur) \in Nat
        BY <2>1 DEF TypeOK, nextNodeLease, Max2
      <4>2. \/ lease' = [lease EXCEPT ![h] = nextNodeLease(h, active[h].dur)]
            \/ lease' = [lease EXCEPT ![h] = active[h].dur]
        BY <1>7 DEF finalizeCanonicalNodeLease, commitNewNode
      <4> QED
        BY <2>1, <4>1, <4>2 DEF TypeOK
    <3>2. /\ reservation' = [reservation EXCEPT ![h] = 0] /\ rootRefs' = rootRefs
          /\ session' = [session EXCEPT ![h] = NoSession]
      BY <1>7 DEF finalizeCanonicalNodeLease, commitNewNode
    <3> QED
      BY <3>0, <3>1, <3>2 DEF TypeOK
  <2>5. TypeOK'
    <3>1. session' \in [Hash -> [id : UploadIds \cup {NoId}, left : Nat, dur : Nat]]
      BY <2>4 DEF TypeOK, NoSession
    <3>2. /\ active' = [active EXCEPT ![h] = NoUpload]
          /\ temp' \in [UploadIds -> {"absent", "good", "bad"}]
          /\ UNCHANGED <<objects, usedIds, gc, faults>>
      BY <1>7 DEF TypeOK, finalizeCanonicalNodeLease
    <3>3. active' \in [Hash -> [phase : {"none", "streaming", "stored", "failed"},
                                id : UploadIds \cup {NoId}, dur : Nat]]
      BY <3>2 DEF TypeOK, NoUpload
    <3> QED
      BY <2>2, <2>3, <2>4, <2>8, <3>1, <3>2, <3>3 DEF TypeOK
  <2>6. GcFresh' /\ LeasesPositive'
    BY <2>8, <1>7 DEF TypeOK, finalizeCanonicalNodeLease, commitNewNode, GcFresh,
         LeasesPositive, NoUpload, NoSession, GateFree
  <2> QED
    BY <2>2, <2>5, <2>6, <2>8
<1>8. ASSUME NEW h \in Hash, FinalizeRejected(h) \/ FinalizeFails(h)
      PROVE  StoreInv'
  <2>0. /\ active' = [active EXCEPT ![h] = IF active[h].id = NoId THEN NoUpload
                                             ELSE [active[h] EXCEPT !.phase = "failed"]]
        /\ active[h].phase = "stored"
        /\ UNCHANGED <<rowVars, uploadVars, objects, gc, rootVars>>
    BY <1>8 DEF FinalizeRejected, FinalizeFails
  <2>5. faults' \in 0 .. MaxFaults /\ faults <= faults'
    BY <1>8, BoundAssumption DEF TypeOK, FinalizeRejected, FinalizeFails
  <2>1. TypeOK'
    <3>0. CacheAfterCheck(CheckedChildren(h)) \in [Hash -> Nat]
      BY TimeAssumption DEF TypeOK, CacheAfterCheck
    <3>1. readyCache' \in [Hash -> Nat]
      BY <1>8, <3>0 DEF TypeOK, FinalizeRejected, FinalizeFails
    <3>2. active' \in [Hash -> [phase : {"none", "streaming", "stored", "failed"},
                                id : UploadIds \cup {NoId}, dur : Nat]]
      <4>1. active[h] \in [phase : {"none", "streaming", "stored", "failed"},
                           id : UploadIds \cup {NoId}, dur : Nat]
        BY DEF TypeOK
      <4>2. [active[h] EXCEPT !.phase = "failed"]
               \in [phase : {"none", "streaming", "stored", "failed"},
                    id : UploadIds \cup {NoId}, dur : Nat]
        BY <4>1
      <4> QED
        BY <2>0, <4>2 DEF TypeOK, NoUpload
    <3> QED
      BY <2>0, <2>5, <3>1, <3>2 DEF TypeOK, CommandTypes, rowVars, uploadVars
  <2>2. EdgesExact' /\ ChildRefsExact'
    BY <2>0, SameRowsKeepCounts DEF rowVars
  <2>3. GcFresh'
    BY <2>0 DEF firmRoots, GcFresh, rowVars
  <2>8. CommandTypes' /\ RootedReady' /\ UpdatesChecked'
    BY <2>0, <2>5, BoundAssumption, BusyStep DEF TypeOK, rowVars
  <2>4. LeasesPositive'
    <3>1. active[h] \in [phase : {"none", "streaming", "stored", "failed"},
                         id : UploadIds \cup {NoId}, dur : Nat]
      BY DEF TypeOK
    <3>2. [active[h] EXCEPT !.phase = "failed"].dur = active[h].dur
      BY <3>1
    <3>3. active'[h].phase # "none" => active'[h].dur = active[h].dur
      BY <2>0, <3>2 DEF TypeOK, NoUpload
    <3>4. \A g \in Hash : g # h => active'[g] = active[g]
      BY <2>0 DEF TypeOK
    <3> QED
      BY <2>0, <3>3, <3>4 DEF LeasesPositive, uploadVars
  <2> QED
    BY <2>1, <2>2, <2>3, <2>4, <2>8
<1>9. ASSUME NEW h \in Hash, NEW d \in LeaseDurations, NEW u \in UploadIds,
             prepareCanonicalNodeUpload(h, d, u)
      PROVE  StoreInv'
  <2>7. /\ UNCHANGED <<rootRefs, rootVars, gc, faults>>
        /\ rows \subseteq rows' /\ objects \subseteq objects'
    BY <1>9 DEF prepareCanonicalNodeUpload, rowVars, memVars
  <2>8. CommandTypes' /\ RootedReady' /\ UpdatesChecked' /\ UNCHANGED firmRoots
    BY <2>7, QuietStep
  <2>1. d \in Nat /\ d > 0
    BY LeaseDurationsPositive
  <2>2. TypeOK'
    BY <2>8, <1>9, <2>1, TimeAssumption DEF TypeOK, prepareCanonicalNodeUpload, rowVars, memVars
  <2>3. EdgesExact' /\ ChildRefsExact'
    BY <1>9, SameRowsKeepCounts DEF prepareCanonicalNodeUpload, rowVars
  <2>4. GcFresh' /\ LeasesPositive'
    BY <2>8, <1>9, <2>1 DEF TypeOK, prepareCanonicalNodeUpload, GcFresh, LeasesPositive,
         rowVars, memVars
  <2> QED
    BY <2>2, <2>3, <2>4, <2>8
<1>10. ASSUME NEW u \in UploadIds, NEW what \in {"good", "bad"}, ClientPutTemporary(u, what)
       PROVE  StoreInv'
  <2>7. /\ UNCHANGED <<rootRefs, rootVars, gc, faults>>
        /\ rows \subseteq rows' /\ objects \subseteq objects'
    BY <1>10 DEF ClientPutTemporary, rowVars, memVars
  <2>8. CommandTypes' /\ RootedReady' /\ UpdatesChecked' /\ UNCHANGED firmRoots
    BY <2>7, QuietStep
  <2>1. TypeOK'
    BY <2>8, <1>10 DEF TypeOK, ClientPutTemporary, rowVars, memVars
  <2>2. EdgesExact' /\ ChildRefsExact'
    BY <1>10, SameRowsKeepCounts DEF ClientPutTemporary, rowVars
  <2>3. GcFresh' /\ LeasesPositive'
    BY <2>8, <1>10 DEF ClientPutTemporary, GcFresh, LeasesPositive, rowVars, memVars
  <2> QED
    BY <2>1, <2>2, <2>3, <2>8
<1>11. ASSUME NEW h \in Hash, admitCanonicalNodeUploadFinalization(h)
       PROVE  StoreInv'
  <2>7. /\ UNCHANGED <<rootRefs, rootVars, gc, faults>>
        /\ rows \subseteq rows' /\ objects \subseteq objects'
    BY <1>11 DEF admitCanonicalNodeUploadFinalization, rowVars, uploadVars
  <2>8. CommandTypes' /\ RootedReady' /\ UpdatesChecked' /\ UNCHANGED firmRoots
    BY <2>7, QuietStep
  <2>1. TypeOK'
    BY <2>8, <1>11 DEF TypeOK, admitCanonicalNodeUploadFinalization, rowVars, uploadVars
  <2>2. EdgesExact' /\ ChildRefsExact'
    BY <1>11, SameRowsKeepCounts DEF admitCanonicalNodeUploadFinalization, rowVars
  <2>3. GcFresh' /\ LeasesPositive'
    BY <2>8, <1>11 DEF TypeOK, admitCanonicalNodeUploadFinalization, GcFresh, LeasesPositive,
         rowVars, uploadVars
  <2> QED
    BY <2>1, <2>2, <2>3, <2>8
<1>12. ASSUME NEW h \in Hash, publishTemporaryUpload(h)
       PROVE  StoreInv'
  <2>7. /\ UNCHANGED <<rootRefs, rootVars, gc, faults>>
        /\ rows \subseteq rows' /\ objects \subseteq objects'
    BY <1>12 DEF publishTemporaryUpload, rowVars
  <2>8. CommandTypes' /\ RootedReady' /\ UpdatesChecked' /\ UNCHANGED firmRoots
    BY <2>7, QuietStep
  <2>0. PICK phase \in {"stored", "failed"} :
           /\ active' = [active EXCEPT ![h].phase = phase]
           /\ objects \subseteq objects' /\ objects' \subseteq objects \cup {h}
           /\ active[h].phase = "streaming"
           /\ UNCHANGED <<rowVars, uploadVars, readyCache, gc, faults>>
    BY <1>12 DEF publishTemporaryUpload
  <2>1. TypeOK'
    BY <2>8, <2>0 DEF TypeOK, rowVars, uploadVars
  <2>2. EdgesExact' /\ ChildRefsExact'
    BY <2>0, SameRowsKeepCounts DEF rowVars
  <2>3. GcFresh' /\ LeasesPositive'
    BY <2>8, <2>0 DEF TypeOK, GcFresh, LeasesPositive, rowVars, uploadVars
  <2> QED
    BY <2>1, <2>2, <2>3, <2>8
<1>13. ASSUME NEW h \in Hash, deleteCanonicalUploadSession(h)
       PROVE  StoreInv'
  <2>7. /\ UNCHANGED <<rootRefs, rootVars, gc, faults>>
        /\ rows \subseteq rows' /\ objects \subseteq objects'
    BY <1>13 DEF deleteCanonicalUploadSession, NoSession, NoUpload, rowVars
  <2>8. CommandTypes' /\ RootedReady' /\ UpdatesChecked' /\ UNCHANGED firmRoots
    BY <2>7, QuietStep
  <2>1. TypeOK'
    <3>1. /\ session' \in [Hash -> [id : UploadIds \cup {NoId}, left : Nat, dur : Nat]]
          /\ reservation' \in [Hash -> Nat]
      <4>0. /\ session \in [Hash -> [id : UploadIds \cup {NoId}, left : Nat, dur : Nat]]
            /\ reservation \in [Hash -> Nat]
        BY DEF TypeOK
      <4>1. NoSession \in [id : UploadIds \cup {NoId}, left : Nat, dur : Nat]
        BY DEF NoSession
      <4>2. CASE session[h].id = active[h].id
        <5>1. /\ session' = [session EXCEPT ![h] = NoSession]
              /\ reservation' = [reservation EXCEPT ![h] = 0]
          BY <1>13, <4>2 DEF deleteCanonicalUploadSession
        <5> QED
          BY <4>0, <4>1, <5>1
      <4>3. CASE session[h].id # active[h].id
        BY <1>13, <4>0, <4>3 DEF deleteCanonicalUploadSession
      <4> QED
        BY <4>2, <4>3
    <3>2. active' \in [Hash -> [phase : {"none", "streaming", "stored", "failed"},
                                id : UploadIds \cup {NoId}, dur : Nat]]
      BY <1>13 DEF TypeOK, deleteCanonicalUploadSession, NoUpload
    <3>3. /\ temp' \in [UploadIds -> {"absent", "good", "bad"}]
          /\ UNCHANGED <<rowVars, usedIds, objects, readyCache, gc, faults>>
      BY <1>13 DEF TypeOK, deleteCanonicalUploadSession
    <3> QED
      BY <2>8, <3>1, <3>2, <3>3 DEF TypeOK, rowVars
  <2>2. EdgesExact' /\ ChildRefsExact'
    BY <1>13, SameRowsKeepCounts DEF deleteCanonicalUploadSession, rowVars
  <2>3. GcFresh' /\ LeasesPositive'
    BY <2>8, <1>13 DEF TypeOK, deleteCanonicalUploadSession, GcFresh, LeasesPositive,
         NoSession, NoUpload, rowVars
  <2> QED
    BY <2>1, <2>2, <2>3, <2>8
<1>14. CASE RootUpdate
  BY <1>14, RootUpdateKeepsInv
<1>15. ASSUME GcStart \/ GcEnd \/ GcFails
       PROVE  StoreInv'
  <2>0. /\ UNCHANGED <<rowVars, uploadVars, memVars, objects, rootVars>>
        /\ gc' \in [phase : {"idle", "scan", "removed"}, todo : SUBSET Hash, node : SUBSET Hash]
        /\ gc'.phase # "removed" /\ faults' \in 0 .. MaxFaults /\ faults <= faults'
        /\ gc'.phase = "idle" \/ command[instance] = NoCommand
    <3>1. CASE GcStart
      <4>1. PICK todo \in SUBSET Hash : gc' = [phase |-> "scan", todo |-> todo, node |-> {}]
        BY <3>1 DEF GcStart
      <4> QED
        BY <3>1, <4>1, BoundAssumption DEF TypeOK, GcStart, GateFree
    <3>2. CASE GcEnd
      BY <3>2, BoundAssumption DEF TypeOK, GcEnd, NoGc
    <3>3. CASE GcFails
      BY <3>3, BoundAssumption DEF TypeOK, GcFails, NoGc
    <3> QED
      BY <1>15, <3>1, <3>2, <3>3
  <2>1. TypeOK'
    BY <2>0 DEF TypeOK, CommandTypes, rowVars, uploadVars, memVars
  <2>2. EdgesExact' /\ ChildRefsExact'
    BY <2>0, SameRowsKeepCounts DEF rowVars
  <2>3. GcFresh' /\ LeasesPositive'
    BY <2>0 DEF GcFresh, LeasesPositive, rowVars, uploadVars, memVars, firmRoots
  <2>8. CommandTypes' /\ RootedReady' /\ UpdatesChecked'
    BY <2>0, BoundAssumption, BusyStep DEF TypeOK, rowVars
  <2> QED
    BY <2>1, <2>2, <2>3, <2>8
<1>16. ASSUME NEW h \in Hash, GcDeleteContent(h)
       PROVE  StoreInv'
  <2>1. TypeOK'
    <3>1. UNCHANGED <<rowVars, uploadVars, memVars, faults, rootVars>>
      BY <1>16 DEF GcDeleteContent
    <3>2. objects' \subseteq Hash
      BY <1>16 DEF TypeOK, GcDeleteContent
    <3>3. gc' \in [phase : {"idle", "scan", "removed"}, todo : SUBSET Hash, node : SUBSET Hash]
      <4>1. gc \in [phase : {"idle", "scan", "removed"}, todo : SUBSET Hash, node : SUBSET Hash]
        BY DEF TypeOK
      <4>2. [gc EXCEPT !.todo = gc.todo \ {h}]
               \in [phase : {"idle", "scan", "removed"}, todo : SUBSET Hash, node : SUBSET Hash]
        BY <4>1
      <4> QED
        BY <1>16, <4>1, <4>2 DEF GcDeleteContent
    <3> QED
      BY <3>1, <3>2, <3>3 DEF TypeOK, CommandTypes, rowVars, uploadVars, memVars
  <2>2. EdgesExact' /\ ChildRefsExact'
    BY <1>16, SameRowsKeepCounts DEF GcDeleteContent, rowVars
  <2>3. UpdatesChecked'
    BY <1>16 DEF GcDeleteContent, UpdatesChecked, NoCommand, Acquired, rowVars
  <2>4. RootedReady' /\ GcFresh' /\ LeasesPositive'
    <3>1. CASE Unprotected(h)
      <4>1. gc'.node = {h} /\ objects' = objects \ {h}
        BY <1>16, <3>1 DEF GcDeleteContent
      <4>2. h \in rows /\ childRefs[h] = 0 /\ firmRoots[h] = 0 /\ lease[h] = 0
        BY <3>1 DEF Unprotected, firmRoots
      <4>3. UNCHANGED <<rows, lease, childRefs, firmRoots, session, active>>
        BY <1>16 DEF GcDeleteContent, rowVars, uploadVars, memVars, firmRoots
      <4>4. GcFresh'
        BY <4>1, <4>2, <4>3 DEF GcFresh
      <4>5. RootedReady' /\ LeasesPositive'
        BY <4>1, <4>2, <4>3 DEF RootedReady, LeasesPositive
      <4> QED
        BY <4>4, <4>5
    <3>2. CASE ~Unprotected(h)
      BY <1>16, <3>2 DEF TypeOK, GcDeleteContent, RootedReady, GcFresh, LeasesPositive,
                         rowVars, uploadVars, memVars, firmRoots
    <3> QED
      BY <3>1, <3>2
  <2> QED
    BY <2>1, <2>2, <2>3, <2>4
<1>17. ASSUME NEW h \in Hash, GcCommitDeletion(h)
       PROVE  StoreInv'
  <2>0. h \in rows /\ childRefs[h] = 0
    BY <1>17 DEF GcCommitDeletion, GcFresh
  <2>1. EdgesExact' /\ ChildRefsExact' /\ childRefs' \in [Hash -> Nat]
    BY <1>17, <2>0, DeleteKeepsCounts
  <2>2. TypeOK'
    BY <1>17, <2>1 DEF TypeOK, CommandTypes, GcCommitDeletion, uploadVars, memVars
  <2>3. GcFresh' /\ LeasesPositive'
    BY <1>17, <2>0 DEF TypeOK, GcCommitDeletion, GcFresh, LeasesPositive, uploadVars, memVars
  <2>4. RootedReady'
    BY <1>17 DEF TypeOK, GcCommitDeletion, RootedReady, firmRoots
  <2>5. UpdatesChecked'
    BY <1>17 DEF TypeOK, GcCommitDeletion, UpdatesChecked, NoCommand, Acquired
  <2> QED
    BY <2>1, <2>2, <2>3, <2>4, <2>5
<1>18. ASSUME Restart
       PROVE  StoreInv'
  <2>0. /\ instance \in Nat /\ faults \in Nat /\ MaxFaults \in Nat /\ instance <= faults
        /\ faults < MaxFaults /\ faults' = faults + 1 /\ instance' = instance + 1
        /\ exposed' = exposed \cup Acquired(command[instance])
        /\ UNCHANGED <<rowVars, objects, command>>
    BY <1>18, BoundAssumption DEF TypeOK, CommandTypes, UpdatesChecked, Restart
  <2>1. TypeOK'
    <3>1. Acquired(command[instance]) \subseteq Hash
      <4>1. CASE command[instance] = NoCommand
        BY <4>1 DEF Acquired, NoCommand
      <4>2. CASE command[instance] # NoCommand
        BY <4>2, CommandFacts DEF Acquired, TypeOK, CommandTypes
      <4> QED
        BY <4>1, <4>2
    <3>2. instance' \in 0 .. MaxFaults /\ faults' \in 0 .. MaxFaults
      BY <2>0
    <3> QED
      BY <1>18, <3>1, <3>2 DEF TypeOK, CommandTypes, Restart, NoUpload, NoGc, rowVars, uploadVars
  <2>2. EdgesExact' /\ ChildRefsExact'
    BY <1>18, SameRowsKeepCounts DEF Restart, rowVars
  <2>3. GcFresh' /\ LeasesPositive'
    BY <1>18 DEF Restart, GcFresh, LeasesPositive, NoUpload, NoGc, rowVars, uploadVars
  <2>4. RootedReady'
    BY <2>0 DEF RootedReady, firmRoots, rowVars
  <2>5. UpdatesChecked'
    <3>1. instance' \in 0 .. MaxFaults /\ instance' > instance
      BY <2>0
    <3>2. command'[instance'] = NoCommand
      BY <2>0, <3>1 DEF UpdatesChecked
    <3>3. \A n \in 0 .. MaxFaults : n < instance' => Acquired(command'[n]) \subseteq exposed'
      BY <2>0 DEF UpdatesChecked
    <3>4. \A n \in 0 .. MaxFaults : n > instance' => command'[n] = NoCommand
      BY <2>0 DEF UpdatesChecked
    <3>5. instance' <= faults'
      BY <2>0
    <3> QED
      BY <3>2, <3>3, <3>4, <3>5 DEF UpdatesChecked, NoCommand, Acquired
  <2> QED
    BY <2>1, <2>2, <2>3, <2>4, <2>5
<1>19. ASSUME Tick
       PROVE  StoreInv'
  <2>7. /\ UNCHANGED <<rootRefs, rootVars, gc, faults>>
        /\ rows \subseteq rows' /\ objects \subseteq objects'
    BY <1>19 DEF Tick
  <2>8. CommandTypes' /\ RootedReady' /\ UpdatesChecked' /\ UNCHANGED firmRoots
    BY <2>7, QuietStep
  <2>0. \A h \in Hash : /\ lease[h] = 0 => lease'[h] = 0
                        /\ session'[h].left > 0 => session[h].left > 0
                        /\ session'[h].dur = session[h].dur
                        /\ session'[h] \in [id : UploadIds \cup {NoId}, left : Nat, dur : Nat]
    <3> SUFFICES ASSUME NEW h \in Hash
                 PROVE  /\ lease[h] = 0 => lease'[h] = 0
                        /\ session'[h].left > 0 => session[h].left > 0
                        /\ session'[h].dur = session[h].dur
                        /\ session'[h] \in [id : UploadIds \cup {NoId}, left : Nat, dur : Nat]
      OBVIOUS
    <3>1. lease[h] = 0 => lease'[h] = 0
      BY <1>19 DEF Tick, Less
    <3>2. session[h] \in [id : UploadIds \cup {NoId}, left : Nat, dur : Nat]
      BY DEF TypeOK
    <3> DEFINE n == IF session[h].left > 0 THEN session[h].left - 1 ELSE 0
    <3>3. session'[h] = [session[h] EXCEPT !.left = n]
      BY <1>19 DEF Tick
    <3>4. n \in Nat /\ (n > 0 => session[h].left > 0)
      BY <3>2
    <3> HIDE DEF n
    <3>5. session'[h].left = n /\ session'[h].dur = session[h].dur
      BY <3>2, <3>3
    <3>6. session'[h] \in [id : UploadIds \cup {NoId}, left : Nat, dur : Nat]
      BY <3>2, <3>3, <3>4
    <3> QED
      BY <3>1, <3>4, <3>5, <3>6
  <2>1. TypeOK'
    <3>1. session' = [h \in Hash |-> session'[h]]
      BY <1>19 DEF Tick
    <3>2. session' \in [Hash -> [id : UploadIds \cup {NoId}, left : Nat, dur : Nat]]
      BY <2>0, <3>1
    <3>3. lease' \in [Hash -> Nat] /\ reservation' \in [Hash -> Nat] /\ readyCache' \in [Hash -> Nat]
      BY <1>19 DEF TypeOK, Tick, Less
    <3> QED
      BY <1>19, <2>8, <3>2, <3>3 DEF TypeOK, Tick
  <2>2. EdgesExact' /\ ChildRefsExact'
    BY <1>19, SameRowsKeepCounts DEF Tick
  <2>3. GcFresh' /\ LeasesPositive'
    <3>1. UNCHANGED <<rows, childRefs, firmRoots, active, gc>>
      BY <1>19, <2>8 DEF Tick
    <3>2. LeasesPositive'
      BY <2>0, <3>1 DEF LeasesPositive
    <3>3. GcFresh'
      BY <2>0, <3>1 DEF GcFresh, TypeOK
    <3> QED
      BY <3>2, <3>3
  <2> QED
    BY <2>1, <2>2, <2>3, <2>8
<1>20. CASE UNCHANGED vars
  <2>7. /\ UNCHANGED <<rootRefs, rootVars, gc, faults>>
        /\ rows \subseteq rows' /\ objects \subseteq objects'
    BY <1>20 DEF vars, rowVars, uploadVars, memVars
  <2>8. CommandTypes' /\ RootedReady' /\ UpdatesChecked' /\ UNCHANGED firmRoots
    BY <2>7, QuietStep
  <2>1. TypeOK'
    BY <2>8, <1>20 DEF TypeOK, vars, rowVars, uploadVars, memVars
  <2>2. EdgesExact' /\ ChildRefsExact'
    BY <1>20, SameRowsKeepCounts DEF vars, rowVars
  <2>3. GcFresh' /\ LeasesPositive'
    BY <2>8, <1>20 DEF GcFresh, LeasesPositive, vars, rowVars, uploadVars, memVars
  <2> QED
    BY <2>1, <2>2, <2>3, <2>8
<1> HIDE DEF StoreInv
<1>21. CASE Lease
  BY <1>21, <1>1, <1>2, <1>3 DEF Lease
<1>22. CASE BodyUpload
  BY <1>22, <1>4, <1>5, <1>6, <1>7, <1>8 DEF BodyUpload
<1>23. CASE DirectUpload
  BY <1>23, <1>9, <1>10, <1>11, <1>12, <1>13 DEF DirectUpload
<1>24. CASE Collect
  BY <1>24, <1>15, <1>16, <1>17 DEF Collect
<1> QED
  BY <1>14, <1>15, <1>18, <1>19, <1>20, <1>21, <1>22, <1>23, <1>24 DEF Next

(* The store keeps its inductive invariant: types, exact edges and counts,    *)
(* ready roots, updates that commit on what they checked, and a collection    *)
(* that only ever handles unprotected nodes; the nodes acquired by updates    *)
(* which a restart cut off from the gate are not claimed for.                 *)
THEOREM StoreCorrect == Spec => []StoreInv
BY StoreInvInit, StoreInvStep, PTL DEF Spec

(* childRefCount always equals the stored incoming edge occurrences, whatever *)
(* mix of uploads, adoptions, collections, failures and restarts happened.    *)
THEOREM ChildRefsCorrect == Spec => []ChildRefsExact
<1>1. StoreInv => ChildRefsExact
  BY DEF StoreInv
<1> QED
  BY <1>1, StoreCorrect, PTL

(* A node with a positive rootRefCount always has its row and its object,     *)
(* unless an update that acquires it has outlived the tenant's instance: with *)
(* restarts between root updates, and with root updates that a restart cuts   *)
(* off but that acquire other nodes.                                          *)
THEOREM RootsStayReady == Spec => []RootedReady
<1>1. StoreInv => RootedReady
  BY DEF StoreInv
<1> QED
  BY <1>1, StoreCorrect, PTL

--------------------------------------------------------------------------------
(* Refinement of the retention promise *)

(* An edge-free, root-free node without a lease cannot be reached from        *)
(* anything rooted or leased: all rows but this one form a closed set.        *)
LEMMA UnprotectedIsUnreachable ==
    ASSUME StoreInv, NEW h \in rows,
           childRefs[h] = 0, firmRoots[h] = 0, lease[h] = 0
    PROVE  /\ h \notin Retention!Protected
           /\ \A p \in rows : h \notin Retention!ChildSet(p)
<1> DEFINE X == rows \ {h}
<1>1. rows \subseteq Hash /\ h \in Hash
  BY DEF StoreInv, TypeOK
<1>2. Incoming(h) = {}
  BY <1>1, EdgesFinite, FS_Subset, FS_EmptySet DEF StoreInv, ChildRefsExact, Incoming
<1>3. ASSUME NEW p \in rows
      PROVE  Children(p) \subseteq X
  <2>1. ASSUME NEW c \in Children(p)
        PROVE  c \in rows /\ c # h
    <3>1. PICK e \in EdgesOf(p) : e[3] = c
      BY <1>1, EdgesOfFacts
    <3>2. e \in edges
      BY <3>1 DEF StoreInv, EdgesExact
    <3> QED
      BY <1>2, <3>1, <3>2 DEF StoreInv, EdgesExact, Incoming
  <2> QED
    BY <2>1
<1>4. \A p : Retention!ChildSet(p) = Children(p)
  BY DEF Retention!ChildSet, Children
<1>5. Retention!ClosedSet(X)
  BY <1>3, <1>4 DEF Retention!ClosedSet
<1>6. {g \in Hash : firmRoots[g] > 0} \cup {g \in rows : lease[g] > 0} \subseteq X
  BY DEF StoreInv, RootedReady
<1>7. X \in SUBSET Hash /\ h \notin X
  BY <1>1
<1>8. h \notin Retention!Protected
  BY <1>5, <1>6, <1>7 DEF Retention!Protected, Retention!Reach
<1> QED
  BY <1>3, <1>4, <1>8

(* Every step of the store is a step of the retention promise or none.        *)
LEMMA RetentionStep == StoreInv /\ [Next]_vars => [Retention!AbsNext]_(Retention!absVars)
<1> SUFFICES ASSUME StoreInv, [Next]_vars
             PROVE  [Retention!AbsNext]_(Retention!absVars)
  OBVIOUS
<1> DEFINE pins == {h \in rows : lease[h] > 0}
<1>0. TypeOK
  BY DEF StoreInv
<1>1. ASSUME UNCHANGED <<rows, objects, rootRefs, exposed, lease>>
      PROVE  UNCHANGED Retention!absVars
  BY <1>1 DEF Retention!absVars, firmRoots
<1>2. ASSUME UNCHANGED <<rows, objects, rootRefs, exposed>>
      PROVE  Retention!Repin
  BY <1>2 DEF Retention!Repin, firmRoots
<1>3. ASSUME NEW h \in Hash, NEW d \in Nat, d > 0, h \notin rows, ChildrenReady(h),
             commitNewNode(h, d), UNCHANGED <<objects, exposed>>
      PROVE  Retention!AbsNext
  <2>1. Retention!ChildSet(h) \subseteq rows
    BY <1>3, ReadyChildrenAreRows DEF Retention!ChildSet, Children
  <2>2. rows' = rows \cup {h} /\ firmRoots' = firmRoots /\ lease' = [lease EXCEPT ![h] = d]
    BY <1>3 DEF commitNewNode, firmRoots
  <2>3. pins' = pins \cup {h}
    BY <1>0, <1>3, <2>2 DEF TypeOK
  <2>4. Retention!Insert(h)
    BY <1>3, <2>1, <2>2, <2>3 DEF Retention!Insert
  <2> QED
    BY <2>4 DEF Retention!AbsNext
<1>4. ASSUME NEW h \in Hash, NEW d \in LeaseDurations, AdoptOrphan(h, d)
      PROVE  Retention!AbsNext
  BY <1>3, <1>4, LeaseDurationsPositive DEF AdoptOrphan, rootVars
<1>5. ASSUME NEW h \in Hash, finalizeCanonicalNodeLease(h)
      PROVE  Retention!AbsNext
  <2>1. CASE h \in rows
    BY <1>2, <1>5, <2>1 DEF finalizeCanonicalNodeLease, Retention!AbsNext, rootVars
  <2>2. CASE h \notin rows
    <3>1. active[h].dur \in Nat /\ active[h].dur > 0
      BY <1>0, <1>5 DEF TypeOK, StoreInv, LeasesPositive, finalizeCanonicalNodeLease
    <3> QED
      BY <1>3, <1>5, <2>2, <3>1 DEF finalizeCanonicalNodeLease, rootVars
  <2> QED
    BY <2>1, <2>2
<1>6. ASSUME NEW h \in Hash, uploadCanonicalNode(h) \/ publishTemporaryUpload(h)
      PROVE  Retention!AbsNext \/ UNCHANGED Retention!absVars
  <2>1. /\ UNCHANGED <<rows, rootRefs, exposed, lease>>
        /\ objects' = objects \cup {h} \/ objects' = objects
    BY <1>6 DEF uploadCanonicalNode, publishTemporaryUpload, rowVars, rootVars
  <2>2. CASE objects' = objects \cup {h}
    BY <2>1, <2>2 DEF Retention!AbsNext, Retention!Fill, firmRoots
  <2>3. CASE objects' = objects
    BY <1>1, <2>1, <2>3
  <2> QED
    BY <2>1, <2>2, <2>3
<1>7. ASSUME RootUpdate \/ Restart
      PROVE  Retention!AbsNext
  <2>1. StoreInv'
    BY <1>7, StoreInvStep DEF Next
  <2>2. rootRefs' \in [Hash -> Nat]
    BY <2>1 DEF StoreInv, TypeOK
  <2>3. /\ firmRoots' \in [Hash -> Nat]
        /\ \A h \in Hash : firmRoots'[h] > 0 => h \in rows' \cap objects'
    BY <2>1, <2>2 DEF StoreInv, RootedReady, firmRoots
  <2>4. UNCHANGED <<rows, objects, lease>>
    BY <1>7 DEF RootUpdate, forwardRootRefs, CheckRootRefs, AnswerRootRefs, CommitRootRefs,
                RootRefsFail, Restart, rowVars
  <2>5. Retention!Reroot
    BY <2>3, <2>4 DEF Retention!Reroot
  <2> QED
    BY <2>5 DEF Retention!AbsNext
<1>8. ASSUME NEW h \in Hash, GcDeleteContent(h)
      PROVE  Retention!AbsNext \/ UNCHANGED Retention!absVars
  <2>1. UNCHANGED <<rows, rootRefs, exposed, lease, firmRoots>>
    BY <1>8 DEF GcDeleteContent, rowVars, rootVars, firmRoots
  <2>2. CASE Unprotected(h)
    <3>1. h \notin Retention!Protected
      <4>1. h \in rows /\ childRefs[h] = 0 /\ firmRoots[h] = 0 /\ lease[h] = 0
        BY <2>2 DEF Unprotected, firmRoots
      <4> QED
        BY <4>1, UnprotectedIsUnreachable
    <3>2. objects' = objects \ {h}
      BY <1>8, <2>2 DEF GcDeleteContent
    <3>3. Retention!Empty(h)
      BY <2>1, <3>1, <3>2 DEF Retention!Empty
    <3> QED
      BY <3>3 DEF Retention!AbsNext
  <2>3. CASE ~Unprotected(h)
    BY <1>1, <1>8, <2>1, <2>3 DEF GcDeleteContent
  <2> QED
    BY <2>2, <2>3
<1>9. ASSUME NEW h \in Hash, GcCommitDeletion(h)
      PROVE  Retention!AbsNext
  <2>1. h \in rows /\ childRefs[h] = 0 /\ firmRoots[h] = 0 /\ lease[h] = 0
    BY <1>9 DEF StoreInv, GcFresh, GcCommitDeletion
  <2>2. h \notin Retention!Protected /\ \A p \in rows : h \notin Retention!ChildSet(p)
    BY <2>1, UnprotectedIsUnreachable
  <2>3. rows' = rows \ {h} /\ UNCHANGED <<objects, lease>>
    BY <1>9 DEF GcCommitDeletion
  <2>6. firmRoots' = firmRoots
    BY <1>0, <1>9, <2>1 DEF GcCommitDeletion, firmRoots, rootVars, TypeOK
  <2>4. pins' = pins
    BY <2>1, <2>3
  <2>5. Retention!Reclaim(h)
    BY <2>2, <2>3, <2>4, <2>6 DEF Retention!Reclaim
  <2> QED
    BY <2>5 DEF Retention!AbsNext
<1>10. ASSUME NEW h \in Hash, NEW d \in LeaseDurations, LeaseReadyNode(h, d)
       PROVE  Retention!AbsNext
  BY <1>2, <1>10 DEF LeaseReadyNode, RenewReady, Retention!AbsNext, rootVars
<1>11. ASSUME Tick
       PROVE  Retention!AbsNext
  BY <1>2, <1>11 DEF Tick, Retention!AbsNext, rootVars
<1> HIDE DEF pins
<1>12. CASE Lease
  <2>1. ASSUME NEW h \in Hash, AdoptOrphanRejected(h)
        PROVE  UNCHANGED Retention!absVars
    BY <1>1, <2>1 DEF AdoptOrphanRejected, rowVars, rootVars
  <2> QED
    BY <1>4, <1>10, <1>12, <2>1 DEF Lease
<1>13. CASE BodyUpload
  <2>1. ASSUME NEW h \in Hash, NEW d \in LeaseDurations, beginCanonicalNodeLease(h, d)
        PROVE  UNCHANGED Retention!absVars
    BY <1>1, <2>1 DEF beginCanonicalNodeLease, rowVars, rootVars
  <2>2. ASSUME NEW h \in Hash, UploadRejected(h) \/ FinalizeRejected(h) \/ FinalizeFails(h)
        PROVE  UNCHANGED Retention!absVars
    BY <1>1, <2>2 DEF UploadRejected, FinalizeRejected, FinalizeFails, rowVars, rootVars
  <2> QED
    BY <1>5, <1>6, <1>13, <2>1, <2>2 DEF BodyUpload
<1>14. CASE DirectUpload
  <2>1. ASSUME NEW h \in Hash, NEW d \in LeaseDurations, NEW u \in UploadIds,
               prepareCanonicalNodeUpload(h, d, u)
        PROVE  UNCHANGED Retention!absVars
    BY <1>1, <2>1 DEF prepareCanonicalNodeUpload, rowVars, rootVars
  <2>2. ASSUME NEW u \in UploadIds, NEW what \in {"good", "bad"}, ClientPutTemporary(u, what)
        PROVE  UNCHANGED Retention!absVars
    BY <1>1, <2>2 DEF ClientPutTemporary, rowVars, rootVars
  <2>3. ASSUME NEW h \in Hash,
               admitCanonicalNodeUploadFinalization(h) \/ deleteCanonicalUploadSession(h)
        PROVE  UNCHANGED Retention!absVars
    BY <1>1, <2>3
       DEF admitCanonicalNodeUploadFinalization, deleteCanonicalUploadSession, rowVars, rootVars
  <2> QED
    BY <1>6, <1>14, <2>1, <2>2, <2>3 DEF DirectUpload
<1>15. CASE Collect
  <2>1. ASSUME GcStart \/ GcEnd PROVE UNCHANGED Retention!absVars
    BY <1>1, <2>1 DEF GcStart, GcEnd, rowVars, rootVars
  <2> QED
    BY <1>8, <1>9, <1>15, <2>1 DEF Collect
<1>16. CASE GcFails
  BY <1>1, <1>16 DEF GcFails, rowVars, rootVars
<1>17. CASE UNCHANGED vars
  BY <1>1, <1>17 DEF vars, rowVars, rootVars
<1> QED
  BY <1>7, <1>11, <1>12, <1>13, <1>14, <1>15, <1>16, <1>17 DEF Next

(* The store implements the retention promise: neither content nor metadata   *)
(* of a node reachable from a leased node, or from one whose root references  *)
(* were acquired under the gate, is ever removed.                             *)
THEOREM StoreRetains == Spec => RetainsProtected
<1>1. Init => Retention!AbsInit
  BY DEF Init, Retention!AbsInit, firmRoots
<1>2. StoreInv /\ [Next]_vars => [Retention!AbsNext]_(Retention!absVars)
  BY RetentionStep
<1> QED
  BY <1>1, <1>2, StoreCorrect, PTL DEF Spec, RetainsProtected, Retention!AbsSpec

--------------------------------------------------------------------------------
(* Direct upload sessions *)

(* The step a live session may end with. *)
SessionStep ==
    \A h \in Hash : session[h].left > 0 /\ session'[h].id # session[h].id =>
       \/ h \in rows'
       \/ active[h].phase = "failed" /\ active[h].id = session[h].id

(* A step that drops a live upload session is one that the code allows to. *)
LEMMA SessionStepHolds == StoreInv /\ [Next]_vars => SessionStep
<1> SUFFICES ASSUME StoreInv, [Next]_vars PROVE SessionStep
  OBVIOUS
<1>1. session \in [Hash -> [id : UploadIds \cup {NoId}, left : Nat, dur : Nat]]
  BY DEF StoreInv, TypeOK
<1>2. CASE UNCHANGED session
  BY <1>2 DEF SessionStep
<1>3. ASSUME NEW h \in Hash, NEW d, commitNewNode(h, d) PROVE SessionStep
  BY <1>1, <1>3 DEF commitNewNode, SessionStep
<1>4. ASSUME NEW h \in Hash, NEW d \in LeaseDurations, NEW u \in UploadIds,
             prepareCanonicalNodeUpload(h, d, u)
      PROVE  SessionStep
  BY <1>1, <1>4 DEF prepareCanonicalNodeUpload, SessionStep
<1>5. ASSUME NEW h \in Hash, deleteCanonicalUploadSession(h) PROVE SessionStep
  BY <1>1, <1>5 DEF deleteCanonicalUploadSession, SessionStep
<1>6. ASSUME NEW h \in Hash, finalizeCanonicalNodeLease(h) PROVE SessionStep
  <2>1. CASE h \in rows
    BY <1>1, <1>6, <2>1 DEF finalizeCanonicalNodeLease, SessionStep
  <2>2. CASE h \notin rows
    BY <1>3, <1>6, <2>2 DEF finalizeCanonicalNodeLease
  <2> QED  BY <2>1, <2>2
<1>7. CASE Lease
  <2>1. ASSUME NEW h \in Hash, NEW d \in LeaseDurations, AdoptOrphan(h, d) PROVE SessionStep
    BY <1>3, <2>1 DEF AdoptOrphan
  <2>2. ASSUME NEW h \in Hash, NEW d \in LeaseDurations, LeaseReadyNode(h, d)
        PROVE  UNCHANGED session
    BY <2>2 DEF LeaseReadyNode, RenewReady, uploadVars
  <2>3. ASSUME NEW h \in Hash, AdoptOrphanRejected(h) PROVE UNCHANGED session
    BY <2>3 DEF AdoptOrphanRejected, uploadVars
  <2> QED  BY <1>2, <1>7, <2>1, <2>2, <2>3 DEF Lease
<1>8. CASE BodyUpload
  <2>1. ASSUME NEW h \in Hash, NEW d \in LeaseDurations, beginCanonicalNodeLease(h, d)
        PROVE  UNCHANGED session
    BY <2>1 DEF beginCanonicalNodeLease
  <2>2. ASSUME NEW h \in Hash, \/ uploadCanonicalNode(h) \/ UploadRejected(h)
                               \/ FinalizeRejected(h) \/ FinalizeFails(h)
        PROVE  UNCHANGED session
    BY <2>2 DEF uploadCanonicalNode, UploadRejected, FinalizeRejected, FinalizeFails, uploadVars
  <2> QED  BY <1>2, <1>6, <1>8, <2>1, <2>2 DEF BodyUpload
<1>9. CASE DirectUpload
  <2>1. ASSUME NEW h \in Hash,
               admitCanonicalNodeUploadFinalization(h) \/ publishTemporaryUpload(h)
        PROVE  UNCHANGED session
    BY <2>1 DEF admitCanonicalNodeUploadFinalization, publishTemporaryUpload, uploadVars
  <2>2. ASSUME NEW u \in UploadIds, NEW what \in {"good", "bad"}, ClientPutTemporary(u, what)
        PROVE  UNCHANGED session
    BY <2>2 DEF ClientPutTemporary
  <2> QED  BY <1>2, <1>4, <1>5, <1>9, <2>1, <2>2 DEF DirectUpload
<1>10. CASE Collect \/ GcFails \/ Restart \/ RootUpdate
  <2>1. UNCHANGED session
    BY <1>10 DEF Collect, GcStart, GcDeleteContent, GcCommitDeletion, GcEnd, GcFails, Restart,
                 RootUpdate, forwardRootRefs, CheckRootRefs, AnswerRootRefs, CommitRootRefs,
                 RootRefsFail, uploadVars
  <2> QED  BY <1>2, <2>1
<1>11. CASE Tick
  <2>1. \A h \in Hash : session'[h].id = session[h].id
    BY <1>1, <1>11 DEF Tick
  <2> QED  BY <2>1 DEF SessionStep
<1>12. CASE UNCHANGED vars
  BY <1>2, <1>12 DEF vars, uploadVars
<1> QED
  BY <1>7, <1>8, <1>9, <1>10, <1>11, <1>12 DEF Next

(* A live direct upload session is given up only for its own node or by its  *)
(* own failed upload, in every interleaving of prepare, finalize and expiry.  *)
THEOREM SessionsKept == Spec => LiveSessionKept
<1>1. StoreInv /\ [Next]_vars => SessionStep
  BY SessionStepHolds
<1>2. LiveSessionKept <=> [][SessionStep]_vars
  BY PTL DEF LiveSessionKept, SessionStep
<1> QED
  BY <1>1, <1>2, StoreCorrect, PTL DEF Spec
================================================================================
