------------------------------ MODULE CasRetention ------------------------------
(***************************************************************************)
(* What the content-addressed store promises one tenant: a node is never   *)
(* given up while it can be reached from a node that is rooted or leased,  *)
(* and what is stored always has its children stored.  Nothing is said of  *)
(* reference counts, uploads, caches or the order of storage calls: those  *)
(* are CasTenant's means to this end.                                      *)
(***************************************************************************)
EXTENDS Integers, Sequences

CONSTANTS Hash, Refs

VARIABLES
    stored,    \* nodes the store knows of
    content,   \* nodes whose bytes are there
    roots,     \* root reference counts
    pinned     \* nodes under an unexpired lease

absVars == <<stored, content, roots, pinned>>

ChildSet(h) == {Refs[h][i] : i \in DOMAIN Refs[h]}

(* The hashes reachable from S: those in every closed set that includes S. *)
ClosedSet(X) == \A h \in X : ChildSet(h) \subseteq X
Reach(S) == {h \in Hash : \A X \in SUBSET Hash : (S \subseteq X /\ ClosedSet(X)) => h \in X}

(* The white set W and the lease-protected set T of the design. *)
Live      == Reach({h \in Hash : roots[h] > 0})
Protected == Reach({h \in Hash : roots[h] > 0} \cup pinned)

AbsInit ==
    /\ stored = {}
    /\ content = {}
    /\ roots = [h \in Hash |-> 0]
    /\ pinned = {}

(* A node enters leased, and only on top of children that are there. *)
Insert(h) ==
    /\ h \notin stored
    /\ ChildSet(h) \subseteq stored
    /\ stored' = stored \cup {h}
    /\ pinned' = pinned \cup {h}
    /\ UNCHANGED <<content, roots>>

(* Leases are granted and run out on stored nodes only. *)
Repin ==
    /\ pinned' \in SUBSET stored
    /\ UNCHANGED <<stored, content, roots>>

Fill(h) ==
    /\ content' = content \cup {h}
    /\ UNCHANGED <<stored, roots, pinned>>

(* Only nodes that are stored with their bytes acquire root references. *)
Reroot ==
    /\ roots' \in [Hash -> Nat]
    /\ \A h \in Hash : roots'[h] > 0 => h \in stored \cap content
    /\ UNCHANGED <<stored, content, pinned>>

Empty(h) ==
    /\ h \notin Protected
    /\ content' = content \ {h}
    /\ UNCHANGED <<stored, roots, pinned>>

Reclaim(h) ==
    /\ h \notin Protected
    /\ \A p \in stored : h \notin ChildSet(p)
    /\ stored' = stored \ {h}
    /\ UNCHANGED <<content, roots, pinned>>

AbsNext ==
    \/ \E h \in Hash : Insert(h) \/ Fill(h) \/ Empty(h) \/ Reclaim(h)
    \/ Repin
    \/ Reroot

AbsSpec == AbsInit /\ [][AbsNext]_absVars
================================================================================
