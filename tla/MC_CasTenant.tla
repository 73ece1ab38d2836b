----------------------------- MODULE MC_CasTenant -----------------------------
(* Small tenants for TLC.                                                     *)
EXTENDS CasTenant

CONSTANTS leaf, top

(* top's canonical bytes list leaf twice: duplicate occurrences count. *)
TwoRefs == [h \in {leaf, top} |-> IF h = top THEN <<leaf, leaf>> ELSE <<>>]

(* A commit roots top; another moves the reference to leaf. *)
RootTop == [h \in {top} |-> 1]
MoveToLeaf == [h \in {leaf, top} |-> IF h = leaf THEN 1 ELSE -1]
TwoUpdates == {RootTop, MoveToLeaf}
===============================================================================
