---------------------------- MODULE MC_CasRootRefs ----------------------------
(* Small instances for TLC. *)
EXTENDS CasRootRefs, TLC

Symmetry == Permutations(Tenant) \cup Permutations(Domain) \cup Permutations(Hash)
            \cup Permutations(Slot) \cup Permutations(RequestId)
===============================================================================
