-------------------------- MODULE MC_PlatformDocument --------------------------
(* Small instances for TLC. *)
EXTENDS PlatformDocument, TLC

Symmetry == Permutations(Slots) \cup Permutations(Identities) \cup Permutations(Hashes)
            \cup Permutations(OpIds)
================================================================================
