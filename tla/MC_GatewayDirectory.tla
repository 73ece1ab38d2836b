-------------------------- MODULE MC_GatewayDirectory --------------------------
(* Small instances for TLC. *)
EXTENDS GatewayDirectory, TLC

Symmetry == Permutations(Slots) \cup Permutations(Docs) \cup Permutations(Keys)
================================================================================
