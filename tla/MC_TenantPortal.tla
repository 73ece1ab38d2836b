---------------------------- MODULE MC_TenantPortal ----------------------------
(* The tenant portal document on a small instance. *)
EXTENDS TenantPortal, TLC

Symmetry == Permutations(Users) \cup Permutations(Runs) \cup Permutations(Threads)
              \cup Permutations(Keys) \cup Permutations(Bodies) \cup Permutations(Blobs)
================================================================================
