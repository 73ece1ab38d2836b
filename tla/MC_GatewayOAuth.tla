---------------------------- MODULE MC_GatewayOAuth ----------------------------
(* Small instances of GatewayOAuth for TLC. *)
EXTENDS GatewayOAuth, TLC

Symmetry == Permutations(Slots) \cup Permutations(Clients)
================================================================================
