----------------------------- MODULE MC_DocSession -----------------------------
(* Small instances of DocSession for TLC. *)
EXTENDS DocSession, TLC

CONSTANTS b1, b2

(* A session starts from an uploaded document or an empty one, or adopts the  *)
(* snapshot of another session.                                               *)
UploadedDocs == {<<b1>>}
EmptyDocs    == {<<>>}
ClonedDocs   == {<<b2>>}

Symmetry == Permutations(Slots)
================================================================================
