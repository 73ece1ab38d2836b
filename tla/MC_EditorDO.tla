------------------------------ MODULE MC_EditorDO ------------------------------
(* Small instances of EditorDO for TLC. *)
EXTENDS EditorDO

(* A session starts from an empty document. *)
EmptyDocs == {<<>>}
================================================================================
