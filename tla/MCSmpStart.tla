------------------------------ MODULE MCSmpStart ------------------------------
(* Small instances of SmpStart. *)
EXTENDS SmpStart
=============================================================================
