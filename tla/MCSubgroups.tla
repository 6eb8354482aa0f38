---------------------------- MODULE MCSubgroups ----------------------------
(* Subgroups for TLC: two subgroups, so that a stream can be overtaken by  *)
(* a later one and the first can be skipped, of two objects each, so that  *)
(* a stream can end between them, and two failures in a row end a session. *)
EXTENDS Subgroups
=============================================================================
