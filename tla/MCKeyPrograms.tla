---------------------------- MODULE MCKeyPrograms ---------------------------
(* KeyPrograms for both programs, handlers and users. *)
EXTENDS KeyPrograms
=============================================================================
