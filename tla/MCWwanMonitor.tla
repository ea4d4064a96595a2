--------------------------- MODULE MCWwanMonitor ---------------------------
(* WwanMonitor with a few commands and network changes. *)
EXTENDS WwanMonitor
=============================================================================
