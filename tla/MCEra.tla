------------------------------- MODULE MCEra -------------------------------
(* Small instances of Era. *)
EXTENDS Era

CONSTANTS c1, c2
=============================================================================
