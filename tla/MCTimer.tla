------------------------------ MODULE MCTimer ------------------------------
(* A small instance of Timer, and of the Deadline scheduler under it. *)
EXTENDS Timer

CONSTANTS w1, w2, k1, never
=============================================================================
