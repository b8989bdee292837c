----------------------------- MODULE MCJournal -----------------------------
(* Instances of Journal for TLC: one registering thread, and the tasks it     *)
(* starts, which register resources of their own.                             *)
EXTENDS Journal
=============================================================================
