----------------------------- MODULE MCCreation -----------------------------
(* Instances of Creation for TLC: one spawn transaction and its rivals. *)
EXTENDS Creation, TLC

Symmetry ==
    Permutations(Caller \ OffRuntime) \cup Permutations(OffRuntime)
        \cup Permutations(Task)
=============================================================================
