----------------------------- MODULE MCInertia -----------------------------
(* Instances of Inertia for TLC: a delivered Fiber and its callers. *)
EXTENDS Inertia, TLC

\* Callers on the same side of the runtime boundary are interchangeable, and
\* so are tasks.
Symmetry ==
    Permutations(Caller \ OffRuntime) \cup Permutations(OffRuntime)
        \cup Permutations(Task)
=============================================================================
