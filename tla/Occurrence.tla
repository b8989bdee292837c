----------------------------- MODULE Occurrence -----------------------------
(***************************************************************************)
(* What a listener registration promises (events/listener.rs): every       *)
(* occurrence is registered once and withdrawn at most once, for ever; only*)
(* a registered occurrence can be claimed for an invocation, and the claim *)
(* of a once-occurrence is itself the withdrawal.  Events implements this. *)
(***************************************************************************)
EXTENDS Naturals

CONSTANTS Listener, Caller

VARIABLES
    phase,     \* "absent", "registered" or "withdrawn"
    once,      \* the occurrence is claim-at-most-once
    running    \* the operations that hold a claim on it

vars == <<phase, once, running>>

Init ==
    /\ phase = [l \in Listener |-> "absent"]
    /\ once = [l \in Listener |-> FALSE]
    /\ running = [l \in Listener |-> {}]

Register(l) ==
    /\ phase[l] = "absent"
    /\ phase' = [phase EXCEPT ![l] = "registered"]
    /\ \E b \in BOOLEAN : once' = [once EXCEPT ![l] = b]
    /\ UNCHANGED running

Withdraw(l) ==
    /\ phase[l] = "registered"
    /\ phase' = [phase EXCEPT ![l] = "withdrawn"]
    /\ UNCHANGED <<once, running>>

Claim(c, l) ==
    /\ phase[l] = "registered" /\ c \notin running[l]
    /\ running' = [running EXCEPT ![l] = @ \cup {c}]
    /\ phase' = IF once[l] THEN [phase EXCEPT ![l] = "withdrawn"] ELSE phase
    /\ UNCHANGED once

\* Invocations end, or are dropped with their caller's future.
Release(c) ==
    /\ \E L \in SUBSET Listener :
         running' = [l \in Listener |-> IF l \in L THEN running[l] \ {c} ELSE running[l]]
    /\ UNCHANGED <<phase, once>>

Next ==
    \/ \E l \in Listener : Register(l) \/ Withdraw(l)
    \/ \E c \in Caller : Release(c) \/ \E l \in Listener : Claim(c, l)

Spec == Init /\ [][Next]_vars
=============================================================================
