------------------------------ MODULE Creation ------------------------------
(***************************************************************************)
(* The spawn transaction of one Fiber, composed with the lifecycle         *)
(* protocol of Inertia: spawn_prepared_inner (fiber/spawn.rs) from the     *)
(* registration of the dependency edges to the delivery of the handle, the *)
(* initial pass (initial_spawn_pass), and the guard that finishes a        *)
(* creation whose caller dropped the future (creation_interrupted_teardown).*)
(* Service mutations and group removal race it from the start.             *)
(***************************************************************************)
EXTENDS Inertia

\* The Fiber is allocated and resident; nothing has run.
SpawnInit ==
    /\ services \in [Edge -> {Missing, 1}]
    /\ input = 0
    /\ target = NoTarget /\ generation = NoTarget
    /\ state = "Pending" /\ applied = FALSE /\ creation_pending = TRUE
    /\ inertia = "IDLE" /\ creation_owned = FALSE
    /\ recheck_committed = 0 /\ recheck_settled = 0
    /\ woken = {} /\ current = {}
    /\ alive = TRUE /\ disposing = FALSE /\ generation_replacing = FALSE
    /\ dispose_complete = FALSE /\ error = FALSE
    /\ resident = TRUE /\ registered = FALSE
    /\ pc = [p \in Proc |-> IF p \in Caller THEN "rest"
                            ELSE IF p \in Task THEN "free" ELSE "register"]
    /\ op = [p \in Proc |-> IF p \in Task THEN "converge"
                            ELSE IF p \in Creator THEN "spawn" ELSE "none"]
    /\ goal = [p \in Proc |-> NoTarget]
    /\ revision = [p \in Proc |-> 0]
    /\ read = [p \in Proc |-> <<>>]
    /\ observed = [p \in Proc |-> "Pending"]

-----------------------------------------------------------------------------
\* The initial pass

\* The index refuses the edges of a Fiber that group removal already killed.
Register(c) ==
    /\ pc[c] = "register"
    /\ registered' = alive
    /\ Goto(c, "enlist")
    /\ UNCHANGED <<slotVars, services, stateVars, alive, disposing,
                   dispose_complete, resident, generationVars, localVars>>

\* Group removal won: the unlink is forced and spawn reports Interrupted.
InitialPassInterrupted(c) ==
    /\ pc[c] = "admitted" /\ op[c] = "spawn" /\ ~alive
    /\ resident' = FALSE
    /\ Abandon
    /\ Leave(c, "over")
    /\ UNCHANGED <<target, recheckVars, creation_owned, services, stateVars,
                   alive, disposing, dispose_complete, registered, generationVars>>

InitialPass(c) ==
    /\ pc[c] = "admitted" /\ op[c] = "spawn" /\ alive
    /\ creation_owned' = TRUE
    /\ revision' = [revision EXCEPT ![c] = recheck_committed]
    /\ Goto(c, "target_probe")
    /\ UNCHANGED <<wordVars, target, recheckVars, services, fiberVars, op, goal,
                   read, observed>>

\* Settled Pending or Active: record the target and try to release.  The
\* Pending write yields to a target a racing kick has recorded.
InitialSettled(c) ==
    /\ pc[c] = "spawn_settled"
    /\ HasMissing(goal[c]) \/ state # "Failed"
    /\ target' = IF HasMissing(goal[c]) /\ target # NoTarget THEN target
                 ELSE goal[c]
    /\ Goto(c, "release")
    /\ UNCHANGED <<wordVars, recheckVars, creation_owned, services, fiberVars,
                   localVars>>

\* Settled Failed: the failure moves into the answer and creation_teardown
\* starts under the slot still held.
InitialFailed(c) ==
    /\ pc[c] = "spawn_settled"
    /\ ~HasMissing(goal[c]) /\ state = "Failed"
    /\ target' = goal[c]
    /\ error' = FALSE
    /\ disposing' = TRUE
    /\ Goto(c, "unload")
    /\ UNCHANGED <<wordVars, recheckVars, creation_owned, services, stateVars,
                   alive, dispose_complete, resident, registered, input,
                   generation_replacing, creation_pending, applied, generation,
                   localVars>>

CreationUnlink(c) ==
    /\ pc[c] = "spawn_unlink"
    /\ resident' = FALSE
    /\ Goto(c, "spawn_publish")
    /\ UNCHANGED <<slotVars, services, stateVars, alive, disposing,
                   dispose_complete, registered, generationVars, localVars>>

CreationPublish(c) ==
    /\ pc[c] = "spawn_publish"
    /\ dispose_complete' = TRUE
    /\ Goto(c, "spawn_failed")
    /\ UNCHANGED <<slotVars, services, stateVars, alive, disposing, resident,
                   registered, generationVars, localVars>>

\* spawn reports InitialApply once the failed pass has released its slot.
CreationFailed(c) ==
    /\ pc[c] = "spawn_failed"
    /\ creation_owned' = FALSE
    /\ Abandon
    /\ Leave(c, "over")
    /\ UNCHANGED <<target, recheckVars, services, fiberVars>>

\* The tail of the pass after a clean release: clear the ownership mark, and
\* store IDLE again when the slot does not read idle.
InitialClear(c) ==
    /\ pc[c] = "spawn_clear"
    /\ creation_owned' = FALSE
    /\ Goto(c, "spawn_tail")
    /\ UNCHANGED <<wordVars, target, recheckVars, services, fiberVars, localVars>>

InitialTail(c) ==
    /\ pc[c] = "spawn_tail"
    /\ Goto(c, IF inertia = "IDLE" THEN "enlist" ELSE "spawn_abandon")
    /\ op' = [op EXCEPT ![c] = IF inertia = "IDLE" THEN "handoff" ELSE @]
    /\ UNCHANGED <<slotVars, services, fiberVars, goal, revision, read, observed>>

InitialAbandon(c) ==
    /\ pc[c] = "spawn_abandon"
    /\ Abandon
    /\ Goto(c, "enlist")
    /\ op' = [op EXCEPT ![c] = "handoff"]
    /\ UNCHANGED <<target, recheckVars, creation_owned, services, fiberVars,
                   goal, revision, read, observed>>

-----------------------------------------------------------------------------
\* The handoff: wait the slot back, judge, deliver

HandoffRecheck(c) ==
    /\ pc[c] = "admitted" /\ op[c] = "handoff"
    /\ Goto(c, IF alive THEN "handoff_live" ELSE "handoff_dead")
    /\ UNCHANGED <<slotVars, services, fiberVars, localVars>>

HandoffLive(c) ==
    /\ pc[c] = "handoff_live"
    /\ Abandon
    /\ Goto(c, "deliver")
    /\ UNCHANGED <<target, recheckVars, creation_owned, services, fiberVars,
                   localVars>>

Deliver(c) ==
    /\ pc[c] = "deliver"
    /\ creation_pending' = FALSE
    /\ Leave(c, "delivered")
    /\ UNCHANGED <<slotVars, services, stateVars, terminalVars, input,
                   generation_replacing, error, applied, generation>>

\* Disposed before handoff: Interrupted, with the unlink forced.
HandoffDead(c) ==
    /\ pc[c] = "handoff_dead"
    /\ Abandon
    /\ resident' = FALSE
    /\ Leave(c, "over")
    /\ UNCHANGED <<target, recheckVars, creation_owned, services, stateVars,
                   alive, disposing, dispose_complete, registered, generationVars>>

-----------------------------------------------------------------------------
\* The caller drops the spawn future at an await; the guard takes over

SuspendedAt(c) ==
    \/ pc[c] = "parked" /\ op[c] \in {"spawn", "handoff"}
    \/ op[c] = "spawn" /\ \/ pc[c] \in {"apply", "rollback", "drain"}
                          \/ pc[c] = "decide" /\ state = "Unloading"

DropSpawn(c) ==
    /\ c \in Creator /\ SuspendedAt(c)
    /\ pc' = [pc EXCEPT ![c] = "rescue"]
    /\ op' = [op EXCEPT ![c] = "rescue"]
    /\ UNCHANGED <<slotVars, services, fiberVars, goal, revision, read, observed>>

\* Slip: the guard claims the slot its own pass died holding.
RescueClaimsHeirless(c) ==
    /\ pc[c] = "rescue" /\ creation_owned
    /\ creation_owned' = FALSE
    /\ disposing' = TRUE
    /\ Goto(c, "enlist")
    /\ UNCHANGED <<wordVars, target, recheckVars, services, stateVars, alive,
                   dispose_complete, resident, registered, generationVars,
                   localVars>>

\* creation_interrupted_teardown inherits the slot its pass died holding ...
RescueInherit(c) ==
    /\ pc[c] = "rescue" /\ creation_owned
    /\ creation_owned' = FALSE
    /\ disposing' = TRUE
    /\ Goto(c, "unload")
    /\ UNCHANGED <<wordVars, target, recheckVars, services, stateVars, alive,
                   dispose_complete, resident, registered, generationVars,
                   localVars>>

\* ... or joins a disposal already committed, or commits its own and claims.
RescueClaim(c) ==
    /\ pc[c] = "rescue" /\ ~creation_owned
    /\ disposing' = TRUE
    /\ Goto(c, IF disposing THEN "await_complete" ELSE "enlist")
    /\ UNCHANGED <<slotVars, services, stateVars, alive, dispose_complete,
                   resident, registered, generationVars, localVars>>

RescueAdmitted(c) ==
    /\ pc[c] = "admitted" /\ op[c] = "rescue"
    /\ IF alive THEN Goto(c, "unload") /\ UNCHANGED <<wordVars, localVars>>
       ELSE Abandon /\ Leave(c, "over")
    /\ UNCHANGED <<target, recheckVars, creation_owned, services, fiberVars>>

-----------------------------------------------------------------------------
CreationStep(c) ==
    \/ Register(c) \/ InitialPassInterrupted(c) \/ InitialPass(c)
    \/ InitialSettled(c) \/ InitialFailed(c)
    \/ CreationUnlink(c) \/ CreationPublish(c) \/ CreationFailed(c)
    \/ InitialClear(c) \/ InitialTail(c) \/ InitialAbandon(c)
    \/ HandoffRecheck(c) \/ HandoffLive(c) \/ HandoffDead(c) \/ Deliver(c)
    \/ RescueInherit(c) \/ RescueClaim(c) \/ RescueAdmitted(c)

SpawnStep(p) == Step(p) \/ SettleWithheld(p) \/ CreationStep(p)

SpawnNext == \E p \in Proc : SpawnStep(p) \/ UserStep(p) \/ DropSpawn(p)

SpawnSpec     == SpawnInit /\ [][SpawnNext]_vars
FairSpawnSpec == SpawnSpec /\ \A p \in Proc : WF_vars(SpawnStep(p))

-----------------------------------------------------------------------------
\* Properties

\* The first apply, and so its failure, belongs to the creation: until the
\* initial pass releases the slot, a parked failure is one it has just settled
\* itself and is about to report as InitialApply, never one that a racing
\* convergence produced behind its back.
FirstFailureIsTheCreations ==
    \A c \in Creator : error /\ op[c] = "spawn" =>
        pc[c] \in {"spawn_settled", "spawn_clear", "spawn_tail", "spawn_abandon"}

\* Every spawn transaction ends wherever its future is dropped, once group
\* removals stop contending for the slot: delivered, or with the attempted Fiber
\* dead, unlinked and out of the dependency index (CreationGuard), whatever state
\* a pass that lost its slot (see SlotExclusive) published last.
SpawnEnds ==
    <>[](\A q \in Caller : op[q] \notin Disposal) =>
        \A c \in Creator :
           <>(\/ pc[c] = "delivered"
              \/ pc[c] = "over" /\ ~alive /\ ~resident /\ ~registered)
=============================================================================
