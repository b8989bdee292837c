------------------------------- MODULE Inertia -------------------------------
(***************************************************************************)
(* One Fiber and the inertia slot that arbitrates every lifecycle pass on  *)
(* it (crates/cordis-core/src/fiber/inertia.rs, with the settle, dispose   *)
(* and ready paths of fiber/mod.rs).                                       *)
(*                                                                         *)
(* Each step is one atomic operation of the code: a compare-exchange, a    *)
(* load or store another thread can observe, one read of one dependency    *)
(* edge under the ServiceStore lock, or one published lifecycle state.     *)
(* A process is a caller of the public API or a framework-owned            *)
(* convergence task.  A restart, update or dispose that has committed is   *)
(* owned by the framework, so its caller stands for the transaction: a     *)
(* caller that stops waiting changes nothing.                              *)
(*                                                                         *)
(* This module holds the protocol of a Fiber whose handle was delivered.   *)
(* Creation adds the spawn transaction, whose labels and continuations     *)
(* appear in the tables below because both share settle and release.       *)
(***************************************************************************)
EXTENDS Integers, Sequences, FiniteSets

CONSTANTS
    Caller,      \* threads or async tasks that call the public API
    Task,        \* framework-owned convergence tasks that may be spawned
    Creator,     \* the process running the spawn transaction, if modelled
    OffRuntime,  \* the callers with no Tokio runtime current
    Ops,         \* the operations callers perform in this instance
    Edges,       \* how many dependency edges the Fiber declares
    MaxCommits,  \* bound on Service visibility commits
    MaxUpdates,  \* bound on committed input replacements
    NoTarget     \* the empty target cell (Option::None)

Operation == {"mutate", "restart", "update", "dispose", "remove", "ready"}
Disposal  == {"dispose", "remove"}  \* by the handle, or by group removal

ASSUME ProcessesAreDistinct ==
    Caller \cap Task = {} /\ Caller \cap Creator = {} /\ Task \cap Creator = {}
\* A Fiber is created by one spawn_prepared_inner.
ASSUME OneSpawnTransaction == \A c, d \in Creator : c = d
ASSUME OffRuntimeAreCallers == OffRuntime \subseteq Caller
ASSUME OpsAreOperations     == Ops \subseteq Operation
ASSUME BoundsAreNatural     ==
    Edges \in Nat /\ MaxCommits \in Nat /\ MaxUpdates \in Nat

Proc    == Caller \cup Task \cup Creator
Edge    == 1..Edges
Missing == 0            \* an edge with no visible publication

\* A SemanticTarget: the committed input and each edge's publication
\* occurrence.  Occurrence and input identities are never reused, so the
\* n-th commit names its publication n + 1 and the n-th update its input n.
Target == [input : Nat, deps : [Edge -> Nat]]
ASSUME NoTargetIsNoTarget == NoTarget \notin Target

HasMissing(t) == \E e \in Edge : t.deps[e] = Missing

FiberState == {"Pending", "Loading", "Active", "Unloading", "Failed", "Disposed"}
Transient  == {"Loading", "Unloading"}

VARIABLES
    \* the InertiaSlot
    inertia, target, recheck_committed, recheck_settled, woken, creation_owned,
    \* the ServiceStore: the visible publication of each of the Fiber's edges
    services,
    \* the Fiber
    input, state, current, alive, disposing, generation_replacing,
    dispose_complete, error, creation_pending, applied, resident, registered,
    \* history: the target the live generation was applied against
    generation,
    \* the processes: control point, operation, and local variables
    pc, op, goal, revision, read, observed

wordVars       == <<inertia, woken>>
recheckVars    == <<recheck_committed, recheck_settled>>
slotVars       == <<wordVars, target, recheckVars, creation_owned>>
stateVars      == <<state, current>>
terminalVars   == <<alive, disposing, dispose_complete, resident, registered>>
generationVars == <<input, generation_replacing, error, creation_pending,
                    applied, generation>>
fiberVars      == <<stateVars, terminalVars, generationVars>>
localVars      == <<op, goal, revision, read, observed>>
vars           == <<slotVars, services, fiberVars, pc, localVars>>


\* Control points.  A process at a Holding label owns the slot; at a Probing
\* label it is inside compute_target.
Probing  == {"first_probe", "target_probe", "retarget_probe", "converge_probe",
             "release_probe"}
Settling == {"settle", "decide", "apply", "rollback"}
Teardown == {"unload", "die", "drain"}
Holding  == Probing \cup Settling \cup Teardown \cup
            {"admitted", "converge", "release", "release_cas", "abandon",
             "spawn_settled", "spawn_unlink", "spawn_publish", "spawn_failed",
             "handoff_live", "handoff_dead"}
Waiting  == {"enlist", "attempt", "parked"}
Label    == Holding \cup Waiting \cup
            {"rest", "free", "mutate", "kick", "kick_slot",
             "unlink", "publish", "await_complete", "ready", "observe",
             "check_idle", "check_committed", "check_sequence", "answer",
             "register", "spawn_clear", "spawn_tail", "spawn_abandon",
             "deliver", "rescue", "delivered", "over"}

\* Where each kind of process continues after settle_once, after a release
\* that found drift, after a clean release, and after the teardown body.
Driver        == {"converge", "restart", "update", "spawn"}
AfterSettle   == [converge |-> "converge_probe", restart |-> "release",
                  update |-> "release", spawn |-> "spawn_settled"]
AfterDrift    == [converge |-> "converge", restart |-> "retarget_probe",
                  update |-> "retarget_probe", spawn |-> "target_probe"]
AfterClean    == [converge |-> "free", restart |-> "rest", update |-> "rest",
                  spawn |-> "spawn_clear", mutate |-> "rest", ready |-> "enlist"]
\* Slips in the release of a disposed Fiber, for the mutation runs: the slot is
\* never released, the owner joins the barrier it has to complete.
KeepsSlotAfterTeardown == [dispose |-> "unlink", remove |-> "unlink",
                           rescue |-> "unlink", spawn |-> "spawn_unlink"]
JoinsItsOwnBarrier     == [dispose |-> "await_complete", remove |-> "abandon",
                           rescue |-> "abandon", spawn |-> "spawn_unlink"]

AfterTeardown == [dispose |-> "abandon", remove |-> "abandon",
                  rescue |-> "abandon", spawn |-> "spawn_unlink"]

\* What compute_target has read so far of the edges, in order.
EdgeReads == {r \in Seq(Nat) : Len(r) <= Edges}

SlotTypeOK ==
    /\ inertia \in {"IDLE", "ACTIVE", "RELEASING"}
    /\ target \in Target \cup {NoTarget}
    /\ recheck_committed \in Nat /\ recheck_settled \in Nat
    /\ woken \subseteq Proc /\ creation_owned \in BOOLEAN
    /\ services \in [Edge -> Nat]

FiberTypeOK ==
    /\ input \in Nat /\ state \in FiberState /\ current \subseteq Proc
    /\ alive \in BOOLEAN /\ disposing \in BOOLEAN
    /\ generation_replacing \in BOOLEAN /\ dispose_complete \in BOOLEAN
    /\ error \in BOOLEAN /\ creation_pending \in BOOLEAN /\ applied \in BOOLEAN
    /\ resident \in BOOLEAN /\ registered \in BOOLEAN
    /\ generation \in Target \cup {NoTarget}

ProcessTypeOK ==
    /\ pc \in [Proc -> Label]
    /\ op \in [Proc -> Operation \cup Driver \cup {"none", "handoff", "rescue"}]
    /\ goal \in [Proc -> Target \cup {NoTarget}]
    /\ revision \in [Proc -> Nat]
    /\ read \in [Proc -> EdgeReads]
    /\ observed \in [Proc -> FiberState]

TypeOK == SlotTypeOK /\ FiberTypeOK /\ ProcessTypeOK

-----------------------------------------------------------------------------
\* Building blocks

Goto(p, l) == pc' = [pc EXCEPT ![p] = l]

\* Continue at l with the locals out of scope; at "rest" the call has returned.
Leave(p, l) ==
    /\ pc' = [pc EXCEPT ![p] = l]
    /\ op' = IF l = "rest" THEN [op EXCEPT ![p] = "none"] ELSE op
    /\ goal' = [goal EXCEPT ![p] = NoTarget]
    /\ revision' = [revision EXCEPT ![p] = 0]
    /\ read' = [read EXCEPT ![p] = <<>>]
    /\ observed' = [observed EXCEPT ![p] = "Pending"]

\* Slip: a publication that does not advance the sequence.
PublishUnsequenced(s) == state' = s /\ UNCHANGED current

\* StatePublication::publish.  A ready() caller compares the publication
\* sequence it observed with the current one; "current" holds the callers for
\* whom the two are still equal.
Publish(s) ==
    /\ state' = s
    /\ current' = IF s = state THEN current ELSE {}

\* Slip: IDLE stored without waking the waiters.
AbandonSilently == inertia' = "IDLE" /\ UNCHANGED woken

\* Store IDLE and wake every registered waiter.
Abandon ==
    /\ inertia' = "IDLE"
    /\ woken' = {q \in Proc : pc[q] \in {"attempt", "parked"}}

HasCommittedRecheck == recheck_committed # recheck_settled

\* The ServiceStore lock is held between the durable commit and the mutation.
Locked == \E p \in Proc : pc[p] = "mutate"

\* What the process computed from the edges it read one by one.
HasRead(p)  == Len(read[p]) = Edges
Computed(p) == [input |-> input, deps |-> read[p]]

\* The spawn transaction has handed the FiberHandle to its caller.
Delivered == \A c \in Creator : pc[c] = "delivered"

-----------------------------------------------------------------------------
\* Initially the handle of a quiescent Fiber was just delivered.

DeliveredInit ==
    /\ services \in [Edge -> {Missing, 1}]
    /\ input = 0
    /\ target = [input |-> 0, deps |-> services]
    /\ applied = ~HasMissing(target)
    /\ state = IF applied THEN "Active" ELSE "Pending"
    /\ generation = IF applied THEN target ELSE NoTarget
    /\ inertia = "IDLE"
    /\ recheck_committed = 0 /\ recheck_settled = 0
    /\ woken = {} /\ current = {}
    /\ creation_owned = FALSE /\ creation_pending = FALSE
    /\ alive = TRUE /\ disposing = FALSE /\ generation_replacing = FALSE
    /\ dispose_complete = FALSE /\ error = FALSE
    /\ resident = TRUE /\ registered = TRUE
    /\ pc = [p \in Proc |-> IF p \in Caller THEN "rest"
                            ELSE IF p \in Task THEN "free" ELSE "delivered"]
    /\ op = [p \in Proc |-> IF p \in Task THEN "converge" ELSE "none"]
    /\ goal = [p \in Proc |-> NoTarget]
    /\ revision = [p \in Proc |-> 0]
    /\ read = [p \in Proc |-> <<>>]
    /\ observed = [p \in Proc |-> "Pending"]

-----------------------------------------------------------------------------
\* A Service visibility mutation affecting this Fiber

\* Inside the ServiceStore lock the durable revision is committed first ...
CommitRecheck(p) ==
    /\ pc[p] = "rest" /\ p \in Caller /\ "mutate" \in Ops
    /\ ~Locked /\ registered /\ recheck_committed < MaxCommits
    /\ recheck_committed' = recheck_committed + 1
    /\ Goto(p, "mutate") /\ op' = [op EXCEPT ![p] = "mutate"]
    /\ UNCHANGED <<wordVars, target, recheck_settled, creation_owned,
                   fiberVars, services, goal, revision, read, observed>>

\* ... then publications appear (each a fresh occurrence) or are withdrawn,
\* one or, at a provider's Active boundary, several at once.
MutateServices(p) ==
    /\ pc[p] = "mutate"
    /\ \E D \in (SUBSET Edge) \ {{}} :
        \/ /\ \A e \in D : services[e] = Missing
           /\ services' = [e \in Edge |-> IF e \in D THEN recheck_committed + 1
                                                     ELSE services[e]]
        \/ /\ \A e \in D : services[e] # Missing
           /\ services' = [e \in Edge |-> IF e \in D THEN Missing
                                                     ELSE services[e]]
    /\ Goto(p, "kick")
    /\ UNCHANGED <<slotVars, fiberVars, localVars>>

-----------------------------------------------------------------------------
\* kick: hand an outstanding revision to a driver

Kick(p) ==
    /\ pc[p] = "kick"
    /\ \/ /\ alive /\ HasCommittedRecheck
          /\ Goto(p, "kick_slot") /\ UNCHANGED localVars
       \/ /\ ~alive \/ ~HasCommittedRecheck
          /\ Leave(p, AfterClean[op[p]])
    /\ UNCHANGED <<slotVars, fiberVars, services>>

\* The in-flight holder is trusted to pick the mutation up.
KickActive(p) ==
    /\ pc[p] = "kick_slot" /\ inertia = "ACTIVE"
    /\ Leave(p, AfterClean[op[p]])
    /\ UNCHANGED <<slotVars, fiberVars, services>>

\* Slip: a releasing holder is trusted like an active one.
KickTrustsReleasing(p) ==
    /\ pc[p] = "kick_slot" /\ inertia = "RELEASING"
    /\ Leave(p, AfterClean[op[p]])
    /\ UNCHANGED <<slotVars, fiberVars, services>>

\* The releasing holder is made to keep the slot.
KickReleasing(p) ==
    /\ pc[p] = "kick_slot" /\ inertia = "RELEASING"
    /\ inertia' = "ACTIVE"
    /\ Leave(p, AfterClean[op[p]])
    /\ UNCHANGED <<woken, target, recheckVars, creation_owned, fiberVars,
                   services>>

\* No executor: the revision stays outstanding.
KickOffRuntime(p) ==
    /\ pc[p] = "kick_slot" /\ inertia = "IDLE" /\ p \in OffRuntime
    /\ Leave(p, AfterClean[op[p]])
    /\ UNCHANGED <<slotVars, fiberVars, services>>

\* The slot is claimed, then probed against the stored target if there is one.
KickIdle(p) ==
    /\ pc[p] = "kick_slot" /\ inertia = "IDLE" /\ p \notin OffRuntime
    /\ inertia' = "ACTIVE"
    /\ revision' = [revision EXCEPT ![p] = recheck_committed]
    /\ goal' = [goal EXCEPT ![p] = target]
    /\ Goto(p, IF target = NoTarget THEN "first_probe" ELSE "release")
    /\ UNCHANGED <<woken, target, recheckVars, creation_owned, fiberVars,
                   services, op, read, observed>>

\* spawn_convergence_pass: the slot passes from the kicker to a new task.
SpawnConvergencePass(p) ==
    \E t \in Task :
        /\ pc[t] = "free"
        /\ pc' = [pc EXCEPT ![t] = "converge", ![p] = AfterClean[op[p]]]
        /\ op' = IF op[p] = "mutate" THEN [op EXCEPT ![p] = "none"] ELSE op
        /\ goal' = [goal EXCEPT ![p] = NoTarget]
        /\ revision' = [revision EXCEPT ![p] = 0]
        /\ read' = [read EXCEPT ![p] = <<>>]
        /\ UNCHANGED observed

KickFirstTarget(p) ==
    /\ pc[p] = "first_probe" /\ HasRead(p)
    /\ target' = Computed(p)
    /\ SpawnConvergencePass(p)
    /\ UNCHANGED <<wordVars, recheckVars, creation_owned, fiberVars,
                   services>>

-----------------------------------------------------------------------------
\* compute_target reads the edges in order, each under the ServiceStore lock

ReadEdge(p) ==
    /\ pc[p] \in Probing /\ ~HasRead(p) /\ ~Locked
    /\ read' = [read EXCEPT ![p] = Append(@, services[Len(@) + 1])]
    /\ UNCHANGED <<slotVars, fiberVars, services, pc, op, goal, revision,
                   observed>>

-----------------------------------------------------------------------------
\* exit_recheck: judge drift from RELEASING, then release by compare-exchange

StoreReleasing(p) ==
    /\ pc[p] = "release"
    /\ inertia' = "RELEASING"
    /\ Goto(p, "release_probe")
    /\ UNCHANGED <<woken, target, recheckVars, creation_owned, fiberVars,
                   services, localVars>>

\* Drift: keep the slot and go on toward the recorded target.
ReleaseDrift(p) ==
    /\ pc[p] = "release_probe" /\ HasRead(p) /\ Computed(p) # goal[p]
    /\ target' = Computed(p)
    /\ inertia' = "ACTIVE"
    /\ \/ op[p] \notin Driver /\ SpawnConvergencePass(p)
       \/ /\ op[p] \in Driver
          /\ Goto(p, AfterDrift[op[p]])
          /\ revision' = [revision EXCEPT ![p] = recheck_committed]
          /\ goal' = [goal EXCEPT ![p] = NoTarget]
          /\ read' = [read EXCEPT ![p] = <<>>]
          /\ UNCHANGED <<op, observed>>
    /\ UNCHANGED <<woken, recheckVars, creation_owned, fiberVars, services>>

\* A revision arrived since the target was judged: probe again.
ReleaseReprobe(p) ==
    /\ pc[p] = "release_probe" /\ HasRead(p) /\ Computed(p) = goal[p]
    /\ recheck_committed # revision[p]
    /\ revision' = [revision EXCEPT ![p] = recheck_committed]
    /\ read' = [read EXCEPT ![p] = <<>>]
    /\ Goto(p, "release")
    /\ UNCHANGED <<slotVars, fiberVars, services, op, goal, observed>>

\* Slip: whatever is committed by now is acknowledged, probed or not.
ReleaseSettleUnprobed(p) ==
    /\ pc[p] = "release_probe" /\ HasRead(p) /\ Computed(p) = goal[p]
    /\ recheck_settled' = recheck_committed
    /\ read' = [read EXCEPT ![p] = <<>>]
    /\ Goto(p, "release_cas")
    /\ UNCHANGED <<wordVars, target, recheck_committed, creation_owned,
                   fiberVars, services, op, goal, revision, observed>>

ReleaseSettle(p) ==
    /\ pc[p] = "release_probe" /\ HasRead(p) /\ Computed(p) = goal[p]
    /\ recheck_committed = revision[p]
    /\ recheck_settled' = revision[p]
    /\ read' = [read EXCEPT ![p] = <<>>]
    /\ Goto(p, "release_cas")
    /\ UNCHANGED <<wordVars, target, recheck_committed, creation_owned,
                   fiberVars, services, op, goal, revision, observed>>

\* The release succeeds, or a racing kick has taken the slot back for us.
ReleaseCas(p) ==
    /\ pc[p] = "release_cas"
    /\ \/ /\ inertia = "RELEASING"
          /\ Abandon
          /\ Leave(p, AfterClean[op[p]])
       \/ /\ inertia = "ACTIVE"
          /\ revision' = [revision EXCEPT ![p] = recheck_committed]
          /\ Goto(p, "release")
          /\ UNCHANGED <<wordVars, op, goal, read, observed>>
    /\ UNCHANGED <<target, recheckVars, creation_owned, fiberVars, services>>

-----------------------------------------------------------------------------
\* Lifecycle calls and their wait for the slot

\* A handle is needed for all but group removal, which finds the Fiber in the
\* Registry.  restart and update refuse a dead Fiber; a completed disposal
\* returns at once.
Admissible(o) ==
    CASE o = "dispose" -> Delivered /\ ~dispose_complete
      [] o = "remove"  -> resident /\ ~dispose_complete
      [] o = "restart" -> Delivered /\ alive
      [] o = "update"  -> /\ Delivered /\ alive
                          /\ input + Cardinality({q \in Proc : op[q] = "update"})
                                 < MaxUpdates
      [] o = "ready"   -> Delivered

Invoke(p, o) ==
    /\ pc[p] = "rest" /\ p \in Caller /\ o \in Ops \ {"mutate"}
    /\ Admissible(o)
    /\ Goto(p, IF o = "ready" THEN "ready" ELSE "enlist")
    /\ op' = [op EXCEPT ![p] = o]
    /\ UNCHANGED <<slotVars, fiberVars, services, goal, revision, read,
                   observed>>

\* claim and wait_idle create their Notified before they look at the slot.
Enlist(p) ==
    /\ pc[p] = "enlist"
    /\ Goto(p, "attempt")
    /\ UNCHANGED <<slotVars, fiberVars, services, localVars>>

Attempt(p) ==
    /\ pc[p] = "attempt"
    /\ IF inertia # "IDLE" THEN Goto(p, "parked") /\ UNCHANGED wordVars
       ELSE /\ woken' = woken \ {p}
            /\ IF op[p] = "ready" THEN Goto(p, "observe") /\ UNCHANGED inertia
               ELSE Goto(p, "admitted") /\ inertia' = "ACTIVE"
    /\ UNCHANGED <<target, recheckVars, creation_owned, fiberVars, services,
                   localVars>>

Wake(p) ==
    /\ pc[p] = "parked" /\ p \in woken
    /\ woken' = woken \ {p}
    /\ Goto(p, "enlist")
    /\ UNCHANGED <<inertia, target, recheckVars, creation_owned, fiberVars,
                   services, localVars>>

\* A caller drops its future while it waits: before the commit, no effect.
CancelWait(p) ==
    /\ pc[p] \in {"parked", "await_complete"} /\ p \in Caller
    /\ woken' = woken \ {p}
    /\ Leave(p, "rest")
    /\ UNCHANGED <<inertia, target, recheckVars, creation_owned, fiberVars,
                   services>>

\* restart_pass and update_pass lose admission to a finished disposal ...
AdmitDead(p) ==
    /\ pc[p] = "admitted" /\ op[p] \in {"restart", "update"} /\ ~alive
    /\ Abandon
    /\ Leave(p, "rest")
    /\ UNCHANGED <<target, recheckVars, creation_owned, fiberVars, services>>

\* ... or take the revision and compute the target; update has by then closed
\* the old generation and committed the new input.
AdmitReplacement(p) ==
    /\ pc[p] = "admitted" /\ op[p] \in {"restart", "update"} /\ alive
    /\ IF op[p] = "update"
       THEN generation_replacing' = TRUE /\ input' = input + 1
       ELSE UNCHANGED <<generation_replacing, input>>
    /\ revision' = [revision EXCEPT ![p] = recheck_committed]
    /\ Goto(p, "target_probe")
    /\ UNCHANGED <<slotVars, creation_pending, services, stateVars,
                   terminalVars, error, applied, generation, op, goal, read,
                   observed>>

\* Slip: a target adopted after drift is released without being settled.
AdoptUnsettled(p) ==
    /\ pc[p] \in {"target_probe", "retarget_probe"} /\ HasRead(p)
    /\ goal' = [goal EXCEPT ![p] = Computed(p)]
    /\ read' = [read EXCEPT ![p] = <<>>]
    /\ target' = IF op[p] = "spawn" THEN target ELSE Computed(p)
    /\ generation_replacing' =
           (generation_replacing \/ (pc[p] = "target_probe" /\ op[p] = "restart"))
    /\ Goto(p, IF pc[p] = "target_probe" THEN "settle" ELSE "release")
    /\ UNCHANGED <<wordVars, recheckVars, creation_owned, creation_pending,
                   services, stateVars, terminalVars, input, error, applied,
                   generation, op, revision, observed>>

\* The computed target becomes the pass's goal.  Restart and update record it
\* at once (and restart now closes the old generation); the initial pass
\* records only what it has settled.
AdoptTarget(p) ==
    /\ pc[p] \in {"target_probe", "retarget_probe"} /\ HasRead(p)
    /\ goal' = [goal EXCEPT ![p] = Computed(p)]
    /\ read' = [read EXCEPT ![p] = <<>>]
    /\ target' = IF op[p] = "spawn" THEN target ELSE Computed(p)
    /\ generation_replacing' =
           (generation_replacing \/ (pc[p] = "target_probe" /\ op[p] = "restart"))
    /\ Goto(p, "settle")
    /\ UNCHANGED <<wordVars, recheckVars, creation_owned, creation_pending,
                   services, stateVars, terminalVars, input, error, applied,
                   generation, op, revision, observed>>

-----------------------------------------------------------------------------
\* convergence_pass

Converge(p) ==
    /\ pc[p] = "converge"
    /\ revision' = [revision EXCEPT ![p] = recheck_committed]
    /\ goal' = [goal EXCEPT ![p] = target]
    /\ Goto(p, "settle")
    /\ UNCHANGED <<slotVars, fiberVars, services, op, read, observed>>

ConvergeJudge(p) ==
    /\ pc[p] = "converge_probe" /\ HasRead(p)
    /\ IF Computed(p) = goal[p] THEN Goto(p, "release") /\ UNCHANGED target
       ELSE Goto(p, "converge") /\ target' = Computed(p)
    /\ read' = [read EXCEPT ![p] = <<>>]
    /\ UNCHANGED <<wordVars, recheckVars, creation_owned, fiberVars, services,
                   op, goal, revision, observed>>

-----------------------------------------------------------------------------
\* settle_once: tear down what is live, then apply toward the goal

\* settle_once returns to its driver.
EndSettle(p) == Goto(p, AfterSettle[op[p]]) /\ UNCHANGED localVars

\* Slip: a pass that outlived the disposal settles all the same.
SettleDead(p) ==
    /\ pc[p] = "settle"
    /\ IF state \in {"Active", "Failed", "Loading"} THEN Publish("Unloading")
       ELSE UNCHANGED stateVars
    /\ Goto(p, "decide")
    /\ UNCHANGED <<slotVars, generationVars, services, terminalVars, localVars>>

\* A disposed Fiber is never settled; a live generation is closed first.
Settle(p) ==
    /\ pc[p] = "settle"
    /\ \/ ~alive /\ EndSettle(p) /\ UNCHANGED stateVars
       \/ /\ alive /\ state \in {"Active", "Failed", "Loading"}
          /\ Publish("Unloading")
          /\ Goto(p, "decide") /\ UNCHANGED localVars
       \/ /\ alive /\ state \notin {"Active", "Failed", "Loading"}
          /\ Goto(p, "decide") /\ UNCHANGED <<stateVars, localVars>>
    /\ UNCHANGED <<slotVars, generationVars, services, terminalVars>>

\* Slip: any pass may run the first apply.
WithholdsNothing(p) == FALSE

\* While the spawn transaction is open only its own pass runs the first apply.
WithholdsFirstApply(p) == op[p] # "spawn" /\ creation_pending /\ ~applied

\* The drain has finished: park without the missing services ...
SettlePending(p) ==
    /\ pc[p] = "decide" /\ HasMissing(goal[p])
    /\ error' = FALSE
    /\ Publish("Pending")
    /\ generation' = NoTarget
    /\ EndSettle(p)
    /\ UNCHANGED <<slotVars, creation_pending, services, terminalVars, input,
                   generation_replacing, applied>>

\* ... or leave the first apply to the creation ...
SettleWithheld(p) ==
    /\ pc[p] = "decide" /\ ~HasMissing(goal[p]) /\ WithholdsFirstApply(p)
    /\ EndSettle(p)
    /\ UNCHANGED <<slotVars, fiberVars, services>>

\* Slip: the replacement gate stays closed on the new generation.
SettleLoadingGated(p) ==
    /\ pc[p] = "decide" /\ ~HasMissing(goal[p]) /\ ~WithholdsFirstApply(p)
    /\ Publish("Loading")
    /\ generation' = goal[p]
    /\ Goto(p, "apply")
    /\ UNCHANGED <<slotVars, creation_pending, services, terminalVars, input,
                   generation_replacing, error, applied, localVars>>

\* ... or open the new generation and start the Plugin's apply.
SettleLoading(p) ==
    /\ pc[p] = "decide" /\ ~HasMissing(goal[p]) /\ ~WithholdsFirstApply(p)
    /\ generation_replacing' = FALSE
    /\ Publish("Loading")
    /\ generation' = goal[p]
    /\ Goto(p, "apply")
    /\ UNCHANGED <<slotVars, creation_pending, services, terminalVars, input,
                   error, applied, localVars>>

ApplyOk(p) ==
    /\ pc[p] = "apply"
    /\ applied' = TRUE
    /\ error' = FALSE
    /\ Publish("Active")
    /\ EndSettle(p)
    /\ UNCHANGED <<slotVars, creation_pending, services, terminalVars, input,
                   generation_replacing, generation>>

\* apply returned an error or panicked: roll back, then park the failure.
ApplyFails(p) ==
    /\ pc[p] = "apply"
    /\ applied' = TRUE
    /\ Publish("Unloading")
    /\ Goto(p, "rollback")
    /\ UNCHANGED <<slotVars, creation_pending, services, terminalVars, input,
                   generation_replacing, error, generation, localVars>>

ParkFailure(p) ==
    /\ pc[p] = "rollback"
    /\ error' = TRUE
    /\ Publish("Failed")
    /\ EndSettle(p)
    /\ UNCHANGED <<slotVars, creation_pending, services, terminalVars, input,
                   generation_replacing, applied, generation>>

-----------------------------------------------------------------------------
\* dispose

\* Disposal was completed, or committed, by somebody else; give the slot back.
DisposeLate(p) ==
    /\ pc[p] = "admitted" /\ op[p] \in Disposal /\ (dispose_complete \/ disposing)
    /\ Abandon
    /\ IF dispose_complete THEN Leave(p, "rest")
       ELSE Goto(p, "await_complete") /\ UNCHANGED localVars
    /\ UNCHANGED <<target, recheckVars, creation_owned, fiberVars, services>>

ClaimTerminal(p) ==
    /\ pc[p] = "admitted" /\ op[p] \in Disposal
    /\ ~dispose_complete /\ ~disposing
    /\ disposing' = TRUE
    /\ Goto(p, "unload")
    /\ UNCHANGED <<slotVars, generationVars, services, stateVars, alive,
                   dispose_complete, resident, registered, localVars>>

AwaitComplete(p) ==
    /\ pc[p] = "await_complete" /\ dispose_complete
    /\ Leave(p, IF p \in Creator THEN "over" ELSE "rest")
    /\ UNCHANGED <<slotVars, fiberVars, services>>

\* teardown_body: close the creation window and the generation ...
TeardownUnload(p) ==
    /\ pc[p] = "unload"
    /\ creation_pending' = FALSE
    /\ IF state = "Disposed"
       THEN Goto(p, AfterTeardown[op[p]]) /\ UNCHANGED stateVars
       ELSE Goto(p, "die") /\ Publish("Unloading")
    /\ UNCHANGED <<slotVars, services, terminalVars, input,
                   generation_replacing, error, applied, generation,
                   localVars>>

\* Slip: a dead Fiber stays in the dependency index.
TeardownDieRegistered(p) ==
    /\ pc[p] = "die"
    /\ target' = NoTarget
    /\ alive' = FALSE
    /\ Goto(p, "drain")
    /\ UNCHANGED <<wordVars, recheckVars, creation_owned, generationVars,
                   services, stateVars, registered, disposing,
                   dispose_complete, resident, localVars>>

\* ... pin the target, mark the Fiber dead and drop its edges from the
\* dependency index before anything drains ...
TeardownDie(p) ==
    /\ pc[p] = "die"
    /\ target' = NoTarget
    /\ alive' = FALSE
    /\ registered' = FALSE
    /\ Goto(p, "drain")
    /\ UNCHANGED <<wordVars, recheckVars, creation_owned, generationVars,
                   services, stateVars, disposing, dispose_complete, resident,
                   localVars>>

\* ... and publish Disposed once the journal is drained.
TeardownDisposed(p) ==
    /\ pc[p] = "drain"
    /\ Publish("Disposed")
    /\ error' = FALSE
    /\ generation' = NoTarget
    /\ Goto(p, AfterTeardown[op[p]])
    /\ UNCHANGED <<slotVars, creation_pending, services, terminalVars, input,
                   generation_replacing, applied, localVars>>

\* complete_claimed_dispose: release the slot, unlink from the Registry, and
\* only then complete the terminal barrier.
TeardownAbandon(p) ==
    /\ pc[p] = "abandon"
    /\ Abandon
    /\ Goto(p, "unlink")
    /\ UNCHANGED <<target, recheckVars, creation_owned, fiberVars, services,
                   localVars>>

ReleaseResidency(p) ==
    /\ pc[p] = "unlink"
    /\ resident' = FALSE
    /\ Goto(p, "publish")
    /\ UNCHANGED <<slotVars, generationVars, services, stateVars, alive,
                   disposing, dispose_complete, registered, localVars>>

PublishDisposeComplete(p) ==
    /\ pc[p] = "publish"
    /\ dispose_complete' = TRUE
    /\ Leave(p, IF p \in Creator THEN "over" ELSE "rest")
    /\ UNCHANGED <<slotVars, generationVars, services, stateVars, alive,
                   disposing, resident, registered>>

-----------------------------------------------------------------------------
\* ready

\* Drive an outstanding revision, then wait for the slot to be free.
Ready(p) ==
    /\ pc[p] = "ready"
    /\ Goto(p, IF HasCommittedRecheck THEN "kick" ELSE "enlist")
    /\ UNCHANGED <<slotVars, fiberVars, services, localVars>>

ReadyObserve(p) ==
    /\ pc[p] = "observe"
    /\ observed' = [observed EXCEPT ![p] = state]
    /\ current' = current \cup {p}
    /\ Goto(p, "check_idle")
    /\ UNCHANGED <<slotVars, generationVars, services, state, terminalVars,
                   op, goal, revision, read>>

ReadyCheck(p) ==
    LET passes == \/ pc[p] = "check_idle" /\ inertia = "IDLE"
                  \/ pc[p] = "check_committed" /\ ~HasCommittedRecheck
                  \/ pc[p] = "check_sequence" /\ p \in current
        next   == [check_idle |-> "check_committed",
                   check_committed |-> "check_sequence",
                   check_sequence |-> "answer"]
    IN  /\ pc[p] \in DOMAIN next
        /\ \/ passes /\ Goto(p, next[pc[p]]) /\ UNCHANGED <<current, localVars>>
           \/ ~passes /\ Leave(p, "ready") /\ current' = current \ {p}
        /\ UNCHANGED <<slotVars, services, state, terminalVars, generationVars>>

\* A failure cleared by a newer settle sends ready round again.
ReadyAnswer(p) ==
    /\ pc[p] = "answer"
    /\ \/ observed[p] = "Failed" /\ ~error /\ Leave(p, "ready")
       \/ observed[p] = "Failed" /\ error /\ Leave(p, "rest")
       \/ observed[p] \in {"Active", "Pending", "Disposed"} /\ Leave(p, "rest")
    /\ current' = current \ {p}
    /\ UNCHANGED <<slotVars, services, state, terminalVars, generationVars>>

-----------------------------------------------------------------------------
\* What the framework and the executor keep running, and what users start

Step(p) ==
    \/ MutateServices(p)
    \/ Kick(p) \/ KickActive(p) \/ KickReleasing(p) \/ KickOffRuntime(p)
    \/ KickIdle(p) \/ KickFirstTarget(p)
    \/ ReadEdge(p)
    \/ StoreReleasing(p) \/ ReleaseDrift(p) \/ ReleaseReprobe(p)
    \/ ReleaseSettle(p) \/ ReleaseCas(p)
    \/ Enlist(p) \/ Attempt(p) \/ Wake(p)
    \/ AdmitDead(p) \/ AdmitReplacement(p) \/ AdoptTarget(p)
    \/ Converge(p) \/ ConvergeJudge(p)
    \/ Settle(p) \/ SettlePending(p) \/ SettleLoading(p)
    \/ ApplyOk(p) \/ ApplyFails(p) \/ ParkFailure(p)
    \/ DisposeLate(p) \/ ClaimTerminal(p) \/ AwaitComplete(p)
    \/ TeardownUnload(p) \/ TeardownDie(p) \/ TeardownDisposed(p)
    \/ TeardownAbandon(p) \/ ReleaseResidency(p) \/ PublishDisposeComplete(p)
    \/ Ready(p) \/ ReadyObserve(p) \/ ReadyCheck(p) \/ ReadyAnswer(p)

UserStep(p) ==
    \/ CommitRecheck(p)
    \/ \E o \in Ops : Invoke(p, o)
    \/ CancelWait(p)

Next == \E p \in Proc : Step(p) \/ UserStep(p)

Spec == DeliveredInit /\ [][Next]_vars

\* Executors keep polling every started operation, a compare-exchange loop is
\* not starved for ever, and user apply and cleanup code returns.  Nobody is
\* obliged to call the API, or to cancel a call.
Fairness == \A p \in Proc : WF_vars(Step(p))
FairSpec == Spec /\ Fairness

-----------------------------------------------------------------------------
\* Properties

\* A creation dropped mid-pass owns the slot until its guard inherits it.
Holds(p) == pc[p] \in Holding \/ (pc[p] = "rescue" /\ creation_owned)

\* The struct docs of InertiaSlot promise that "no two drivers may apply
\* concurrently": at most one process owns the slot, and the atomic word reads
\* non-IDLE exactly while somebody does, whatever kicks, releases and
\* abandonments interleave.
SlotExclusive ==
    /\ \A p, q \in Proc : Holds(p) /\ Holds(q) => p = q
    /\ (\E p \in Proc : Holds(p)) <=> inertia # "IDLE"

\* The panics of the protocol are unreachable: exit_recheck's "invalid inertia
\* release state", convergence_pass's expect of a recorded target, and ready's
\* "an idle Fiber cannot publish a transient lifecycle state".
ProtocolAssertionsHold ==
    \A p \in Proc : /\ pc[p] = "release_cas" => inertia # "IDLE"
                    /\ pc[p] = "converge" => target # NoTarget
                    /\ pc[p] = "answer" => observed[p] \notin Transient

\* A live Fiber whose slot is idle and whose revisions are all acknowledged
\* really is converged: with a service missing it is Pending with no
\* generation live; otherwise its generation was applied (successfully, or
\* with a parked failure) against exactly the input and publications in force.
QuiescentTruth ==
    LET live == [input |-> input, deps |-> services]
    IN  inertia = "IDLE" /\ ~HasCommittedRecheck /\ alive =>
            IF HasMissing(live)
            THEN state = "Pending" /\ generation = NoTarget /\ ~error
            ELSE /\ generation = live
                 /\ state = IF error THEN "Failed" ELSE "Active"

\* "No mutation can disappear in the recheck-to-idle window": when every
\* mutator runs on an executor, an outstanding revision of a live Fiber always
\* has somebody responsible for it, a holder or a kicker still under way.
RecheckHasDriver ==
    OffRuntime = {} /\ alive /\ HasCommittedRecheck =>
        \E p \in Proc : Holds(p) \/ pc[p] \in {"mutate", "kick", "kick_slot"}

\* The state ready() is about to answer is the truth about the services: at
\* the sequence recheck, and while the answer stays current, a live Fiber with
\* no outstanding revision is Pending exactly for want of a service, and
\* otherwise its generation was applied against the publications in force.
ReadyAnswersTruth ==
    \A p \in Proc :
        /\ pc[p] \in {"check_sequence", "answer"} /\ p \in current
        /\ alive /\ ~HasCommittedRecheck
        => IF \E e \in Edge : services[e] = Missing
           THEN observed[p] = "Pending"
           ELSE observed[p] \in {"Active", "Failed"} /\ generation.deps = services

\* When dispose's barrier is complete, the Fiber is dead, published Disposed,
\* unlinked and unregistered, holds no failure, and no pass is still inside
\* the plugin's apply, rollback or cleanup.
DisposalBarrier ==
    dispose_complete =>
        /\ state = "Disposed" /\ ~alive /\ ~resident /\ ~registered /\ ~error
        /\ \A p \in Proc :
               pc[p] \notin {"decide", "apply", "rollback"} \cup Teardown

\* An idle, live, Active Fiber that nobody is disposing accepts registrations:
\* the replacement gate a restart or update closed has been reopened.
GenerationGateReopens ==
    inertia = "IDLE" /\ alive /\ state = "Active" => ~generation_replacing

\* Death is final: no notification, restart or update that was already under
\* way opens a generation after the death mark.
DeathIsFinal ==
    [][~alive => ~alive' /\ (state' = state \/ state' = "Disposed")]_vars

\* restart and update return only when the generation in place is the one for
\* the target they settled last, with the input in force.
ReplacementBarrier ==
    [][\A p \in Proc :
         op[p] \in {"restart", "update"} /\ pc[p] = "release_cas" /\ pc'[p] = "rest" =>
             /\ goal[p].input = input
             /\ IF HasMissing(goal[p]) THEN state = "Pending"
                ELSE generation = goal[p] /\ state \in {"Active", "Failed"}]_vars

\* Every revision committed against a live Fiber is acknowledged eventually.
DriftIsSettled ==
    (alive /\ HasCommittedRecheck) ~> (~alive \/ ~HasCommittedRecheck)

\* ready() on a live Fiber returns once the lifecycle calls that keep the slot
\* busy stop, unless the Fiber dies under it.
ReadyReturns ==
    \A p \in Caller :
        <>[](\A q \in Proc : op[q] \notin {"restart", "update"}) =>
            (op[p] = "ready" ~> op[p] # "ready" \/ ~alive)

\* A committed disposal completes its barrier.
DisposeCompletes == disposing ~> dispose_complete

\* FiberHandle::ready promises "quiescent Active, stable Pending, or terminal
\* Disposed": in particular it answers on a Fiber that has been disposed.
ReadyReturnsOnDisposed ==
    \A p \in Caller : (op[p] = "ready" /\ dispose_complete) ~> op[p] # "ready"
=============================================================================
