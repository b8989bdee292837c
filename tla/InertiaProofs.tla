---------------------------- MODULE InertiaProofs ----------------------------
(***************************************************************************)
(* Theorems about the lifecycle protocol of a Fiber, for every number of   *)
(* callers, tasks, edges, commits and updates: what a delivered Fiber does *)
(* with its slot (Inertia); what the slot is for, the invariants that      *)
(* relate the published state, the generation and the death mark to the    *)
(* services, the durable revisions and whoever owns the slot; and the      *)
(* first failure of a Fiber that is still being created (Creation).        *)
(***************************************************************************)
EXTENDS Creation, TLAPS

\* The control points each operation can be at: only these entries of the
\* continuation tables are used.
Releasing == {"release", "release_probe", "release_cas"}
Kicking   == {"kick", "kick_slot", "first_probe"} \cup Releasing
Checking  == {"observe", "check_idle", "check_committed", "check_sequence",
              "answer"}

ControlAt(p, o, l) ==
    /\ o \notin {"spawn", "handoff", "rescue"}
    /\ o = "converge" <=> p \in Task
    /\ p \in Creator => o = "none" /\ l = "delivered"
    /\ o = "none" => l \in {"rest", "delivered"}
    /\ o = "mutate" => l \in {"mutate"} \cup Kicking
    /\ o = "ready" => l \in {"ready"} \cup Kicking \cup Waiting \cup Checking
    /\ o = "converge" =>
           l \in {"free", "converge", "converge_probe"} \cup Settling \cup Releasing
    /\ o \in {"restart", "update"} =>
           l \in Waiting \cup {"admitted", "target_probe", "retarget_probe"}
                     \cup Settling \cup Releasing
    /\ o \in Disposal =>
           l \in Waiting \cup {"admitted", "abandon", "unlink", "publish",
                               "await_complete"} \cup Teardown

Control ==
    /\ creation_owned = FALSE
    /\ \A p \in Proc : ControlAt(p, op[p], pc[p])

-----------------------------------------------------------------------------
\* Types of the building blocks

LEMMA EmptyIsRead == <<>> \in EdgeReads
BY BoundsAreNatural DEF EdgeReads

LEMMA ComputedIsTarget ==
    ASSUME TypeOK, NEW p \in Proc, HasRead(p)
    PROVE  Computed(p) \in Target
<1>1. read[p] \in Seq(Nat) /\ Len(read[p]) = Edges
    BY DEF TypeOK, ProcessTypeOK, EdgeReads, HasRead
<1>2. read[p] \in [Edge -> Nat]
    BY <1>1 DEF Edge
<1>3. QED
    BY <1>2 DEF Computed, Target, TypeOK, FiberTypeOK

LEMMA TablesHoldLabels ==
    /\ \A o \in {"mutate", "ready", "converge", "restart", "update"} :
           AfterClean[o] \in Label
    /\ \A o \in {"converge", "restart", "update"} :
           AfterSettle[o] \in Label /\ AfterDrift[o] \in Label
    /\ \A o \in Disposal : AfterTeardown[o] \in Label
BY DEF AfterClean, AfterSettle, AfterDrift, AfterTeardown, Label, Disposal,
       Holding, Waiting, Probing, Settling, Teardown

LEMMA GotoTypes ==
    ASSUME ProcessTypeOK, NEW p \in Proc, NEW l \in Label,
           Goto(p, l), UNCHANGED localVars
    PROVE  ProcessTypeOK'
BY DEF ProcessTypeOK, Goto, localVars

LEMMA LeaveTypes ==
    ASSUME ProcessTypeOK, NEW p \in Proc, NEW l \in Label, Leave(p, l)
    PROVE  ProcessTypeOK'
BY EmptyIsRead DEF ProcessTypeOK, Leave, FiberState

LEMMA SpawnTypes ==
    ASSUME ProcessTypeOK, NEW p \in Proc, op[p] \in {"mutate", "ready"},
           SpawnConvergencePass(p)
    PROVE  ProcessTypeOK'
<1>1. PICK t \in Task :
        /\ pc' = [pc EXCEPT ![t] = "converge", ![p] = AfterClean[op[p]]]
        /\ op' = IF op[p] = "mutate" THEN [op EXCEPT ![p] = "none"] ELSE op
        /\ goal' = [goal EXCEPT ![p] = NoTarget]
        /\ revision' = [revision EXCEPT ![p] = 0]
        /\ read' = [read EXCEPT ![p] = <<>>]
        /\ UNCHANGED observed
    BY DEF SpawnConvergencePass
<1>2. t \in Proc /\ AfterClean[op[p]] \in Label /\ "converge" \in Label
    BY TablesHoldLabels DEF Proc, Label, Holding
<1>3. pc' \in [Proc -> Label]
    BY <1>1, <1>2 DEF ProcessTypeOK
<1>4. op' \in [Proc -> Operation \cup Driver \cup {"none", "handoff", "rescue"}]
    BY <1>1 DEF ProcessTypeOK
<1>5. /\ goal' \in [Proc -> Target \cup {NoTarget}]
      /\ revision' \in [Proc -> Nat] /\ read' \in [Proc -> EdgeReads]
      /\ observed' \in [Proc -> FiberState]
    BY <1>1, EmptyIsRead DEF ProcessTypeOK
<1>6. QED
    BY <1>3, <1>4, <1>5 DEF ProcessTypeOK

\* Operations by control point, as the tables need them.
LEMMA KickersMutateOrReady ==
    ASSUME TypeOK, Control, NEW p \in Proc,
           pc[p] \in {"kick", "kick_slot", "first_probe"}
    PROVE  op[p] \in {"mutate", "ready"}
BY DEF TypeOK, ProcessTypeOK, Control, ControlAt, Operation, Disposal, Driver, Waiting,
       Settling, Teardown, Releasing, Checking

LEMMA ReleasersAreDriversOrKickers ==
    ASSUME TypeOK, Control, NEW p \in Proc, pc[p] \in Releasing
    PROVE  op[p] \in {"mutate", "ready", "converge", "restart", "update"}
BY DEF TypeOK, ProcessTypeOK, Control, ControlAt, Operation, Disposal, Driver, Waiting,
       Settling, Teardown, Releasing, Checking

LEMMA SettlersAreDrivers ==
    ASSUME TypeOK, Control, NEW p \in Proc, pc[p] \in Settling
    PROVE  op[p] \in {"converge", "restart", "update"}
BY DEF TypeOK, ProcessTypeOK, Control, ControlAt, Operation, Disposal, Driver, Waiting,
       Settling, Teardown, Releasing, Checking, Kicking

LEMMA TearersDispose ==
    ASSUME TypeOK, Control, NEW p \in Proc, pc[p] \in Teardown
    PROVE  op[p] \in Disposal
BY DEF TypeOK, ProcessTypeOK, Control, ControlAt, Operation, Disposal, Driver, Waiting,
       Settling, Teardown, Releasing, Checking, Kicking

LEMMA PublishTypes ==
    ASSUME FiberTypeOK, NEW s \in FiberState, Publish(s)
    PROVE  state' \in FiberState /\ current' \subseteq Proc
BY DEF FiberTypeOK, Publish

LEMMA AbandonTypes ==
    ASSUME SlotTypeOK, Abandon
    PROVE  inertia' = "IDLE" /\ woken' \subseteq Proc
BY DEF SlotTypeOK, Abandon
-----------------------------------------------------------------------------
\* What a step does to control and to the slot

\* Only p moves, within its operation's control points, and ownership follows
\* the word: p keeps what it has, claims an idle slot, or releases its own.
Moves(p) ==
    /\ \A q \in Proc \ {p} : pc'[q] = pc[q] /\ op'[q] = op[q]
    /\ ControlAt(p, op'[p], pc'[p])
    /\ creation_owned' = creation_owned
    /\ \/ /\ pc[p] \in Holding <=> pc'[p] \in Holding
          /\ inertia = "IDLE" <=> inertia' = "IDLE"
       \/ pc[p] \notin Holding /\ pc'[p] \in Holding
              /\ inertia = "IDLE" /\ inertia' # "IDLE"
       \/ pc[p] \in Holding /\ pc'[p] \notin Holding /\ inertia' = "IDLE"

\* p hands the slot to a fresh convergence task.
HandsOver(p) ==
    \E t \in Task \ {p} :
        /\ \A q \in Proc \ {p, t} : pc'[q] = pc[q] /\ op'[q] = op[q]
        /\ ControlAt(p, op'[p], pc'[p]) /\ ControlAt(t, op'[t], pc'[t])
        /\ creation_owned' = creation_owned
        /\ pc[p] \in Holding /\ pc'[p] \notin Holding
        /\ pc[t] \notin Holding /\ pc'[t] \in Holding
        /\ inertia' # "IDLE"

LEMMA GotoMoves ==
    ASSUME ProcessTypeOK, NEW p \in Proc, NEW l, Goto(p, l), UNCHANGED op
    PROVE  /\ pc'[p] = l /\ op'[p] = op[p]
           /\ \A q \in Proc \ {p} : pc'[q] = pc[q] /\ op'[q] = op[q]
BY DEF ProcessTypeOK, Goto

LEMMA LeaveMoves ==
    ASSUME ProcessTypeOK, NEW p \in Proc, NEW l, Leave(p, l)
    PROVE  /\ pc'[p] = l
           /\ op'[p] = IF l = "rest" THEN "none" ELSE op[p]
           /\ \A q \in Proc \ {p} : pc'[q] = pc[q] /\ op'[q] = op[q]
BY DEF ProcessTypeOK, Leave

LEMMA KickMoves ==
    ASSUME TypeOK, Control, SlotExclusive, NEW p \in Proc,
           Kick(p) \/ KickActive(p) \/ KickReleasing(p) \/ KickOffRuntime(p)
           \/ KickIdle(p)
    PROVE  Moves(p)
<1>0. op[p] \in {"mutate", "ready"}
    BY KickersMutateOrReady DEF Kick, KickActive, KickReleasing, KickOffRuntime, KickIdle
<1>a. AfterClean["mutate"] = "rest" /\ AfterClean["ready"] = "enlist"
    BY DEF AfterClean
<1>b. ControlAt(p, op[p], pc[p])
    BY DEF Control
<1>c. ProcessTypeOK
    BY DEF TypeOK
<1> USE DEF ControlAt, Moves, slotVars, wordVars, localVars, Holding, Kicking, Releasing, Waiting, Settling, Teardown, Probing, Checking, Disposal
<1>1. CASE Kick(p)
    BY <1>0, <1>1, <1>a, <1>b, <1>c, GotoMoves, LeaveMoves DEF Kick
<1>2. CASE KickActive(p)
    BY <1>0, <1>2, <1>a, <1>b, <1>c, LeaveMoves DEF KickActive
<1>3. CASE KickReleasing(p)
    BY <1>0, <1>3, <1>a, <1>b, <1>c, LeaveMoves DEF KickReleasing
<1>4. CASE KickOffRuntime(p)
    BY <1>0, <1>4, <1>a, <1>b, <1>c, LeaveMoves DEF KickOffRuntime
<1>5. CASE KickIdle(p)
    BY <1>0, <1>5, <1>a, <1>b, <1>c, GotoMoves DEF KickIdle
<1>6. QED
    BY <1>1, <1>2, <1>3, <1>4, <1>5

LEMMA ReleaseMoves ==
    ASSUME TypeOK, Control, SlotExclusive, NEW p \in Proc,
           \/ StoreReleasing(p) \/ ReleaseReprobe(p) \/ ReleaseSettle(p)
           \/ ReleaseCas(p)
           \/ ReleaseDrift(p) /\ op[p] \in Driver
    PROVE  Moves(p)
<1>0. op[p] \in {"mutate", "ready", "converge", "restart", "update"}
    BY ReleasersAreDriversOrKickers
    DEF StoreReleasing, ReleaseReprobe, ReleaseSettle, ReleaseCas, ReleaseDrift, Releasing
<1>a. AfterClean = [converge |-> "free", restart |-> "rest", update |-> "rest",
                  spawn |-> "spawn_clear", mutate |-> "rest", ready |-> "enlist"]
    BY DEF AfterClean
<1>b. /\ AfterDrift["converge"] = "converge"
      /\ AfterDrift["restart"] = "retarget_probe"
      /\ AfterDrift["update"] = "retarget_probe"
    BY DEF AfterDrift
<1>c. ControlAt(p, op[p], pc[p])
    BY DEF Control
<1>d. ProcessTypeOK
    BY DEF TypeOK
<1>e. inertia # "IDLE"
    BY DEF SlotExclusive, Holds, Holding, Probing, StoreReleasing, ReleaseReprobe, ReleaseSettle, ReleaseCas, ReleaseDrift
<1> USE DEF ControlAt, Moves, slotVars, wordVars, localVars, Holding, Kicking,
            Releasing, Waiting, Settling, Teardown, Probing, Checking, Disposal
<1>1. CASE StoreReleasing(p)
    BY <1>0, <1>1, <1>c, <1>d, <1>e, GotoMoves DEF StoreReleasing
<1>2. CASE ReleaseReprobe(p)
    BY <1>0, <1>2, <1>c, <1>d, <1>e, GotoMoves DEF ReleaseReprobe
<1>3. CASE ReleaseSettle(p)
    BY <1>0, <1>3, <1>c, <1>d, <1>e, GotoMoves DEF ReleaseSettle
<1>4. CASE ReleaseCas(p)
    BY <1>0, <1>4, <1>a, <1>c, <1>d, <1>e, GotoMoves, LeaveMoves DEF ReleaseCas, Abandon
<1>5. CASE ReleaseDrift(p) /\ op[p] \in Driver
    BY <1>0, <1>5, <1>b, <1>c, <1>d, <1>e, GotoMoves DEF ReleaseDrift, Driver
<1>6. QED
    BY <1>1, <1>2, <1>3, <1>4, <1>5

LEMMA AdmissionMoves ==
    ASSUME TypeOK, Control, SlotExclusive, NEW p \in Proc,
           \/ (\E o \in Ops : Invoke(p, o)) \/ Enlist(p) \/ Attempt(p)
           \/ Wake(p) \/ CancelWait(p) \/ AdmitDead(p)
           \/ AdmitReplacement(p) \/ AdoptTarget(p)
    PROVE  Moves(p)
<1>a. ProcessTypeOK /\ ControlAt(p, op[p], pc[p])
    BY DEF TypeOK, Control
<1>b. pc[p] \in Holding => inertia # "IDLE"
    BY DEF SlotExclusive, Holds
<1>c. op[p] \in Operation \cup Driver \cup {"none", "handoff", "rescue"}
    BY <1>a DEF ProcessTypeOK
<1>d. \A o \in Ops : o \in Operation
    BY OpsAreOperations
<1> USE DEF ControlAt, Moves, slotVars, wordVars, localVars, fiberVars,
            Holding, Kicking, Releasing, Waiting, Settling, Teardown, Probing,
            Checking, Disposal
<1>1. CASE (\E o \in Ops : Invoke(p, o))
    <2>1. PICK o \in Ops : Invoke(p, o)
        BY <1>1
    <2>2. /\ o \in Operation \ {"mutate"} /\ p \notin Task
          /\ pc'[p] = IF o = "ready" THEN "ready" ELSE "enlist"
          /\ op'[p] = o
          /\ \A q \in Proc \ {p} : pc'[q] = pc[q] /\ op'[q] = op[q]
        BY <2>1, <1>a, <1>d, ProcessesAreDistinct DEF Invoke, Goto, ProcessTypeOK
    <2>3. QED
        BY <2>1, <2>2, <1>a DEF Invoke, Operation
<1>2. CASE Enlist(p)
    BY <1>2, <1>a, <1>b, <1>c, <1>d, GotoMoves, LeaveMoves
    DEF Enlist, Abandon, Operation, Driver
<1>3. CASE Attempt(p)
    BY <1>3, <1>a, <1>b, <1>c, <1>d, GotoMoves, LeaveMoves
    DEF Attempt, Abandon, Operation, Driver
<1>4. CASE Wake(p)
    BY <1>4, <1>a, <1>b, <1>c, <1>d, GotoMoves, LeaveMoves
    DEF Wake, Abandon, Operation, Driver
<1>5. CASE CancelWait(p)
    BY <1>5, <1>a, <1>b, <1>c, <1>d, GotoMoves, LeaveMoves
    DEF CancelWait, Abandon, Operation, Driver
<1>6. CASE AdmitDead(p)
    BY <1>6, <1>a, <1>b, <1>c, <1>d, GotoMoves, LeaveMoves
    DEF AdmitDead, Abandon, Operation, Driver
<1>7. CASE AdmitReplacement(p)
    BY <1>7, <1>a, <1>b, <1>c, <1>d, GotoMoves, LeaveMoves
    DEF AdmitReplacement, Abandon, Operation, Driver
<1>8. CASE AdoptTarget(p)
    BY <1>8, <1>a, <1>b, <1>c, <1>d, GotoMoves, LeaveMoves
    DEF AdoptTarget, Abandon, Operation, Driver
<1>9. QED
    BY <1>1, <1>2, <1>3, <1>4, <1>5, <1>6, <1>7, <1>8

LEMMA ReadMoves ==
    ASSUME TypeOK, Control, SlotExclusive, NEW p \in Proc,
           \/ CommitRecheck(p) \/ MutateServices(p) \/ ReadEdge(p)
           \/ Converge(p) \/ ConvergeJudge(p)
    PROVE  Moves(p)
<1>a. ProcessTypeOK /\ ControlAt(p, op[p], pc[p])
    BY DEF TypeOK, Control
<1>b. pc[p] \in Holding => inertia # "IDLE"
    BY DEF SlotExclusive, Holds
<1>c. op[p] \in Operation \cup Driver \cup {"none", "handoff", "rescue"}
    BY <1>a DEF ProcessTypeOK
<1> USE DEF ControlAt, Moves, slotVars, wordVars, localVars, fiberVars,
            Holding, Kicking, Releasing, Waiting, Settling, Teardown, Probing,
            Checking, Disposal
<1>1. CASE CommitRecheck(p)
    <2>1. /\ p \notin Task
          /\ pc'[p] = "mutate" /\ op'[p] = "mutate"
          /\ \A q \in Proc \ {p} : pc'[q] = pc[q] /\ op'[q] = op[q]
        BY <1>1, <1>a, ProcessesAreDistinct DEF CommitRecheck, Goto, ProcessTypeOK
    <2>2. QED
        BY <1>1, <2>1, <1>a DEF CommitRecheck
<1>2. CASE MutateServices(p)
    BY <1>2, <1>a, <1>b, <1>c, GotoMoves, LeaveMoves
    DEF MutateServices, Goto, Operation, Driver
<1>3. CASE ReadEdge(p)
    BY <1>3, <1>a, <1>b, <1>c, GotoMoves, LeaveMoves
    DEF ReadEdge, Goto, Operation, Driver
<1>4. CASE Converge(p)
    BY <1>4, <1>a, <1>b, <1>c, GotoMoves, LeaveMoves
    DEF Converge, Goto, Operation, Driver
<1>5. CASE ConvergeJudge(p)
    BY <1>5, <1>a, <1>b, <1>c, GotoMoves, LeaveMoves, SMTT(30)
    DEF ConvergeJudge, Goto, Operation, Driver
<1>6. QED
    BY <1>1, <1>2, <1>3, <1>4, <1>5

LEMMA SettleMoves ==
    ASSUME TypeOK, Control, SlotExclusive, NEW p \in Proc,
           \/ Settle(p) \/ SettlePending(p) \/ SettleLoading(p)
           \/ ApplyOk(p) \/ ApplyFails(p) \/ ParkFailure(p)
    PROVE  Moves(p)
<1>a. ProcessTypeOK /\ ControlAt(p, op[p], pc[p])
    BY DEF TypeOK, Control
<1>b. pc[p] \in Holding => inertia # "IDLE"
    BY DEF SlotExclusive, Holds
<1>c. op[p] \in Operation \cup Driver \cup {"none", "handoff", "rescue"}
    BY <1>a DEF ProcessTypeOK
<1>d. /\ AfterSettle["converge"] = "converge_probe"
      /\ AfterSettle["restart"] = "release" /\ AfterSettle["update"] = "release"
    BY DEF AfterSettle
<1> USE DEF ControlAt, Moves, slotVars, wordVars, localVars, fiberVars,
            Holding, Kicking, Releasing, Waiting, Settling, Teardown, Probing,
            Checking, Disposal
<1>1. CASE Settle(p)
    BY <1>1, <1>a, <1>b, <1>c, <1>d, GotoMoves, LeaveMoves
    DEF Settle, EndSettle, Operation, Driver
<1>2. CASE SettlePending(p)
    BY <1>2, <1>a, <1>b, <1>c, <1>d, GotoMoves, LeaveMoves
    DEF SettlePending, EndSettle, Operation, Driver
<1>3. CASE SettleLoading(p)
    BY <1>3, <1>a, <1>b, <1>c, <1>d, GotoMoves, LeaveMoves
    DEF SettleLoading, EndSettle, Operation, Driver
<1>4. CASE ApplyOk(p)
    BY <1>4, <1>a, <1>b, <1>c, <1>d, GotoMoves, LeaveMoves
    DEF ApplyOk, EndSettle, Operation, Driver
<1>5. CASE ApplyFails(p)
    BY <1>5, <1>a, <1>b, <1>c, <1>d, GotoMoves, LeaveMoves
    DEF ApplyFails, EndSettle, Operation, Driver
<1>6. CASE ParkFailure(p)
    BY <1>6, <1>a, <1>b, <1>c, <1>d, GotoMoves, LeaveMoves
    DEF ParkFailure, EndSettle, Operation, Driver
<1>7. QED
    BY <1>1, <1>2, <1>3, <1>4, <1>5, <1>6

LEMMA DisposeMoves ==
    ASSUME TypeOK, Control, SlotExclusive, NEW p \in Proc,
           \/ DisposeLate(p) \/ ClaimTerminal(p) \/ AwaitComplete(p)
           \/ TeardownUnload(p) \/ TeardownDie(p) \/ TeardownDisposed(p)
           \/ TeardownAbandon(p) \/ ReleaseResidency(p) \/ PublishDisposeComplete(p)
    PROVE  Moves(p)
<1>a. ProcessTypeOK /\ ControlAt(p, op[p], pc[p])
    BY DEF TypeOK, Control
<1>b. pc[p] \in Holding => inertia # "IDLE"
    BY DEF SlotExclusive, Holds
<1>c. op[p] \in Operation \cup Driver \cup {"none", "handoff", "rescue"}
    BY <1>a DEF ProcessTypeOK
<1>d. AfterTeardown["dispose"] = "abandon" /\ AfterTeardown["remove"] = "abandon"
    BY DEF AfterTeardown
<1> USE DEF ControlAt, Moves, slotVars, wordVars, localVars, fiberVars,
            Holding, Kicking, Releasing, Waiting, Settling, Teardown, Probing,
            Checking, Disposal
<1>1. CASE DisposeLate(p)
    BY <1>1, <1>a, <1>b, <1>c, <1>d, GotoMoves, LeaveMoves
    DEF DisposeLate, Abandon, Operation, Driver
<1>2. CASE ClaimTerminal(p)
    BY <1>2, <1>a, <1>b, <1>c, <1>d, GotoMoves, LeaveMoves
    DEF ClaimTerminal, Abandon, Operation, Driver
<1>3. CASE AwaitComplete(p)
    BY <1>3, <1>a, <1>b, <1>c, <1>d, GotoMoves, LeaveMoves
    DEF AwaitComplete, Abandon, Operation, Driver
<1>4. CASE TeardownUnload(p)
    BY <1>4, <1>a, <1>b, <1>c, <1>d, GotoMoves, LeaveMoves
    DEF TeardownUnload, Abandon, Operation, Driver
<1>5. CASE TeardownDie(p)
    BY <1>5, <1>a, <1>b, <1>c, <1>d, GotoMoves, LeaveMoves
    DEF TeardownDie, Abandon, Operation, Driver
<1>6. CASE TeardownDisposed(p)
    BY <1>6, <1>a, <1>b, <1>c, <1>d, GotoMoves, LeaveMoves
    DEF TeardownDisposed, Abandon, Operation, Driver
<1>7. CASE TeardownAbandon(p)
    BY <1>7, <1>a, <1>b, <1>c, <1>d, GotoMoves, LeaveMoves
    DEF TeardownAbandon, Abandon, Operation, Driver
<1>8. CASE ReleaseResidency(p)
    BY <1>8, <1>a, <1>b, <1>c, <1>d, GotoMoves, LeaveMoves
    DEF ReleaseResidency, Abandon, Operation, Driver
<1>9. CASE PublishDisposeComplete(p)
    BY <1>9, <1>a, <1>b, <1>c, <1>d, GotoMoves, LeaveMoves
    DEF PublishDisposeComplete, Abandon, Operation, Driver
<1>10. QED
    BY <1>1, <1>2, <1>3, <1>4, <1>5, <1>6, <1>7, <1>8, <1>9

LEMMA ReadyMoves ==
    ASSUME TypeOK, Control, SlotExclusive, NEW p \in Proc,
           \/ Ready(p) \/ ReadyObserve(p) \/ ReadyCheck(p)
           \/ ReadyAnswer(p)
    PROVE  Moves(p)
<1>a. ProcessTypeOK /\ ControlAt(p, op[p], pc[p])
    BY DEF TypeOK, Control
<1>b. pc[p] \in Holding => inertia # "IDLE"
    BY DEF SlotExclusive, Holds
<1>c. op[p] \in Operation \cup Driver \cup {"none", "handoff", "rescue"}
    BY <1>a DEF ProcessTypeOK
<1> USE DEF ControlAt, Moves, slotVars, wordVars, localVars, fiberVars,
            Holding, Kicking, Releasing, Waiting, Settling, Teardown, Probing,
            Checking, Disposal
<1>1. CASE Ready(p)
    BY <1>1, <1>a, <1>b, <1>c, GotoMoves, LeaveMoves
    DEF Ready, Operation, Driver
<1>2. CASE ReadyObserve(p)
    BY <1>2, <1>a, <1>b, <1>c, GotoMoves, LeaveMoves
    DEF ReadyObserve, Operation, Driver
<1>3. CASE ReadyCheck(p)
    BY <1>3, <1>a, <1>b, <1>c, GotoMoves, LeaveMoves
    DEF ReadyCheck, Operation, Driver
<1>4. CASE ReadyAnswer(p)
    BY <1>4, <1>a, <1>b, <1>c, GotoMoves, LeaveMoves
    DEF ReadyAnswer, Operation, Driver
<1>5. QED
    BY <1>1, <1>2, <1>3, <1>4

LEMMA SpawnHandsOver ==
    ASSUME TypeOK, Control, SlotExclusive, NEW p \in Proc,
           KickFirstTarget(p) \/ (ReleaseDrift(p) /\ op[p] \notin Driver)
    PROVE  HandsOver(p)
<1>1. /\ pc[p] \in {"first_probe", "release_probe"}
      /\ op[p] \in {"mutate", "ready"}
      /\ SpawnConvergencePass(p)
      /\ creation_owned' = creation_owned
    BY KickersMutateOrReady, ReleasersAreDriversOrKickers
    DEF KickFirstTarget, ReleaseDrift, Driver, Releasing
<1>2. PICK t \in Task :
        /\ pc[t] = "free"
        /\ pc' = [pc EXCEPT ![t] = "converge", ![p] = AfterClean[op[p]]]
        /\ op' = IF op[p] = "mutate" THEN [op EXCEPT ![p] = "none"] ELSE op
    BY <1>1 DEF SpawnConvergencePass
<1>3. t # p /\ t \in Proc
    BY <1>1, <1>2 DEF Proc
<1>4. AfterClean["mutate"] = "rest" /\ AfterClean["ready"] = "enlist"
    BY DEF AfterClean
<1>5. /\ pc'[t] = "converge" /\ op'[t] = op[t]
      /\ pc'[p] = AfterClean[op[p]]
      /\ op'[p] = IF op[p] = "mutate" THEN "none" ELSE op[p]
      /\ \A q \in Proc \ {p, t} : pc'[q] = pc[q] /\ op'[q] = op[q]
    BY <1>2, <1>3 DEF TypeOK, ProcessTypeOK
<1>6. ControlAt(p, op[p], pc[p]) /\ ControlAt(t, op[t], pc[t])
    BY <1>3 DEF Control
<1>7. ControlAt(p, op'[p], pc'[p])
    BY <1>1, <1>4, <1>5, <1>6 DEF ControlAt, Waiting, Disposal
<1>8. ControlAt(t, op'[t], pc'[t])
    BY <1>2, <1>5, <1>6, ProcessesAreDistinct DEF ControlAt, Disposal
<1>9. inertia' # "IDLE"
    BY <1>1 DEF KickFirstTarget, ReleaseDrift, SlotExclusive, Holds, Holding,
                Probing, wordVars
<1>10. /\ pc[p] \in Holding /\ pc'[p] \notin Holding
       /\ pc[t] \notin Holding /\ pc'[t] \in Holding
    BY <1>1, <1>2, <1>4, <1>5 DEF Holding, Probing, Settling, Teardown
<1>11. QED
    BY <1>1, <1>3, <1>5, <1>7, <1>8, <1>9, <1>10 DEF HandsOver

\* Every step moves one process or hands the slot over.
LEMMA StepsMove ==
    ASSUME TypeOK, Control, SlotExclusive, NEW p \in Proc,
           Step(p) \/ UserStep(p)
    PROVE  Moves(p) \/ HandsOver(p)
BY KickMoves, ReleaseMoves, AdmissionMoves, ReadMoves, SettleMoves,
   DisposeMoves, ReadyMoves, SpawnHandsOver
DEF Step, UserStep

LEMMA MovesKeepControl ==
    ASSUME Control, NEW p \in Proc, Moves(p) \/ HandsOver(p)
    PROVE  Control'
BY DEF Control, Moves, HandsOver

LEMMA MovesKeepSlot ==
    ASSUME Control, SlotExclusive, NEW p \in Proc, Moves(p) \/ HandsOver(p)
    PROVE  SlotExclusive'
<1>1. /\ creation_owned = FALSE /\ creation_owned' = FALSE
    BY DEF Control, Moves, HandsOver
<1>2. CASE Moves(p)
    BY <1>1, <1>2 DEF Moves, SlotExclusive, Holds
<1>3. CASE HandsOver(p)
    <2>1. PICK t \in Task \ {p} :
            /\ \A q \in Proc \ {p, t} : pc'[q] = pc[q] /\ op'[q] = op[q]
            /\ pc[p] \in Holding /\ pc'[p] \notin Holding
            /\ pc[t] \notin Holding /\ pc'[t] \in Holding
            /\ inertia' # "IDLE"
        BY <1>3 DEF HandsOver
    <2>2. t \in Proc
        BY DEF Proc
    <2>3. QED
        BY <1>1, <2>1, <2>2 DEF SlotExclusive, Holds
<1>4. QED
    BY <1>2, <1>3

-----------------------------------------------------------------------------
\* Type correctness, one step per action

LEMMA SlotTypes ==
    ASSUME TypeOK, Control, NEW p \in Proc, Step(p) \/ UserStep(p)
    PROVE  SlotTypeOK'
<1>a. SlotTypeOK /\ FiberTypeOK /\ ProcessTypeOK
    BY DEF TypeOK
<1> USE DEF SlotTypeOK, slotVars, wordVars, recheckVars
<1>1. CASE \/ Kick(p) \/ KickActive(p) \/ KickOffRuntime(p)
          \/ ReadEdge(p) \/ ReleaseReprobe(p)
          \/ (\E o \in Ops : Invoke(p, o)) \/ Enlist(p)
          \/ AdmitReplacement(p) \/ Converge(p) \/ Settle(p)
          \/ SettlePending(p) \/ SettleLoading(p) \/ ApplyOk(p)
          \/ ApplyFails(p) \/ ParkFailure(p) \/ ClaimTerminal(p)
          \/ AwaitComplete(p) \/ TeardownUnload(p)
          \/ TeardownDisposed(p) \/ ReleaseResidency(p)
          \/ PublishDisposeComplete(p) \/ Ready(p) \/ ReadyObserve(p)
          \/ ReadyCheck(p) \/ ReadyAnswer(p)
    BY <1>1, <1>a
    DEF Kick, KickActive, KickOffRuntime, ReadEdge, ReleaseReprobe,
        Invoke, Enlist, AdmitReplacement, Converge, Settle, SettlePending,
        SettleLoading, ApplyOk, ApplyFails, ParkFailure, ClaimTerminal,
        AwaitComplete, TeardownUnload, TeardownDisposed, ReleaseResidency,
        PublishDisposeComplete, Ready, ReadyObserve, ReadyCheck,
        ReadyAnswer
<1>2. CASE CommitRecheck(p)
    BY <1>2, <1>a
    DEF CommitRecheck
<1>3. CASE MutateServices(p)
    <2>1. services' \in [Edge -> Nat]
        BY <1>3, <1>a DEF MutateServices, Missing
    <2>2. QED
        BY <1>3, <2>1, <1>a DEF MutateServices
<1>4. CASE KickReleasing(p)
    BY <1>4, <1>a
    DEF KickReleasing
<1>5. CASE KickIdle(p)
    BY <1>5, <1>a
    DEF KickIdle
<1>6. CASE KickFirstTarget(p)
    BY <1>6, <1>a, ComputedIsTarget
    DEF KickFirstTarget
<1>7. CASE StoreReleasing(p)
    BY <1>7, <1>a
    DEF StoreReleasing
<1>8. CASE ReleaseDrift(p)
    BY <1>8, <1>a, ComputedIsTarget
    DEF ReleaseDrift
<1>9. CASE ReleaseSettle(p)
    BY <1>9, <1>a
    DEF ReleaseSettle, ProcessTypeOK
<1>10. CASE ReleaseCas(p)
    BY <1>10, <1>a, AbandonTypes
    DEF ReleaseCas
<1>11. CASE Attempt(p)
    BY <1>11, <1>a
    DEF Attempt
<1>12. CASE Wake(p)
    BY <1>12, <1>a
    DEF Wake
<1>13. CASE CancelWait(p)
    BY <1>13, <1>a
    DEF CancelWait
<1>14. CASE AdmitDead(p)
    BY <1>14, <1>a, AbandonTypes
    DEF AdmitDead
<1>15. CASE AdoptTarget(p)
    BY <1>15, <1>a, ComputedIsTarget
    DEF AdoptTarget
<1>16. CASE ConvergeJudge(p)
    BY <1>16, <1>a, ComputedIsTarget
    DEF ConvergeJudge
<1>17. CASE DisposeLate(p)
    BY <1>17, <1>a, AbandonTypes
    DEF DisposeLate
<1>18. CASE TeardownDie(p)
    BY <1>18, <1>a
    DEF TeardownDie
<1>19. CASE TeardownAbandon(p)
    BY <1>19, <1>a, AbandonTypes
    DEF TeardownAbandon
<1>20. QED
    BY <1>1, <1>2, <1>3, <1>4, <1>5, <1>6, <1>7, <1>8, <1>9, <1>10, <1>11,
       <1>12, <1>13, <1>14, <1>15, <1>16, <1>17, <1>18, <1>19 DEF Step, UserStep

LEMMA FiberTypes ==
    ASSUME TypeOK, Control, NEW p \in Proc, Step(p) \/ UserStep(p)
    PROVE  FiberTypeOK'
<1>a. SlotTypeOK /\ FiberTypeOK /\ ProcessTypeOK
    BY DEF TypeOK
<1> USE DEF FiberTypeOK, fiberVars, stateVars, terminalVars,
            generationVars
<1>1. CASE \/ CommitRecheck(p) \/ MutateServices(p) \/ Kick(p)
          \/ KickActive(p) \/ KickReleasing(p) \/ KickOffRuntime(p)
          \/ KickIdle(p) \/ KickFirstTarget(p) \/ ReadEdge(p)
          \/ StoreReleasing(p) \/ ReleaseDrift(p) \/ ReleaseReprobe(p)
          \/ ReleaseSettle(p) \/ ReleaseCas(p)
          \/ (\E o \in Ops : Invoke(p, o)) \/ Enlist(p) \/ Attempt(p)
          \/ Wake(p) \/ CancelWait(p) \/ AdmitDead(p) \/ Converge(p)
          \/ ConvergeJudge(p) \/ DisposeLate(p) \/ AwaitComplete(p)
          \/ TeardownAbandon(p) \/ Ready(p)
    BY <1>1, <1>a
    DEF CommitRecheck, MutateServices, Kick, KickActive, KickReleasing,
        KickOffRuntime, KickIdle, KickFirstTarget, ReadEdge,
        StoreReleasing, ReleaseDrift, ReleaseReprobe, ReleaseSettle,
        ReleaseCas, Invoke, Enlist, Attempt, Wake, CancelWait, AdmitDead,
        Converge, ConvergeJudge, DisposeLate, AwaitComplete,
        TeardownAbandon, Ready
<1>2. CASE AdmitReplacement(p)
    <2>1. input' \in Nat
        BY <1>2, <1>a DEF AdmitReplacement
    <2>2. generation_replacing' \in BOOLEAN
        BY <1>2, <1>a, Zenon DEF AdmitReplacement
    <2>3. QED
        BY <1>2, <2>1, <2>2, <1>a DEF AdmitReplacement
<1>3. CASE AdoptTarget(p)
    <2>1. generation_replacing' \in BOOLEAN
        BY <1>3, Zenon DEF AdoptTarget
    <2>2. QED
        BY <1>3, <2>1, <1>a DEF AdoptTarget
<1>4. CASE Settle(p)
    BY <1>4, <1>a, PublishTypes
    DEF Settle, FiberState
<1>5. CASE SettlePending(p)
    BY <1>5, <1>a, PublishTypes
    DEF SettlePending, FiberState
<1>6. CASE SettleLoading(p)
    BY <1>6, <1>a, PublishTypes
    DEF SettleLoading, FiberState, ProcessTypeOK
<1>7. CASE ApplyOk(p)
    BY <1>7, <1>a, PublishTypes
    DEF ApplyOk, FiberState
<1>8. CASE ApplyFails(p)
    BY <1>8, <1>a, PublishTypes
    DEF ApplyFails, FiberState
<1>9. CASE ParkFailure(p)
    BY <1>9, <1>a, PublishTypes
    DEF ParkFailure, FiberState
<1>10. CASE ClaimTerminal(p)
    BY <1>10, <1>a
    DEF ClaimTerminal
<1>11. CASE TeardownUnload(p)
    BY <1>11, <1>a, PublishTypes
    DEF TeardownUnload, FiberState
<1>12. CASE TeardownDie(p)
    BY <1>12, <1>a
    DEF TeardownDie
<1>13. CASE TeardownDisposed(p)
    BY <1>13, <1>a, PublishTypes
    DEF TeardownDisposed, FiberState
<1>14. CASE ReleaseResidency(p)
    BY <1>14, <1>a
    DEF ReleaseResidency
<1>15. CASE PublishDisposeComplete(p)
    BY <1>15, <1>a
    DEF PublishDisposeComplete
<1>16. CASE ReadyObserve(p)
    BY <1>16, <1>a
    DEF ReadyObserve
<1>17. CASE ReadyCheck(p)
    BY <1>17, <1>a
    DEF ReadyCheck
<1>18. CASE ReadyAnswer(p)
    BY <1>18, <1>a
    DEF ReadyAnswer
<1>19. QED
    BY <1>1, <1>2, <1>3, <1>4, <1>5, <1>6, <1>7, <1>8, <1>9, <1>10, <1>11,
       <1>12, <1>13, <1>14, <1>15, <1>16, <1>17, <1>18 DEF Step, UserStep

LEMMA ProcessTypes ==
    ASSUME TypeOK, Control, NEW p \in Proc, Step(p) \/ UserStep(p)
    PROVE  ProcessTypeOK'
<1>a. SlotTypeOK /\ FiberTypeOK /\ ProcessTypeOK
    BY DEF TypeOK
<1>d. {"mutate", "kick", "kick_slot", "first_probe", "release", "release_probe",
       "release_cas", "retarget_probe", "target_probe", "converge",
       "converge_probe", "settle", "decide", "apply", "rollback", "unload", "die",
       "drain", "abandon", "unlink", "publish", "await_complete", "rest", "over",
       "enlist", "attempt", "parked", "admitted", "ready", "observe", "check_idle",
       "check_committed", "check_sequence", "answer"} \subseteq Label
    BY DEF Label, Holding, Waiting, Probing, Settling, Teardown
<1> USE DEF TypeOK
<1>1. CASE CommitRecheck(p)
    BY <1>1, <1>a, <1>d DEF CommitRecheck, ProcessTypeOK, Goto, Operation
<1>2. CASE MutateServices(p)
    BY <1>2, <1>a, <1>d, GotoTypes, LeaveTypes
    DEF MutateServices
<1>3. CASE Kick(p)
    BY <1>3, <1>a, <1>d, GotoTypes, LeaveTypes, KickersMutateOrReady, TablesHoldLabels
    DEF Kick
<1>4. CASE KickActive(p)
    BY <1>4, <1>a, <1>d, GotoTypes, LeaveTypes, KickersMutateOrReady, TablesHoldLabels
    DEF KickActive
<1>5. CASE KickReleasing(p)
    BY <1>5, <1>a, <1>d, GotoTypes, LeaveTypes, KickersMutateOrReady, TablesHoldLabels
    DEF KickReleasing
<1>6. CASE KickOffRuntime(p)
    BY <1>6, <1>a, <1>d, GotoTypes, LeaveTypes, KickersMutateOrReady, TablesHoldLabels
    DEF KickOffRuntime
<1>7. CASE KickIdle(p)
    BY <1>7, <1>a, <1>d DEF KickIdle, ProcessTypeOK, SlotTypeOK, FiberTypeOK, Goto
<1>8. CASE KickFirstTarget(p)
    BY <1>8, <1>a, KickersMutateOrReady, TablesHoldLabels, SpawnTypes
    DEF KickFirstTarget
<1>9. CASE ReadEdge(p)
    <2>1. read[p] \in Seq(Nat) /\ Len(read[p]) <= Edges
        BY <1>a DEF ProcessTypeOK, EdgeReads
    <2>2. Len(read[p]) + 1 \in Edge
        BY <1>9, <2>1, BoundsAreNatural DEF ReadEdge, HasRead, Edge
    <2>3. services[Len(read[p]) + 1] \in Nat
        BY <2>2, <1>a DEF SlotTypeOK
    <2>4. Append(read[p], services[Len(read[p]) + 1]) \in EdgeReads
        BY <1>9, <2>1, <2>3, BoundsAreNatural DEF ReadEdge, HasRead, EdgeReads
    <2>5. QED
        BY <1>9, <2>4, <1>a DEF ReadEdge, ProcessTypeOK
<1>10. CASE StoreReleasing(p)
    BY <1>10, <1>a, <1>d, GotoTypes, LeaveTypes
    DEF StoreReleasing
<1>11. CASE ReleaseDrift(p)
    <2>1. op[p] \in {"mutate", "ready", "converge", "restart", "update"}
        BY <1>11, ReleasersAreDriversOrKickers DEF ReleaseDrift, Releasing
    <2>2. CASE op[p] \notin Driver
        BY <1>11, <2>1, <2>2, <1>a, SpawnTypes DEF ReleaseDrift, Driver
    <2>3. CASE op[p] \in Driver
        <3>1. AfterDrift[op[p]] \in Label
            BY <2>1, <2>3, TablesHoldLabels DEF Driver
        <3>2. QED
            BY <1>11, <2>3, <3>1, <1>a, EmptyIsRead, ZenonT(60)
            DEF ReleaseDrift, ProcessTypeOK, SlotTypeOK, Goto
    <2>4. QED
        BY <2>2, <2>3
<1>12. CASE ReleaseReprobe(p)
    BY <1>12, <1>a, <1>d, EmptyIsRead
    DEF ReleaseReprobe, ProcessTypeOK, SlotTypeOK, Goto
<1>13. CASE ReleaseSettle(p)
    BY <1>13, <1>a, <1>d, EmptyIsRead
    DEF ReleaseSettle, ProcessTypeOK, SlotTypeOK, Goto
<1>14. CASE ReleaseCas(p)
    <2>1. CASE Leave(p, AfterClean[op[p]])
        <3>1. AfterClean[op[p]] \in Label
            BY <1>14, ReleasersAreDriversOrKickers, TablesHoldLabels
            DEF ReleaseCas, Releasing
        <3>2. QED
            BY <2>1, <3>1, <1>a, LeaveTypes
    <2>2. CASE /\ revision' = [revision EXCEPT ![p] = recheck_committed]
               /\ Goto(p, "release")
               /\ UNCHANGED <<op, goal, read, observed>>
        BY <2>2, <1>a, <1>d DEF ProcessTypeOK, SlotTypeOK, Goto
    <2>3. QED
        BY <1>14, <2>1, <2>2 DEF ReleaseCas
<1>15. CASE (\E o \in Ops : Invoke(p, o))
    BY <1>15, <1>a, <1>d, OpsAreOperations DEF Invoke, ProcessTypeOK, Goto
<1>16. CASE Enlist(p)
    BY <1>16, <1>a, <1>d, GotoTypes, LeaveTypes
    DEF Enlist
<1>17. CASE Attempt(p)
    BY <1>17, <1>a, <1>d, GotoTypes, LeaveTypes
    DEF Attempt
<1>18. CASE Wake(p)
    BY <1>18, <1>a, <1>d, GotoTypes, LeaveTypes
    DEF Wake
<1>19. CASE CancelWait(p)
    BY <1>19, <1>a, <1>d, GotoTypes, LeaveTypes
    DEF CancelWait
<1>20. CASE AdmitDead(p)
    BY <1>20, <1>a, <1>d, GotoTypes, LeaveTypes
    DEF AdmitDead
<1>21. CASE AdmitReplacement(p)
    BY <1>21, <1>a, <1>d DEF AdmitReplacement, ProcessTypeOK, SlotTypeOK, FiberTypeOK, Goto
<1>22. CASE AdoptTarget(p)
    BY <1>22, <1>a, <1>d, ComputedIsTarget, EmptyIsRead
    DEF AdoptTarget, ProcessTypeOK, SlotTypeOK, Goto
<1>23. CASE Converge(p)
    BY <1>23, <1>a, <1>d DEF Converge, ProcessTypeOK, SlotTypeOK, FiberTypeOK, Goto
<1>24. CASE ConvergeJudge(p)
    <2>1. pc' \in [Proc -> Label]
        BY <1>24, <1>a, <1>d DEF ConvergeJudge, ProcessTypeOK, Goto
    <2>2. QED
        BY <1>24, <2>1, <1>a, EmptyIsRead DEF ConvergeJudge, ProcessTypeOK
<1>25. CASE Settle(p)
    BY <1>25, <1>a, <1>d, GotoTypes, LeaveTypes, SettlersAreDrivers, TablesHoldLabels
    DEF Settle, EndSettle, Settling
<1>26. CASE SettlePending(p)
    BY <1>26, <1>a, <1>d, GotoTypes, LeaveTypes, SettlersAreDrivers, TablesHoldLabels
    DEF SettlePending, EndSettle, Settling
<1>27. CASE SettleLoading(p)
    BY <1>27, <1>a, <1>d, GotoTypes, LeaveTypes, SettlersAreDrivers, TablesHoldLabels
    DEF SettleLoading, EndSettle, Settling
<1>28. CASE ApplyOk(p)
    BY <1>28, <1>a, <1>d, GotoTypes, LeaveTypes, SettlersAreDrivers, TablesHoldLabels
    DEF ApplyOk, EndSettle, Settling
<1>29. CASE ApplyFails(p)
    BY <1>29, <1>a, <1>d, GotoTypes, LeaveTypes, SettlersAreDrivers, TablesHoldLabels
    DEF ApplyFails, EndSettle, Settling
<1>30. CASE ParkFailure(p)
    BY <1>30, <1>a, <1>d, GotoTypes, LeaveTypes, SettlersAreDrivers, TablesHoldLabels
    DEF ParkFailure, EndSettle, Settling
<1>31. CASE DisposeLate(p)
    BY <1>31, <1>a, <1>d, GotoTypes, LeaveTypes
    DEF DisposeLate
<1>32. CASE ClaimTerminal(p)
    BY <1>32, <1>a, <1>d, GotoTypes, LeaveTypes
    DEF ClaimTerminal
<1>33. CASE AwaitComplete(p)
    BY <1>33, <1>a, <1>d, GotoTypes, LeaveTypes
    DEF AwaitComplete
<1>34. CASE TeardownUnload(p)
    BY <1>34, <1>a, <1>d, GotoTypes, LeaveTypes, TearersDispose, TablesHoldLabels
    DEF TeardownUnload, Teardown
<1>35. CASE TeardownDie(p)
    BY <1>35, <1>a, <1>d, GotoTypes, LeaveTypes
    DEF TeardownDie
<1>36. CASE TeardownDisposed(p)
    BY <1>36, <1>a, <1>d, GotoTypes, LeaveTypes, TearersDispose, TablesHoldLabels
    DEF TeardownDisposed, Teardown
<1>37. CASE TeardownAbandon(p)
    BY <1>37, <1>a, <1>d, GotoTypes, LeaveTypes
    DEF TeardownAbandon
<1>38. CASE ReleaseResidency(p)
    BY <1>38, <1>a, <1>d, GotoTypes, LeaveTypes
    DEF ReleaseResidency
<1>39. CASE PublishDisposeComplete(p)
    BY <1>39, <1>a, <1>d, GotoTypes, LeaveTypes
    DEF PublishDisposeComplete
<1>40. CASE Ready(p)
    BY <1>40, <1>a, <1>d, GotoTypes, LeaveTypes
    DEF Ready
<1>41. CASE ReadyObserve(p)
    BY <1>41, <1>a, <1>d DEF ReadyObserve, ProcessTypeOK, SlotTypeOK, FiberTypeOK, Goto
<1>42. CASE ReadyCheck(p)
    BY <1>42, <1>a, <1>d, GotoTypes, LeaveTypes
    DEF ReadyCheck
<1>43. CASE ReadyAnswer(p)
    BY <1>43, <1>a, <1>d, GotoTypes, LeaveTypes
    DEF ReadyAnswer
<1>44. QED
    BY <1>1, <1>2, <1>3, <1>4, <1>5, <1>6, <1>7, <1>8, <1>9, <1>10, <1>11,
       <1>12, <1>13, <1>14, <1>15, <1>16, <1>17, <1>18, <1>19, <1>20,
       <1>21, <1>22, <1>23, <1>24, <1>25, <1>26, <1>27, <1>28, <1>29,
       <1>30, <1>31, <1>32, <1>33, <1>34, <1>35, <1>36, <1>37, <1>38,
       <1>39, <1>40, <1>41, <1>42, <1>43 DEF Step, UserStep

-----------------------------------------------------------------------------
\* The inductive invariant and the theorems

IInv == TypeOK /\ Control /\ SlotExclusive

LEMMA InitIInv == DeliveredInit => IInv
<1> SUFFICES ASSUME DeliveredInit PROVE IInv
    OBVIOUS
<1> USE DEF DeliveredInit
<1>1. services \in [Edge -> Nat]
    BY DEF Missing
<1>2. target \in Target
    BY <1>1 DEF Target
<1>3. SlotTypeOK
    BY <1>1, <1>2 DEF SlotTypeOK
<1>4. applied \in BOOLEAN
    BY DEF HasMissing
<1>5. state \in FiberState /\ generation \in Target \cup {NoTarget}
    BY <1>2, <1>4 DEF FiberState
<1>6. FiberTypeOK
    BY <1>4, <1>5 DEF FiberTypeOK
<1>7. ProcessTypeOK
    BY EmptyIsRead DEF ProcessTypeOK, Label, Operation, Driver, FiberState
<1>8. Control
    BY ProcessesAreDistinct DEF Control, ControlAt, Proc, Disposal
<1>9. SlotExclusive
    BY DEF SlotExclusive, Holds, Holding, Probing, Settling, Teardown
<1>10. QED
    BY <1>3, <1>6, <1>7, <1>8, <1>9 DEF IInv, TypeOK

LEMMA NextIInv == IInv /\ [Next]_vars => IInv'
<1> SUFFICES ASSUME IInv, [Next]_vars PROVE IInv'
    OBVIOUS
<1>1. CASE Next
    <2>1. PICK p \in Proc : Step(p) \/ UserStep(p)
        BY <1>1 DEF Next
    <2>2. TypeOK'
        BY <2>1, SlotTypes, FiberTypes, ProcessTypes DEF IInv, TypeOK
    <2>3. Moves(p) \/ HandsOver(p)
        BY <2>1, StepsMove DEF IInv
    <2>4. QED
        BY <2>2, <2>3, MovesKeepControl, MovesKeepSlot DEF IInv
<1>2. CASE UNCHANGED vars
    BY <1>2 DEF IInv, TypeOK, SlotTypeOK, FiberTypeOK, ProcessTypeOK, Control,
                SlotExclusive, Holds, vars, slotVars, wordVars, recheckVars,
                fiberVars, stateVars, terminalVars, generationVars, localVars
<1>3. QED
    BY <1>1, <1>2

LEMMA Invariant == Spec => []IInv
BY InitIInv, NextIInv, PTL DEF Spec

\* Every reachable state of a delivered Fiber and its processes is well typed,
\* whatever the callers do: in particular every pass continues at a control
\* point its operation has, and every computed target is complete.
THEOREM TypeCorrect == Spec => []TypeOK
<1>1. IInv => TypeOK
    BY DEF IInv
<1>2. QED
    BY <1>1, Invariant, PTL

\* The slot protocol is mutual exclusion for any number of callers, tasks,
\* edges and commits: at most one pass owns a delivered Fiber, and the atomic
\* word is non-IDLE exactly while one does.
THEOREM SlotIsExclusive == Spec => []SlotExclusive
<1>1. IInv => SlotExclusive
    BY DEF IInv
<1>2. QED
    BY <1>1, Invariant, PTL

-----------------------------------------------------------------------------
\* The inductive invariant

\* The published state and the generation are those of target t, and a live
\* generation accepts registrations.
Settled(t) ==
    IF HasMissing(t)
    THEN state = "Pending" /\ generation = NoTarget /\ ~error
    ELSE /\ generation = t /\ ~generation_replacing
         /\ state = IF error THEN "Failed" ELSE "Active"

\* The control points at which a pass has not begun to replace the generation,
\* or has finished doing so; at which it knows its goal; at which it works
\* with a revision it has read; and at which it disposes.
Stable  == {"idle", "admitted", "first_probe", "converge_probe"} \cup Releasing
Aimed   == {"converge_probe"} \cup Settling \cup Releasing
Revised == Probing \cup Settling \cup Releasing
Tearing == Teardown \cup {"abandon", "unlink", "publish"}

\* The Fiber, as the owner of its slot leaves it at control point l; nobody
\* owns it at "idle".
Sound(l) ==
    /\ alive => target # NoTarget /\ state # "Disposed" /\ registered
    /\ alive /\ l # "target_probe" => target.input = input
    /\ alive /\ l \in Stable => Settled(target)
    /\ alive /\ l \in {"apply", "rollback"} =>
           generation = target /\ ~HasMissing(target) /\ ~generation_replacing
    /\ alive /\ disposing => l \in {"unload", "die"}
    /\ l \in {"decide", "apply", "rollback", "unload", "die"} => alive
    /\ l = "die" => state = "Unloading"
    /\ l = "drain" => ~alive /\ state = "Unloading"
    /\ ~alive => disposing /\ ~registered
    /\ ~alive /\ l # "drain" => state = "Disposed" /\ ~error

HolderSound ==
    /\ inertia = "IDLE" => Sound("idle")
    /\ \A p \in Proc : pc[p] \in Holding => Sound(pc[p])

\* The locals of a pass: its goal is the recorded target, its revision lies
\* between the acknowledged and the committed one, and what it has read of the
\* edges is what they are, unless a newer revision was committed meanwhile.
PassAt(p) ==
    /\ pc[p] \in Aimed => goal[p] = target /\ target # NoTarget
    /\ pc[p] = "converge" => target # NoTarget
    /\ read[p] # <<>> => pc[p] \in Probing
    /\ revision[p] <= recheck_committed
    /\ pc[p] \in Revised => recheck_settled <= revision[p]
    /\ pc[p] \in Probing /\ revision[p] = recheck_committed =>
           /\ Locked => read[p] = <<>>
           /\ \A i \in 1..Len(read[p]) : read[p][i] = services[i]
    /\ op[p] \in {"restart", "update"} /\ pc[p] \in Holding \ {"admitted"} => alive

Passes == \A p \in Proc : PassAt(p)

\* An acknowledged revision is in the target, and in the published state.
Acknowledged ==
    /\ recheck_settled <= recheck_committed
    /\ \A p, q \in Proc : pc[p] = "mutate" /\ pc[q] = "mutate" => p = q
    /\ Locked /\ Edges # 0 => HasCommittedRecheck
    /\ alive /\ ~HasCommittedRecheck => target.deps = services
    /\ alive /\ ~HasCommittedRecheck /\ state \notin Transient =>
           IF \E e \in Edge : services[e] = Missing THEN state = "Pending"
           ELSE state \in {"Active", "Failed"} /\ generation.deps = services

\* One process carries the disposal to its barrier.
TearerAt(p) ==
    /\ pc[p] \in Tearing =>
           /\ disposing /\ ~dispose_complete
           /\ \A q \in Proc : pc[q] \in Tearing => q = p
    /\ pc[p] \in Tearing \ Teardown => ~alive /\ state = "Disposed"
    /\ pc[p] = "publish" => ~resident

Disposals ==
    /\ dispose_complete =>
           disposing /\ ~alive /\ state = "Disposed" /\ ~resident
    /\ \A p \in Proc : TearerAt(p)

\* What a ready() call under way knows of the state it observed.
ObserverAt(p) ==
    /\ pc[p] \in Checking \ {"observe"} /\ p \in current => observed[p] = state
    /\ pc[p] \in {"check_committed", "check_sequence"} /\ p \in current =>
           observed[p] \notin Transient
    /\ pc[p] = "answer" => observed[p] \notin Transient

Observers == \A p \in Proc : ObserverAt(p)

\* Nobody lets go of a live Fiber with an unacknowledged revision unless a
\* kicker has still to look at the slot.
Notifying == \E p \in Proc : pc[p] \in {"mutate", "kick", "kick_slot"}

Driven ==
    OffRuntime = {} /\ alive /\ HasCommittedRecheck =>
        /\ inertia = "IDLE" => Notifying
        /\ inertia = "RELEASING" /\ (\E p \in Proc : pc[p] = "release_cas") =>
               Notifying

Truth == HolderSound /\ Passes /\ Acknowledged /\ Disposals /\ Observers /\ Driven

-----------------------------------------------------------------------------
\* The owner of the slot keeps the Fiber sound

\* What Sound speaks of.
soundVars == <<target, state, alive, disposing, registered, input, error,
               generation, generation_replacing>>

LEMMA SoundFrame ==
    ASSUME UNCHANGED soundVars, NEW l, Sound(l)
    PROVE  Sound(l)'
BY DEF soundVars, Sound, Settled, HasMissing

\* With the slot owned, only its owner has to leave the Fiber sound.
LEMMA OwnerAnswers ==
    ASSUME IInv', NEW p \in Proc, NEW l \in Holding, pc'[p] = l, Sound(l)'
    PROVE  HolderSound'
<1>1. inertia' # "IDLE" /\ \A q \in Proc : pc'[q] \in Holding => q = p
    BY DEF IInv, SlotExclusive, Holds
<1>2. QED
    BY <1>1 DEF HolderSound, Sound, Settled

LEMMA FreedIsSound ==
    ASSUME IInv', inertia' = "IDLE", Sound("idle")'
    PROVE  HolderSound'
BY DEF IInv, SlotExclusive, Holds, HolderSound

\* A step of somebody who does not own the slot.
LEMMA BystanderKeepsSound ==
    ASSUME HolderSound, NEW p \in Proc, pc'[p] \notin Holding,
           \A q \in Proc \ {p} : pc'[q] = pc[q],
           inertia' = "IDLE" => inertia = "IDLE",
           UNCHANGED soundVars
    PROVE  HolderSound'
<1>1. inertia' = "IDLE" => Sound("idle")'
    BY SoundFrame DEF HolderSound
<1>2. ASSUME NEW q \in Proc, pc'[q] \in Holding
      PROVE  Sound(pc[q])'
    <2>1. q # p /\ pc'[q] = pc[q]
        BY <1>2
    <2>2. Sound(pc[q])
        BY <1>2, <2>1 DEF HolderSound
    <2>3. QED
        BY <2>1, <2>2 DEF soundVars, Sound, Settled, HasMissing
<1>3. QED
    BY <1>1, <1>2 DEF HolderSound

LEMMA NextHolderSound ==
    ASSUME IInv, Truth, IInv', NEW p \in Proc, Step(p) \/ UserStep(p)
    PROVE  HolderSound'
<1>a. HolderSound /\ PassAt(p) /\ ProcessTypeOK
    BY DEF Truth, Passes, IInv, TypeOK
<1>b. pc[p] \in Holding => Sound(pc[p]) /\ inertia # "IDLE"
    BY DEF Truth, HolderSound, IInv, SlotExclusive, Holds
<1>c. inertia = "IDLE" => Sound("idle")
    BY DEF Truth, HolderSound
<1> USE DEF slotVars, wordVars, localVars, fiberVars, stateVars, terminalVars,
            generationVars, soundVars
<1>t. TearerAt(p)
    BY DEF Truth, Disposals
<1>o. /\ pc[p] \in Settling =>
             op[p] \in Driver /\ AfterSettle[op[p]] \in {"converge_probe", "release"}
      /\ op[p] \in Driver => AfterDrift[op[p]] \in {"converge", "retarget_probe"}
      /\ op[p] # "spawn"
    <2>1. op[p] # "spawn" /\ (pc[p] \in Settling => op[p] \in {"converge", "restart", "update"})
        BY SettlersAreDrivers DEF IInv, Control, ControlAt
    <2>2. QED
        BY <2>1 DEF Driver, AfterSettle, AfterDrift
<1>d. pc[p] \in Teardown => AfterTeardown[op[p]] = "abandon"
    BY TearersDispose DEF IInv, AfterTeardown, Disposal
<1>m. Moves(p) \/ HandsOver(p)
    BY StepsMove DEF IInv
<1>1. CASE \/ CommitRecheck(p) \/ MutateServices(p) \/ Kick(p)
          \/ KickActive(p) \/ KickReleasing(p) \/ KickOffRuntime(p)
          \/ (\E o \in Ops : Invoke(p, o)) \/ Enlist(p) \/ Wake(p)
          \/ CancelWait(p) \/ AwaitComplete(p) \/ Ready(p)
          \/ ReadyObserve(p) \/ ReadyCheck(p) \/ ReadyAnswer(p)
          \/ ReleaseResidency(p) \/ PublishDisposeComplete(p)
    <2>1. UNCHANGED soundVars
        BY <1>1
        DEF CommitRecheck, MutateServices, Kick, KickActive, KickReleasing,
            KickOffRuntime, Invoke, Enlist, Wake, CancelWait, AwaitComplete,
            Ready, ReadyObserve, ReadyCheck, ReadyAnswer, ReleaseResidency,
            PublishDisposeComplete
    <2>2. inertia' # inertia => inertia = "RELEASING" /\ inertia' = "ACTIVE"
        BY <1>1
        DEF CommitRecheck, MutateServices, Kick, KickActive, KickReleasing,
            KickOffRuntime, Invoke, Enlist, Wake, CancelWait, AwaitComplete,
            Ready, ReadyObserve, ReadyCheck, ReadyAnswer, ReleaseResidency,
            PublishDisposeComplete
    <2>3. pc[p] \notin Holding
        BY <1>1
        DEF CommitRecheck, MutateServices, Kick, KickActive, KickReleasing,
            KickOffRuntime, Invoke, Enlist, Wake, CancelWait, AwaitComplete,
            Ready, ReadyObserve, ReadyCheck, ReadyAnswer, ReleaseResidency,
            PublishDisposeComplete, Holding, Probing, Settling, Teardown
    <2>4. pc'[p] \notin Holding /\ \A q \in Proc \ {p} : pc'[q] = pc[q]
        BY <1>m, <2>2, <2>3 DEF Moves, HandsOver
    <2>5. QED
        BY <1>a, <2>1, <2>2, <2>4, BystanderKeepsSound
<1>2. CASE Attempt(p)
    <2>1. UNCHANGED soundVars /\ pc[p] \notin Holding
        BY <1>2 DEF Attempt, Holding, Probing, Settling, Teardown
    <2>2. CASE inertia' = inertia
        <3>1. pc'[p] \notin Holding /\ \A q \in Proc \ {p} : pc'[q] = pc[q]
            BY <1>m, <2>1, <2>2 DEF Moves, HandsOver
        <3>2. QED
            BY <1>a, <2>1, <2>2, <3>1, BystanderKeepsSound
    <2>3. CASE inertia' # inertia
        <3>1. inertia = "IDLE" /\ pc'[p] = "admitted"
            BY <1>2, <2>3, <1>a DEF Attempt, Goto, ProcessTypeOK
        <3>2. Sound("admitted")'
            BY <3>1, <2>1, <1>c DEF Sound, Settled, HasMissing, Stable
        <3>3. QED
            BY <3>1, <3>2, OwnerAnswers DEF Holding
    <2>4. QED
        BY <2>2, <2>3
<1>3. CASE KickIdle(p)
    <2>1. inertia = "IDLE" /\ UNCHANGED soundVars
        BY <1>3 DEF KickIdle
    <2>2. pc'[p] = IF target = NoTarget THEN "first_probe" ELSE "release"
        BY <1>3, <1>a DEF KickIdle, Goto, ProcessTypeOK
    <2>3. Sound("first_probe")' /\ Sound("release")'
        BY <1>c, <2>1 DEF Sound, Settled, HasMissing, Stable, Releasing
    <2>4. QED
        BY <2>2, <2>3, OwnerAnswers DEF Holding, Probing
<1>4. CASE \/ ReadEdge(p) \/ StoreReleasing(p) \/ ReleaseReprobe(p)
          \/ ReleaseSettle(p) \/ (ReleaseCas(p) /\ inertia = "ACTIVE")
          \/ Converge(p)
    <2>1. UNCHANGED soundVars /\ pc[p] \in Holding
        BY <1>4 DEF ReadEdge, StoreReleasing, ReleaseReprobe, ReleaseSettle,
                    ReleaseCas, Converge, Holding, Probing
    <2>2. \/ pc'[p] = pc[p]
          \/ pc[p] \in Releasing /\ pc'[p] \in Releasing
          \/ pc[p] = "converge" /\ pc'[p] = "settle"
        BY <1>4, <1>a DEF ReadEdge, StoreReleasing, ReleaseReprobe, ReleaseSettle,
                    ReleaseCas, Converge, Goto, ProcessTypeOK, Releasing
    <2>3. \A l \in Holding : pc'[p] = l => Sound(l)'
        BY <1>b, <2>1, <2>2 DEF Sound, Settled, HasMissing, Stable, Releasing
    <2>4. pc'[p] \in Holding
        BY <2>1, <2>2 DEF Holding, Releasing, Probing, Settling
    <2>5. QED
        BY <2>3, <2>4, OwnerAnswers
<1>5. CASE \/ (ReleaseCas(p) /\ inertia # "ACTIVE") \/ AdmitDead(p)
          \/ DisposeLate(p) \/ TeardownAbandon(p)
    <2>1. UNCHANGED soundVars /\ inertia' = "IDLE"
        BY <1>5 DEF ReleaseCas, AdmitDead, DisposeLate, TeardownAbandon, Abandon
    <2>2. /\ pc[p] \in {"release_cas", "admitted"} \/ (pc[p] = "abandon" /\ ~alive)
          /\ pc[p] \in Holding
        BY <1>5, <1>t DEF ReleaseCas, AdmitDead, DisposeLate, TeardownAbandon, TearerAt,
           Tearing, Teardown, Holding
    <2>3. Sound("idle")'
        BY <1>b, <2>1, <2>2 DEF Sound, Settled, HasMissing, Stable, Releasing
    <2>4. QED
        BY <2>1, <2>3, FreedIsSound
<1>6. CASE KickFirstTarget(p) \/ (ReleaseDrift(p) /\ op[p] \notin Driver)
    <2>1. /\ pc[p] \in {"first_probe", "release_probe"} /\ HasRead(p)
          /\ SpawnConvergencePass(p) /\ target' = Computed(p)
          /\ UNCHANGED fiberVars
        BY <1>6 DEF KickFirstTarget, ReleaseDrift
    <2>2. Computed(p) \in Target /\ Computed(p).input = input
        BY <2>1, ComputedIsTarget DEF IInv, Computed
    <2>3. pc[p] \in Holding
        BY <2>1 DEF Holding, Probing
    <2>4. Sound("converge")'
        BY <1>b, <2>1, <2>2, <2>3, NoTargetIsNoTarget DEF Sound, Stable, Releasing
    <2>5. PICK t \in Task : pc[t] = "free"
              /\ pc' = [pc EXCEPT ![t] = "converge", ![p] = AfterClean[op[p]]]
        BY <2>1 DEF SpawnConvergencePass
    <2>6. t \in Proc /\ t # p
        BY <2>1, <2>5 DEF Proc
    <2>7. pc'[t] = "converge"
        BY <1>a, <2>5, <2>6 DEF ProcessTypeOK
    <2>8. QED
        BY <2>4, <2>6, <2>7, OwnerAnswers DEF Holding
<1>7. CASE \/ (ReleaseDrift(p) /\ op[p] \in Driver) \/ AdoptTarget(p)
          \/ (ConvergeJudge(p) /\ Computed(p) # goal[p])
    <2>1. /\ pc[p] \in Probing /\ HasRead(p)
          /\ UNCHANGED <<state, alive, disposing, registered, input, error, generation>>
        BY <1>7 DEF ReleaseDrift, AdoptTarget, ConvergeJudge, Probing
    <2>2. pc'[p] \in {"converge", "retarget_probe", "settle"} /\ target' = Computed(p)
        BY <1>7, <1>a, <1>o DEF ReleaseDrift, AdoptTarget, ConvergeJudge, Goto, ProcessTypeOK
    <2>3. Computed(p) \in Target /\ Computed(p).input = input
        BY <2>1, ComputedIsTarget DEF IInv, Computed
    <2>4. pc[p] \in Holding
        BY <2>1 DEF Holding
    <2>5. \A l \in {"converge", "retarget_probe", "settle"} : Sound(l)'
        BY <1>b, <2>1, <2>2, <2>3, <2>4, NoTargetIsNoTarget DEF Sound, Stable, Releasing, Probing
    <2>6. QED
        BY <2>2, <2>5, OwnerAnswers DEF Holding, Probing, Settling
<1>8. CASE ConvergeJudge(p) /\ Computed(p) = goal[p]
    <2>1. pc[p] = "converge_probe" /\ pc'[p] = "release" /\ UNCHANGED soundVars
        BY <1>8, <1>a DEF ConvergeJudge, Goto, ProcessTypeOK
    <2>2. Sound("release")'
        BY <1>b, <2>1 DEF Sound, Settled, HasMissing, Stable, Releasing, Holding, Probing
    <2>3. QED
        BY <2>1, <2>2, OwnerAnswers DEF Holding
<1>9. CASE AdmitReplacement(p)
    <2>1. pc[p] = "admitted" /\ pc'[p] = "target_probe"
        BY <1>9, <1>a DEF AdmitReplacement, Goto, ProcessTypeOK
    <2>2. Sound("target_probe")'
        <3>1. alive /\ UNCHANGED <<target, state, alive, disposing, registered>>
            BY <1>9 DEF AdmitReplacement
        <3>2. Sound("admitted")
            BY <1>b, <2>1 DEF Holding
        <3>3. QED
            BY <3>1, <3>2 DEF Sound, Stable, Releasing
    <2>3. QED
        BY <2>1, <2>2, OwnerAnswers DEF Holding, Probing
<1>10. CASE Settle(p)
    <2>1. pc[p] = "settle" /\ pc[p] \in Holding
        BY <1>10 DEF Settle, Holding, Settling
    <2>2. CASE alive
        <3>1. pc'[p] = "decide"
            BY <1>10, <2>2, <1>a DEF Settle, Goto, ProcessTypeOK
        <3>2. Sound("decide")'
            BY <1>10, <1>b, <2>1, <2>2 DEF Settle, Publish, Sound, Settled, Stable, Releasing
        <3>3. QED
            BY <3>1, <3>2, OwnerAnswers DEF Holding, Settling
    <2>3. CASE ~alive
        <3>1. pc'[p] \in {"converge_probe", "release"} /\ UNCHANGED soundVars
            BY <1>10, <2>3, <1>a, <1>o, <2>1 DEF Settle, EndSettle, Goto, ProcessTypeOK, Settling
        <3>2. Sound("converge_probe")' /\ Sound("release")'
            BY <1>b, <2>1, <2>3, <3>1 DEF Sound
        <3>3. QED
            BY <3>1, <3>2, OwnerAnswers DEF Holding, Probing
    <2>4. QED
        BY <2>2, <2>3
<1>11. CASE SettlePending(p)
    <2>1. pc[p] = "decide" /\ goal[p] = target /\ Sound("decide")
        BY <1>11, <1>a, <1>b DEF SettlePending, PassAt, Aimed, Settling, Holding
    <2>2. pc'[p] \in {"converge_probe", "release"}
        BY <1>11, <1>a, <1>o, <2>1 DEF SettlePending, EndSettle, Goto, ProcessTypeOK, Settling
    <2>3. Sound("converge_probe")' /\ Sound("release")'
        BY <1>11, <2>1 DEF SettlePending, Publish, Sound, Settled, Stable, Releasing
    <2>4. QED
        BY <2>2, <2>3, OwnerAnswers DEF Holding, Probing
<1>12. CASE SettleLoading(p)
    <2>1. pc[p] = "decide" /\ pc'[p] = "apply" /\ goal[p] = target /\ Sound("decide")
        BY <1>12, <1>a, <1>b DEF SettleLoading, Goto, ProcessTypeOK, PassAt, Aimed, Settling, Holding
    <2>2. Sound("apply")'
        BY <1>12, <2>1 DEF SettleLoading, Publish, Sound, Settled, Stable, Releasing
    <2>3. QED
        BY <2>1, <2>2, OwnerAnswers DEF Holding, Settling
<1>13. CASE ApplyOk(p)
    <2>1. pc[p] = "apply" /\ goal[p] = target /\ Sound("apply")
        BY <1>13, <1>a, <1>b DEF ApplyOk, PassAt, Aimed, Settling, Holding
    <2>2. pc'[p] \in {"converge_probe", "release"}
        BY <1>13, <1>a, <1>o, <2>1 DEF ApplyOk, EndSettle, Goto, ProcessTypeOK, Settling
    <2>3. Sound("converge_probe")' /\ Sound("release")'
        BY <1>13, <2>1 DEF ApplyOk, Publish, Sound, Settled, Stable, Releasing
    <2>4. QED
        BY <2>2, <2>3, OwnerAnswers DEF Holding, Probing
<1>14. CASE ApplyFails(p)
    <2>1. pc[p] = "apply" /\ pc'[p] = "rollback" /\ goal[p] = target /\ Sound("apply")
        BY <1>14, <1>a, <1>b DEF ApplyFails, Goto, ProcessTypeOK, PassAt, Aimed, Settling, Holding
    <2>2. Sound("rollback")'
        BY <1>14, <2>1 DEF ApplyFails, Publish, Sound, Settled, Stable, Releasing
    <2>3. QED
        BY <2>1, <2>2, OwnerAnswers DEF Holding, Settling
<1>15. CASE ParkFailure(p)
    <2>1. pc[p] = "rollback" /\ goal[p] = target /\ Sound("rollback")
        BY <1>15, <1>a, <1>b DEF ParkFailure, PassAt, Aimed, Settling, Holding
    <2>2. pc'[p] \in {"converge_probe", "release"}
        BY <1>15, <1>a, <1>o, <2>1 DEF ParkFailure, EndSettle, Goto, ProcessTypeOK, Settling
    <2>3. Sound("converge_probe")' /\ Sound("release")'
        BY <1>15, <2>1 DEF ParkFailure, Publish, Sound, Settled, Stable, Releasing
    <2>4. QED
        BY <2>2, <2>3, OwnerAnswers DEF Holding, Probing
<1>16. CASE ClaimTerminal(p)
    <2>1. pc[p] = "admitted" /\ Sound("admitted")
        BY <1>16, <1>b DEF ClaimTerminal, Holding, Teardown
    <2>2. pc'[p] = "unload"
        BY <1>16, <1>a, <1>d, <2>1 DEF ClaimTerminal, Goto, ProcessTypeOK, Sound
    <2>3. Sound("unload")'
        BY <1>16, <2>1 DEF ClaimTerminal, Publish, Sound, Stable, Releasing
    <2>4. QED
        BY <2>2, <2>3, OwnerAnswers DEF Holding, Teardown
<1>17. CASE TeardownUnload(p)
    <2>1. pc[p] = "unload" /\ Sound("unload")
        BY <1>17, <1>b DEF TeardownUnload, Holding, Teardown
    <2>2. pc'[p] = "die"
        BY <1>17, <1>a, <1>d, <2>1 DEF TeardownUnload, Goto, ProcessTypeOK, Sound
    <2>3. Sound("die")'
        BY <1>17, <2>1 DEF TeardownUnload, Publish, Sound, Stable, Releasing
    <2>4. QED
        BY <2>2, <2>3, OwnerAnswers DEF Holding, Teardown
<1>18. CASE TeardownDie(p)
    <2>1. pc[p] = "die" /\ Sound("die")
        BY <1>18, <1>b DEF TeardownDie, Holding, Teardown
    <2>2. pc'[p] = "drain"
        BY <1>18, <1>a, <1>d, <2>1 DEF TeardownDie, Goto, ProcessTypeOK, Sound
    <2>3. Sound("drain")'
        BY <1>18, <1>t, <2>1 DEF TeardownDie, Sound, TearerAt, Tearing, Teardown
    <2>4. QED
        BY <2>2, <2>3, OwnerAnswers DEF Holding, Teardown
<1>19. CASE TeardownDisposed(p)
    <2>1. pc[p] = "drain" /\ Sound("drain")
        BY <1>19, <1>b DEF TeardownDisposed, Holding, Teardown
    <2>2. pc'[p] = "abandon"
        BY <1>19, <1>a, <1>d, <2>1 DEF TeardownDisposed, Goto, ProcessTypeOK, Teardown
    <2>3. Sound("abandon")'
        BY <1>19, <2>1 DEF TeardownDisposed, Publish, Sound, Stable, Releasing
    <2>4. QED
        BY <2>2, <2>3, OwnerAnswers DEF Holding, Teardown
<1>20. ReleaseCas(p) \/ ReleaseDrift(p) \/ ConvergeJudge(p) => HolderSound'
    BY <1>4, <1>5, <1>6, <1>7, <1>8
<1>21. QED
    BY <1>1, <1>2, <1>3, <1>4, <1>5, <1>6, <1>7, <1>9, <1>10, <1>11, <1>12,
       <1>13, <1>14, <1>15, <1>16, <1>17, <1>18, <1>19, <1>20
    DEF Step, UserStep

-----------------------------------------------------------------------------
\* A pass keeps its locals true

LEMMA LocalsStay ==
    ASSUME ProcessTypeOK, NEW p \in Proc, Step(p) \/ UserStep(p)
    PROVE  \A q \in Proc \ {p} :
               /\ goal'[q] = goal[q] /\ revision'[q] = revision[q]
               /\ read'[q] = read[q] /\ observed'[q] = observed[q]
<1> USE DEF ProcessTypeOK, localVars
<1>1. CASE \/ MutateServices(p) \/ StoreReleasing(p) \/ Enlist(p)
          \/ Attempt(p) \/ Wake(p) \/ Settle(p) \/ SettlePending(p)
          \/ SettleLoading(p) \/ ApplyOk(p) \/ ApplyFails(p)
          \/ ParkFailure(p) \/ ClaimTerminal(p) \/ TeardownUnload(p)
          \/ TeardownDie(p) \/ TeardownDisposed(p) \/ TeardownAbandon(p)
          \/ ReleaseResidency(p) \/ Ready(p)
    BY <1>1
    DEF MutateServices, StoreReleasing, Enlist, Attempt, Wake, Settle,
        SettlePending, SettleLoading, ApplyOk, ApplyFails, ParkFailure,
        ClaimTerminal, TeardownUnload, TeardownDie, TeardownDisposed,
        TeardownAbandon, ReleaseResidency, Ready, EndSettle
<1>2. CASE \/ KickActive(p) \/ KickReleasing(p) \/ KickOffRuntime(p)
          \/ CancelWait(p) \/ AdmitDead(p) \/ AwaitComplete(p)
          \/ PublishDisposeComplete(p) \/ ReadyAnswer(p) \/ Kick(p)
          \/ DisposeLate(p) \/ ReadyCheck(p)
    BY <1>2
    DEF KickActive, KickReleasing, KickOffRuntime, CancelWait, AdmitDead,
        AwaitComplete, PublishDisposeComplete, ReadyAnswer, Kick, DisposeLate,
        ReadyCheck, Leave
<1>3. CASE \/ CommitRecheck(p) \/ KickIdle(p) \/ KickFirstTarget(p)
          \/ ReadEdge(p) \/ ReleaseDrift(p) \/ ReleaseReprobe(p)
          \/ ReleaseSettle(p) \/ ReleaseCas(p)
          \/ (\E o \in Ops : Invoke(p, o)) \/ AdmitReplacement(p)
          \/ AdoptTarget(p) \/ Converge(p) \/ ConvergeJudge(p)
          \/ ReadyObserve(p)
    BY <1>3
    DEF CommitRecheck, KickIdle, KickFirstTarget, ReadEdge, ReleaseDrift,
        ReleaseReprobe, ReleaseSettle, ReleaseCas, Invoke, AdmitReplacement,
        AdoptTarget, Converge, ConvergeJudge, ReadyObserve, Leave,
        SpawnConvergencePass
<1>4. QED
    BY <1>1, <1>2, <1>3 DEF Step, UserStep

\* Whoever does not own the slot changes nothing the owner relies on, a commit
\* is the one way into the ServiceStore lock, and publications change under it.
LEMMA OwnerDecides ==
    ASSUME NEW p \in Proc, Step(p) \/ UserStep(p)
    PROVE  pc[p] \in Holding \/ UNCHANGED <<soundVars, recheck_settled>>
<1> USE DEF slotVars, recheckVars, fiberVars, stateVars, terminalVars,
            generationVars, soundVars
<1>1. CASE \/ MutateServices(p) \/ Enlist(p) \/ Attempt(p) \/ Wake(p)
          \/ ReleaseResidency(p) \/ Ready(p) \/ KickActive(p)
          \/ KickReleasing(p) \/ KickOffRuntime(p) \/ CancelWait(p)
          \/ AwaitComplete(p) \/ PublishDisposeComplete(p) \/ ReadyAnswer(p)
          \/ Kick(p) \/ ReadyCheck(p) \/ CommitRecheck(p) \/ KickIdle(p)
          \/ (\E o \in Ops : Invoke(p, o)) \/ ReadyObserve(p)
    BY <1>1
    DEF MutateServices, Enlist, Attempt, Wake, ReleaseResidency, Ready,
        KickActive, KickReleasing, KickOffRuntime, CancelWait, AwaitComplete,
        PublishDisposeComplete, ReadyAnswer, Kick, ReadyCheck, CommitRecheck,
        KickIdle, Invoke, ReadyObserve
<1>2. CASE \/ KickFirstTarget(p) \/ ReadEdge(p) \/ StoreReleasing(p)
          \/ ReleaseDrift(p) \/ ReleaseReprobe(p) \/ ReleaseSettle(p)
          \/ ReleaseCas(p) \/ AdmitDead(p) \/ AdmitReplacement(p)
          \/ AdoptTarget(p) \/ Converge(p) \/ ConvergeJudge(p) \/ Settle(p)
          \/ SettlePending(p) \/ SettleLoading(p) \/ ApplyOk(p)
          \/ ApplyFails(p) \/ ParkFailure(p) \/ DisposeLate(p)
          \/ ClaimTerminal(p) \/ TeardownUnload(p) \/ TeardownDie(p)
          \/ TeardownDisposed(p) \/ TeardownAbandon(p)
    BY <1>2
    DEF KickFirstTarget, ReadEdge, StoreReleasing, ReleaseDrift, ReleaseReprobe,
        ReleaseSettle, ReleaseCas, AdmitDead, AdmitReplacement, AdoptTarget,
        Converge, ConvergeJudge, Settle, SettlePending, SettleLoading, ApplyOk,
        ApplyFails, ParkFailure, DisposeLate, ClaimTerminal, TeardownUnload,
        TeardownDie, TeardownDisposed, TeardownAbandon,
        Holding, Probing, Settling, Teardown
<1>3. QED
    BY <1>1, <1>2 DEF Step, UserStep

LEMMA CommitsLock ==
    ASSUME NEW p \in Proc, Step(p) \/ UserStep(p)
    PROVE  /\ recheck_committed' = recheck_committed \/ CommitRecheck(p)
           /\ services' = services \/ MutateServices(p)
<1> USE DEF slotVars, recheckVars
<1>1. CASE CommitRecheck(p)
    BY <1>1 DEF CommitRecheck
<1>2. CASE MutateServices(p)
    BY <1>2 DEF MutateServices
<1>3. CASE \/ Enlist(p) \/ Attempt(p) \/ Wake(p) \/ ReleaseResidency(p)
          \/ Ready(p) \/ KickActive(p) \/ KickReleasing(p)
          \/ KickOffRuntime(p) \/ CancelWait(p) \/ AwaitComplete(p)
          \/ PublishDisposeComplete(p) \/ ReadyAnswer(p) \/ Kick(p)
          \/ ReadyCheck(p) \/ KickIdle(p) \/ (\E o \in Ops : Invoke(p, o))
          \/ ReadyObserve(p)
    BY <1>3
    DEF Enlist, Attempt, Wake, ReleaseResidency, Ready, KickActive, KickReleasing,
        KickOffRuntime, CancelWait, AwaitComplete, PublishDisposeComplete,
        ReadyAnswer, Kick, ReadyCheck, KickIdle, Invoke, ReadyObserve
<1>4. CASE \/ KickFirstTarget(p) \/ ReadEdge(p) \/ StoreReleasing(p)
          \/ ReleaseDrift(p) \/ ReleaseReprobe(p) \/ ReleaseSettle(p)
          \/ ReleaseCas(p) \/ AdmitDead(p) \/ AdmitReplacement(p)
          \/ AdoptTarget(p) \/ Converge(p) \/ ConvergeJudge(p) \/ Settle(p)
          \/ SettlePending(p) \/ SettleLoading(p) \/ ApplyOk(p)
          \/ ApplyFails(p) \/ ParkFailure(p) \/ DisposeLate(p)
          \/ ClaimTerminal(p) \/ TeardownUnload(p) \/ TeardownDie(p)
          \/ TeardownDisposed(p) \/ TeardownAbandon(p)
    BY <1>4
    DEF KickFirstTarget, ReadEdge, StoreReleasing, ReleaseDrift, ReleaseReprobe,
        ReleaseSettle, ReleaseCas, AdmitDead, AdmitReplacement, AdoptTarget,
        Converge, ConvergeJudge, Settle, SettlePending, SettleLoading, ApplyOk,
        ApplyFails, ParkFailure, DisposeLate, ClaimTerminal, TeardownUnload,
        TeardownDie, TeardownDisposed, TeardownAbandon
<1>5. QED
    BY <1>1, <1>2, <1>3, <1>4 DEF Step, UserStep

\* Where the tables send a process of this module.
LEMMA Continuations ==
    ASSUME IInv, NEW p \in Proc
    PROVE  /\ pc[p] \in Kicking => AfterClean[op[p]] \in {"free", "rest", "enlist"}
           /\ pc[p] \in Settling => AfterSettle[op[p]] \in {"converge_probe", "release"}
           /\ pc[p] \in Releasing /\ op[p] \in Driver =>
                  AfterDrift[op[p]] \in {"converge", "retarget_probe"}
           /\ pc[p] \in Teardown => AfterTeardown[op[p]] = "abandon"
<1>1. ASSUME pc[p] \in Kicking
      PROVE  op[p] \in {"mutate", "ready", "converge", "restart", "update"}
    BY <1>1, KickersMutateOrReady, ReleasersAreDriversOrKickers DEF IInv, Kicking
<1>2. ASSUME pc[p] \in Settling
      PROVE  op[p] \in {"converge", "restart", "update"}
    BY <1>2, SettlersAreDrivers DEF IInv
<1>3. ASSUME pc[p] \in Teardown
      PROVE  op[p] \in Disposal
    BY <1>3, TearersDispose DEF IInv
<1>4. QED
    BY <1>1, <1>2, <1>3
    DEF AfterClean, AfterSettle, AfterDrift, AfterTeardown, Driver, Disposal, Kicking

\* The steps that lead to the control points the invariant singles out.
LEMMA Landings ==
    ASSUME IInv, NEW p \in Proc, Step(p) \/ UserStep(p)
    PROVE  /\ pc'[p] = "mutate" => CommitRecheck(p)
           /\ pc'[p] = "release_cas" => ReleaseSettle(p)
           /\ pc'[p] \in Tearing => pc[p] \in Tearing \/ ClaimTerminal(p)
           /\ pc'[p] \in Checking \ {"observe"} => ReadyObserve(p) \/ ReadyCheck(p)
<1>a. ProcessTypeOK
    BY DEF IInv, TypeOK
<1> USE DEF ProcessTypeOK, Goto, Leave, Tearing, Teardown, Checking
<1>1. CASE \/ MutateServices(p) \/ Enlist(p) \/ Attempt(p) \/ Wake(p)
          \/ ReleaseResidency(p) \/ Ready(p) \/ KickActive(p)
          \/ KickReleasing(p) \/ KickOffRuntime(p) \/ CancelWait(p)
          \/ AwaitComplete(p) \/ PublishDisposeComplete(p) \/ ReadyAnswer(p)
          \/ Kick(p) \/ KickIdle(p) \/ (\E o \in Ops : Invoke(p, o))
    BY <1>a, <1>1, Continuations
    DEF MutateServices, Enlist, Attempt, Wake, ReleaseResidency, Ready,
        KickActive, KickReleasing, KickOffRuntime, CancelWait, AwaitComplete,
        PublishDisposeComplete, ReadyAnswer, Kick, KickIdle, Invoke, Kicking
<1>2. CASE \/ ReadEdge(p) \/ StoreReleasing(p) \/ ReleaseReprobe(p)
          \/ ReleaseCas(p) \/ AdmitDead(p) \/ AdmitReplacement(p)
          \/ AdoptTarget(p) \/ Converge(p) \/ ConvergeJudge(p) \/ Settle(p)
          \/ SettlePending(p) \/ SettleLoading(p) \/ ApplyOk(p)
          \/ ApplyFails(p) \/ ParkFailure(p) \/ DisposeLate(p)
          \/ TeardownUnload(p) \/ TeardownDie(p) \/ TeardownDisposed(p)
          \/ TeardownAbandon(p)
    BY <1>a, <1>2, Continuations
    DEF ReadEdge, StoreReleasing, ReleaseReprobe, ReleaseCas, AdmitDead,
        AdmitReplacement, AdoptTarget, Converge, ConvergeJudge, Settle,
        SettlePending, SettleLoading, ApplyOk, ApplyFails, ParkFailure,
        DisposeLate, TeardownUnload, TeardownDie, TeardownDisposed,
        TeardownAbandon,
        EndSettle, Kicking, Releasing, Settling, Probing
<1>3. CASE KickFirstTarget(p) \/ ReleaseDrift(p)
    <2>1. pc'[p] \in {"converge", "retarget_probe", "free", "rest", "enlist"}
        BY <1>a, <1>3, Continuations
        DEF KickFirstTarget, ReleaseDrift, SpawnConvergencePass, Kicking, Releasing
    <2>2. QED
        BY <2>1
<1>4. CASE CommitRecheck(p) \/ ClaimTerminal(p) \/ ReleaseSettle(p)
    BY <1>a, <1>4 DEF CommitRecheck, ClaimTerminal, ReleaseSettle
<1>5. CASE ReadyObserve(p)
    BY <1>a, <1>5 DEF ReadyObserve
<1>6. CASE ReadyCheck(p)
    BY <1>a, <1>6 DEF ReadyCheck
<1>7. QED
    BY <1>1, <1>2, <1>3, <1>4, <1>5, <1>6 DEF Step, UserStep

LEMMA OneMoves ==
    ASSUME IInv, NEW p \in Proc, Step(p) \/ UserStep(p),
           ~KickFirstTarget(p), ~(ReleaseDrift(p) /\ op[p] \notin Driver)
    PROVE  Moves(p)
BY KickMoves, ReleaseMoves, AdmissionMoves, ReadMoves, SettleMoves,
   DisposeMoves, ReadyMoves
DEF Step, UserStep, IInv

\* The task a pass is handed to starts toward a recorded target.
LEMMA TaskTakesOver ==
    ASSUME IInv, NEW p \in Proc,
           KickFirstTarget(p) \/ (ReleaseDrift(p) /\ op[p] \notin Driver)
    PROVE  \E t \in Task :
               /\ t \in Proc /\ t # p /\ pc[t] = "free" /\ pc'[t] = "converge"
               /\ pc[p] \in {"first_probe", "release_probe"}
               /\ pc'[p] \in {"free", "rest", "enlist"}
               /\ op[t] = "converge" /\ op'[t] = "converge"
               /\ \A q \in Proc \ {p, t} : pc'[q] = pc[q] /\ op'[q] = op[q]
               /\ target' # NoTarget
<1>1. /\ pc[p] \in {"first_probe", "release_probe"} /\ target' = Computed(p)
      /\ HasRead(p) /\ SpawnConvergencePass(p)
    BY DEF KickFirstTarget, ReleaseDrift
<1>2. PICK t \in Task :
        /\ pc[t] = "free"
        /\ pc' = [pc EXCEPT ![t] = "converge", ![p] = AfterClean[op[p]]]
        /\ op' = IF op[p] = "mutate" THEN [op EXCEPT ![p] = "none"] ELSE op
    BY <1>1 DEF SpawnConvergencePass
<1>3. t # p /\ t \in Proc /\ op[t] = "converge"
    BY <1>1, <1>2 DEF Proc, IInv, Control, ControlAt
<1>4. /\ pc'[t] = "converge" /\ op'[t] = op[t] /\ pc'[p] = AfterClean[op[p]]
      /\ \A q \in Proc \ {p, t} : pc'[q] = pc[q] /\ op'[q] = op[q]
    BY <1>2, <1>3 DEF IInv, TypeOK, ProcessTypeOK
<1>5. pc'[p] \in {"free", "rest", "enlist"}
    BY <1>1, <1>4, Continuations DEF Kicking, Releasing
<1>6. target' # NoTarget
    BY <1>1, ComputedIsTarget, NoTargetIsNoTarget DEF IInv
<1>7. QED
    BY <1>1, <1>2, <1>3, <1>4, <1>5, <1>6

\* The others stay where they are, but for the task a pass is handed to.
LEMMA OthersStay ==
    ASSUME IInv, NEW p \in Proc, Step(p) \/ UserStep(p), NEW q \in Proc \ {p}
    PROVE  \/ pc'[q] = pc[q] /\ op'[q] = op[q]
           \/ pc[q] = "free" /\ pc'[q] = "converge"
<1>1. CASE KickFirstTarget(p) \/ (ReleaseDrift(p) /\ op[p] \notin Driver)
    BY <1>1, TaskTakesOver
<1>2. CASE Moves(p)
    BY <1>2 DEF Moves
<1>3. QED
    BY <1>1, <1>2, OneMoves

LEMMA LockIsCommitted ==
    ASSUME IInv, NEW p \in Proc, Step(p) \/ UserStep(p), ~CommitRecheck(p),
           NEW q \in Proc, pc'[q] = "mutate"
    PROVE  pc[q] = "mutate"
BY Landings, OthersStay

LEMMA OnlyCommitLocks ==
    ASSUME IInv, NEW p \in Proc, Step(p) \/ UserStep(p), Locked'
    PROVE  Locked \/ CommitRecheck(p)
BY LockIsCommitted DEF Locked

LEMMA OthersKeepPass ==
    ASSUME IInv, Truth, IInv', NEW p \in Proc, Step(p) \/ UserStep(p),
           NEW q \in Proc \ {p}, pc'[q] = pc[q] /\ op'[q] = op[q]
    PROVE  PassAt(q)'
<1>a. /\ PassAt(q) /\ goal'[q] = goal[q] /\ revision'[q] = revision[q]
      /\ read'[q] = read[q]
    BY LocalsStay DEF Truth, Passes, IInv, TypeOK
<1>b. /\ recheck_committed \in Nat /\ recheck_settled \in Nat
      /\ revision[q] \in Nat
    BY DEF IInv, TypeOK, SlotTypeOK, ProcessTypeOK
<1>c. pc[q] \in Holding => UNCHANGED <<soundVars, recheck_settled>>
    BY OwnerDecides DEF IInv, SlotExclusive, Holds
<1>d. Aimed \cup Revised \cup Probing \cup {"converge"} \subseteq Holding
    BY DEF Aimed, Revised, Holding, Releasing, Settling, Probing
<1>1. CASE CommitRecheck(p)
    <2>1. recheck_committed' = recheck_committed + 1
        BY <1>1 DEF CommitRecheck
    <2>2. revision[q] <= recheck_committed
        BY <1>a DEF PassAt
    <2>3. revision[q] # recheck_committed' /\ revision[q] <= recheck_committed'
        BY <1>b, <2>1, <2>2
    <2>4. QED
        BY <1>a, <1>c, <1>d, <2>3 DEF PassAt, soundVars
<1>2. CASE ~CommitRecheck(p)
    <2>1. recheck_committed' = recheck_committed /\ (Locked' => Locked)
        BY <1>2, CommitsLock, OnlyCommitLocks
    <2>2. services' = services \/ Locked
        BY CommitsLock DEF MutateServices, Locked
    <2>3. pc[q] \in Probing /\ revision[q] = recheck_committed' =>
              /\ Locked' => read[q] = <<>>
              /\ \A i \in 1..Len(read[q]) : read[q][i] = services'[i]
        <3>1. CASE services' = services
            BY <1>a, <2>1, <3>1 DEF PassAt
        <3>2. CASE Locked
            BY <1>a, <2>1, <3>2 DEF PassAt
        <3>3. QED
            BY <2>2, <3>1, <3>2
    <2>4. QED
        BY <1>a, <1>c, <1>d, <2>1, <2>3 DEF PassAt, soundVars
<1>3. QED
    BY <1>1, <1>2

\* A probe that is over leaves nothing read, and a revision is taken from the
\* committed ones.
LEMMA ReadsStartEmpty ==
    ASSUME IInv, NEW p \in Proc, PassAt(p), Step(p) \/ UserStep(p), ~ReadEdge(p)
    PROVE  read'[p] = <<>> /\ revision'[p] \in {revision[p], 0, recheck_committed}
<1>a. ProcessTypeOK /\ (pc[p] \notin Probing => read[p] = <<>>)
    BY DEF IInv, TypeOK, PassAt
<1> USE DEF ProcessTypeOK, localVars
<1>1. CASE \/ MutateServices(p) \/ StoreReleasing(p) \/ Enlist(p)
          \/ Attempt(p) \/ Wake(p) \/ Settle(p) \/ SettlePending(p)
          \/ SettleLoading(p) \/ ApplyOk(p) \/ ApplyFails(p)
          \/ ParkFailure(p) \/ ClaimTerminal(p) \/ TeardownUnload(p)
          \/ TeardownDie(p) \/ TeardownDisposed(p) \/ TeardownAbandon(p)
          \/ ReleaseResidency(p) \/ Ready(p)
    BY <1>1, <1>a
    DEF MutateServices, StoreReleasing, Enlist, Attempt, Wake, Settle,
        SettlePending, SettleLoading, ApplyOk, ApplyFails, ParkFailure,
        ClaimTerminal, TeardownUnload, TeardownDie, TeardownDisposed,
        TeardownAbandon, ReleaseResidency, Ready,
        EndSettle, Probing
<1>2. CASE \/ KickActive(p) \/ KickReleasing(p) \/ KickOffRuntime(p)
          \/ CancelWait(p) \/ AdmitDead(p) \/ AwaitComplete(p)
          \/ PublishDisposeComplete(p) \/ ReadyAnswer(p) \/ Kick(p)
          \/ DisposeLate(p) \/ ReadyCheck(p)
    BY <1>2, <1>a
    DEF KickActive, KickReleasing, KickOffRuntime, CancelWait, AdmitDead,
        AwaitComplete, PublishDisposeComplete, ReadyAnswer, Kick, DisposeLate,
        ReadyCheck, Leave, Probing
<1>3. CASE \/ CommitRecheck(p) \/ KickIdle(p) \/ ReleaseCas(p)
          \/ (\E o \in Ops : Invoke(p, o)) \/ AdmitReplacement(p)
          \/ Converge(p) \/ ReadyObserve(p)
    BY <1>3, <1>a
    DEF CommitRecheck, KickIdle, ReleaseCas, Invoke, AdmitReplacement, Converge,
        ReadyObserve,
        Leave, Probing
<1>4. CASE \/ KickFirstTarget(p) \/ ReleaseDrift(p) \/ ReleaseReprobe(p)
          \/ ReleaseSettle(p) \/ AdoptTarget(p) \/ ConvergeJudge(p)
    BY <1>4, <1>a
    DEF KickFirstTarget, ReleaseDrift, ReleaseReprobe, ReleaseSettle, AdoptTarget,
        ConvergeJudge,
        SpawnConvergencePass
<1>5. QED
    BY <1>1, <1>2, <1>3, <1>4 DEF Step, UserStep

LEMMA MoverKeepsPass ==
    ASSUME IInv, Truth, IInv', NEW p \in Proc, Step(p) \/ UserStep(p)
    PROVE  PassAt(p)'
<1>a. PassAt(p) /\ ProcessTypeOK /\ (Aimed \cup Revised \cup {"converge"} \subseteq Holding)
    BY DEF Truth, Passes, IInv, TypeOK, Aimed, Revised, Holding, Releasing, Settling, Probing
<1>b. /\ recheck_committed \in Nat /\ recheck_settled \in Nat
      /\ revision[p] \in Nat
      /\ recheck_settled <= recheck_committed /\ revision[p] <= recheck_committed
    BY DEF IInv, TypeOK, SlotTypeOK, ProcessTypeOK, Truth, Acknowledged, Passes, PassAt
<1>c. ASSUME ~ReadEdge(p),
             pc'[p] \in Aimed => goal'[p] = target' /\ target' # NoTarget,
             pc'[p] = "converge" => target' # NoTarget,
             pc'[p] \in Revised => recheck_settled' <= revision'[p],
             op'[p] \in {"restart", "update"} /\ pc'[p] \in Holding \ {"admitted"} => alive'
      PROVE  PassAt(p)'
    <2>1. recheck_committed' \in {recheck_committed, recheck_committed + 1}
        BY CommitsLock DEF CommitRecheck
    <2>2. read'[p] = <<>> /\ revision'[p] <= recheck_committed'
        BY <1>a, <1>b, <1>c, <2>1, ReadsStartEmpty
    <2>3. QED
        BY <1>c, <2>2 DEF PassAt
<1> USE Continuations DEF slotVars, wordVars, recheckVars, localVars, fiberVars,
        terminalVars, Goto, ProcessTypeOK
<1>1. CASE \/ MutateServices(p) \/ Enlist(p) \/ Attempt(p) \/ Wake(p)
          \/ ReleaseResidency(p) \/ Ready(p) \/ KickActive(p)
          \/ KickReleasing(p) \/ KickOffRuntime(p) \/ CancelWait(p)
          \/ AwaitComplete(p) \/ PublishDisposeComplete(p) \/ ReadyAnswer(p)
          \/ Kick(p) \/ CommitRecheck(p) \/ (\E o \in Ops : Invoke(p, o))
          \/ ReadyObserve(p) \/ AdmitDead(p) \/ DisposeLate(p)
          \/ TeardownAbandon(p)
    <2>1. pc'[p] \notin Holding \ {"admitted"}
        BY <1>1, <1>a
        DEF MutateServices, Enlist, Attempt, Wake, ReleaseResidency, Ready,
            KickActive, KickReleasing, KickOffRuntime, CancelWait, AwaitComplete,
            PublishDisposeComplete, ReadyAnswer, Kick, CommitRecheck, Invoke,
            ReadyObserve, AdmitDead, DisposeLate, TeardownAbandon, Leave,
            Kicking, Holding, Probing, Settling, Teardown
    <2>2. ~ReadEdge(p)
        BY <1>1 DEF ReadEdge, Probing,
            MutateServices, Enlist, Attempt, Wake, ReleaseResidency, Ready,
            KickActive, KickReleasing, KickOffRuntime, CancelWait, AwaitComplete,
            PublishDisposeComplete, ReadyAnswer, Kick, CommitRecheck, Invoke,
            ReadyObserve, AdmitDead, DisposeLate, TeardownAbandon
    <2>3. "admitted" \notin Aimed \cup Revised
        BY DEF Aimed, Revised, Probing, Settling, Releasing
    <2>4. QED
        BY <1>a, <1>c, <2>1, <2>2, <2>3
<1>2. CASE ReadyCheck(p)
    <2>1. pc'[p] \notin Holding \ {"admitted"} /\ ~ReadEdge(p)
        BY <1>2, <1>a DEF ReadyCheck, ReadEdge, Leave, Holding, Probing, Settling, Teardown
    <2>2. QED
        BY <1>a, <1>c, <2>1 DEF Aimed, Revised, Probing, Settling, Releasing
<1>3. CASE KickFirstTarget(p) \/ (ReleaseDrift(p) /\ op[p] \notin Driver)
    <2>1. SpawnConvergencePass(p) /\ pc[p] \in Kicking
        BY <1>3 DEF KickFirstTarget, ReleaseDrift, Kicking, Releasing
    <2>2. pc'[p] \in {"converge", "free", "rest", "enlist"}
        BY <1>a, <2>1 DEF SpawnConvergencePass
    <2>3. pc'[p] # "converge" /\ ~ReadEdge(p)
        BY <1>3, <1>a, <2>1 DEF SpawnConvergencePass, KickFirstTarget, ReleaseDrift, ReadEdge, Kicking, Releasing
    <2>4. QED
        BY <1>a, <1>c, <2>2, <2>3 DEF Holding, Probing, Settling, Teardown
<1>4. CASE ReleaseCas(p) /\ inertia # "ACTIVE"
    <2>1. pc'[p] \in {"free", "rest", "enlist"} /\ ~ReadEdge(p)
        BY <1>4, <1>a DEF ReleaseCas, Leave, Kicking, Releasing, ReadEdge, Probing
    <2>2. QED
        BY <1>a, <1>c, <2>1 DEF Holding, Probing, Settling, Teardown
<1>5. CASE \/ StoreReleasing(p) \/ Settle(p) \/ SettlePending(p)
          \/ SettleLoading(p) \/ ApplyOk(p) \/ ApplyFails(p)
          \/ ParkFailure(p)
    <2>1. /\ pc[p] \in Aimed \cap Revised /\ pc'[p] \in Aimed \cap Revised
          /\ pc[p] # "admitted" /\ ~ReadEdge(p)
        BY <1>5, <1>a
        DEF StoreReleasing, Settle, SettlePending, SettleLoading, ApplyOk, ApplyFails,
            ParkFailure,
            EndSettle, Aimed, Revised, Settling, Releasing, Probing, ReadEdge
    <2>2. UNCHANGED <<goal, op, revision, recheck_settled, target, alive>>
        BY <1>5
        DEF StoreReleasing, Settle, SettlePending, SettleLoading, ApplyOk, ApplyFails,
            ParkFailure,
            EndSettle
    <2>3. QED
        BY <1>a, <1>c, <2>1, <2>2 DEF PassAt, Aimed, Settling, Releasing
<1>6. CASE ReleaseReprobe(p) \/ ReleaseSettle(p) \/ (ReleaseCas(p) /\ inertia = "ACTIVE")
    <2>1. /\ pc[p] \in Releasing /\ pc'[p] \in Releasing /\ ~ReadEdge(p)
          /\ goal' = goal /\ op' = op /\ target' = target /\ alive' = alive
          /\ recheck_settled' <= revision'[p]
        BY <1>6, <1>a, <1>b DEF ReleaseReprobe, ReleaseSettle, ReleaseCas, Releasing, ReadEdge, Probing
    <2>2. QED
        BY <1>a, <1>c, <2>1 DEF PassAt, Aimed, Revised, Releasing
<1>7. CASE \/ ClaimTerminal(p) \/ TeardownUnload(p) \/ TeardownDie(p)
          \/ TeardownDisposed(p)
    <2>1. /\ pc'[p] \in {"unload", "die", "drain", "abandon"} /\ ~ReadEdge(p)
          /\ op'[p] = op[p] /\ (pc[p] \in Teardown \/ op[p] \in Disposal)
        BY <1>7, <1>a DEF ClaimTerminal, TeardownUnload, TeardownDie, TeardownDisposed, ReadEdge,
            Probing, Teardown
    <2>2. op[p] \in Disposal
        BY <2>1, TearersDispose DEF IInv
    <2>3. QED
        BY <1>a, <1>c, <2>1, <2>2 DEF Aimed, Revised, Probing, Settling, Releasing, Disposal
<1>8. CASE KickIdle(p)
    <2>1. op[p] \in {"mutate", "ready"} /\ op' = op /\ ~ReadEdge(p)
        BY <1>8, KickersMutateOrReady DEF KickIdle, IInv, ReadEdge, Probing
    <2>2. /\ pc'[p] = IF target = NoTarget THEN "first_probe" ELSE "release"
          /\ goal'[p] = target /\ target' = target
          /\ recheck_settled' <= revision'[p]
        BY <1>8, <1>a, <1>b DEF KickIdle
    <2>3. QED
        BY <1>c, <2>1, <2>2 DEF Aimed, Settling, Releasing
<1>9. CASE AdmitReplacement(p)
    <2>1. pc'[p] = "target_probe" /\ alive' /\ recheck_settled' <= revision'[p] /\ ~ReadEdge(p)
        BY <1>9, <1>a, <1>b DEF AdmitReplacement, ReadEdge, Probing
    <2>2. QED
        BY <1>c, <2>1 DEF Aimed, Settling, Releasing
<1>10. CASE \/ (ReleaseDrift(p) /\ op[p] \in Driver) \/ AdoptTarget(p)
           \/ ConvergeJudge(p) \/ Converge(p)
    <2>1. HasRead(p) => Computed(p) \in Target /\ Computed(p) # NoTarget
        BY ComputedIsTarget, NoTargetIsNoTarget DEF IInv
    <2>2. alive' = alive /\ op' = op /\ ~ReadEdge(p) /\ pc[p] \in Holding \ {"admitted"}
        BY <1>10 DEF ReleaseDrift, AdoptTarget, ConvergeJudge, Converge, ReadEdge, Holding, Probing
    <2>3. op[p] # "spawn"
        BY DEF IInv, Control, ControlAt
    <2>4. CASE (ReleaseDrift(p) /\ op[p] \in Driver)
        <3>1. pc'[p] \in {"converge", "retarget_probe"} /\ target' # NoTarget
              /\ recheck_settled' <= revision'[p]
            BY <1>a, <1>b, <2>1, <2>4 DEF ReleaseDrift, Releasing
        <3>2. QED
            BY <1>a, <1>c, <2>2, <3>1 DEF PassAt, Aimed, Settling, Releasing
    <2>5. CASE AdoptTarget(p)
        <3>1. pc'[p] = "settle" /\ target' # NoTarget /\ goal'[p] = target'
              /\ recheck_settled' <= revision'[p]
            BY <1>a, <1>b, <2>1, <2>3, <2>5 DEF AdoptTarget, PassAt, Revised, Probing
        <3>2. QED
            BY <1>a, <1>c, <2>2, <3>1 DEF PassAt
    <2>6. CASE ConvergeJudge(p)
        <3>1. /\ pc'[p] \in {"release", "converge"} /\ target' # NoTarget
              /\ pc'[p] = "release" => goal'[p] = target'
              /\ recheck_settled' <= revision'[p]
            BY <1>a, <1>b, <2>1, <2>6 DEF ConvergeJudge, PassAt, Revised, Probing, Aimed
        <3>2. QED
            BY <1>a, <1>c, <2>2, <3>1 DEF PassAt, Aimed, Settling, Releasing
    <2>7. CASE Converge(p)
        <3>1. /\ pc'[p] = "settle" /\ target' # NoTarget /\ goal'[p] = target'
              /\ recheck_settled' <= revision'[p]
            BY <1>a, <1>b, <2>7 DEF Converge, PassAt
        <3>2. QED
            BY <1>a, <1>c, <2>2, <3>1 DEF PassAt
    <2>8. QED
        BY <1>10, <2>4, <2>5, <2>6, <2>7
<1>11. CASE ReadEdge(p)
    <2>1. /\ pc' = pc /\ op' = op /\ goal' = goal /\ revision' = revision
          /\ target' = target /\ alive' = alive /\ services' = services
          /\ recheck_committed' = recheck_committed /\ recheck_settled' = recheck_settled
          /\ pc[p] \in Probing /\ ~Locked
        BY <1>11 DEF ReadEdge
    <2>2. ~Locked'
        BY <2>1 DEF Locked
    <2>3. read[p] \in Seq(Nat) /\ read'[p] = Append(read[p], services[Len(read[p]) + 1])
        BY <1>11, <1>a DEF ReadEdge, EdgeReads
    <2>4. ASSUME \A i \in 1..Len(read[p]) : read[p][i] = services[i]
          PROVE  \A i \in 1..Len(read'[p]) : read'[p][i] = services[i]
        BY <2>3, <2>4
    <2>5. QED
        BY <1>a, <2>1, <2>2, <2>4 DEF PassAt
<1>12. (ReleaseCas(p) \/ ReleaseDrift(p)) => PassAt(p)'
    BY <1>3, <1>4, <1>6, <1>10
<1>13. QED
    BY <1>1, <1>2, <1>3, <1>5, <1>6, <1>7, <1>8, <1>9, <1>10, <1>11, <1>12
    DEF Step, UserStep

LEMMA NextPasses ==
    ASSUME IInv, Truth, IInv', NEW p \in Proc, Step(p) \/ UserStep(p)
    PROVE  Passes'
<1>1. CASE KickFirstTarget(p) \/ (ReleaseDrift(p) /\ op[p] \notin Driver)
    <2>1. PICK t \in Task :
               /\ t \in Proc /\ t # p /\ pc[t] = "free" /\ pc'[t] = "converge"
               /\ op'[t] = "converge" /\ target' # NoTarget
               /\ \A q \in Proc \ {p, t} : pc'[q] = pc[q] /\ op'[q] = op[q]
        BY <1>1, TaskTakesOver
    <2>2. PassAt(t)'
        <3>1. PassAt(t) /\ read'[t] = read[t] /\ revision'[t] = revision[t]
            BY <2>1, LocalsStay DEF Truth, Passes, IInv, TypeOK
        <3>2. recheck_committed' = recheck_committed
            BY <1>1 DEF KickFirstTarget, ReleaseDrift, recheckVars
        <3>3. QED
            BY <2>1, <3>1, <3>2 DEF PassAt, Aimed, Revised, Probing, Settling, Releasing
    <2>3. ASSUME NEW q \in Proc \ {p, t} PROVE PassAt(q)'
        BY <2>1, <2>3, OthersKeepPass
    <2>4. QED
        BY <2>2, <2>3, MoverKeepsPass DEF Passes
<1>2. CASE Moves(p)
    <2>1. ASSUME NEW q \in Proc \ {p} PROVE PassAt(q)'
        BY <1>2, <2>1, OthersKeepPass DEF Moves
    <2>2. QED
        BY <2>1, MoverKeepsPass DEF Passes
<1>3. QED
    BY <1>1, <1>2, OneMoves

-----------------------------------------------------------------------------
\* An acknowledged revision is in force

\* What was read since the newest revision was taken is what is published.
LEMMA FreshProbe ==
    ASSUME IInv, Truth, NEW p \in Proc, pc[p] \in Probing, HasRead(p),
           revision[p] = recheck_committed
    PROVE  Computed(p).deps = services /\ (Locked => Edges = 0)
<1>1. /\ Locked => read[p] = <<>>
      /\ \A i \in 1..Len(read[p]) : read[p][i] = services[i]
    BY DEF Truth, Passes, PassAt
<1>2. read[p] \in Seq(Nat) /\ Len(read[p]) = Edges /\ services \in [Edge -> Nat]
    BY DEF IInv, TypeOK, SlotTypeOK, ProcessTypeOK, EdgeReads, HasRead
<1>3. read[p] \in [Edge -> Nat]
    BY <1>2 DEF Edge
<1>4. \A e \in Edge : read[p][e] = services[e]
    BY <1>1, <1>2 DEF Edge
<1>5. read[p] = services
    BY <1>2, <1>3, <1>4
<1>6. QED
    BY <1>1, <1>2, <1>5 DEF Computed

\* A pass that could acknowledge works with the newest revision.
LEMMA AcknowledgedIsTaken ==
    ASSUME IInv, Truth, NEW p \in Proc, pc[p] \in Revised, ~HasCommittedRecheck
    PROVE  revision[p] = recheck_committed
<1>1. /\ recheck_settled <= revision[p] /\ revision[p] <= recheck_committed
      /\ recheck_settled = recheck_committed
    BY DEF Truth, Passes, PassAt, HasCommittedRecheck
<1>2. recheck_settled \in Nat /\ recheck_committed \in Nat /\ revision[p] \in Nat
    BY DEF IInv, TypeOK, SlotTypeOK, ProcessTypeOK
<1>3. QED
    BY <1>1, <1>2

LEMMA NextAcknowledged ==
    ASSUME IInv, Truth, IInv', NEW p \in Proc, Step(p) \/ UserStep(p)
    PROVE  Acknowledged'
<1>a. Acknowledged /\ PassAt(p) /\ HolderSound
    BY DEF Truth, Passes
<1>b. /\ recheck_committed \in Nat /\ recheck_settled \in Nat
      /\ recheck_settled <= recheck_committed
    BY <1>a DEF IInv, TypeOK, SlotTypeOK, Acknowledged
<1>c. CASE CommitRecheck(p)
    <2>1. /\ recheck_committed' = recheck_committed + 1
          /\ recheck_settled' = recheck_settled
        BY <1>c DEF CommitRecheck
    <2>2. recheck_settled' <= recheck_committed' /\ HasCommittedRecheck'
        BY <1>b, <2>1 DEF HasCommittedRecheck
    <2>3. \A q \in Proc : pc[q] # "mutate" /\ (q # p => pc'[q] = pc[q])
        BY <1>c DEF CommitRecheck, Locked, Goto, IInv, TypeOK, ProcessTypeOK
    <2>4. QED
        BY <2>2, <2>3 DEF Acknowledged
<1>d. CASE ~CommitRecheck(p)
    <2>a. recheck_committed' = recheck_committed /\ (Locked' => Locked)
        BY <1>d, CommitsLock, OnlyCommitLocks
    <2>b. \A q, r \in Proc : pc'[q] = "mutate" /\ pc'[r] = "mutate" => q = r
        BY <1>a, <1>d, LockIsCommitted DEF Acknowledged
    <2> DEFINE Shown(srv, tg, st, gen) ==
            /\ tg.deps = srv
            /\ st \notin Transient =>
                 IF \E e \in Edge : srv[e] = Missing THEN st = "Pending"
                 ELSE st \in {"Active", "Failed"} /\ gen.deps = srv
    <2>c. alive /\ ~HasCommittedRecheck => Shown(services, target, state, generation)
        BY <1>a DEF Acknowledged
    <2>d. SUFFICES /\ recheck_settled' <= recheck_committed'
                   /\ Locked' /\ Edges # 0 => HasCommittedRecheck'
                   /\ alive' /\ ~HasCommittedRecheck' =>
                          Shown(services', target', state', generation')
        BY <2>b DEF Acknowledged
    <2>e. recheck_settled' = recheck_settled =>
              /\ recheck_settled' <= recheck_committed'
              /\ Locked' /\ Edges # 0 => HasCommittedRecheck'
              /\ HasCommittedRecheck' = HasCommittedRecheck
        BY <1>a, <1>b, <2>a DEF Acknowledged, HasCommittedRecheck
    <2>1. CASE \/ StoreReleasing(p) \/ Enlist(p) \/ Attempt(p) \/ Wake(p)
              \/ ClaimTerminal(p) \/ TeardownAbandon(p) \/ ReleaseResidency(p)
              \/ Ready(p) \/ KickActive(p) \/ KickReleasing(p)
              \/ KickOffRuntime(p) \/ CancelWait(p) \/ AdmitDead(p)
              \/ AwaitComplete(p) \/ PublishDisposeComplete(p) \/ ReadyAnswer(p)
              \/ Kick(p) \/ DisposeLate(p) \/ ReadyCheck(p) \/ KickIdle(p)
              \/ ReadEdge(p) \/ ReleaseReprobe(p) \/ ReleaseCas(p)
              \/ (\E o \in Ops : Invoke(p, o)) \/ AdmitReplacement(p)
              \/ Converge(p) \/ ReadyObserve(p)
        <3>1. /\ UNCHANGED <<services, target, state, generation, alive>>
              /\ recheck_settled' = recheck_settled
            BY <2>1
            DEF StoreReleasing, Enlist, Attempt, Wake, ClaimTerminal, TeardownAbandon,
                ReleaseResidency, Ready, KickActive, KickReleasing, KickOffRuntime,
                CancelWait, AdmitDead, AwaitComplete, PublishDisposeComplete, ReadyAnswer,
                Kick, DisposeLate, ReadyCheck, KickIdle, ReadEdge, ReleaseReprobe,
                ReleaseCas, Invoke, AdmitReplacement, Converge, ReadyObserve,
                slotVars, recheckVars, fiberVars, stateVars, terminalVars, generationVars
        <3>2. QED
            BY <2>c, <2>e, <3>1
    <2>2. CASE MutateServices(p)
        <3>1. PICK D \in (SUBSET Edge) \ {{}} : TRUE
            BY <2>2 DEF MutateServices
        <3>2. \E e \in Edge : e \in D
            <4>1. D \subseteq Edge /\ D # {}
                BY <3>1, Zenon
            <4>2. QED
                BY <4>1
        <3>3. Edges # 0
            BY <3>2, BoundsAreNatural DEF Edge
        <3>4. recheck_settled' = recheck_settled /\ Locked
            BY <2>2 DEF MutateServices, Locked, slotVars, recheckVars
        <3>5. QED
            BY <1>a, <2>e, <3>3, <3>4 DEF Acknowledged
    <2>3. CASE KickFirstTarget(p) \/ ReleaseDrift(p) \/ AdoptTarget(p) \/ ConvergeJudge(p)
        <3>1. /\ UNCHANGED <<services, state, generation, alive>>
              /\ recheck_settled' = recheck_settled
              /\ pc[p] \in Probing /\ HasRead(p)
            BY <2>3 DEF KickFirstTarget, ReleaseDrift, AdoptTarget, ConvergeJudge,
                        slotVars, recheckVars, fiberVars, stateVars, terminalVars,
                        generationVars, Probing
        <3>2. target' = target \/ target' = Computed(p)
            BY <2>3 DEF KickFirstTarget, ReleaseDrift, AdoptTarget, ConvergeJudge
        <3>3. ~HasCommittedRecheck => Computed(p).deps = services
            BY <3>1, FreshProbe, AcknowledgedIsTaken DEF Revised
        <3>4. QED
            BY <2>c, <2>e, <3>1, <3>2, <3>3
    <2>4. CASE ReleaseSettle(p)
        <3>1. /\ UNCHANGED <<services, target, state, generation, alive>>
              /\ recheck_settled' = recheck_committed /\ revision[p] = recheck_committed
              /\ pc[p] = "release_probe" /\ HasRead(p) /\ Computed(p) = goal[p]
            BY <2>4 DEF ReleaseSettle, fiberVars, stateVars, terminalVars, generationVars
        <3>2. Computed(p).deps = services /\ (Locked => Edges = 0)
            BY <3>1, FreshProbe DEF Probing
        <3>3. target = Computed(p)
            BY <1>a, <3>1 DEF PassAt, Aimed, Releasing
        <3>4. alive => Settled(target)
            BY <1>a, <3>1 DEF HolderSound, Sound, Stable, Releasing, Holding, Probing
        <3>5. alive => Shown(services, target, state, generation)
            BY <3>2, <3>3, <3>4 DEF Settled, HasMissing
        <3>6. QED
            BY <1>b, <2>a, <3>1, <3>2, <3>5
    <2>5. CASE TeardownDie(p)
        BY <2>5, <2>e DEF TeardownDie, recheckVars
    <2>6. CASE Settle(p) \/ SettleLoading(p) \/ ApplyFails(p) \/ TeardownUnload(p)
        <3>1. /\ UNCHANGED <<services, target, alive>> /\ recheck_settled' = recheck_settled
              /\ state' \in Transient \/ UNCHANGED <<state, generation>>
            BY <2>6 DEF Settle, SettleLoading, ApplyFails, TeardownUnload, Publish,
                Transient, slotVars, recheckVars, terminalVars, generationVars, stateVars
        <3>2. QED
            BY <2>c, <2>e, <3>1
    <2>7. CASE SettlePending(p)
        <3>1. /\ UNCHANGED <<services, target, alive>> /\ recheck_settled' = recheck_settled
              /\ state' = "Pending" /\ pc[p] = "decide" /\ HasMissing(goal[p])
            BY <2>7 DEF SettlePending, Publish, slotVars, recheckVars, terminalVars
        <3>2. goal[p] = target
            BY <1>a, <3>1 DEF PassAt, Aimed, Settling
        <3>3. QED
            BY <2>c, <2>e, <3>1, <3>2 DEF HasMissing
    <2>8. CASE ApplyOk(p) \/ ParkFailure(p)
        <3>1. /\ UNCHANGED <<services, target, alive, generation>>
              /\ recheck_settled' = recheck_settled
              /\ state' \in {"Active", "Failed"} /\ pc[p] \in {"apply", "rollback"}
            BY <2>8 DEF ApplyOk, ParkFailure, Publish, slotVars, recheckVars, terminalVars
        <3>2. alive => generation = target /\ ~HasMissing(target)
            BY <1>a, <3>1 DEF HolderSound, Sound, Holding, Settling
        <3>3. QED
            BY <2>c, <2>e, <3>1, <3>2 DEF HasMissing
    <2>9. CASE TeardownDisposed(p)
        <3>1. ~alive' /\ recheck_settled' = recheck_settled
            BY <1>a, <2>9 DEF TeardownDisposed, HolderSound, Sound, Holding, Teardown,
                              slotVars, recheckVars, terminalVars
        <3>2. QED
            BY <2>e, <3>1
    <2>10. QED
        BY <1>d, <2>1, <2>2, <2>3, <2>4, <2>5, <2>6, <2>7, <2>8, <2>9 DEF Step, UserStep
<1>e. QED
    BY <1>c, <1>d

-----------------------------------------------------------------------------
\* One process disposes, and the barrier comes last

LEMMA NextDisposals ==
    ASSUME IInv, Truth, IInv', NEW p \in Proc, Step(p) \/ UserStep(p)
    PROVE  Disposals'
<1>a. /\ dispose_complete => disposing /\ ~alive /\ state = "Disposed" /\ ~resident
      /\ TearerAt(p) /\ \A q \in Proc : TearerAt(q)
    BY DEF Truth, Disposals
<1>b. pc[p] \in Holding => Sound(pc[p])
    BY DEF Truth, HolderSound
<1>c. \A q \in Proc \ {p} : pc'[q] \in Tearing => pc'[q] = pc[q]
    BY OthersStay DEF Tearing, Teardown
<1>d. ProcessTypeOK
    BY DEF IInv, TypeOK
<1>e. ASSUME pc[p] \in Tearing
      PROVE  /\ disposing /\ ~dispose_complete
             /\ \A q \in Proc \ {p} : pc[q] \notin Tearing /\ pc'[q] \notin Tearing
    BY <1>a, <1>c, <1>e DEF TearerAt
<1>1. CASE \/ MutateServices(p) \/ StoreReleasing(p) \/ Enlist(p)
          \/ Attempt(p) \/ Wake(p) \/ Ready(p) \/ KickActive(p)
          \/ KickReleasing(p) \/ KickOffRuntime(p) \/ CancelWait(p)
          \/ AdmitDead(p) \/ AwaitComplete(p) \/ ReadyAnswer(p) \/ Kick(p)
          \/ DisposeLate(p) \/ ReadyCheck(p) \/ CommitRecheck(p)
          \/ KickIdle(p) \/ KickFirstTarget(p) \/ ReadEdge(p)
          \/ ReleaseDrift(p) \/ ReleaseReprobe(p) \/ ReleaseSettle(p)
          \/ ReleaseCas(p) \/ (\E o \in Ops : Invoke(p, o))
          \/ AdmitReplacement(p) \/ AdoptTarget(p) \/ Converge(p)
          \/ ConvergeJudge(p) \/ ReadyObserve(p)
    <2>1. UNCHANGED <<disposing, dispose_complete, resident, alive, state>>
        BY <1>1
        DEF MutateServices, StoreReleasing, Enlist, Attempt, Wake, Ready, KickActive,
            KickReleasing, KickOffRuntime, CancelWait, AdmitDead, AwaitComplete,
            ReadyAnswer, Kick, DisposeLate, ReadyCheck, CommitRecheck, KickIdle,
            KickFirstTarget, ReadEdge, ReleaseDrift, ReleaseReprobe, ReleaseSettle,
            ReleaseCas, Invoke, AdmitReplacement, AdoptTarget, Converge,
            ConvergeJudge, ReadyObserve,
            fiberVars, stateVars, terminalVars
    <2>2. pc[p] \notin Tearing /\ ~ClaimTerminal(p)
        BY <1>1
        DEF MutateServices, StoreReleasing, Enlist, Attempt, Wake, Ready, KickActive,
            KickReleasing, KickOffRuntime, CancelWait, AdmitDead, AwaitComplete,
            ReadyAnswer, Kick, DisposeLate, ReadyCheck, CommitRecheck, KickIdle,
            KickFirstTarget, ReadEdge, ReleaseDrift, ReleaseReprobe, ReleaseSettle,
            ReleaseCas, Invoke, AdmitReplacement, AdoptTarget, Converge,
            ConvergeJudge, ReadyObserve,
            ClaimTerminal, Tearing, Teardown, Probing, Disposal
    <2>3. pc'[p] \notin Tearing
        BY <2>2, Landings
    <2>4. \A q \in Proc : pc'[q] \in Tearing => pc'[q] = pc[q]
        BY <1>c, <2>3
    <2>5. \A q \in Proc : TearerAt(q)'
        BY <1>a, <2>1, <2>4 DEF TearerAt, Tearing, Teardown
    <2>6. QED
        BY <1>a, <2>1, <2>5 DEF Disposals
<1>2. CASE \/ SettlePending(p) \/ SettleLoading(p) \/ ApplyOk(p)
          \/ ApplyFails(p) \/ ParkFailure(p)
          \/ (Settle(p) /\ alive)
    <2>1. alive /\ pc[p] \in Settling
        BY <1>2, <1>b DEF Settle, SettlePending, SettleLoading, ApplyOk, ApplyFails, ParkFailure,
            Sound, Settling, Holding
    <2>2. UNCHANGED <<disposing, dispose_complete, resident, alive>>
        BY <1>2
        DEF Settle, SettlePending, SettleLoading, ApplyOk, ApplyFails, ParkFailure, terminalVars
    <2>3. pc[p] \notin Tearing /\ ~ClaimTerminal(p)
        BY <2>1 DEF ClaimTerminal, Settling, Tearing, Teardown
    <2>4. \A q \in Proc : pc'[q] \in Tearing => pc'[q] = pc[q]
        BY <1>c, <2>3, Landings
    <2>5. \A q \in Proc : TearerAt(q)'
        BY <1>a, <2>1, <2>2, <2>4 DEF TearerAt, Tearing, Teardown
    <2>6. QED
        BY <1>a, <2>1, <2>2, <2>5 DEF Disposals
<1>3. CASE Settle(p) /\ ~alive
    <2>1. UNCHANGED <<disposing, dispose_complete, resident, alive, state>> /\ pc[p] = "settle"
        BY <1>3 DEF Settle, terminalVars, stateVars
    <2>2. \A q \in Proc : pc'[q] \in Tearing => pc'[q] = pc[q]
        BY <1>c, <2>1, Landings DEF ClaimTerminal, Tearing, Teardown
    <2>3. \A q \in Proc : TearerAt(q)'
        BY <1>a, <2>1, <2>2 DEF TearerAt, Tearing, Teardown
    <2>4. QED
        BY <1>a, <2>1, <2>3 DEF Disposals
<1>4. CASE ClaimTerminal(p)
    <2>1. /\ ~dispose_complete /\ ~disposing /\ disposing' /\ pc'[p] = "unload"
          /\ UNCHANGED <<dispose_complete, resident, alive, state>>
        BY <1>4, <1>d DEF ClaimTerminal, Goto, ProcessTypeOK, stateVars
    <2>2. \A q \in Proc \ {p} : pc'[q] \notin Tearing
        BY <1>a, <1>c, <2>1 DEF TearerAt
    <2>3. \A q \in Proc : TearerAt(q)'
        BY <2>1, <2>2 DEF TearerAt, Tearing, Teardown
    <2>4. QED
        BY <2>1, <2>3 DEF Disposals
<1>5. CASE TeardownUnload(p) \/ TeardownDie(p)
    <2>1. /\ pc[p] \in {"unload", "die"} /\ pc'[p] \in Teardown
          /\ UNCHANGED <<disposing, dispose_complete>>
        BY <1>5, <1>b, <1>d DEF TeardownUnload, TeardownDie, Goto, ProcessTypeOK, Sound,
            Holding, Teardown, terminalVars
    <2>2. \A q \in Proc : TearerAt(q)'
        BY <1>e, <2>1 DEF TearerAt, Tearing, Teardown
    <2>3. QED
        BY <1>e, <2>1, <2>2 DEF Disposals, Tearing, Teardown
<1>6. CASE TeardownDisposed(p) \/ TeardownAbandon(p) \/ ReleaseResidency(p)
    <2>1. /\ pc[p] \in {"drain", "abandon", "unlink"}
          /\ pc'[p] \in {"abandon", "unlink", "publish"} /\ (pc'[p] = "publish" => ~resident')
        BY <1>6, <1>d, Continuations DEF TeardownDisposed, TeardownAbandon, ReleaseResidency,
            Goto, ProcessTypeOK, Teardown
    <2>2. state' = "Disposed" /\ ~alive' /\ UNCHANGED <<disposing, dispose_complete>>
        BY <1>6, <1>a, <1>b DEF TeardownDisposed, TeardownAbandon, ReleaseResidency, Publish,
            TearerAt, Tearing, Teardown, Sound, Holding, fiberVars, stateVars, terminalVars
    <2>3. \A q \in Proc : TearerAt(q)'
        BY <1>e, <2>1, <2>2 DEF TearerAt, Tearing, Teardown
    <2>4. QED
        BY <1>e, <2>1, <2>2, <2>3 DEF Disposals, Tearing, Teardown
<1>7. CASE PublishDisposeComplete(p)
    <2>1. /\ pc[p] = "publish" /\ pc'[p] \in {"over", "rest"}
          /\ UNCHANGED <<disposing, alive, state, resident>>
        BY <1>7, <1>d DEF PublishDisposeComplete, Leave, ProcessTypeOK, stateVars
    <2>2. disposing /\ ~alive /\ state = "Disposed" /\ ~resident
        BY <1>a, <2>1 DEF TearerAt, Tearing, Teardown
    <2>3. \A q \in Proc : pc'[q] \notin Tearing
        BY <1>e, <2>1 DEF Tearing, Teardown
    <2>4. \A q \in Proc : TearerAt(q)'
        BY <2>3 DEF TearerAt, Tearing
    <2>5. QED
        BY <2>1, <2>2, <2>4 DEF Disposals
<1>8. Settle(p) => Disposals'
    BY <1>2, <1>3
<1>9. QED
    BY <1>1, <1>2, <1>4, <1>5, <1>6, <1>7, <1>8 DEF Step, UserStep

-----------------------------------------------------------------------------
\* A ready() call answers what it observed at rest

\* A publication that changes the state outdates every observer.
LEMMA PublicationsOutdate ==
    ASSUME NEW p \in Proc, Step(p) \/ UserStep(p)
    PROVE  \/ state' = state /\ current' \subseteq current
           \/ current' = {}
           \/ ReadyObserve(p)
<1>1. CASE \/ MutateServices(p) \/ StoreReleasing(p) \/ Enlist(p)
          \/ Attempt(p) \/ Wake(p) \/ ClaimTerminal(p) \/ TeardownDie(p)
          \/ TeardownAbandon(p) \/ ReleaseResidency(p) \/ Ready(p)
          \/ KickActive(p) \/ KickReleasing(p) \/ KickOffRuntime(p)
          \/ CancelWait(p) \/ AdmitDead(p) \/ AwaitComplete(p)
          \/ PublishDisposeComplete(p) \/ Kick(p) \/ DisposeLate(p)
          \/ CommitRecheck(p) \/ KickIdle(p) \/ KickFirstTarget(p)
          \/ ReadEdge(p) \/ ReleaseDrift(p) \/ ReleaseReprobe(p)
          \/ ReleaseSettle(p) \/ ReleaseCas(p)
          \/ (\E o \in Ops : Invoke(p, o)) \/ AdmitReplacement(p)
          \/ AdoptTarget(p) \/ Converge(p) \/ ConvergeJudge(p)
    BY <1>1
    DEF MutateServices, StoreReleasing, Enlist, Attempt, Wake, ClaimTerminal,
        TeardownDie, TeardownAbandon, ReleaseResidency, Ready, KickActive,
        KickReleasing, KickOffRuntime, CancelWait, AdmitDead, AwaitComplete,
        PublishDisposeComplete, Kick, DisposeLate, CommitRecheck, KickIdle,
        KickFirstTarget, ReadEdge, ReleaseDrift, ReleaseReprobe, ReleaseSettle,
        ReleaseCas, Invoke, AdmitReplacement, AdoptTarget, Converge, ConvergeJudge,
        fiberVars, stateVars
<1>2. CASE \/ Settle(p) \/ SettlePending(p) \/ SettleLoading(p) \/ ApplyOk(p)
          \/ ApplyFails(p) \/ ParkFailure(p) \/ TeardownUnload(p)
          \/ TeardownDisposed(p)
    BY <1>2
    DEF Settle, SettlePending, SettleLoading, ApplyOk, ApplyFails, ParkFailure,
        TeardownUnload, TeardownDisposed,
        Publish, stateVars
<1>3. CASE ReadyCheck(p) \/ ReadyAnswer(p)
    BY <1>3 DEF ReadyCheck, ReadyAnswer
<1>4. QED
    BY <1>1, <1>2, <1>3 DEF Step, UserStep

LEMMA RestIsNotTransient ==
    ASSUME Truth, inertia = "IDLE"
    PROVE  state \notin Transient
BY DEF Truth, HolderSound, Sound, Stable, Settled, Transient

LEMMA NextObservers ==
    ASSUME IInv, Truth, IInv', NEW p \in Proc, Step(p) \/ UserStep(p)
    PROVE  Observers'
<1>a. ProcessTypeOK /\ \A q \in Proc : ObserverAt(q)
    BY DEF Truth, Observers, IInv, TypeOK
<1>1. ASSUME NEW q \in Proc \ {p}
      PROVE  ObserverAt(q)'
    <2>1. observed'[q] = observed[q]
        BY <1>a, LocalsStay
    <2>2. CASE pc'[q] = pc[q]
        <3>1. q \in current' => q \in current /\ state' = state
            BY PublicationsOutdate DEF ReadyObserve
        <3>2. QED
            BY <1>a, <2>1, <2>2, <3>1 DEF ObserverAt
    <2>3. CASE pc'[q] = "converge"
        BY <2>3 DEF ObserverAt, Checking
    <2>4. QED
        BY <2>2, <2>3, OthersStay
<1>2. ObserverAt(p)'
    <2>1. CASE ReadyObserve(p)
        <3>1. pc'[p] = "check_idle" /\ observed'[p] = state /\ state' = state
            BY <1>a, <2>1 DEF ReadyObserve, Goto, ProcessTypeOK
        <3>2. QED
            BY <3>1 DEF ObserverAt, Checking
    <2>2. CASE ReadyCheck(p)
        <3>1. CASE Leave(p, "ready")
            BY <1>a, <3>1 DEF ObserverAt, Leave, ProcessTypeOK, Checking
        <3>2. CASE ~Leave(p, "ready")
            <4>1. /\ current' = current /\ state' = state /\ observed' = observed
                  /\ \/ pc[p] = "check_idle" /\ inertia = "IDLE" /\ pc'[p] = "check_committed"
                     \/ pc[p] = "check_committed" /\ pc'[p] = "check_sequence"
                     \/ pc[p] = "check_sequence" /\ p \in current /\ pc'[p] = "answer"
                BY <1>a, <2>2, <3>2 DEF ReadyCheck, Goto, ProcessTypeOK, localVars
            <4>2. inertia = "IDLE" => state \notin Transient
                BY RestIsNotTransient
            <4>3. ObserverAt(p)
                BY <1>a
            <4>4. QED
                BY <4>1, <4>2, <4>3 DEF ObserverAt, Checking
        <3>3. QED
            BY <3>1, <3>2
    <2>3. CASE ~ReadyObserve(p) /\ ~ReadyCheck(p)
        <3>1. pc'[p] \notin Checking \ {"observe"}
            BY <2>3, Landings
        <3>2. QED
            BY <3>1 DEF ObserverAt, Checking
    <2>4. QED
        BY <2>1, <2>2, <2>3
<1>3. QED
    BY <1>1, <1>2 DEF Observers

-----------------------------------------------------------------------------
\* Somebody is responsible for every revision

\* Who moves the word, the death mark and the acknowledged revision.
LEMMA WhoChanges ==
    ASSUME NEW p \in Proc, Step(p) \/ UserStep(p)
    PROVE  /\ alive' = alive \/ TeardownDie(p)
           /\ recheck_settled' = recheck_settled \/ ReleaseSettle(p)
           /\ \/ inertia' = inertia
              \/ KickReleasing(p) \/ KickIdle(p) \/ StoreReleasing(p)
              \/ ReleaseCas(p) \/ Attempt(p) \/ AdmitDead(p) \/ DisposeLate(p)
              \/ TeardownAbandon(p) \/ ReleaseDrift(p)
<1> USE DEF slotVars, wordVars, recheckVars, fiberVars, terminalVars
<1>1. CASE \/ MutateServices(p) \/ Enlist(p) \/ Attempt(p) \/ Wake(p)
          \/ ReleaseResidency(p) \/ Ready(p) \/ KickActive(p)
          \/ KickReleasing(p) \/ KickOffRuntime(p) \/ CancelWait(p)
          \/ AwaitComplete(p) \/ PublishDisposeComplete(p) \/ ReadyAnswer(p)
          \/ Kick(p) \/ ReadyCheck(p) \/ CommitRecheck(p) \/ KickIdle(p)
          \/ (\E o \in Ops : Invoke(p, o)) \/ ReadyObserve(p)
    BY <1>1
    DEF MutateServices, Enlist, Attempt, Wake, ReleaseResidency, Ready,
        KickActive, KickReleasing, KickOffRuntime, CancelWait, AwaitComplete,
        PublishDisposeComplete, ReadyAnswer, Kick, ReadyCheck, CommitRecheck,
        KickIdle, Invoke, ReadyObserve
<1>2. CASE \/ KickFirstTarget(p) \/ ReadEdge(p) \/ StoreReleasing(p)
          \/ ReleaseDrift(p) \/ ReleaseReprobe(p) \/ ReleaseSettle(p)
          \/ ReleaseCas(p) \/ AdmitDead(p) \/ AdmitReplacement(p)
          \/ AdoptTarget(p) \/ Converge(p) \/ ConvergeJudge(p) \/ Settle(p)
          \/ SettlePending(p) \/ SettleLoading(p) \/ ApplyOk(p)
          \/ ApplyFails(p) \/ ParkFailure(p) \/ DisposeLate(p)
          \/ ClaimTerminal(p) \/ TeardownUnload(p) \/ TeardownDie(p)
          \/ TeardownDisposed(p) \/ TeardownAbandon(p)
    BY <1>2
    DEF KickFirstTarget, ReadEdge, StoreReleasing, ReleaseDrift, ReleaseReprobe,
        ReleaseSettle, ReleaseCas, AdmitDead, AdmitReplacement, AdoptTarget,
        Converge, ConvergeJudge, Settle, SettlePending, SettleLoading, ApplyOk,
        ApplyFails, ParkFailure, DisposeLate, ClaimTerminal, TeardownUnload,
        TeardownDie, TeardownDisposed, TeardownAbandon
<1>3. QED
    BY <1>1, <1>2 DEF Step, UserStep

LEMMA KickersStep ==
    ASSUME NEW p \in Proc, Step(p) \/ UserStep(p),
           pc[p] \in {"mutate", "kick", "kick_slot"}
    PROVE  \/ MutateServices(p) \/ Kick(p) \/ KickActive(p) \/ KickReleasing(p)
           \/ KickOffRuntime(p) \/ KickIdle(p)
<1>1. CASE \/ Enlist(p) \/ Attempt(p) \/ Wake(p) \/ ReleaseResidency(p)
          \/ Ready(p) \/ CancelWait(p) \/ AwaitComplete(p)
          \/ PublishDisposeComplete(p) \/ ReadyAnswer(p) \/ ReadyCheck(p)
          \/ CommitRecheck(p) \/ (\E o \in Ops : Invoke(p, o))
          \/ ReadyObserve(p)
    BY <1>1
    DEF Enlist, Attempt, Wake, ReleaseResidency, Ready, CancelWait, AwaitComplete,
        PublishDisposeComplete, ReadyAnswer, ReadyCheck, CommitRecheck, Invoke,
        ReadyObserve
<1>2. CASE \/ KickFirstTarget(p) \/ ReadEdge(p) \/ StoreReleasing(p)
          \/ ReleaseDrift(p) \/ ReleaseReprobe(p) \/ ReleaseSettle(p)
          \/ ReleaseCas(p) \/ AdmitDead(p) \/ AdmitReplacement(p)
          \/ AdoptTarget(p) \/ Converge(p) \/ ConvergeJudge(p) \/ Settle(p)
          \/ SettlePending(p) \/ SettleLoading(p) \/ ApplyOk(p)
          \/ ApplyFails(p) \/ ParkFailure(p) \/ DisposeLate(p)
          \/ ClaimTerminal(p) \/ TeardownUnload(p) \/ TeardownDie(p)
          \/ TeardownDisposed(p) \/ TeardownAbandon(p)
    BY <1>2
    DEF KickFirstTarget, ReadEdge, StoreReleasing, ReleaseDrift, ReleaseReprobe,
        ReleaseSettle, ReleaseCas, AdmitDead, AdmitReplacement, AdoptTarget,
        Converge, ConvergeJudge, Settle, SettlePending, SettleLoading, ApplyOk,
        ApplyFails, ParkFailure, DisposeLate, ClaimTerminal, TeardownUnload,
        TeardownDie, TeardownDisposed, TeardownAbandon, Probing
<1>3. QED
    BY <1>1, <1>2 DEF Step, UserStep

LEMMA NextDriven ==
    ASSUME IInv, Truth, IInv', NEW p \in Proc, Step(p) \/ UserStep(p)
    PROVE  Driven'
<1>a. ProcessTypeOK /\ Driven
    BY DEF IInv, TypeOK, Truth
<1> SUFFICES ASSUME OffRuntime = {}, alive', HasCommittedRecheck', ~Notifying'
             PROVE  /\ inertia' # "IDLE"
                    /\ inertia' = "RELEASING" => \A q \in Proc : pc'[q] # "release_cas"
    BY DEF Driven
<1>b. \A q \in Proc \ {p} : pc[q] \notin {"mutate", "kick", "kick_slot"}
    BY OthersStay DEF Notifying
<1>c. pc'[p] \notin {"mutate", "kick", "kick_slot"}
    BY DEF Notifying
<1>1. ~CommitRecheck(p) /\ ~MutateServices(p)
    BY <1>a, <1>c DEF CommitRecheck, MutateServices, Goto, ProcessTypeOK
<1>2. ~ReleaseSettle(p)
    BY DEF ReleaseSettle, HasCommittedRecheck
<1>3. alive /\ HasCommittedRecheck
    <2>1. alive
        BY WhoChanges DEF TeardownDie
    <2>2. recheck_committed' = recheck_committed /\ recheck_settled' = recheck_settled
        BY <1>1, <1>2, CommitsLock, WhoChanges
    <2>3. QED
        BY <2>1, <2>2 DEF HasCommittedRecheck
<1>4. CASE pc[p] \in {"mutate", "kick", "kick_slot"}
    <2>1. ~Kick(p)
        BY <1>3, <1>a, <1>c DEF Kick, Goto, ProcessTypeOK
    <2>2. KickActive(p) \/ KickReleasing(p) \/ KickIdle(p)
        BY <1>1, <1>4, <2>1, KickersStep DEF KickOffRuntime
    <2>3. QED
        BY <2>2 DEF KickActive, KickReleasing, KickIdle, slotVars, wordVars
<1>5. CASE pc[p] \notin {"mutate", "kick", "kick_slot"}
    <2>1. ~Notifying
        BY <1>b, <1>5 DEF Notifying
    <2>2. /\ inertia # "IDLE"
          /\ inertia = "RELEASING" => \A q \in Proc : pc[q] # "release_cas"
        BY <1>a, <1>3, <2>1 DEF Driven
    <2>3. pc'[p] # "release_cas"
        BY <1>2, Landings
    <2>4. \A q \in Proc : pc'[q] = "release_cas" => pc[q] = "release_cas" /\ q # p
        BY <2>3, OthersStay
    <2>5. CASE inertia' = inertia
        BY <2>2, <2>4, <2>5
    <2>6. CASE StoreReleasing(p)
        <3>1. pc[p] = "release" /\ inertia' = "RELEASING"
            BY <2>6 DEF StoreReleasing
        <3>2. \A q \in Proc : pc[q] = "release_cas" => q = p
            BY <3>1 DEF IInv, SlotExclusive, Holds, Holding
        <3>3. QED
            BY <2>4, <3>1, <3>2
    <2>7. CASE ReleaseCas(p) \/ Attempt(p) \/ ReleaseDrift(p)
        <3>1. CASE ReleaseCas(p)
            BY <2>2, <2>5, <3>1 DEF ReleaseCas, wordVars
        <3>2. CASE Attempt(p)
            BY <2>2, <2>5, <3>2 DEF Attempt, wordVars
        <3>3. CASE ReleaseDrift(p)
            BY <3>3 DEF ReleaseDrift
        <3>4. QED
            BY <2>7, <3>1, <3>2, <3>3
    <2>8. ~AdmitDead(p) /\ ~DisposeLate(p) /\ ~TeardownAbandon(p)
        <3>1. ~AdmitDead(p)
            BY <1>3 DEF AdmitDead
        <3>2. ~DisposeLate(p)
            BY <1>3 DEF DisposeLate, Truth, Disposals, HolderSound, Sound, Holding
        <3>3. ~TeardownAbandon(p)
            BY <1>3 DEF TeardownAbandon, Truth, Disposals, TearerAt, Tearing, Teardown
        <3>4. QED
            BY <3>1, <3>2, <3>3
    <2>9. QED
        BY <1>5, <2>5, <2>6, <2>7, <2>8, WhoChanges DEF KickReleasing, KickIdle
<1>6. QED
    BY <1>4, <1>5

-----------------------------------------------------------------------------
\* The invariant and the theorems

LEMMA InitTruth == DeliveredInit => Truth
<1> SUFFICES ASSUME DeliveredInit PROVE Truth
    OBVIOUS
<1>a. IInv
    BY InitIInv
<1>b. target # NoTarget /\ target.input = input /\ target.deps = services
    <2>1. services \in [Edge -> Nat]
        BY <1>a DEF IInv, TypeOK, SlotTypeOK
    <2>2. target = [input |-> 0, deps |-> services] /\ input = 0
        BY DEF DeliveredInit
    <2>3. target \in Target
        BY <2>1, <2>2 DEF Target
    <2>4. QED
        BY <2>2, <2>3, NoTargetIsNoTarget
<1>c. \A p \in Proc : /\ pc[p] \in {"rest", "free", "delivered"}
                       /\ revision[p] = 0 /\ read[p] = <<>>
    BY DEF DeliveredInit
<1>d. Settled(target)
    <2>1. CASE HasMissing(target)
        BY <2>1 DEF DeliveredInit, Settled
    <2>2. CASE ~HasMissing(target)
        BY <2>2 DEF DeliveredInit, Settled
    <2>3. QED
        BY <2>1, <2>2
<1>1. HolderSound
    <2>1. Sound("idle")
        BY <1>b, <1>d DEF DeliveredInit, Sound
    <2>2. QED
        BY <1>c, <2>1 DEF HolderSound, Holding, Probing, Settling, Teardown
<1>2. Passes
    BY <1>c DEF DeliveredInit, Passes, PassAt, Aimed, Revised, Probing, Settling, Releasing,
       Holding, Teardown
<1>3. Acknowledged
    BY <1>b, <1>c, <1>d DEF DeliveredInit, Acknowledged, Locked, HasCommittedRecheck,
       Settled, HasMissing
<1>4. Disposals
    BY <1>c DEF DeliveredInit, Disposals, TearerAt, Tearing, Teardown
<1>5. Observers
    BY <1>c DEF Observers, ObserverAt, Checking
<1>6. Driven
    BY DEF DeliveredInit, Driven, HasCommittedRecheck
<1>7. QED
    BY <1>1, <1>2, <1>3, <1>4, <1>5, <1>6 DEF Truth

LEMMA NextTruth == IInv /\ Truth /\ [Next]_vars => Truth'
<1> SUFFICES ASSUME IInv, Truth, [Next]_vars PROVE Truth'
    OBVIOUS
<1>a. IInv'
    BY NextIInv
<1>1. CASE Next
    <2>1. PICK p \in Proc : Step(p) \/ UserStep(p)
        BY <1>1 DEF Next
    <2>2. HolderSound' /\ Passes' /\ Acknowledged'
        BY <1>a, <2>1, NextHolderSound, NextPasses, NextAcknowledged
    <2>3. Disposals' /\ Observers' /\ Driven'
        BY <1>a, <2>1, NextDisposals, NextObservers, NextDriven
    <2>4. QED
        BY <2>2, <2>3 DEF Truth
<1>2. CASE UNCHANGED vars
    <2> USE DEF vars, slotVars, wordVars, recheckVars, fiberVars, stateVars, terminalVars,
                generationVars, localVars
    <2>1. HolderSound'
        BY <1>2 DEF Truth, HolderSound, Sound, Settled, HasMissing
    <2>2. Passes' /\ Acknowledged'
        BY <1>2 DEF Truth, Passes, PassAt, Acknowledged, Locked, HasCommittedRecheck
    <2>3. Disposals' /\ Observers' /\ Driven'
        BY <1>2 DEF Truth, Disposals, TearerAt, Observers, ObserverAt, Driven, Notifying,
                    HasCommittedRecheck
    <2>4. QED
        BY <2>1, <2>2, <2>3 DEF Truth
<1>3. QED
    BY <1>1, <1>2

LEMMA TruthInvariant == Spec => [](IInv /\ Truth)
BY InitIInv, InitTruth, NextIInv, NextTruth, PTL DEF Spec

\* A live Fiber at rest with every revision acknowledged is converged to the
\* services and the input in force, however kicks, releases and calls raced.
THEOREM QuiescenceIsTruth == Spec => []QuiescentTruth
<1>1. ASSUME IInv, Truth PROVE QuiescentTruth
    <2>1. SUFFICES ASSUME inertia = "IDLE", ~HasCommittedRecheck, alive
          PROVE  Settled([input |-> input, deps |-> services])
        BY DEF QuiescentTruth, Settled
    <2>2. /\ target.deps = services /\ target.input = input /\ Settled(target)
          /\ target # NoTarget
        BY <1>1, <2>1 DEF Truth, Acknowledged, HolderSound, Sound, Stable
    <2>3. target \in Target
        BY <1>1, <2>2 DEF IInv, TypeOK, SlotTypeOK
    <2>4. target = [input |-> input, deps |-> services]
        BY <2>2, <2>3 DEF Target
    <2>5. QED
        BY <2>2, <2>4
<1>2. QED
    BY <1>1, TruthInvariant, PTL

\* ready() answers the truth about the services in force.
THEOREM ReadyIsTruthful == Spec => []ReadyAnswersTruth
<1>1. ASSUME IInv, Truth PROVE ReadyAnswersTruth
    <2>1. SUFFICES ASSUME NEW p \in Proc, pc[p] \in {"check_sequence", "answer"},
                          p \in current, alive, ~HasCommittedRecheck
          PROVE  IF \E e \in Edge : services[e] = Missing
                 THEN observed[p] = "Pending"
                 ELSE observed[p] \in {"Active", "Failed"} /\ generation.deps = services
        BY DEF ReadyAnswersTruth
    <2>2. observed[p] = state /\ state \notin Transient
        BY <1>1, <2>1 DEF Truth, Observers, ObserverAt, Checking
    <2>3. QED
        BY <1>1, <2>1, <2>2 DEF Truth, Acknowledged
<1>2. QED
    BY <1>1, TruthInvariant, PTL

\* "No mutation can disappear in the recheck-to-idle window": an outstanding
\* revision always has a holder or a kicker responsible for it.
THEOREM RevisionsAreDriven == Spec => []RecheckHasDriver
<1>1. ASSUME IInv, Truth PROVE RecheckHasDriver
    BY <1>1 DEF Truth, Driven, Notifying, RecheckHasDriver, IInv, SlotExclusive
<1>2. QED
    BY <1>1, TruthInvariant, PTL

\* The panics of the protocol are unreachable: the release compare-exchange
\* never sees IDLE, convergence_pass always has a recorded target, and ready
\* never answers a transient state.
THEOREM AssertionsHold == Spec => []ProtocolAssertionsHold
<1>1. ASSUME IInv, Truth PROVE ProtocolAssertionsHold
    <2>1. \A p \in Proc : pc[p] = "release_cas" => inertia # "IDLE"
        BY <1>1 DEF IInv, SlotExclusive, Holds, Holding
    <2>2. QED
        BY <1>1, <2>1 DEF Truth, Passes, PassAt, Observers, ObserverAt, ProtocolAssertionsHold
<1>2. QED
    BY <1>1, TruthInvariant, PTL

\* The terminal barrier is complete only over a dead, drained, unlinked Fiber
\* with no pass inside the plugin's code.
THEOREM DisposalIsABarrier == Spec => []DisposalBarrier
<1>1. ASSUME IInv, Truth PROVE DisposalBarrier
    <2>1. SUFFICES ASSUME dispose_complete PROVE
              /\ state = "Disposed" /\ ~alive /\ ~resident /\ ~registered /\ ~error
              /\ \A p \in Proc :
                     pc[p] \notin {"decide", "apply", "rollback"} \cup Teardown
        BY DEF DisposalBarrier
    <2>2. state = "Disposed" /\ ~alive /\ ~resident
        BY <1>1, <2>1 DEF Truth, Disposals
    <2>3. \A p \in Proc : pc[p] \notin {"decide", "apply", "rollback"} \cup Teardown
        BY <1>1, <2>1, <2>2 DEF Truth, Disposals, TearerAt, Tearing, HolderSound, Sound,
           Holding, Settling
    <2>4. ~registered /\ ~error
        <3>1. CASE inertia = "IDLE"
            BY <1>1, <2>2, <3>1 DEF Truth, HolderSound, Sound
        <3>2. CASE inertia # "IDLE"
            <4>1. PICK p \in Proc : pc[p] \in Holding
                BY <1>1, <3>2 DEF IInv, SlotExclusive, Holds, Control
            <4>2. pc[p] # "drain" /\ Sound(pc[p])
                BY <1>1, <2>3, <4>1 DEF Truth, HolderSound, Teardown
            <4>3. QED
                BY <2>2, <4>2 DEF Sound
        <3>3. QED
            BY <3>1, <3>2
    <2>5. QED
        BY <2>2, <2>3, <2>4
<1>2. QED
    BY <1>1, TruthInvariant, PTL

\* The gate a replacement closes is open again on every idle Active Fiber.
THEOREM GateReopens == Spec => []GenerationGateReopens
<1>1. ASSUME IInv, Truth PROVE GenerationGateReopens
    BY <1>1 DEF Truth, HolderSound, Sound, Stable, Settled, GenerationGateReopens
<1>2. QED
    BY <1>1, TruthInvariant, PTL

LEMMA PublishersAt ==
    ASSUME NEW p \in Proc, Step(p) \/ UserStep(p), ~alive,
           pc[p] \notin {"decide", "apply", "rollback", "unload"}
    PROVE  state' = state \/ state' = "Disposed"
<1>1. CASE \/ MutateServices(p) \/ StoreReleasing(p) \/ Enlist(p)
          \/ Attempt(p) \/ Wake(p) \/ ClaimTerminal(p) \/ TeardownDie(p)
          \/ TeardownAbandon(p) \/ ReleaseResidency(p) \/ Ready(p)
          \/ KickActive(p) \/ KickReleasing(p) \/ KickOffRuntime(p)
          \/ CancelWait(p) \/ AdmitDead(p) \/ AwaitComplete(p)
          \/ PublishDisposeComplete(p) \/ Kick(p) \/ DisposeLate(p)
          \/ CommitRecheck(p) \/ KickIdle(p) \/ KickFirstTarget(p)
          \/ ReadEdge(p) \/ ReleaseDrift(p) \/ ReleaseReprobe(p)
          \/ ReleaseSettle(p) \/ ReleaseCas(p)
          \/ (\E o \in Ops : Invoke(p, o)) \/ AdmitReplacement(p)
          \/ AdoptTarget(p) \/ Converge(p) \/ ConvergeJudge(p)
    BY <1>1
    DEF MutateServices, StoreReleasing, Enlist, Attempt, Wake, ClaimTerminal,
        TeardownDie, TeardownAbandon, ReleaseResidency, Ready, KickActive,
        KickReleasing, KickOffRuntime, CancelWait, AdmitDead, AwaitComplete,
        PublishDisposeComplete, Kick, DisposeLate, CommitRecheck, KickIdle,
        KickFirstTarget, ReadEdge, ReleaseDrift, ReleaseReprobe, ReleaseSettle,
        ReleaseCas, Invoke, AdmitReplacement, AdoptTarget, Converge, ConvergeJudge,
        fiberVars, stateVars
<1>2. CASE \/ Settle(p) \/ SettlePending(p) \/ SettleLoading(p) \/ ApplyOk(p)
          \/ ApplyFails(p) \/ ParkFailure(p) \/ TeardownUnload(p)
          \/ TeardownDisposed(p)
    BY <1>2
    DEF Settle, SettlePending, SettleLoading, ApplyOk, ApplyFails, ParkFailure,
        TeardownUnload, TeardownDisposed,
        Publish, stateVars
<1>3. CASE ReadyCheck(p) \/ ReadyAnswer(p) \/ ReadyObserve(p)
    BY <1>3 DEF ReadyCheck, ReadyAnswer, ReadyObserve
<1>4. QED
    BY <1>1, <1>2, <1>3 DEF Step, UserStep

\* Death is final: after the death mark no pass opens a generation or
\* publishes anything but Disposed.
THEOREM DeathStays == Spec => DeathIsFinal
<1>1. ASSUME IInv, Truth, [Next]_vars
      PROVE  [~alive => ~alive' /\ (state' = state \/ state' = "Disposed")]_vars
    <2>1. SUFFICES ASSUME Next, ~alive
          PROVE  ~alive' /\ (state' = state \/ state' = "Disposed")
        BY <1>1
    <2>2. PICK p \in Proc : Step(p) \/ UserStep(p)
        BY <2>1 DEF Next
    <2>3. ~alive'
        BY <2>1, <2>2, WhoChanges DEF TeardownDie
    <2>4. CASE pc[p] \notin Holding
        BY <2>2, <2>3, <2>4, OwnerDecides DEF soundVars
    <2>5. CASE pc[p] \in Holding
        <3>1. Sound(pc[p])
            BY <1>1, <2>5 DEF Truth, HolderSound
        <3>2. pc[p] \notin {"decide", "apply", "rollback", "unload"}
            BY <2>1, <3>1 DEF Sound
        <3>3. state' = state \/ state' = "Disposed"
            BY <2>1, <2>2, <3>2, PublishersAt
        <3>4. QED
            BY <2>3, <3>3
    <2>6. QED
        BY <2>4, <2>5
<1>2. QED
    BY <1>1, TruthInvariant, PTL DEF Spec, DeathIsFinal

\* restart and update return only over the generation of the target they
\* settled last, with the input in force.
THEOREM ReplacementsAreBarriers == Spec => ReplacementBarrier
<1> DEFINE Barrier ==
        \A p \in Proc :
         op[p] \in {"restart", "update"} /\ pc[p] = "release_cas" /\ pc'[p] = "rest" =>
             /\ goal[p].input = input
             /\ IF HasMissing(goal[p]) THEN state = "Pending"
                ELSE generation = goal[p] /\ state \in {"Active", "Failed"}
<1>1. ASSUME IInv, Truth PROVE Barrier
    <2>1. SUFFICES ASSUME NEW p \in Proc, op[p] \in {"restart", "update"}, pc[p] = "release_cas"
          PROVE  /\ goal[p].input = input
                 /\ IF HasMissing(goal[p]) THEN state = "Pending"
                    ELSE generation = goal[p] /\ state \in {"Active", "Failed"}
        OBVIOUS
    <2>2. goal[p] = target /\ alive
        BY <1>1, <2>1 DEF Truth, Passes, PassAt, Aimed, Releasing, Holding
    <2>3. target.input = input /\ Settled(target)
        BY <1>1, <2>1, <2>2 DEF Truth, HolderSound, Sound, Stable, Releasing, Holding
    <2>4. QED
        BY <2>2, <2>3 DEF Settled
<1>2. IInv /\ Truth => [Barrier]_vars
    BY <1>1
<1>3. QED
    BY <1>2, TruthInvariant, PTL DEF ReplacementBarrier

-----------------------------------------------------------------------------
\* The first failure of a creation: the inductive invariant

\* While the spawn transaction has not let go of its initial pass, the only
\* rivals are service mutations, the convergence tasks they spawn and group
\* removal: nothing that needs the handle.
InitialLabel ==
    {"register", "admitted", "target_probe", "spawn_settled", "spawn_unlink",
     "spawn_publish", "spawn_failed", "spawn_clear", "spawn_tail",
     "spawn_abandon", "over"}
        \cup Waiting \cup Settling \cup Releasing \cup Teardown

RivalAt(o, l) ==
    \/ o = "none" /\ l = "rest"
    \/ o = "mutate" /\ l \in {"mutate"} \cup Kicking
    \/ o = "converge" /\
           l \in {"free", "converge", "converge_probe"} \cup Settling \cup Releasing
    \/ o = "remove" /\
           l \in Waiting \cup {"admitted", "abandon", "unlink", "publish",
                               "await_complete"} \cup Teardown

InitialAt(p, o, l) ==
    IF p \in Creator THEN o = "spawn" /\ l \in InitialLabel ELSE RivalAt(o, l)

InitialControl ==
    /\ DOMAIN pc = Proc /\ DOMAIN goal = Proc
    /\ \A p \in Proc : InitialAt(p, op[p], pc[p])

\* The slot has one owner, whose word is not idle.
OneOwner ==
    /\ \A p, q \in Proc : pc[p] \in Holding /\ pc[q] \in Holding => p = q
    /\ (\E p \in Proc : pc[p] \in Holding) <=> inertia # "IDLE"

\* Control points around the first apply: the creation waits for the slot, a
\* pass works on the generation, the creation has let go of the slot, or it has
\* torn the Fiber down.
Before   == {"register"} \cup Waiting
Working  == {"decide", "apply", "rollback"}
LetGo    == {"spawn_clear", "spawn_tail", "spawn_abandon"}
TornDown == {"spawn_unlink", "spawn_publish", "spawn_failed", "over"}

\* A generation is worked on only while the Fiber lives, and it is disposed
\* only once it is dead.
DeathStops ==
    /\ \A p \in Proc : pc[p] \in Working => alive
    /\ \A p \in Proc : pc[p] = "drain" => ~alive
    /\ state = "Disposed" => ~alive

\* Until creation c has the slot nobody has applied, and the window that
\* withholds the first apply closes only on the way to death; until it lets go
\* of the slot nobody else applies; and a parked failure is its own.
FirstApplyIs(c) ==
    /\ pc[c] \in Before =>
           /\ ~applied
           /\ creation_pending \/ ~alive \/ (\E p \in Proc : pc[p] = "die")
    /\ pc[c] \in TornDown => ~alive
    /\ pc[c] \notin LetGo =>
           \A p \in Proc \ {c} : pc[p] \notin {"apply", "rollback"}
    /\ pc[c] \in {"apply", "rollback"} => ~HasMissing(goal[c])
    /\ error => pc[c] \in {"spawn_settled"} \cup LetGo
    /\ error /\ pc[c] = "spawn_settled" =>
           state = "Failed" /\ ~HasMissing(goal[c])

Undecided ==
    /\ InitialControl /\ OneOwner /\ DeathStops
    /\ \A c \in Creator : FirstApplyIs(c)

\* A creation that has let go of its initial pass never takes it up again.
CreationInv ==
    /\ DOMAIN op = Proc
    /\ \A c \in Creator : op[c] = "spawn" => Undecided

-----------------------------------------------------------------------------
\* The first failure of a creation: what a step does to control and to the slot

\* The initial pass has not been let go of.
Open == DOMAIN op = Proc /\ Creator # {} /\ Undecided

\* Only p moves, along its control points, and ownership follows the word.
Advances(p) ==
    /\ DOMAIN pc' = Proc /\ DOMAIN goal' = Proc
    /\ \A q \in Proc \ {p} :
           pc'[q] = pc[q] /\ op'[q] = op[q] /\ goal'[q] = goal[q]
    /\ InitialAt(p, op'[p], pc'[p])
    /\ \/ /\ pc[p] \in Holding <=> pc'[p] \in Holding
          /\ inertia = "IDLE" <=> inertia' = "IDLE"
       \/ pc[p] \notin Holding /\ pc'[p] \in Holding
              /\ inertia = "IDLE" /\ inertia' # "IDLE"
       \/ pc[p] \in Holding /\ pc'[p] \notin Holding /\ inertia' = "IDLE"

\* The step changes nothing the first apply depends on.
Inert(p) ==
    /\ UNCHANGED <<state, alive, applied, creation_pending, error>>
    /\ pc[p] # "die" /\ pc'[p] \notin Working \cup {"drain"}
    /\ p \in Creator =>
           /\ pc'[p] \in Before => pc[p] \in Before
           /\ pc'[p] \in TornDown => pc[p] \in TornDown \/ ~alive
           /\ pc[p] \in LetGo => pc'[p] \in LetGo
           /\ pc[p] = "spawn_settled" => ~error

\* A kicker hands the slot to a fresh convergence task.
HandsToTask(p) ==
    /\ p \notin Creator
    /\ UNCHANGED <<state, alive, applied, creation_pending, error>>
    /\ \E t \in Task \ {p} :
        /\ DOMAIN pc' = Proc /\ DOMAIN goal' = Proc
        /\ \A q \in Proc \ {p, t} : pc'[q] = pc[q] /\ op'[q] = op[q]
        /\ \A q \in Proc \ {p} : goal'[q] = goal[q]
        /\ InitialAt(p, op'[p], pc'[p]) /\ InitialAt(t, op'[t], pc'[t])
        /\ pc[p] \in Holding \ {"die"} /\ pc'[p] \notin Holding
        /\ pc[t] = "free" /\ pc'[t] = "converge"
        /\ inertia # "IDLE" /\ inertia' # "IDLE"

LEMMA GotoAdvances ==
    ASSUME Open, NEW p \in Proc, NEW l, Goto(p, l)
    PROVE  /\ DOMAIN pc' = Proc /\ pc'[p] = l
           /\ \A q \in Proc \ {p} : pc'[q] = pc[q]
BY DEF Open, Undecided, InitialControl, Goto

LEMMA LeaveAdvances ==
    ASSUME Open, NEW p \in Proc, NEW l, Leave(p, l)
    PROVE  /\ DOMAIN pc' = Proc /\ DOMAIN goal' = Proc /\ pc'[p] = l
           /\ op'[p] = IF l = "rest" THEN "none" ELSE op[p]
           /\ \A q \in Proc \ {p} :
                  pc'[q] = pc[q] /\ op'[q] = op[q] /\ goal'[q] = goal[q]
BY DEF Open, Undecided, InitialControl, Leave

\* Changing one entry of the goals or of the operations.
LEMMA GoalAdvances ==
    ASSUME Open, NEW p \in Proc, NEW g, goal' = [goal EXCEPT ![p] = g]
    PROVE  DOMAIN goal' = Proc /\ \A q \in Proc \ {p} : goal'[q] = goal[q]
BY DEF Open, Undecided, InitialControl

LEMMA OpenControl ==
    ASSUME Open, NEW p \in Proc
    PROVE  /\ InitialAt(p, op[p], pc[p])
           /\ DOMAIN pc = Proc /\ DOMAIN goal = Proc /\ DOMAIN op = Proc
           /\ pc[p] \in Holding => inertia # "IDLE"
           /\ inertia # "IDLE" => \E q \in Proc : pc[q] \in Holding
BY DEF Open, Undecided, InitialControl, OneOwner

\* Who kicks, releases, settles and tears down while the creation is open.
LEMMA OpenRoles ==
    ASSUME Open, NEW p \in Proc
    PROVE  /\ pc[p] \in {"kick", "kick_slot", "first_probe"} =>
                  p \notin Creator /\ op[p] = "mutate"
           /\ pc[p] \in Releasing => op[p] \in {"mutate", "converge", "spawn"}
           /\ pc[p] \in Settling => op[p] \in {"converge", "spawn"}
           /\ pc[p] \in Teardown => op[p] \in {"remove", "spawn"}
           /\ op[p] = "spawn" <=> p \in Creator
           /\ op[p] \in {"none", "mutate", "converge", "remove", "spawn"}
<1>1. InitialAt(p, op[p], pc[p])
    BY OpenControl
<1> USE <1>1 DEF InitialAt, RivalAt, InitialLabel, Kicking, Releasing, Waiting,
                 Settling, Teardown
<1>2. pc[p] \in {"kick", "kick_slot", "first_probe"} =>
          p \notin Creator /\ op[p] = "mutate"
    OBVIOUS
<1>3. pc[p] \in Releasing => op[p] \in {"mutate", "converge", "spawn"}
    OBVIOUS
<1>4. pc[p] \in Settling => op[p] \in {"converge", "spawn"}
    OBVIOUS
<1>5. pc[p] \in Teardown => op[p] \in {"remove", "spawn"}
    OBVIOUS
<1>6. op[p] = "spawn" <=> p \in Creator
    OBVIOUS
<1>7. op[p] \in {"none", "mutate", "converge", "remove", "spawn"}
    OBVIOUS
<1>8. QED
    BY <1>2, <1>3, <1>4, <1>5, <1>6, <1>7

LEMMA NothingDelivered == ASSUME Open PROVE ~Delivered
<1>1. PICK c \in Creator : TRUE
    BY DEF Open
<1>2. c \in Proc
    BY <1>1 DEF Proc
<1>3. pc[c] \in InitialLabel
    BY <1>1, <1>2, OpenControl DEF InitialAt
<1>4. QED
    BY <1>1, <1>3 DEF Delivered, InitialLabel, Waiting, Settling, Releasing, Teardown

-----------------------------------------------------------------------------
\* The first failure of a creation: the steps

LEMMA AdvancesKeepsControl ==
    ASSUME Open, NEW p \in Proc, Advances(p)
    PROVE  InitialControl' /\ OneOwner'
<1>1. InitialControl'
    BY DEF Open, Undecided, InitialControl, Advances
<1>2. \A q \in Proc \ {p} : pc[q] \in Holding <=> pc'[q] \in Holding
    BY DEF Advances
<1>3. OneOwner
    BY DEF Open, Undecided
<1>4. CASE (pc[p] \in Holding <=> pc'[p] \in Holding) /\ (inertia = "IDLE" <=> inertia' = "IDLE")
    BY <1>1, <1>2, <1>3, <1>4 DEF OneOwner
<1>5. CASE /\ pc[p] \notin Holding /\ pc'[p] \in Holding
           /\ inertia = "IDLE" /\ inertia' # "IDLE"
    BY <1>1, <1>2, <1>3, <1>5 DEF OneOwner
<1>6. CASE pc[p] \in Holding /\ pc'[p] \notin Holding /\ inertia' = "IDLE"
    BY <1>1, <1>2, <1>3, <1>6 DEF OneOwner
<1>7. QED
    BY <1>1, <1>4, <1>5, <1>6 DEF Advances

\* Two processes that hold the slot are one.
LEMMA OwnerIsAlone ==
    ASSUME Open, NEW p \in Proc, NEW q \in Proc, p # q, pc[p] \in Holding
    PROVE  pc[q] \notin Holding
BY DEF Open, Undecided, OneOwner

LEMMA InertPreserves ==
    ASSUME Open, NEW p \in Proc, Advances(p), Inert(p)
    PROVE  Undecided'
<1>1. InitialControl' /\ OneOwner'
    BY AdvancesKeepsControl
<1>2. \A q \in Proc \ {p} : pc'[q] = pc[q] /\ goal'[q] = goal[q]
    BY DEF Advances
<1>3. DeathStops'
    BY <1>2 DEF Open, Undecided, DeathStops, Inert
<1>4. ASSUME NEW c \in Creator PROVE FirstApplyIs(c)'
    <2>1. FirstApplyIs(c) /\ c \in Proc
        BY DEF Open, Undecided, Proc
    <2>2. /\ p # c => pc'[c] = pc[c] /\ goal'[c] = goal[c]
          /\ UNCHANGED <<state, alive, applied, creation_pending, error>>
          /\ pc[p] # "die" /\ pc'[p] \notin {"decide", "apply", "rollback", "drain"}
          /\ p = c => /\ pc'[c] \in Before => pc[c] \in Before
                      /\ pc'[c] \in TornDown => pc[c] \in TornDown \/ ~alive
                      /\ pc[c] \in LetGo => pc'[c] \in LetGo
                      /\ pc[c] = "spawn_settled" => ~error
        BY <1>2, <2>1 DEF Inert, Working
    <2>3. pc'[c] \in Before => pc[c] \in Before
        BY <2>2
    <2>4. \A q \in Proc : pc[q] = "die" => pc'[q] = "die"
        BY <1>2, <2>2
    <2>5. pc'[c] \in Before =>
              /\ ~applied'
              /\ creation_pending' \/ ~alive' \/ (\E q \in Proc : pc'[q] = "die")
        BY <2>1, <2>2, <2>3, <2>4 DEF FirstApplyIs
    <2>6. pc'[c] \in TornDown => ~alive'
        BY <2>1, <2>2 DEF FirstApplyIs
    <2>7. pc'[c] \notin LetGo =>
              \A q \in Proc \ {c} : pc'[q] \notin {"apply", "rollback"}
        BY <1>2, <2>1, <2>2 DEF FirstApplyIs
    <2>8. pc'[c] \in {"apply", "rollback"} => ~HasMissing(goal'[c])
        BY <2>1, <2>2 DEF FirstApplyIs
    <2>9. error' => pc'[c] \in {"spawn_settled"} \cup LetGo
        BY <2>1, <2>2 DEF FirstApplyIs
    <2>10. error' /\ pc'[c] = "spawn_settled" =>
               state' = "Failed" /\ ~HasMissing(goal'[c])
        BY <2>1, <2>2 DEF FirstApplyIs, LetGo
    <2>11. QED
        BY <2>5, <2>6, <2>7, <2>8, <2>9, <2>10 DEF FirstApplyIs, HasMissing
<1>5. QED
    BY <1>1, <1>3, <1>4 DEF Undecided

LEMMA KickIsInert ==
    ASSUME Open, NEW p \in Proc,
           Kick(p) \/ KickActive(p) \/ KickReleasing(p) \/ KickOffRuntime(p)
           \/ KickIdle(p)
    PROVE  Advances(p) /\ Inert(p)
<1>0. p \notin Creator /\ op[p] = "mutate"
    BY OpenRoles DEF Kick, KickActive, KickReleasing, KickOffRuntime, KickIdle
<1>a. AfterClean["mutate"] = "rest"
    BY DEF AfterClean
<1>b. /\ InitialAt(p, op[p], pc[p])
      /\ DOMAIN pc = Proc /\ DOMAIN goal = Proc /\ DOMAIN op = Proc
      /\ pc[p] \in Holding => inertia # "IDLE"
    BY OpenControl
<1> USE DEF InitialAt, RivalAt, Advances, Inert, slotVars, wordVars, localVars,
            fiberVars, stateVars, terminalVars, generationVars, Holding, Kicking,
            Releasing, Waiting, Settling, Teardown, Probing, Working
<1>1. CASE Kick(p)
    BY <1>0, <1>1, <1>a, <1>b, GotoAdvances, LeaveAdvances DEF Kick
<1>2. CASE KickActive(p)
    BY <1>0, <1>2, <1>a, <1>b, LeaveAdvances DEF KickActive
<1>3. CASE KickReleasing(p)
    BY <1>0, <1>3, <1>a, <1>b, LeaveAdvances DEF KickReleasing
<1>4. CASE KickOffRuntime(p)
    BY <1>0, <1>4, <1>a, <1>b, LeaveAdvances DEF KickOffRuntime
<1>5. CASE KickIdle(p)
    BY <1>0, <1>5, <1>a, <1>b, GotoAdvances, GoalAdvances DEF KickIdle
<1>6. QED
    BY <1>1, <1>2, <1>3, <1>4, <1>5

LEMMA ReleaseIsInert ==
    ASSUME Open, NEW p \in Proc,
           \/ StoreReleasing(p) \/ ReleaseReprobe(p) \/ ReleaseSettle(p)
           \/ ReleaseCas(p)
           \/ ReleaseDrift(p) /\ op[p] \in Driver
    PROVE  Advances(p) /\ Inert(p)
<1>0. /\ op[p] \in {"mutate", "converge", "spawn"}
      /\ op[p] = "spawn" <=> p \in Creator
    BY OpenRoles
    DEF StoreReleasing, ReleaseReprobe, ReleaseSettle, ReleaseCas, ReleaseDrift, Releasing
<1>a. /\ AfterClean["converge"] = "free" /\ AfterClean["spawn"] = "spawn_clear"
      /\ AfterClean["mutate"] = "rest"
      /\ AfterDrift["converge"] = "converge" /\ AfterDrift["spawn"] = "target_probe"
    BY DEF AfterClean, AfterDrift
<1>b. /\ InitialAt(p, op[p], pc[p])
      /\ DOMAIN pc = Proc /\ DOMAIN goal = Proc /\ DOMAIN op = Proc
      /\ pc[p] \in Holding => inertia # "IDLE"
    BY OpenControl
<1> USE DEF InitialAt, RivalAt, InitialLabel, Advances, Inert, slotVars, wordVars,
            localVars, fiberVars, stateVars, terminalVars, generationVars, Holding,
            Kicking, Releasing, Waiting, Settling, Teardown, Probing, Working,
            Before, TornDown, LetGo
<1>1. CASE StoreReleasing(p)
    BY <1>0, <1>1, <1>b, GotoAdvances DEF StoreReleasing
<1>2. CASE ReleaseReprobe(p)
    BY <1>0, <1>2, <1>b, GotoAdvances DEF ReleaseReprobe
<1>3. CASE ReleaseSettle(p)
    BY <1>0, <1>3, <1>b, GotoAdvances DEF ReleaseSettle
<1>4. CASE ReleaseCas(p)
    BY <1>0, <1>4, <1>a, <1>b, GotoAdvances, LeaveAdvances DEF ReleaseCas, Abandon
<1>5. CASE ReleaseDrift(p) /\ op[p] \in Driver
    <2>1. op[p] \in {"converge", "spawn"}
        BY <1>0, <1>5 DEF Driver
    <2>2. /\ inertia' = "ACTIVE" /\ op' = op /\ pc[p] = "release_probe"
          /\ UNCHANGED <<state, alive, applied, creation_pending, error>>
          /\ Goto(p, AfterDrift[op[p]]) /\ goal' = [goal EXCEPT ![p] = NoTarget]
        BY <1>5 DEF ReleaseDrift
    <2>3. QED
        BY <1>0, <1>a, <1>b, <2>1, <2>2, GotoAdvances, GoalAdvances
<1>6. QED
    BY <1>1, <1>2, <1>3, <1>4, <1>5

LEMMA AdmissionIsInert ==
    ASSUME Open, NEW p \in Proc,
           \/ (\E o \in Ops : Invoke(p, o)) \/ Enlist(p) \/ Attempt(p)
           \/ Wake(p) \/ CancelWait(p) \/ AdoptTarget(p)
    PROVE  Advances(p) /\ Inert(p)
<1>a. /\ InitialAt(p, op[p], pc[p])
      /\ DOMAIN pc = Proc /\ DOMAIN goal = Proc /\ DOMAIN op = Proc
      /\ pc[p] \in Holding => inertia # "IDLE"
    BY OpenControl
<1>b. /\ op[p] = "spawn" <=> p \in Creator
      /\ p \in Caller => p \notin Creator
    BY OpenRoles, ProcessesAreDistinct
<1> USE DEF InitialAt, RivalAt, InitialLabel, Advances, Inert, slotVars, wordVars,
            localVars, fiberVars, stateVars, terminalVars, generationVars, Holding,
            Kicking, Releasing, Waiting, Settling, Teardown, Probing, Working,
            Before, TornDown, LetGo
<1>1. CASE \E o \in Ops : Invoke(p, o)
    <2>1. PICK o \in Ops : Invoke(p, o)
        BY <1>1
    <2>2. o = "remove"
        BY <2>1, NothingDelivered, OpsAreOperations DEF Invoke, Admissible, Operation
    <2>3. /\ p \notin Creator /\ pc[p] = "rest" /\ pc'[p] = "enlist"
          /\ op'[p] = "remove" /\ \A q \in Proc \ {p} : op'[q] = op[q]
        BY <1>a, <1>b, <2>1, <2>2, GotoAdvances DEF Invoke
    <2>4. QED
        BY <1>a, <2>1, <2>3, GotoAdvances DEF Invoke
<1>2. CASE Enlist(p)
    BY <1>2, <1>a, GotoAdvances DEF Enlist
<1>3. CASE Attempt(p)
    <2>1. op[p] # "ready"
        BY <1>3, OpenRoles
    <2>2. QED
        BY <1>3, <1>a, <2>1, GotoAdvances DEF Attempt
<1>4. CASE Wake(p)
    BY <1>4, <1>a, GotoAdvances DEF Wake
<1>5. CASE CancelWait(p)
    BY <1>5, <1>a, <1>b, LeaveAdvances DEF CancelWait
<1>6. CASE AdoptTarget(p)
    BY <1>6, <1>a, GotoAdvances, GoalAdvances DEF AdoptTarget
<1>7. QED
    BY <1>1, <1>2, <1>3, <1>4, <1>5, <1>6

LEMMA ReadIsInert ==
    ASSUME Open, NEW p \in Proc,
           \/ CommitRecheck(p) \/ MutateServices(p) \/ ReadEdge(p)
           \/ Converge(p) \/ ConvergeJudge(p)
    PROVE  Advances(p) /\ Inert(p)
<1>a. /\ InitialAt(p, op[p], pc[p])
      /\ DOMAIN pc = Proc /\ DOMAIN goal = Proc /\ DOMAIN op = Proc
      /\ pc[p] \in Holding => inertia # "IDLE"
    BY OpenControl
<1> USE DEF InitialAt, RivalAt, InitialLabel, Advances, Inert, slotVars, wordVars,
            localVars, fiberVars, stateVars, terminalVars, generationVars, Holding,
            Kicking, Releasing, Waiting, Settling, Teardown, Probing, Working,
            Before, TornDown, LetGo
<1>1. CASE CommitRecheck(p)
    <2>1. p \notin Creator
        BY <1>1, ProcessesAreDistinct DEF CommitRecheck
    <2>2. QED
        BY <1>1, <1>a, <2>1, GotoAdvances DEF CommitRecheck
<1>2. CASE MutateServices(p)
    BY <1>2, <1>a, GotoAdvances DEF MutateServices
<1>3. CASE ReadEdge(p)
    BY <1>3, <1>a DEF ReadEdge
<1>4. CASE Converge(p)
    BY <1>4, <1>a, GotoAdvances, GoalAdvances DEF Converge
<1>5. CASE ConvergeJudge(p)
    BY <1>5, <1>a, GotoAdvances DEF ConvergeJudge
<1>6. QED
    BY <1>1, <1>2, <1>3, <1>4, <1>5

LEMMA DisposeIsInert ==
    ASSUME Open, NEW p \in Proc,
           \/ DisposeLate(p) \/ ClaimTerminal(p) \/ AwaitComplete(p)
           \/ TeardownAbandon(p) \/ ReleaseResidency(p)
           \/ PublishDisposeComplete(p)
    PROVE  Advances(p) /\ Inert(p)
<1>a. /\ InitialAt(p, op[p], pc[p])
      /\ DOMAIN pc = Proc /\ DOMAIN goal = Proc /\ DOMAIN op = Proc
      /\ pc[p] \in Holding => inertia # "IDLE"
    BY OpenControl
<1>b. op[p] = "spawn" <=> p \in Creator
    BY OpenRoles
<1> USE DEF InitialAt, RivalAt, InitialLabel, Advances, Inert, slotVars, wordVars,
            localVars, fiberVars, stateVars, terminalVars, generationVars, Holding,
            Kicking, Releasing, Waiting, Settling, Teardown, Probing, Working,
            Before, TornDown, LetGo
<1>1. CASE DisposeLate(p)
    BY <1>1, <1>a, <1>b, GotoAdvances, LeaveAdvances DEF DisposeLate, Abandon, Disposal
<1>2. CASE ClaimTerminal(p)
    BY <1>2, <1>a, <1>b, GotoAdvances DEF ClaimTerminal, Disposal
<1>3. CASE AwaitComplete(p)
    BY <1>3, <1>a, <1>b, LeaveAdvances DEF AwaitComplete
<1>4. CASE TeardownAbandon(p)
    BY <1>4, <1>a, <1>b, GotoAdvances DEF TeardownAbandon, Abandon
<1>5. CASE ReleaseResidency(p)
    BY <1>5, <1>a, <1>b, GotoAdvances DEF ReleaseResidency
<1>6. CASE PublishDisposeComplete(p)
    BY <1>6, <1>a, <1>b, LeaveAdvances DEF PublishDisposeComplete
<1>7. QED
    BY <1>1, <1>2, <1>3, <1>4, <1>5, <1>6

LEMMA CreationIsInert ==
    ASSUME Open, NEW p \in Proc, p \in Creator => op'[p] = "spawn",
           \/ Register(p) \/ InitialPassInterrupted(p) \/ InitialPass(p)
           \/ InitialSettled(p) \/ CreationUnlink(p) \/ CreationPublish(p)
           \/ CreationFailed(p) \/ InitialClear(p) \/ InitialTail(p)
    PROVE  Advances(p) /\ Inert(p)
<1>a. /\ InitialAt(p, op[p], pc[p])
      /\ DOMAIN pc = Proc /\ DOMAIN goal = Proc /\ DOMAIN op = Proc
      /\ pc[p] \in Holding => inertia # "IDLE"
    BY OpenControl
<1>b. op[p] = "spawn" <=> p \in Creator
    BY OpenRoles
<1> USE DEF InitialAt, RivalAt, InitialLabel, Advances, Inert, slotVars, wordVars,
            localVars, fiberVars, stateVars, terminalVars, generationVars, Holding,
            Kicking, Releasing, Waiting, Settling, Teardown, Probing, Working,
            Before, TornDown, LetGo
<1>1. CASE Register(p)
    BY <1>1, <1>a, GotoAdvances DEF Register
<1>2. CASE InitialPassInterrupted(p)
    BY <1>2, <1>a, <1>b, LeaveAdvances DEF InitialPassInterrupted, Abandon
<1>3. CASE InitialPass(p)
    BY <1>3, <1>a, <1>b, GotoAdvances DEF InitialPass
<1>4. CASE InitialSettled(p)
    <2>1. p \in Creator
        BY <1>4, <1>a DEF InitialSettled
    <2>2. ~error
        BY <1>4, <2>1 DEF InitialSettled, Open, Undecided, FirstApplyIs
    <2>3. QED
        BY <1>4, <1>a, <1>b, <2>1, <2>2, GotoAdvances DEF InitialSettled
<1>5. CASE CreationUnlink(p)
    BY <1>5, <1>a, GotoAdvances DEF CreationUnlink
<1>6. CASE CreationPublish(p)
    BY <1>6, <1>a, GotoAdvances DEF CreationPublish
<1>7. CASE CreationFailed(p)
    BY <1>7, <1>a, LeaveAdvances DEF CreationFailed, Abandon
<1>8. CASE InitialClear(p)
    BY <1>8, <1>a, GotoAdvances DEF InitialClear
<1>9. CASE InitialTail(p)
    <2>1. /\ p \in Creator /\ inertia # "IDLE" /\ op'[p] = op[p]
          /\ \A q \in Proc \ {p} : op'[q] = op[q]
        BY <1>9, <1>a, <1>b DEF InitialTail
    <2>2. QED
        BY <1>9, <1>a, <1>b, <2>1, GotoAdvances, SMTT(30) DEF InitialTail
<1>10. QED
    BY <1>1, <1>2, <1>3, <1>4, <1>5, <1>6, <1>7, <1>8, <1>9

\* What no process can do while the creation is open.
LEMMA NotWhileOpen ==
    ASSUME Open, NEW p \in Proc, p \in Creator => op'[p] = "spawn"
    PROVE  /\ ~AdmitDead(p) /\ ~AdmitReplacement(p)
           /\ ~Ready(p) /\ ~ReadyObserve(p) /\ ~ReadyCheck(p) /\ ~ReadyAnswer(p)
           /\ ~InitialAbandon(p) /\ ~DropSpawn(p)
           /\ ~HandoffRecheck(p) /\ ~HandoffLive(p) /\ ~HandoffDead(p)
           /\ ~Deliver(p)
           /\ ~RescueInherit(p) /\ ~RescueClaim(p) /\ ~RescueAdmitted(p)
<1>a. /\ InitialAt(p, op[p], pc[p])
      /\ DOMAIN pc = Proc /\ DOMAIN goal = Proc /\ DOMAIN op = Proc
    BY OpenControl
<1>b. op[p] \in {"none", "mutate", "converge", "remove", "spawn"}
    BY OpenRoles
<1> USE DEF InitialAt, RivalAt, InitialLabel, Kicking, Releasing, Waiting,
            Settling, Teardown
<1>1. /\ pc[p] \notin {"ready", "observe", "check_idle", "check_committed",
                       "check_sequence", "answer", "handoff_live", "handoff_dead",
                       "deliver", "rescue"}
      /\ pc[p] = "spawn_abandon" => p \in Creator
    BY <1>a
<1>2. ~AdmitDead(p) /\ ~AdmitReplacement(p)
    BY <1>b DEF AdmitDead, AdmitReplacement
<1>3. ~Ready(p) /\ ~ReadyObserve(p) /\ ~ReadyCheck(p) /\ ~ReadyAnswer(p)
    BY <1>1 DEF Ready, ReadyObserve, ReadyCheck, ReadyAnswer
<1>4. ~InitialAbandon(p) /\ ~DropSpawn(p)
    BY <1>a, <1>1 DEF InitialAbandon, DropSpawn
<1>5. /\ ~HandoffRecheck(p) /\ ~HandoffLive(p) /\ ~HandoffDead(p)
      /\ ~Deliver(p)
    BY <1>b, <1>1 DEF HandoffRecheck, HandoffLive, HandoffDead, Deliver
<1>6. ~RescueInherit(p) /\ ~RescueClaim(p) /\ ~RescueAdmitted(p)
    BY <1>b, <1>1 DEF RescueInherit, RescueClaim, RescueAdmitted
<1>7. QED
    BY <1>2, <1>3, <1>4, <1>5, <1>6

LEMMA HandoverPreserves ==
    ASSUME Open, NEW p \in Proc, HandsToTask(p)
    PROVE  Undecided'
<1>1. PICK t \in Task \ {p} :
        /\ DOMAIN pc' = Proc /\ DOMAIN goal' = Proc
        /\ \A q \in Proc \ {p, t} : pc'[q] = pc[q] /\ op'[q] = op[q]
        /\ \A q \in Proc \ {p} : goal'[q] = goal[q]
        /\ InitialAt(p, op'[p], pc'[p]) /\ InitialAt(t, op'[t], pc'[t])
        /\ pc[p] \in Holding \ {"die"} /\ pc'[p] \notin Holding
        /\ pc[t] = "free" /\ pc'[t] = "converge"
        /\ inertia # "IDLE" /\ inertia' # "IDLE"
    BY DEF HandsToTask
<1>2. t \in Proc /\ t \notin Creator /\ p \notin Creator
    BY <1>1, ProcessesAreDistinct DEF Proc, HandsToTask
<1>3. InitialControl'
    BY <1>1, <1>2 DEF Open, Undecided, InitialControl
<1>4. "free" \notin Holding /\ "converge" \in Holding
    BY DEF Holding, Probing, Settling, Teardown
<1>5. \A q \in Proc \ {p} : pc[q] \notin Holding
    BY <1>1, OwnerIsAlone
<1>6. OneOwner'
    <2>1. \A q \in Proc : pc'[q] \in Holding <=> q = t
        BY <1>1, <1>2, <1>4, <1>5
    <2>2. QED
        BY <1>1, <1>2, <2>1 DEF OneOwner
<1>7. /\ \A q \in Proc : pc'[q] \in Working \cup {"drain"} => pc'[q] = pc[q]
      /\ \A q \in Proc : pc[q] = "die" => pc'[q] = "die"
    BY <1>1, <1>2 DEF Working, Holding, Probing, Settling, Teardown
<1>8. UNCHANGED <<state, alive, applied, creation_pending, error>>
    BY DEF HandsToTask
<1>9. DeathStops'
    BY <1>7, <1>8 DEF Open, Undecided, DeathStops
<1>10. ASSUME NEW c \in Creator PROVE FirstApplyIs(c)'
    <2>1. FirstApplyIs(c) /\ c \in Proc /\ pc'[c] = pc[c] /\ goal'[c] = goal[c]
        BY <1>1, <1>2 DEF Open, Undecided, Proc
    <2>2. QED
        BY <1>7, <1>8, <2>1 DEF FirstApplyIs, HasMissing, Working
<1>11. QED
    BY <1>3, <1>6, <1>9, <1>10 DEF Undecided

LEMMA HandoverIs ==
    ASSUME Open, NEW p \in Proc,
           KickFirstTarget(p) \/ (ReleaseDrift(p) /\ op[p] \notin Driver)
    PROVE  HandsToTask(p)
<1>1. /\ pc[p] \in {"first_probe", "release_probe"} /\ SpawnConvergencePass(p)
      /\ inertia' \in {inertia, "ACTIVE"}
      /\ UNCHANGED <<state, alive, applied, creation_pending, error>>
    BY DEF KickFirstTarget, ReleaseDrift, wordVars, fiberVars, stateVars,
           terminalVars, generationVars
<1>2. p \notin Creator /\ op[p] = "mutate"
    BY <1>1, OpenRoles DEF KickFirstTarget, ReleaseDrift, Releasing, Driver
<1>3. PICK t \in Task :
        /\ pc[t] = "free"
        /\ pc' = [pc EXCEPT ![t] = "converge", ![p] = AfterClean[op[p]]]
        /\ op' = IF op[p] = "mutate" THEN [op EXCEPT ![p] = "none"] ELSE op
        /\ goal' = [goal EXCEPT ![p] = NoTarget]
    BY <1>1 DEF SpawnConvergencePass
<1>4. /\ t \in Proc /\ t # p /\ t \notin Creator
      /\ AfterClean[op[p]] = "rest"
    BY <1>1, <1>2, <1>3, ProcessesAreDistinct DEF Proc, AfterClean
<1>5. /\ InitialAt(t, op[t], pc[t])
      /\ DOMAIN pc = Proc /\ DOMAIN goal = Proc /\ DOMAIN op = Proc
      /\ inertia # "IDLE"
    BY <1>1, <1>4, OpenControl DEF Holding, Probing
<1>6. /\ DOMAIN pc' = Proc /\ DOMAIN goal' = Proc
      /\ \A q \in Proc \ {p, t} : pc'[q] = pc[q] /\ op'[q] = op[q]
      /\ \A q \in Proc \ {p} : goal'[q] = goal[q]
      /\ pc'[p] = "rest" /\ op'[p] = "none"
      /\ pc'[t] = "converge" /\ op'[t] = op[t]
    BY <1>2, <1>3, <1>4, <1>5
<1>7. InitialAt(p, op'[p], pc'[p]) /\ InitialAt(t, op'[t], pc'[t])
    BY <1>2, <1>3, <1>4, <1>5, <1>6
    DEF InitialAt, RivalAt, Kicking, Releasing, Waiting, Settling, Teardown
<1>8. pc[p] \in Holding \ {"die"} /\ pc'[p] \notin Holding
    BY <1>1, <1>6 DEF Holding, Probing, Settling, Teardown
<1>9. QED
    BY <1>1, <1>2, <1>3, <1>4, <1>5, <1>6, <1>7, <1>8 DEF HandsToTask

\* While a rival works on a generation and the Fiber lives, the creation either
\* still waits for the slot or has let go of it.
LEMMA RivalOwns ==
    ASSUME Open, NEW p \in Proc, NEW c \in Creator, p # c, pc[p] \in Holding
    PROVE  /\ pc[c] \in Before \cup LetGo \cup {"over"}
           /\ pc[c] \notin {"spawn_settled", "apply", "rollback"}
<1>1. c \in Proc /\ pc[c] \in InitialLabel
    BY OpenControl DEF Proc, InitialAt
<1>2. pc[c] \notin Holding
    BY <1>1, OwnerIsAlone
<1>3. QED
    BY <1>1, <1>2 DEF InitialLabel, Holding, Probing, Releasing, Settling, Teardown,
                      Waiting, Before, LetGo

\* A rival applies only after the creation has let go of the slot.
LEMMA RivalAppliesLate ==
    ASSUME Open, NEW p \in Proc, NEW c \in Creator, p # c,
           \/ pc[p] \in {"apply", "rollback"}
           \/ pc[p] = "decide" /\ ~WithholdsFirstApply(p)
    PROVE  pc[c] \in LetGo
<1>1. FirstApplyIs(c) /\ c \in Proc /\ DeathStops
    BY DEF Open, Undecided, Proc
<1>2. CASE pc[p] \in {"apply", "rollback"}
    BY <1>1, <1>2 DEF FirstApplyIs
<1>3. CASE pc[p] = "decide" /\ ~WithholdsFirstApply(p)
    <2>1. op[p] # "spawn" /\ alive /\ (~creation_pending \/ applied)
        <3>1. p \notin Creator
            BY OneSpawnTransaction
        <3>2. op[p] # "spawn"
            BY <3>1, OpenRoles
        <3>3. QED
            BY <1>1, <1>3, <3>2 DEF WithholdsFirstApply, DeathStops, Working
    <2>2. pc[p] \in Holding /\ "die" \in Holding
        BY <1>3 DEF Holding, Settling, Teardown
    <2>3. \A q \in Proc : pc[q] # "die"
        BY <1>3, <2>2, OwnerIsAlone
    <2>4. pc[c] \notin Before
        BY <1>1, <2>1, <2>3 DEF FirstApplyIs
    <2>5. pc[c] # "over"
        BY <1>1, <2>1 DEF FirstApplyIs, TornDown
    <2>6. QED
        BY <2>2, <2>4, <2>5, RivalOwns
<1>4. QED
    BY <1>2, <1>3

LEMMA SettleAdvances ==
    ASSUME Open, NEW p \in Proc,
           \/ Settle(p) \/ SettlePending(p) \/ SettleWithheld(p)
           \/ SettleLoading(p) \/ ApplyOk(p) \/ ApplyFails(p) \/ ParkFailure(p)
    PROVE  /\ Advances(p) /\ goal' = goal
           /\ pc[p] \in Holding /\ op[p] \in {"converge", "spawn"}
<1>a. /\ InitialAt(p, op[p], pc[p])
      /\ DOMAIN pc = Proc /\ DOMAIN goal = Proc /\ DOMAIN op = Proc
      /\ pc[p] \in Holding => inertia # "IDLE"
    BY OpenControl
<1>b. /\ AfterSettle["converge"] = "converge_probe"
      /\ AfterSettle["spawn"] = "spawn_settled"
    BY DEF AfterSettle
<1>c. /\ pc[p] \in Settling /\ goal' = goal /\ op' = op /\ inertia' = inertia
      /\ \/ Goto(p, AfterSettle[op[p]])
         \/ \E l \in {"decide", "apply", "rollback"} : Goto(p, l)
    BY DEF Settle, SettlePending, SettleWithheld, SettleLoading, ApplyOk, ApplyFails,
           ParkFailure, EndSettle, slotVars, wordVars, localVars, Settling
<1>d. op[p] \in {"converge", "spawn"} /\ (op[p] = "spawn" <=> p \in Creator)
    BY <1>c, OpenRoles
<1>1. DOMAIN pc' = Proc /\ \A q \in Proc \ {p} : pc'[q] = pc[q]
    BY <1>c, GotoAdvances
<1>2. /\ pc'[p] \in {"converge_probe", "spawn_settled"} \cup Settling
      /\ pc'[p] = "converge_probe" => op[p] = "converge"
      /\ pc'[p] = "spawn_settled" => op[p] = "spawn"
    BY <1>b, <1>c, <1>d, GotoAdvances DEF Settling
<1>3. InitialAt(p, op'[p], pc'[p])
    BY <1>a, <1>c, <1>d, <1>2 DEF InitialAt, RivalAt, InitialLabel
<1>4. pc[p] \in Holding /\ pc'[p] \in Holding
    BY <1>2, <1>c DEF Holding, Probing
<1>5. QED
    BY <1>1, <1>3, <1>4, <1>a, <1>c, <1>d DEF Advances

\* Where an end of a settle leads the creation and its rivals.
LEMMA EndSettleLeads ==
    ASSUME Open, NEW p \in Proc, EndSettle(p), pc[p] \in Settling
    PROVE  pc'[p] = IF p \in Creator THEN "spawn_settled" ELSE "converge_probe"
<1>1. op[p] \in {"converge", "spawn"} /\ (op[p] = "spawn" <=> p \in Creator)
    BY OpenRoles
<1>2. Goto(p, AfterSettle[op[p]])
    BY DEF EndSettle
<1>3. pc'[p] = AfterSettle[op[p]]
    BY <1>2, GotoAdvances
<1>4. QED
    BY <1>1, <1>3 DEF AfterSettle

LEMMA SettlePreserves ==
    ASSUME Open, NEW p \in Proc,
           Settle(p) \/ SettlePending(p) \/ SettleWithheld(p)
    PROVE  Undecided'
<1>1. /\ Advances(p) /\ goal' = goal /\ pc[p] \in Holding
      /\ InitialControl' /\ OneOwner'
    BY SettleAdvances, AdvancesKeepsControl
<1>2. \A q \in Proc \ {p} : pc'[q] = pc[q]
    BY <1>1 DEF Advances
<1>3. /\ pc[p] \in {"settle", "decide"}
      /\ UNCHANGED <<alive, applied, creation_pending>>
      /\ error' => error
      /\ \/ EndSettle(p) /\ state' \in {state, "Pending"}
         \/ alive /\ pc'[p] = "decide" /\ state' \in {state, "Unloading"}
    BY GotoAdvances DEF Settle, SettlePending, SettleWithheld, Publish,
       terminalVars, generationVars, fiberVars, stateVars
<1>4. pc'[p] \in {"spawn_settled", "converge_probe", "decide"}
    BY <1>3, EndSettleLeads DEF Settling
<1>5. DeathStops'
    <2>1. DeathStops
        BY DEF Open, Undecided
    <2>2. pc'[p] = "decide" => alive
        BY <1>3, EndSettleLeads DEF Settling
    <2>3. QED
        BY <1>2, <1>3, <1>4, <2>1, <2>2 DEF DeathStops, Working
<1>6. ASSUME NEW c \in Creator PROVE FirstApplyIs(c)'
    <2>1. FirstApplyIs(c) /\ c \in Proc
        BY DEF Open, Undecided, Proc
    <2>2. CASE p = c
        <3>1. ~error
            BY <1>3, <2>1, <2>2 DEF FirstApplyIs, LetGo
        <3>2. \A q \in Proc \ {c} : pc'[q] \notin {"apply", "rollback"}
            BY <1>2, <1>3, <2>1, <2>2 DEF FirstApplyIs, LetGo
        <3>3. QED
            BY <1>3, <1>4, <2>2, <3>1, <3>2
            DEF FirstApplyIs, Before, Waiting, TornDown
    <2>3. CASE p # c
        <3>1. pc'[c] = pc[c] /\ pc[c] \notin {"spawn_settled", "apply", "rollback"}
            BY <1>1, <1>2, <2>1, <2>3, RivalOwns
        <3>2. \A q \in Proc : pc[q] = "die" => pc'[q] = "die"
            BY <1>2, <1>3
        <3>3. \A q \in Proc : pc'[q] \in {"apply", "rollback"} => pc[q] = pc'[q]
            BY <1>2, <1>4
        <3>4. QED
            BY <1>3, <2>1, <3>1, <3>2, <3>3 DEF FirstApplyIs
    <2>4. QED
        BY <2>2, <2>3
<1>7. QED
    BY <1>1, <1>5, <1>6 DEF Undecided

LEMMA ApplyPreserves ==
    ASSUME Open, NEW p \in Proc,
           SettleLoading(p) \/ ApplyOk(p) \/ ApplyFails(p) \/ ParkFailure(p)
    PROVE  Undecided'
<1>1. /\ Advances(p) /\ goal' = goal /\ pc[p] \in Holding
      /\ InitialControl' /\ OneOwner'
    BY SettleAdvances, AdvancesKeepsControl
<1>2. \A q \in Proc \ {p} : pc'[q] = pc[q]
    BY <1>1 DEF Advances
<1>3. /\ pc[p] \in Working /\ pc[p] \in Settling
      /\ UNCHANGED <<alive, creation_pending>>
      /\ state' \in {"Loading", "Active", "Unloading", "Failed"}
      /\ \/ EndSettle(p)
         \/ pc'[p] \in {"apply", "rollback"} /\ error' = error
    BY GotoAdvances DEF SettleLoading, ApplyOk, ApplyFails, ParkFailure, Publish,
       terminalVars, generationVars, Working, Settling
<1>4. pc'[p] \in {"spawn_settled", "converge_probe", "apply", "rollback"}
    BY <1>3, EndSettleLeads
<1>5. alive /\ DeathStops
    BY <1>3 DEF Open, Undecided, DeathStops
<1>6. DeathStops'
    BY <1>2, <1>3, <1>4, <1>5 DEF DeathStops
<1>7. ASSUME NEW c \in Creator PROVE FirstApplyIs(c)'
    <2>1. FirstApplyIs(c) /\ c \in Proc
        BY DEF Open, Undecided, Proc
    <2>2. CASE p = c
        <3>1. ~error
            BY <1>3, <2>1, <2>2 DEF FirstApplyIs, LetGo, Working
        <3>2. \A q \in Proc \ {c} : pc'[q] \notin {"apply", "rollback"}
            BY <1>2, <1>3, <2>1, <2>2 DEF FirstApplyIs, LetGo, Working
        <3>3. ~HasMissing(goal[c]) /\ ~HasMissing(goal'[c])
            BY <1>1, <2>1, <2>2
            DEF FirstApplyIs, SettleLoading, ApplyOk, ApplyFails, ParkFailure, HasMissing
        <3>4. pc'[c] \in {"spawn_settled", "apply", "rollback"}
            BY <1>3, <1>4, <2>2, EndSettleLeads
        <3>5. error' => pc'[c] = "spawn_settled" /\ state' = "Failed"
            <4>1. CASE ParkFailure(p)
                BY <2>2, <4>1, EndSettleLeads DEF ParkFailure, Publish, Settling
            <4>2. CASE SettleLoading(p) \/ ApplyOk(p) \/ ApplyFails(p)
                BY <3>1, <4>2 DEF SettleLoading, ApplyOk, ApplyFails
            <4>3. QED
                BY <4>1, <4>2
        <3>6. QED
            BY <3>2, <3>3, <3>4, <3>5
            DEF FirstApplyIs, Before, Waiting, TornDown, HasMissing
    <2>3. CASE p # c
        <3>1. pc[c] \in LetGo /\ pc'[c] = pc[c]
            BY <1>2, <2>1, <2>3, RivalAppliesLate
            DEF SettleLoading, ApplyOk, ApplyFails, ParkFailure
        <3>2. QED
            BY <3>1 DEF FirstApplyIs, LetGo, Before, Waiting, TornDown
    <2>4. QED
        BY <2>2, <2>3
<1>8. QED
    BY <1>1, <1>6, <1>7 DEF Undecided

LEMMA TeardownAdvances ==
    ASSUME Open, NEW p \in Proc,
           \/ TeardownUnload(p) \/ TeardownDie(p) \/ TeardownDisposed(p)
           \/ InitialFailed(p)
    PROVE  /\ Advances(p) /\ pc[p] \in Holding
           /\ UNCHANGED <<applied, goal>>
<1>a. /\ InitialAt(p, op[p], pc[p])
      /\ DOMAIN pc = Proc /\ DOMAIN goal = Proc /\ DOMAIN op = Proc
      /\ pc[p] \in Holding => inertia # "IDLE"
    BY OpenControl
<1>b. /\ AfterTeardown["remove"] = "abandon"
      /\ AfterTeardown["spawn"] = "spawn_unlink"
    BY DEF AfterTeardown
<1>c. /\ pc[p] \in Teardown \cup {"spawn_settled"}
      /\ goal' = goal /\ op' = op /\ inertia' = inertia /\ applied' = applied
      /\ \/ Goto(p, AfterTeardown[op[p]]) /\ pc[p] \in Teardown
         \/ \E l \in Teardown : Goto(p, l)
    BY DEF TeardownUnload, TeardownDie, TeardownDisposed, InitialFailed, slotVars,
           wordVars, localVars, generationVars, Teardown
<1>d. /\ pc[p] \in Teardown => op[p] \in {"remove", "spawn"}
      /\ op[p] = "spawn" <=> p \in Creator
      /\ pc[p] = "spawn_settled" => p \in Creator
    BY <1>a, OpenRoles
    DEF InitialAt, RivalAt, Kicking, Releasing, Waiting, Settling, Teardown
<1>1. DOMAIN pc' = Proc /\ \A q \in Proc \ {p} : pc'[q] = pc[q]
    BY <1>c, GotoAdvances
<1>2. /\ pc'[p] \in {"abandon", "spawn_unlink"} \cup Teardown
      /\ pc'[p] = "abandon" => op[p] = "remove"
      /\ pc'[p] = "spawn_unlink" => op[p] = "spawn"
    BY <1>b, <1>c, <1>d, GotoAdvances DEF Teardown
<1>3. InitialAt(p, op'[p], pc'[p])
    BY <1>a, <1>c, <1>d, <1>2 DEF InitialAt, RivalAt, InitialLabel
<1>4. pc[p] \in Holding /\ pc'[p] \in Holding
    BY <1>2, <1>c DEF Holding, Probing
<1>5. QED
    BY <1>1, <1>3, <1>4, <1>a, <1>c, <1>d DEF Advances

\* Where the end of the teardown body leads.
LEMMA AfterTeardownLeads ==
    ASSUME Open, NEW p \in Proc, Goto(p, AfterTeardown[op[p]]), pc[p] \in Teardown
    PROVE  pc'[p] = IF p \in Creator THEN "spawn_unlink" ELSE "abandon"
<1>1. op[p] \in {"remove", "spawn"} /\ (op[p] = "spawn" <=> p \in Creator)
    BY OpenRoles
<1>2. pc'[p] = AfterTeardown[op[p]]
    BY GotoAdvances
<1>3. QED
    BY <1>1, <1>2 DEF AfterTeardown

LEMMA TeardownPreserves ==
    ASSUME Open, NEW p \in Proc,
           \/ TeardownUnload(p) \/ TeardownDie(p) \/ TeardownDisposed(p)
           \/ InitialFailed(p)
    PROVE  Undecided'
<1>1. /\ Advances(p) /\ pc[p] \in Holding /\ UNCHANGED <<applied, goal>>
      /\ InitialControl' /\ OneOwner'
    BY TeardownAdvances, AdvancesKeepsControl
<1>2. \A q \in Proc \ {p} : pc'[q] = pc[q] /\ pc[q] \notin Holding
    BY <1>1, OwnerIsAlone DEF Advances
<1>3. DeathStops /\ "decide" \in Holding /\ "apply" \in Holding
      /\ "rollback" \in Holding /\ "drain" \in Holding /\ "die" \in Holding
    BY DEF Open, Undecided, Holding, Settling, Teardown
\* Nobody works, drains or dies but p, and p is past working.
<1>4. /\ \/ pc'[p] = "die" /\ state' = "Unloading"
         \/ pc'[p] = "drain" /\ ~alive' /\ state' = state
         \/ /\ pc'[p] = IF p \in Creator THEN "spawn_unlink" ELSE "abandon"
            /\ ~alive /\ state' \in {state, "Disposed"}
         \/ pc'[p] = "unload" /\ state' = state /\ ~error'
      /\ alive' => alive
      /\ error' => error
    <2>1. CASE TeardownUnload(p)
        BY <1>3, <2>1, GotoAdvances, AfterTeardownLeads
        DEF TeardownUnload, Publish, terminalVars, stateVars, DeathStops, Teardown
    <2>2. CASE TeardownDie(p)
        BY <2>2, GotoAdvances DEF TeardownDie, stateVars, generationVars
    <2>3. CASE TeardownDisposed(p)
        BY <1>3, <2>3, AfterTeardownLeads
        DEF TeardownDisposed, Publish, terminalVars, DeathStops, Teardown
    <2>4. CASE InitialFailed(p)
        BY <2>4, GotoAdvances DEF InitialFailed, stateVars
    <2>5. QED
        BY <2>1, <2>2, <2>3, <2>4
<1>5. \A q \in Proc : pc'[q] \notin Working
    BY <1>2, <1>3, <1>4 DEF Working
<1>6. DeathStops'
    <2>1. \A q \in Proc : pc'[q] = "drain" => ~alive'
        BY <1>2, <1>3, <1>4
    <2>2. state' = "Disposed" => ~alive'
        BY <1>3, <1>4 DEF DeathStops
    <2>3. QED
        BY <1>5, <2>1, <2>2 DEF DeathStops
<1>7. ASSUME NEW c \in Creator PROVE FirstApplyIs(c)'
    <2>1. FirstApplyIs(c) /\ c \in Proc
        BY DEF Open, Undecided, Proc
    <2>2. /\ \A q \in Proc : pc'[q] \notin {"apply", "rollback"}
        BY <1>5 DEF Working
    <2>3. CASE p = c
        <3>1. pc'[c] \in {"die", "drain", "unload", "spawn_unlink"}
              /\ (pc'[c] = "spawn_unlink" => ~alive')
            BY <1>4, <2>3
        <3>2. ~error'
            <4>1. CASE InitialFailed(p)
                BY <4>1 DEF InitialFailed
            <4>2. CASE TeardownUnload(p) \/ TeardownDie(p) \/ TeardownDisposed(p)
                <5>1. pc[p] \in {"unload", "die", "drain"}
                    BY <4>2 DEF TeardownUnload, TeardownDie, TeardownDisposed
                <5>2. ~error
                    BY <2>1, <2>3, <5>1 DEF FirstApplyIs, LetGo
                <5>3. QED
                    BY <1>4, <5>2
            <4>3. QED
                BY <4>1, <4>2
        <3>3. QED
            BY <2>2, <3>1, <3>2 DEF FirstApplyIs, Before, Waiting, TornDown
    <2>4. CASE p # c
        <3>1. pc'[c] = pc[c] /\ pc[c] \notin {"spawn_settled", "apply", "rollback"}
            BY <1>1, <1>2, <2>1, <2>4, RivalOwns
        <3>2. creation_pending' = creation_pending \/ pc'[p] = "die" \/ ~alive'
            <4>1. CASE TeardownUnload(p)
                <5>1. pc'[p] = "die" \/ state = "Disposed"
                    BY <4>1, GotoAdvances DEF TeardownUnload
                <5>2. state = "Disposed" => ~alive
                    BY <1>3 DEF DeathStops
                <5>3. QED
                    BY <1>4, <5>1, <5>2
            <4>2. CASE TeardownDie(p) \/ TeardownDisposed(p) \/ InitialFailed(p)
                BY <4>2 DEF TeardownDie, TeardownDisposed, InitialFailed, generationVars
            <4>3. QED
                BY <4>1, <4>2
        <3>3. (\E q \in Proc : pc[q] = "die") => pc[p] = "die"
            BY <1>2, <1>3
        <3>4. pc[p] = "die" => ~alive'
            BY DEF TeardownUnload, TeardownDie, TeardownDisposed, InitialFailed
        <3>5. pc[c] \in Before =>
                  creation_pending' \/ ~alive' \/ (\E q \in Proc : pc'[q] = "die")
            BY <1>4, <2>1, <3>2, <3>3, <3>4 DEF FirstApplyIs
        <3>6. QED
            BY <1>1, <1>4, <2>1, <2>2, <3>1, <3>5 DEF FirstApplyIs
    <2>5. QED
        BY <2>3, <2>4
<1>8. QED
    BY <1>1, <1>6, <1>7 DEF Undecided

LEMMA StepPreserves ==
    ASSUME Open, NEW p \in Proc, p \in Creator => op'[p] = "spawn",
           SpawnStep(p) \/ UserStep(p) \/ DropSpawn(p)
    PROVE  Undecided'
<1>1. CASE Kick(p) \/ KickActive(p) \/ KickReleasing(p) \/ KickOffRuntime(p)
           \/ KickIdle(p)
    BY <1>1, KickIsInert, InertPreserves
<1>2. CASE \/ StoreReleasing(p) \/ ReleaseReprobe(p) \/ ReleaseSettle(p)
           \/ ReleaseCas(p)
           \/ ReleaseDrift(p) /\ op[p] \in Driver
    BY <1>2, ReleaseIsInert, InertPreserves
<1>3. CASE KickFirstTarget(p) \/ (ReleaseDrift(p) /\ op[p] \notin Driver)
    BY <1>3, HandoverIs, HandoverPreserves
<1>4. CASE \/ (\E o \in Ops : Invoke(p, o)) \/ Enlist(p) \/ Attempt(p)
           \/ Wake(p) \/ CancelWait(p) \/ AdoptTarget(p)
    BY <1>4, AdmissionIsInert, InertPreserves
<1>5. CASE \/ CommitRecheck(p) \/ MutateServices(p) \/ ReadEdge(p)
           \/ Converge(p) \/ ConvergeJudge(p)
    BY <1>5, ReadIsInert, InertPreserves
<1>6. CASE \/ DisposeLate(p) \/ ClaimTerminal(p) \/ AwaitComplete(p)
           \/ TeardownAbandon(p) \/ ReleaseResidency(p)
           \/ PublishDisposeComplete(p)
    BY <1>6, DisposeIsInert, InertPreserves
<1>7. CASE \/ Register(p) \/ InitialPassInterrupted(p) \/ InitialPass(p)
           \/ InitialSettled(p) \/ CreationUnlink(p) \/ CreationPublish(p)
           \/ CreationFailed(p) \/ InitialClear(p) \/ InitialTail(p)
    BY <1>7, CreationIsInert, InertPreserves
<1>8. CASE Settle(p) \/ SettlePending(p) \/ SettleWithheld(p)
    BY <1>8, SettlePreserves
<1>9. CASE SettleLoading(p) \/ ApplyOk(p) \/ ApplyFails(p) \/ ParkFailure(p)
    BY <1>9, ApplyPreserves
<1>10. CASE \/ TeardownUnload(p) \/ TeardownDie(p) \/ TeardownDisposed(p)
            \/ InitialFailed(p)
    BY <1>10, TeardownPreserves
<1>11. QED
    BY <1>1, <1>2, <1>3, <1>4, <1>5, <1>6, <1>7, <1>8, <1>9, <1>10, NotWhileOpen
    DEF SpawnStep, Step, CreationStep, UserStep

\* No step turns an operation back into the initial pass of a creation.
LEMMA OperationAfter ==
    ASSUME DOMAIN op = Proc, NEW p \in Proc,
           SpawnStep(p) \/ UserStep(p) \/ DropSpawn(p)
    PROVE  /\ DOMAIN op' = Proc
           /\ \A c \in Proc : op'[c] = "spawn" => op[c] = "spawn"
<1> DEFINE Kept == /\ DOMAIN op' = Proc
                   /\ \A c \in Proc : op'[c] = "spawn" => op[c] = "spawn"
<1> SUFFICES Kept
    OBVIOUS
<1>a. ASSUME NEW l, Leave(p, l) PROVE Kept
    BY <1>a DEF Leave
<1>b. ASSUME NEW o, op' = [op EXCEPT ![p] = o], o # "spawn" \/ o = op[p] PROVE Kept
    BY <1>b
<1>c. op' = op => Kept
    OBVIOUS
<1>d. SpawnConvergencePass(p) => Kept
    BY DEF SpawnConvergencePass
<1>e. EndSettle(p) => Kept
    BY <1>c DEF EndSettle, localVars
<1> HIDE DEF Kept
<1>1. CASE Kick(p) \/ KickActive(p) \/ KickReleasing(p) \/ KickOffRuntime(p)
           \/ KickIdle(p) \/ KickFirstTarget(p)
    BY <1>1, <1>a, <1>c, <1>d
    DEF Kick, KickActive, KickReleasing, KickOffRuntime, KickIdle, KickFirstTarget,
        localVars
<1>2. CASE \/ StoreReleasing(p) \/ ReleaseReprobe(p) \/ ReleaseSettle(p)
           \/ ReleaseCas(p) \/ ReleaseDrift(p)
    BY <1>2, <1>a, <1>c, <1>d
    DEF StoreReleasing, ReleaseReprobe, ReleaseSettle, ReleaseCas, ReleaseDrift,
        localVars
<1>3. CASE \E o \in Ops : Invoke(p, o)
    <2>1. PICK o \in Ops : op' = [op EXCEPT ![p] = o]
        BY <1>3 DEF Invoke
    <2>2. o # "spawn"
        BY OpsAreOperations DEF Operation
    <2>3. QED
        BY <1>b, <2>1, <2>2
<1>4. CASE Enlist(p) \/ Attempt(p) \/ Wake(p) \/ CancelWait(p) \/ AdmitDead(p)
           \/ AdmitReplacement(p) \/ AdoptTarget(p)
    BY <1>4, <1>a, <1>c
    DEF Enlist, Attempt, Wake, CancelWait, AdmitDead, AdmitReplacement, AdoptTarget,
        localVars
<1>5. CASE CommitRecheck(p) \/ MutateServices(p) \/ ReadEdge(p)
           \/ Converge(p) \/ ConvergeJudge(p)
    BY <1>5, <1>b, <1>c
    DEF CommitRecheck, MutateServices, ReadEdge, Converge, ConvergeJudge, localVars
<1>6. CASE \/ Settle(p) \/ SettlePending(p) \/ SettleWithheld(p)
           \/ SettleLoading(p) \/ ApplyOk(p) \/ ApplyFails(p) \/ ParkFailure(p)
    BY <1>6, <1>c, <1>e
    DEF Settle, SettlePending, SettleWithheld, SettleLoading, ApplyOk, ApplyFails,
        ParkFailure, localVars
<1>7. CASE \/ DisposeLate(p) \/ ClaimTerminal(p) \/ AwaitComplete(p)
           \/ TeardownUnload(p) \/ TeardownDie(p) \/ TeardownDisposed(p)
           \/ TeardownAbandon(p) \/ ReleaseResidency(p) \/ PublishDisposeComplete(p)
    BY <1>7, <1>a, <1>c
    DEF DisposeLate, ClaimTerminal, AwaitComplete, TeardownUnload, TeardownDie,
        TeardownDisposed, TeardownAbandon, ReleaseResidency, PublishDisposeComplete,
        localVars
<1>8. CASE Ready(p) \/ ReadyObserve(p) \/ ReadyCheck(p) \/ ReadyAnswer(p)
    BY <1>8, <1>a, <1>c DEF Ready, ReadyObserve, ReadyCheck, ReadyAnswer, localVars
<1>9. CASE \/ Register(p) \/ InitialPassInterrupted(p) \/ InitialPass(p)
           \/ InitialSettled(p) \/ InitialFailed(p)
           \/ CreationUnlink(p) \/ CreationPublish(p) \/ CreationFailed(p)
           \/ InitialClear(p)
    BY <1>9, <1>a, <1>c
    DEF Register, InitialPassInterrupted, InitialPass, InitialSettled, InitialFailed,
        CreationUnlink, CreationPublish, CreationFailed, InitialClear, localVars
<1>10. CASE InitialTail(p) \/ InitialAbandon(p) \/ DropSpawn(p)
    BY <1>10, <1>b DEF InitialTail, InitialAbandon, DropSpawn
<1>11. CASE \/ HandoffRecheck(p) \/ HandoffLive(p) \/ HandoffDead(p) \/ Deliver(p)
            \/ RescueInherit(p) \/ RescueClaim(p) \/ RescueAdmitted(p)
    BY <1>11, <1>a, <1>c
    DEF HandoffRecheck, HandoffLive, HandoffDead, Deliver, RescueInherit,
        RescueClaim, RescueAdmitted, localVars
<1>12. QED
    BY <1>1, <1>2, <1>3, <1>4, <1>5, <1>6, <1>7, <1>8, <1>9, <1>10, <1>11
    DEF SpawnStep, Step, CreationStep, UserStep

LEMMA CreationInvInit == SpawnInit => CreationInv
<1> SUFFICES ASSUME SpawnInit PROVE CreationInv
    OBVIOUS
<1>1. /\ \A p \in Proc : /\ p \in Caller => pc[p] = "rest" /\ op[p] = "none"
                         /\ p \in Task => pc[p] = "free" /\ op[p] = "converge"
                         /\ p \in Creator => pc[p] = "register" /\ op[p] = "spawn"
      /\ DOMAIN pc = Proc /\ DOMAIN goal = Proc /\ DOMAIN op = Proc
    BY ProcessesAreDistinct DEF SpawnInit
<1>2. InitialControl
    BY <1>1, ProcessesAreDistinct DEF InitialControl, InitialAt, RivalAt, InitialLabel, Proc
<1>3. \A p \in Proc : pc[p] \in {"rest", "free", "register"}
    BY <1>1 DEF Proc
<1>4. OneOwner
    BY <1>3 DEF OneOwner, SpawnInit, Holding, Probing, Settling, Teardown
<1>5. DeathStops
    BY <1>3 DEF DeathStops, SpawnInit, Working
<1>6. ASSUME NEW c \in Creator PROVE FirstApplyIs(c)
    BY <1>1, <1>3 DEF FirstApplyIs, SpawnInit, TornDown, Proc
<1>7. QED
    BY <1>1, <1>2, <1>4, <1>5, <1>6 DEF CreationInv, Undecided

LEMMA CreationInvNext == CreationInv /\ [SpawnNext]_vars => CreationInv'
<1> SUFFICES ASSUME CreationInv, [SpawnNext]_vars PROVE CreationInv'
    OBVIOUS
<1>1. CASE UNCHANGED vars
    BY <1>1
    DEF CreationInv, Undecided, InitialControl, OneOwner, DeathStops, FirstApplyIs,
        HasMissing, vars, slotVars, wordVars, fiberVars, stateVars, terminalVars,
        generationVars, localVars
<1>2. CASE SpawnNext
    <2>1. PICK p \in Proc : SpawnStep(p) \/ UserStep(p) \/ DropSpawn(p)
        BY <1>2 DEF SpawnNext
    <2>2. /\ DOMAIN op' = Proc
          /\ \A c \in Proc : op'[c] = "spawn" => op[c] = "spawn"
        BY <2>1, OperationAfter DEF CreationInv
    <2>3. ASSUME NEW c \in Creator, op'[c] = "spawn" PROVE Undecided'
        <3>1. op[c] = "spawn" /\ \A d \in Creator : d = c
            BY <2>2, <2>3, OneSpawnTransaction DEF Proc
        <3>2. Open
            BY <3>1 DEF CreationInv, Open
        <3>3. QED
            BY <2>1, <2>3, <3>1, <3>2, StepPreserves
    <2>4. QED
        BY <2>2, <2>3 DEF CreationInv
<1>3. QED
    BY <1>1, <1>2 DEF SpawnNext

\* The first apply, and so its failure, belongs to the creation: whatever
\* mutations, convergence tasks and group removals race it, until the initial
\* pass lets go of the slot a parked failure is the one it has just settled
\* itself and is about to report as InitialApply.
THEOREM FirstFailure == SpawnSpec => []FirstFailureIsTheCreations
<1>1. CreationInv => FirstFailureIsTheCreations
    BY DEF CreationInv, Undecided, FirstApplyIs, LetGo, FirstFailureIsTheCreations
<1>2. QED
    BY <1>1, CreationInvInit, CreationInvNext, PTL DEF SpawnSpec
=============================================================================
