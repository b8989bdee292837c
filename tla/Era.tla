-------------------------------- MODULE Era --------------------------------
(***************************************************************************)
(* Era swap (fiber/era.rs), the Registry (registry.rs), disposal and group *)
(* removal (fiber/mod.rs), the settle-context attribution that refuses     *)
(* self-waits (fiber/settle_ctx.rs) and the seal that carries the Plugin   *)
(* from one era to the next (plugin.rs).                                   *)
(*                                                                         *)
(* The Fibers are the allocations of one Plugin type, which publishes one  *)
(* Service; Dependent is a Fiber of another type that requires it.  A      *)
(* "body" is user code run by the framework under a slot: an apply, the    *)
(* cleanups of a teardown, a pass of Dependent.  A caller runs outside all *)
(* of them or is hosted by one, which cannot return before the call does.  *)
(***************************************************************************)
EXTENDS Naturals, FiniteSetsExt

CONSTANTS
    Caller,          \* tasks that call lifecycle operations
    Dependent,       \* the Fiber that requires the Service
    MaxFibers,       \* bound: Fibers of the type, over all eras
    MaxOps,          \* bound: operations started
    HostedCleanups,  \* whether cleanups call lifecycle operations too
    None

ASSUME BoundAssumption == MaxFibers \in Nat \ {0} /\ MaxOps \in Nat
ASSUME HostAssumption  == HostedCleanups \in BOOLEAN

Nobody == 0
Fiber  == 1..MaxFibers
Body   == Fiber \cup {Dependent}
Operation == {"dispose", "remove", "spawn", "era", "cleanup"}

ASSUME CallerAssumption    == IsFiniteSet(Caller) /\ None \notin Caller \cup Operation
ASSUME DependentAssumption == Dependent \notin Fiber

VARIABLES
    born,        \* Fibers allocated so far
    current,     \* Registry.allocations: the mapped group, named by its first member
    group,       \* PluginGroup.fibers of every allocation, mapped or detached
    residents,   \* Registry.residents
    claim,       \* Fiber.residency: the allocation a Fiber's claim names
    known,       \* Fibers whose handle was delivered
    origin,      \* the Fiber an era swap made this one from
    installed, alive, active, disposing, complete, slot,
    indexed,     \* DependencyIndex: the Fibers of the type it names
    seal,        \* TypedPlugin.state: at home, leased to an apply, or moved on
    provider,    \* the Fiber that occupies the Service's slot
    owed,        \* Dependent has a committed revision to settle
    frames,      \* the frames code in a body is attributed to; {} when none runs
    task,        \* what each caller's operation has come to
    ops

registryVars == <<current, group, residents, claim>>
fiberVars    == <<installed, indexed, alive, active, disposing, complete, slot, seal>>
lineVars     == <<born, known, origin>>
vars == <<registryVars, fiberVars, frames, lineVars, provider, owed, task, ops>>

-----------------------------------------------------------------------------
\* Bodies and attribution

Running(b) == frames[b] # {}

\* capture_attribution, in the body that hosts a call.
Attribution(h) == IF h = None THEN {} ELSE frames[h]

\* bracket: b's body runs with one more frame on its driver's stack.
Enter(b, under) == frames' = [frames EXCEPT ![b] = under \cup {b}]

\* The bodies that cannot return before b's does.
Drives(c, b) == \/ task[c].at = "drain" /\ task[c].fiber = b
                \/ task[c].at = "apply" /\ task[c].succ = b

Hosting(B) == {task[c].host : c \in {d \in Caller : task[d].waits /\ \E b \in B : Drives(d, b)}}

Awaiting(b) ==
    LET chain[n \in 0..Cardinality(Caller)] ==
            IF n = 0 THEN {b} ELSE chain[n - 1] \cup Hosting(chain[n - 1])
    IN  chain[Cardinality(Caller)] \ {None}

\* A body returns once the calls it hosts have.
Returned(b) == \A c \in Caller : task[c].host = b => ~task[c].waits

\* Slip: copies of a frame outlive its scope.
LingeringFrames(b) == [c \in Caller |-> [task[c] EXCEPT !.host = IF @ = b THEN None ELSE @]]

\* SettleFrameGuard::drop: the frame stops refusing in every copy of it.
Left(b) ==
    [c \in Caller |-> [task[c] EXCEPT !.attr = @ \ {b}, !.host = IF @ = b THEN None ELSE @]]

Leave(b) == frames' = [x \in Body |-> IF x = b THEN {} ELSE frames[x] \ {b}]

-----------------------------------------------------------------------------
\* The Service

\* The occurrence Dependent resolves.
Shown == IF provider # Nobody /\ alive[provider] /\ active[provider] THEN provider ELSE Nobody

\* The slot can be taken.
Vacant == IF provider = Nobody THEN TRUE ELSE ~alive[provider]

\* CommittedServiceDrift: a change of visibility commits Dependent's revision.
Drifts == owed' = (owed \/ Shown' # Shown)

Quiet == frames[Dependent] = {} /\ ~owed

-----------------------------------------------------------------------------
\* Registry

\* attach_fiber: mapping, claim and membership in one critical section.
AttachFiber(f) ==
    LET a == IF current = Nobody THEN f ELSE current
    IN  /\ current' = a
        /\ claim' = [claim EXCEPT ![f] = a]
        /\ group' = [group EXCEPT ![a] = @ \cup {f}]
        /\ residents' = residents \cup {f}

\* Slip: an emptied group takes the mapping of its key with it, whosever it is.
ReleaseByKey(f) ==
    IF claim[f] = Nobody
    THEN UNCHANGED registryVars
    ELSE /\ claim' = [claim EXCEPT ![f] = Nobody]
         /\ group' = [group EXCEPT ![claim[f]] = @ \ {f}]
         /\ current' = IF group'[claim[f]] = {} THEN Nobody ELSE current
         /\ residents' = residents \ {f}

\* release_residency, idempotent: only the exact allocation is pruned.
ReleaseResidency(f) ==
    IF claim[f] = Nobody
    THEN UNCHANGED registryVars
    ELSE /\ claim' = [claim EXCEPT ![f] = Nobody]
         /\ group' = [group EXCEPT ![claim[f]] = @ \ {f}]
         /\ current' = IF current = claim[f] /\ group'[current] = {} THEN Nobody ELSE current
         /\ residents' = residents \ {f}

-----------------------------------------------------------------------------
\* Tasks

Resting == [op |-> None, at |-> "idle", fiber |-> Nobody, succ |-> Nobody, freed |-> Nobody,
            frozen |-> {}, edges |-> FALSE, host |-> None, attr |-> {}, waits |-> FALSE]

At(c, op, at) == task[c].op = op /\ task[c].at = at
Goto(c, at)   == task' = [task EXCEPT ![c].at = at]
End(c)        == task' = [task EXCEPT ![c] = Resting]

Init ==
    /\ born = 1 /\ known = {1} /\ origin = [f \in Fiber |-> Nobody]
    /\ current = 1 /\ residents = {1}
    /\ group = [a \in Fiber |-> IF a = 1 THEN {1} ELSE {}]
    /\ claim = [f \in Fiber |-> IF f = 1 THEN 1 ELSE Nobody]
    /\ installed = [f \in Fiber |-> f = 1] /\ indexed = {1}
    /\ alive = [f \in Fiber |-> TRUE]
    /\ active = [f \in Fiber |-> f = 1]
    /\ disposing = [f \in Fiber |-> FALSE] /\ complete = [f \in Fiber |-> FALSE]
    /\ slot = [f \in Fiber |-> None] /\ seal = [f \in Fiber |-> "home"]
    /\ provider \in {Nobody, 1} /\ owed = (provider = 1)
    /\ frames = [b \in Body |-> {}]
    /\ task = [c \in Caller |-> Resting] /\ ops = MaxOps

\* Calls hosted by different Fibers that wait for one another are the
\* consumer's to avoid; refusal is about a call's own chain of bodies.
OneChain(c, h) ==
    h # None =>
      \A o \in Caller \ {c} :
        task[o].host # None /\ task[o].waits => task[o].host \in Awaiting(h)

Host(c) ==
    {h \in {None} \cup Body :
       /\ h # None => Running(h) /\ (HostedCleanups \/ h = Dependent \/ alive[h])
       /\ OneChain(c, h)}

Started(op, at, f, h) ==
    [Resting EXCEPT !.op = op, !.at = at, !.fiber = f, !.host = h,
                    !.attr = Attribution(h), !.waits = TRUE]

Called(c) == task[c].at = "idle" /\ ops > 0 /\ ops' = ops - 1

\* Bound: a Fiber is left for every creation under way.
Room ==
    born + Cardinality({c \in Caller : task[c].op \in {"spawn", "era"} /\ task[c].succ = Nobody})
      < MaxFibers

-----------------------------------------------------------------------------
\* Disposal

\* FiberHandle::dispose; refused from f's own settle context, and an answer
\* already given is returned.
Dispose(c) ==
    /\ Called(c)
    /\ \E h \in Host(c), f \in known :
         /\ f \notin Attribution(h) /\ ~complete[f]
         /\ task' = [task EXCEPT ![c] = Started("dispose", "claim", f, h)]
    /\ UNCHANGED <<registryVars, fiberVars, frames, lineVars, provider, owed>>

\* Where an operation goes on once its Fiber's terminal barrier is complete.
AfterBarrier(c) ==
    CASE task[c].op = "dispose" -> End(c)
      [] task[c].op = "remove"  -> Goto(c, "next")
      [] task[c].op = "era"     -> Goto(c, "converge")
      [] task[c].op = "cleanup" -> Goto(c, "last")

\* Fiber::dispose: the slot is claimed, then the terminal mark; who finds it
\* set gives the slot back and joins the owner's barrier.
ClaimDispose(c) ==
    LET f == task[c].fiber
    IN  /\ task[c].at = "claim" /\ task[c].op # "era" /\ slot[f] = None
        /\ \/ /\ complete[f] /\ AfterBarrier(c)
              /\ UNCHANGED <<disposing, slot>>
           \/ /\ ~complete[f] /\ disposing[f]
              /\ Goto(c, "join")
              /\ UNCHANGED <<disposing, slot>>
           \/ /\ ~complete[f] /\ ~disposing[f]
              /\ disposing' = [disposing EXCEPT ![f] = TRUE]
              /\ slot' = [slot EXCEPT ![f] = c]
              /\ Goto(c, "teardown")
        /\ UNCHANGED <<registryVars, installed, indexed, alive, active, complete, seal, frames, lineVars,
                       provider, owed, ops>>

\* wait_dispose_complete.
Join(c) ==
    /\ task[c].at = "join" /\ complete[task[c].fiber]
    /\ AfterBarrier(c)
    /\ UNCHANGED <<registryVars, fiberVars, frames, lineVars, provider, owed, ops>>

\* The dispose and removal owners start from an empty attribution; the era
\* owner carries its caller's.
OwnerAttribution(c) == IF task[c].op = "era" THEN task[c].attr ELSE {}

\* teardown_body up to its drain; without a spawn state there is no index to
\* leave.
Teardown(c) ==
    LET f == task[c].fiber
    IN  /\ task[c].at = "teardown"
        /\ alive' = [alive EXCEPT ![f] = FALSE]
        /\ active' = [active EXCEPT ![f] = FALSE]
        /\ indexed' = IF installed[f] THEN indexed \ {f} ELSE indexed
        /\ Enter(f, OwnerAttribution(c))
        /\ Goto(c, "drain")
        /\ UNCHANGED <<registryVars, installed, disposing, complete, slot, seal, lineVars,
                       provider, ops>>
        /\ Drifts

\* drain_disposables withdraws the publication; then the slot is released.
Drained(c) ==
    LET f == task[c].fiber
    IN  /\ task[c].at = "drain" /\ Returned(f)
        /\ provider' = IF provider = f THEN Nobody ELSE provider
        /\ slot' = [slot EXCEPT ![f] = None]
        /\ Leave(f)
        /\ task' = [Left(f) EXCEPT ![c].at = "unlink"]
        /\ UNCHANGED <<registryVars, installed, indexed, alive, active, disposing, complete, seal, lineVars,
                       owed, ops>>

\* complete_claimed_dispose, after the slot: exact unlink, then completion.
Unlink(c) ==
    /\ task[c].at = "unlink"
    /\ ReleaseResidency(task[c].fiber)
    /\ Goto(c, "publish")
    /\ UNCHANGED <<fiberVars, frames, lineVars, provider, owed, ops>>

PublishComplete(c) ==
    /\ task[c].at = "publish"
    /\ complete' = [complete EXCEPT ![task[c].fiber] = TRUE]
    /\ AfterBarrier(c)
    /\ UNCHANGED <<registryVars, installed, indexed, alive, active, disposing, slot, seal, frames, lineVars,
                   provider, owed, ops>>

-----------------------------------------------------------------------------
\* Group removal

\* refuse_group_removal_recursion.
RefusesRemoval(h) == group[current] \cap Attribution(h) # {}

\* remove_plugins, detach_for_removal: the members are frozen and the mapping
\* goes, in one critical section.
RemovePlugins(c) ==
    /\ Called(c) /\ current # Nobody
    /\ \E h \in Host(c) :
         /\ ~RefusesRemoval(h)
         /\ task' = [task EXCEPT ![c] =
                       [Started("remove", "next", Nobody, h) EXCEPT
                          !.frozen = group[current], !.freed = current]]
    /\ current' = Nobody
    /\ UNCHANGED <<group, residents, claim, fiberVars, frames, lineVars, provider, owed>>

\* DetachedGroup::dispose_all.
RemoveNext(c) ==
    /\ task[c].at = "next"
    /\ \/ /\ task[c].frozen = {} /\ End(c)
       \/ /\ task[c].frozen # {}
          /\ LET f == Min(task[c].frozen)
             IN  task' = [task EXCEPT ![c].frozen = @ \ {f}, ![c].fiber = f,
                                      ![c].at = IF complete[f] THEN "next" ELSE "claim"]
    /\ UNCHANGED <<registryVars, fiberVars, frames, lineVars, provider, owed, ops>>

-----------------------------------------------------------------------------
\* Creation, by spawn and by an era's owner

Spawn(c) ==
    /\ Called(c) /\ Room
    /\ \E h \in Host(c) :
         task' = [task EXCEPT ![c] = Started("spawn", "attach", Nobody, h)]
    /\ UNCHANGED <<registryVars, fiberVars, frames, lineVars, provider, owed>>

\* spawn_prepared_inner up to its commit point.
Attach(c) ==
    /\ task[c].at = "attach"
    /\ born' = born + 1
    /\ origin' = [origin EXCEPT ![born'] = task[c].fiber]
    /\ AttachFiber(born')
    /\ task' = [task EXCEPT ![c].succ = born', ![c].at = "install"]
    /\ UNCHANGED <<fiberVars, frames, known, provider, owed, ops>>

\* SpawnState::install; a group removal may already have disposed the Fiber.
Install(c) ==
    /\ task[c].at = "install"
    /\ installed' = [installed EXCEPT ![task[c].succ] = TRUE]
    /\ Goto(c, "register")
    /\ UNCHANGED <<registryVars, indexed, alive, active, disposing, complete, slot, seal, frames, lineVars,
                   provider, owed, ops>>

\* DependencyIndex::register refuses the dead, under the index's lock.
Register(c) ==
    LET f == task[c].succ
    IN  /\ task[c].at = "register"
        /\ indexed' = IF alive[f] THEN indexed \cup {f} ELSE indexed
        /\ Goto(c, "initial")
        /\ UNCHANGED <<registryVars, installed, alive, active, disposing, complete, slot, seal, frames,
                       lineVars, provider, owed, ops>>

\* A creation that delivers nothing.
NotCreated(c) ==
    IF task[c].op = "spawn" THEN End(c)
    ELSE task' = [task EXCEPT ![c].succ = Nobody, ![c].at = "final"]

\* initial_spawn_pass: the claim, then the first apply under a state lease.
InitialPass(c) ==
    LET f == task[c].succ
    IN  /\ task[c].at = "initial" /\ slot[f] = None
        /\ \/ /\ ~alive[f]
              /\ ReleaseResidency(f) /\ NotCreated(c)
              /\ UNCHANGED <<slot, seal, frames>>
           \/ /\ alive[f]
              /\ slot' = [slot EXCEPT ![f] = c]
              /\ seal' = [seal EXCEPT ![f] = "leased"]
              /\ Enter(f, task[c].attr)
              /\ Goto(c, "apply")
              /\ UNCHANGED registryVars
        /\ UNCHANGED <<installed, indexed, alive, active, disposing, complete, lineVars, provider, owed, ops>>

\* The apply returns; it may have published, into a slot no live Fiber has.
ApplyOk(c) ==
    LET f == task[c].succ
    IN  /\ task[c].at = "apply" /\ Returned(f)
        /\ provider' \in IF Vacant THEN {provider, f} ELSE {provider}
        /\ active' = [active EXCEPT ![f] = TRUE]
        /\ slot' = [slot EXCEPT ![f] = None]
        /\ seal' = [seal EXCEPT ![f] = "home"]
        /\ Leave(f)
        /\ task' = [Left(f) EXCEPT ![c].at = "handoff"]
        /\ UNCHANGED <<registryVars, installed, indexed, alive, disposing, complete, lineVars, ops>>
        /\ Drifts

\* creation_teardown under the pass's own slot.
ApplyFails(c) ==
    LET f == task[c].succ
    IN  /\ task[c].at = "apply" /\ Returned(f)
        /\ alive' = [alive EXCEPT ![f] = FALSE]
        /\ indexed' = indexed \ {f}
        /\ disposing' = [disposing EXCEPT ![f] = TRUE]
        /\ seal' = [seal EXCEPT ![f] = "home"]
        /\ Leave(f)
        /\ task' = [Left(f) EXCEPT ![c].at = "abort"]
        /\ UNCHANGED <<registryVars, installed, active, complete, slot, lineVars, provider, owed, ops>>

Abort(c) ==
    LET f == task[c].succ
    IN  /\ task[c].at = "abort"
        /\ ReleaseResidency(f)
        /\ complete' = [complete EXCEPT ![f] = TRUE]
        /\ slot' = [slot EXCEPT ![f] = None]
        /\ NotCreated(c)
        /\ UNCHANGED <<installed, indexed, alive, active, disposing, seal, frames, lineVars,
                       provider, owed, ops>>

\* The recheck before handoff, between a claim and an abandon of the slot.
Handoff(c) ==
    LET f == task[c].succ
    IN  /\ task[c].at = "handoff" /\ slot[f] = None
        /\ \/ /\ ~alive[f]
              /\ ReleaseResidency(f) /\ NotCreated(c)
              /\ UNCHANGED known
           \/ /\ alive[f]
              /\ IF task[c].op = "spawn"
                 THEN End(c) /\ known' = known \cup {f}
                 ELSE Goto(c, "final") /\ UNCHANGED known
              /\ UNCHANGED registryVars
        /\ UNCHANGED <<fiberVars, frames, born, origin, provider, owed, ops>>

\* Late publication by a Fiber whose generation is open.
Provide(f) ==
    /\ f \in known /\ alive[f] /\ active[f] /\ ~disposing[f]
    /\ Vacant
    /\ provider' = f
    /\ UNCHANGED <<registryVars, fiberVars, frames, lineVars, task, ops>>
    /\ Drifts

-----------------------------------------------------------------------------
\* Era swap

EraSwap(c) ==
    /\ Called(c) /\ Room
    /\ \E h \in Host(c), f \in known :
         /\ f \notin Attribution(h) /\ alive[f] /\ ~disposing[f]
         /\ task' = [task EXCEPT ![c] = Started("era", "claim", f, h)]
    /\ UNCHANGED <<registryVars, fiberVars, frames, lineVars, provider, owed>>

\* Slip: liveness is judged before the wait for the slot only.
LosesToNobody(f) == FALSE

\* The source was closed while the slot was waited for.
LosesClaim(f) == ~alive[f] \/ disposing[f]

\* Slip: the attribution does not cross to the owner.
AwaitsItself(c) == FALSE

\* refuse_recursion for a dependent of the era.
RefusesDependent(c) == Dependent \in task[c].attr

\* The edges and the terminal claim, under the slot and the source's journal.
ClaimEra(c) ==
    LET f == task[c].fiber
    IN  /\ At(c, "era", "claim") /\ slot[f] = None
        /\ IF LosesClaim(f) \/ (provider = f /\ RefusesDependent(c))
           THEN End(c) /\ UNCHANGED <<disposing, slot>>
           ELSE /\ disposing' = [disposing EXCEPT ![f] = TRUE]
                /\ slot' = [slot EXCEPT ![f] = c]
                /\ task' = [task EXCEPT ![c].edges = (provider = f), ![c].at = "teardown"]
        /\ UNCHANGED <<registryVars, installed, indexed, alive, active, complete, seal, frames, lineVars,
                       provider, owed, ops>>

\* converge: ready() on the dependents of the captured edges, each refused
\* where it would wait for its own caller.
Converged(c, edges) == edges => RefusesDependent(c) \/ Quiet

ConvergeEntry(c) ==
    /\ task[c].at = "converge" /\ Converged(c, task[c].edges)
    /\ Goto(c, "successor")
    /\ UNCHANGED <<registryVars, fiberVars, frames, lineVars, provider, owed, ops>>

\* into_successor moves the behaviour on; the old input's Drop may panic.
IntoSuccessor(c) ==
    /\ task[c].at = "successor"
    /\ seal' = [seal EXCEPT ![task[c].fiber] = "moved"]
    /\ Goto(c, "attach") \/ Goto(c, "final")
    /\ UNCHANGED <<registryVars, installed, indexed, alive, active, disposing, complete, slot, frames,
                   lineVars, provider, owed, ops>>

Incomplete(c) == task[c].succ = Nobody

\* converge_final, with the dependents queried anew; then the reply.
ConvergeFinal(c) ==
    LET f == task[c].succ
    IN  /\ task[c].at = "final"
        /\ Converged(c, task[c].edges \/ (f # Nobody /\ provider = f))
        /\ IF Incomplete(c) THEN End(c) ELSE Goto(c, "offer")
        /\ UNCHANGED <<registryVars, fiberVars, frames, lineVars, provider, owed, ops>>

\* The owner sends the guarded handle; a receiver that is gone drops it.
Offer(c) ==
    /\ task[c].at = "offer"
    /\ Goto(c, IF task[c].waits THEN "offered" ELSE "undelivered")
    /\ UNCHANGED <<registryVars, fiberVars, frames, lineVars, provider, owed, ops>>

\* EraHandoff::accept.
Accept(c) ==
    /\ task[c].at = "offered"
    /\ known' = known \cup {task[c].succ}
    /\ End(c)
    /\ UNCHANGED <<registryVars, fiberVars, frames, born, origin, provider, owed, ops>>

\* EraHandoffGuard::drop, cleanup_undelivered_successor.
Undelivered(c) ==
    LET f == task[c].succ
    IN  /\ task[c].at = "undelivered"
        /\ task' = [task EXCEPT ![c].op = "cleanup", ![c].fiber = f,
                                ![c].edges = @ \/ provider = f,
                                ![c].at = IF complete[f] THEN "last" ELSE "claim"]
        /\ UNCHANGED <<registryVars, fiberVars, frames, lineVars, provider, owed, ops>>

ConvergeLast(c) ==
    /\ task[c].at = "last" /\ Converged(c, task[c].edges)
    /\ End(c)
    /\ UNCHANGED <<registryVars, fiberVars, frames, lineVars, provider, owed, ops>>

\* Slip: an offer that was sent is the caller's.
OfferedIsDelivered(c) == IF task[c].at = "offered" THEN End(c)
                         ELSE task' = [task EXCEPT ![c].waits = FALSE]

Abandoned(c) ==
    task' = [task EXCEPT ![c].waits = FALSE,
                         ![c].at = IF @ = "offered" THEN "undelivered" ELSE @]

\* The caller's future is dropped.  Before the claim nothing has happened;
\* after it the owner goes on.  (Creation has the dropped spawn.)
Cancel(c) ==
    /\ task[c].waits /\ task[c].op # "spawn"
    /\ IF task[c].op \in {"dispose", "era"} /\ task[c].at \in {"claim", "join"}
       THEN End(c)
       ELSE Abandoned(c)
    /\ UNCHANGED <<registryVars, fiberVars, frames, lineVars, provider, owed, ops>>

-----------------------------------------------------------------------------
\* Dependent's passes: the target is read when one starts.

DependentStarts ==
    /\ ~Running(Dependent) /\ owed
    /\ owed' = FALSE
    /\ frames' = [frames EXCEPT ![Dependent] = {Dependent}]
    /\ UNCHANGED <<registryVars, fiberVars, lineVars, provider, task, ops>>

DependentSettles ==
    /\ Running(Dependent) /\ Returned(Dependent)
    /\ Leave(Dependent)
    /\ task' = Left(Dependent)
    /\ UNCHANGED <<registryVars, fiberVars, lineVars, provider, owed, ops>>

-----------------------------------------------------------------------------
Step(c) ==
    \/ ClaimDispose(c) \/ Join(c) \/ Teardown(c) \/ Drained(c) \/ Unlink(c) \/ PublishComplete(c)
    \/ RemoveNext(c)
    \/ Attach(c) \/ Install(c) \/ Register(c) \/ InitialPass(c) \/ ApplyOk(c) \/ ApplyFails(c) \/ Abort(c)
    \/ Handoff(c)
    \/ ClaimEra(c) \/ ConvergeEntry(c) \/ IntoSuccessor(c) \/ ConvergeFinal(c)
    \/ Offer(c) \/ Accept(c) \/ Undelivered(c) \/ ConvergeLast(c)

Calls(c) == Dispose(c) \/ RemovePlugins(c) \/ Spawn(c) \/ EraSwap(c)

Next ==
    \/ \E c \in Caller : Calls(c) \/ Step(c) \/ Cancel(c)
    \/ \E f \in Fiber : Provide(f)
    \/ DependentStarts \/ DependentSettles

Spec == Init /\ [][Next]_vars

\* Owners are framework tasks and callers are polled; applies, cleanups and
\* Dependent's passes return.
FairSpec ==
    /\ Spec
    /\ \A c \in Caller : WF_vars(Step(c))
    /\ WF_vars(DependentStarts) /\ WF_vars(DependentSettles)

-----------------------------------------------------------------------------
\* What holds of every state

\* A removal being carried out has f ahead of it.
Removing(f) ==
    \E c \in Caller : task[c].op = "remove" /\ (f \in task[c].frozen \/ task[c].fiber = f)

\* The Registry loses nobody (registry.rs): the mapped allocation has members,
\* a resident is in the mapped allocation, or its disposal has begun or is a
\* running removal's to do; a completed disposal has unlinked; a removal
\* ends with the allocation it detached empty; and the index names no dead
\* Fiber, although creation may register after the removal's teardown.
ResidencyIsExact ==
    /\ current # Nobody => group[current] # {}
    /\ \A f \in residents :
         /\ f \in group[claim[f]]
         /\ claim[f] = current \/ disposing[f] \/ Removing(f)
         /\ ~complete[f]
    /\ \A f \in indexed : alive[f]
    /\ \A c \in Caller :
         At(c, "remove", "next") /\ task[c].frozen = {} => group[task[c].freed] = {}

\* Eras follow one another (era.rs): no successor is attached before its
\* source's terminal barrier is complete and its publication withdrawn, no
\* source has two, and an owner finds the Plugin in the seal it claimed.
EraBarrier ==
    /\ \A f \in 1..born : origin[f] # Nobody =>
         /\ complete[origin[f]] /\ origin[f] \notin residents /\ provider # origin[f]
         /\ \A g \in 1..born \ {f} : origin[g] # origin[f]
    /\ \A c \in Caller : task[c].at = "successor" => seal[task[c].fiber] = "home"

\* A live Fiber is in somebody's hands: its handle was delivered, or the
\* operation that made it has it still (EraHandoffGuard, CreationGuard).
NobodyIsOrphaned ==
    \A f \in 1..born : alive[f] => f \in known \/ \E c \in Caller : task[c].succ = f

-----------------------------------------------------------------------------
\* What holds of every step and behaviour

\* An era passes a convergence barrier over its edges (era.rs, converge) when
\* Dependent has settled, or from inside the pass Dependent is running.
BarriersConverge ==
    [][\A c \in Caller :
         task[c].at \in {"converge", "final", "last"} /\ task[c].edges /\ task'[c].at # task[c].at
           => Quiet \/ Running(Dependent)]_vars

\* Every operation ends, wherever it was called and whoever went away: no call
\* that is admitted waits for its own caller.
OperationsEnd == \A c \in Caller : task[c].at # "idle" ~> task[c].at = "idle"
=============================================================================
