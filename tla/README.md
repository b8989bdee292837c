# Verification project for cordis-rs

TLA+ models of the Cordis runtime (a plugin and service runtime in Rust), the TLC
configurations that check them on small instances, and TLAPS proofs for every
instance. Paths below are relative to `src/crates/cordis-core/src/` unless they
say otherwise.

## 1. The system: inventory

Cordis runs *Plugins* as *Fibers*. A Fiber declares dependency edges on
*Services*; it is applied while all of them are visible, parked Pending while one
is missing, and re-applied when one is replaced. All of this happens concurrently:
there is no central scheduler, every call drives its own part under a per-Fiber
slot word, and work that must survive its caller moves to a completion runtime.

| Component | State | Operations | Correct when |
|---|---|---|---|
| Inertia slot (`fiber/inertia.rs`) | atomic word IDLE/ACTIVE/RELEASING, target cell, two revision counters, waiters, creation mark | `claim`, `wait_idle`, `kick`, `exit_recheck`, `abandon`, the convergence, restart, update and initial passes | one driver at a time; no committed mutation without a driver; idle means converged |
| Fiber (`fiber/mod.rs`) | lifecycle state with a publication sequence, liveness and terminal flags, replacement gate, parked failure, residency | `settle_once`, `dispose`, `teardown_body`, `ready`, `wait_state` | death is final, disposal is a full barrier, `ready` answers the truth |
| Spawn transaction (`fiber/spawn.rs`) | creation window, guard, handoff | `spawn_prepared_inner`, `creation_interrupted_teardown` | a spawn delivers a quiescent Fiber or leaves none behind |
| Era swap (`fiber/era.rs`) | claimed source, successor recipe | `era_swap` | at most one successor, complete source barrier first |
| Settle context (`fiber/settle_ctx.rs`) | task-local bracket stack | `refuse_recursion` | exactly the doomed self-waits are refused |
| Journal (`effect.rs`, `gated.rs`) | generation journal, claimed cleanups, completion runtime | `push_gated`, drain, `CallerDriven` | every registration is drained once, in LIFO order, or was refused |
| Service store (`service.rs`) | contracts, slots with occurrences | publish, withdraw, Active-boundary commits | visibility and the dependents' revision are one commit |
| Dependency index (`deps.rs`), Registry (`registry.rs`) | reverse edges; allocations and residents | register, unregister, attach, detach, group removal | no dead Fiber in the index, no Fiber outside every allocation |
| Events (`events/`) | listener store, dispatch snapshots | on, once, emit, dispatch | a listener runs per its claim and never after removal completed |
| Update control (`update.rs`) | control chain per contract | `control` | veto commits nothing |
| Observation (`observation.rs`), deadlines (`deadline.rs`) | bounded queues; a timer scheduler | publish, subscribe; wait until | no silent gap; a publication before the deadline wins |
| Timer (`cordis-timer`), Loader (`cordis-loader`) | timer operations; plans and outcomes | sleep, timeout, interval; build, resolve, load | one verdict per operation; outcomes are the plan's, abandoned loads leave nothing |

Components interact in four ways: a Service mutation commits a revision on every
dependent's slot and then kicks it; a provider's own lifecycle transitions across
Active are such mutations; lifecycle calls and group removal contend for the slot;
waiters are woken by broadcast after a state they re-read.

Hard to test, and therefore modelled first: interleavings of atomic steps inside
`kick`, `exit_recheck`, the initial pass and the handoff; futures dropped at any
await; mutators with no runtime; late disposers; a state read before and used
after somebody else's whole pass. Then what spans Fibers: provider chains, group
removal against creation, eras with callers inside the bodies they wait for,
snapshots that are dispatched while listeners come and go, and deadlines that race
what they bound. `PROJECT.json` lists each at its line.

## 2. Plan

Done, in this order:

1. **Inertia**, the slot protocol and the settle, dispose and ready paths of a
   delivered Fiber; **InertiaProofs**, its types and mutual exclusion.
2. **Creation**, the spawn transaction composed with Inertia.
3. **Journal**, the registration gate, manual claims, `Context::run`, LIFO and
   interrupted drains; **JournalProofs**, its safety properties.
4. **Events** with the contract it implements, **Occurrence**: the listener and
   policy stores, dispatch, update control.
5. **Services**: the store, realms, the dependency index and a chain of Fibers.
6. **Era**: Registry, disposal, group removal, era swap and settle context.
7. **Loader**: plans, execution, handoff and rollback.
8. **Deadline** and **Timer**: `wait_state` and its scheduler, timer operations.

9. **InertiaProofs** (its second and third parts), **ServicesProofs**, **EraProofs**,
   **TimerProofs** and, over **SelectionProofs**, **EventsProofs** and **LoaderProofs**:
   every safety invariant and action property the passing runs check, and that Events
   implements Occurrence.

Left, for the proofs: the liveness properties, which are beyond the prover. Left, for
the model: the hand-over of a pending owner between
executors, the run-task half of the settle context, recheck revisions in Era.

## 3. Modules

**Inertia.tla** models one Fiber. A process is an API caller or a convergence
task; its `pc` names the point between two atomic operations, and `Holding`
collects the points at which it owns the slot. One action is one compare-exchange,
one visible load or store, one edge read under the ServiceStore lock, or one
published state; the continuation tables (`AfterSettle`, `AfterDrift`,
`AfterClean`, `AfterTeardown`) say where each operation goes on, because the passes
share `settle_once`, `exit_recheck` and `teardown_body`.

| Model | Code |
|---|---|
| `inertia`, `target`, `recheck_committed`, `recheck_settled`, `creation_owned` | the fields of `InertiaSlot` |
| `woken` | the waiters `notify_waiters` has reached |
| `services` | the visible publication occurrence of each edge (0: missing) |
| `state`, `current` | `StatePublication`; `current` are the readers whose observed sequence still equals the cell's |
| `alive`, `disposing`, `generation_replacing`, `dispose_complete`, `error`, `creation_pending`, `applied` | the Fiber's flags of the same names |
| `resident`, `registered` | residency claim held; edges in the dependency index |
| `generation` | history: the target the live generation was applied against |
| `CommitRecheck`, `MutateServices`, `Kick*` | `CommittedServiceDrift::commit`, the mutation it guards, `InertiaSlot::kick` |
| `StoreReleasing` ... `ReleaseCas` | `exit_recheck` |
| `Enlist`, `Attempt`, `Wake`, `CancelWait` | `claim` and `wait_idle`, dropped futures included |
| `AdmitDead`, `AdmitReplacement`, `AdoptTarget` | `restart_pass`, `update_pass` and their committed loops |
| `Converge`, `ConvergeJudge` | `convergence_pass` |
| `Settle` ... `ParkFailure` | `settle_once_inner` |
| `DisposeLate` ... `PublishDisposeComplete` | `Fiber::dispose`, `teardown_body`, `complete_claimed_dispose` |
| `Ready*` | `FiberHandle::ready` |

**Creation.tla** extends it with the spawn transaction: the initial pass, the
failed-creation teardown, the handoff, `DropSpawn` at any await and the guard's
three rescue paths. Group removal (`remove`) needs only residency, so it races the
transaction from the start.

**Journal.tla** models what happens inside a generation of one Fiber. The slot has
one owner (Inertia shows it), so the passes are one `driver`; registering threads,
the tasks they start, holders of an `EffectRegistration` and claimed cleanups run
beside it. A registration takes each load of `assert_can_register`, the journal
lock, the recheck and the push as separate steps, and a token also names the task
its obligation joins, so that tasks can register resources themselves.

| Model | Code |
|---|---|
| `sn`, `Journal` | `DisposableList`: the counter and the still-owned entries |
| `lock` | the `disposables` mutex, where it is held across several steps |
| `cleanup[t]` | one obligation: cleanup kind, who claimed it, its outcome one-shot, the times its failure was returned or reported, its task |
| `drain_cleanup`, `worklist` | the fields and locals of the drain |
| `Register`, `AssertOpen`, `AssertClosed`, `LockJournal`, `PublishRefused`, `Push` | `effect`, `effect_sync` and `push_gated` |
| `ExecutorUnavailable`, `RunSpawn`, `Joined`, `TaskEnds` | `Context::run` and its joining cleanup |
| `Disarm`, `DisposeEffect`, `ClaimLost`, `EffectDisposed`, `DropDispose` | `EffectRegistration` |
| `RunCleanup` | `execute_cleanup` and the detached wrapper that sends or reports its outcome |
| `JoinClaimed`, `Snapshot`, `ClaimNext`, `SkipClaimed`, `Cleaned`, `Drained` | `drain_disposables` |
| `Settle` ... `ParkFailure`, `Teardown*`, `DropCreation` | `settle_once_inner`, `teardown_body`, the creation guard |

**Events.tla** models the event store and the policy store of update control,
which is one more stream with the same entry, order and claim structure. Every
acquisition of the store lock is a step; callbacks run between the steps, so
anything may happen there. A dispatch is a record: its snapshot, the claims it took,
the Around frames it is inside and what it will report.

A failure has a name: the listener that raised it, nobody (a tail's), or `Elsewhere`,
whoever a failure of another operation names that a callback returns as its own, say
that of a nested dispatch; `normalize_returned` keeps such a name. `failed` is history:
what was raised, by whom (`by`) and under which name (`as`). A tail has no listener, so
its `by` is the innermost Around that waits for it, if any.

| Model | Code |
|---|---|
| `contracts`, `order`, `entries` | `EventState` and `UpdateState`; `order` keeps stale ids until `Compacted` |
| `hook`, `journal`, `open` | the immutable facts of an occurrence; the clean-ups its owner's generation owes |
| `Register`, `OnUpdate`, `RemoveListener`, `Cleanup` | `register_listener`, `on_update`, listener control, `listener_cleanup` |
| `Dispatch`, `Control` | the preflight of the five operations; `UpdateStore::control` |
| `ClaimNext`, `Exhausted`, `Invoke`, `InvokePolicy`, `Join` | the claim loops of `emit`, `emit_parallel`, `query`, `waterfall`, `run_chain` |
| `Names`, `Failures`, `Correlated` | `normalize_returned` and `InvocationFailure::correlate`, in `listener.rs` and `update.rs` |
| `RunTail`, `NestedQuery`, `Unwind`, `Drop` | the tail, `waterfall_query`, the way back through the Arounds, a dropped future |

**Occurrence.tla** is the abstract specification of a registration: registered once,
withdrawn once, claimed only in between, a once-claim being the withdrawal. Events
instantiates it with a refinement mapping, and `OccurrencesAreExact` is its `Spec`.

**Selection.tla** is the filter that `retain`, `EventHooks::iter` and the preflight share:
what a set keeps of a sequence, as a recursive function, so that it can be proved about.

**Services.tla** has the store, the index, the Contexts with their isolate layers,
the root and several Fibers. A pass is what Inertia shows of it: one at a time,
reading the whole target and acknowledging what was committed before (this assumes
`RecheckHasDriver`, which Creation refutes inside the spawn window only). `owed` is
an outstanding revision, `goal` and `settled` the targets being settled and settled.

| Model | Code |
|---|---|
| `contracts`, `slots`, `payload` | `ServiceState`, and whose capability wrote what a slot holds |
| `handles`, `disarming`, `journal` | `ServicePublication` capabilities and the clean-ups behind them |
| `Provide`, `Install`, `SetExact`, `RemoveExact`, `Disarm`, `WithdrawExact` | the operations of the same names |
| `Transition` | `commit_fiber_transition`: state, visibility and revisions in one section |
| `WithIsolatedService`, `WithServiceRealms`, `SlotOf` | the isolate layers of a Context and the realm they select |
| `CommitDrift`, `DependentsOf` | `CommittedServiceDrift`, `DependencyIndex` |
| `Settle` ... `ParkFailure`, `Teardown*` | `settle_once_inner`, `teardown_body` |

**Era.tla** models the Fibers of one Plugin type and one dependent of the Service
they provide. A *body* is user code the framework runs under a slot; a caller is
outside of all bodies or hosted by one, which cannot return before the call does.
`frames` is the attribution the settle context carries, so a self-wait that is not
refused shows as an operation that never ends. An operation is a `task` record whose
`at` is the next point at which its owner can be interrupted.

| Model | Code |
|---|---|
| `current`, `group`, `residents`, `claim` | `Registry`, `PluginGroup`, the residency claim of a Fiber |
| `Dispose` ... `PublishComplete` | `Fiber::dispose`, `teardown_body`, `complete_claimed_dispose` |
| `RemovePlugins`, `RemoveNext` | `detach_for_removal`, `DetachedGroup::dispose_all` |
| `Spawn`, `Attach`, `Install`, `Register`, `InitialPass` ... `Handoff` | the spawn transaction, for what the Registry and the seal see of it |
| `EraSwap`, `ClaimEra` | `era_swap` up to the terminal claim |
| `ConvergeEntry` ... `ConvergeFinal` | `run_committed_replacement`, `converge_final` |
| `Offer`, `Accept`, `Undelivered`, `ConvergeLast` | `EraHandoff`, `EraHandoffGuard`, `cleanup_undelivered_successor` |
| `Enter`, `Leave`, `Attribution`, `RefusesDependent` | `settle_ctx.rs` |

**Loader.tla** builds a plan entry by entry, freezes it and lets several loads
execute it. Rows carry what resolution and placement look at (key or name, disabled,
injected configuration, isolate policies). `ExecutionOrder` is the stack traversal of
the code; `Precedes` is the reference it is compared with. `Add`, `Finish`, `Start`,
`Prune`, `Group`, `Disabled`, `Unresolved`, `Place`, `SpawnReturns` and `Deliver` are
the branches of `LoadPlan::load`; `Rollback`, `RollbackNext` and `Abandon` the drop of
`ResultHandoff`; `Rescue` is core's creation guard. `Placed` is the loop of
`RealmEnvironment::place`, a function of the rows done so far with `PlaceRow` as its body.

**Deadline.tla** is the scheduler of `deadline.rs` and `wait_state`: `armed`,
`worker_running` and `next_id` are the `Schedule`, `worker`, `until` and `due` the
worker thread; `current` and `revision` the publication cell for one target;
`Call`, `Check`, `Insert`, `NotifyWorker`, `Enable`, `Look`, `Resume`, `Abandon` the
steps of a wait. `hit` is history: whether the target was there at the call or came
since. **Timer.tla** extends it with the timer operations, which share its clock:
`Prepare` and `Commit` construct, `Load`, `Register`, `Reload` are `is_cancelled`,
`PollDeadline`, `PollWork`, `PollAgain` and `Disarm` the polls, `DrainClaims`,
`CancelSwap` and `CancelWake` the generation's side. A behaviour has waits or timers.
Tokio's part of an Interval is `NextTick`: `MissedTickBehavior::Skip` (`shapes.rs` 74)
goes on at the next instant of the phase, but tokio applies it only to a tick that is
found due more than 5 ms late, which is `Grace`; otherwise the next one is due a period
after the last. `ticked` is history: when the stream was last found due.

**MCInertia.tla**, **MCCreation.tla** add the symmetry sets; the other MC modules
give the constants that a `.cfg` cannot. The modules named `...Proofs` hold the theorems
of the module they extend (InertiaProofs those of Inertia and Creation); TLC uses none
of them.
Operators introduced by "Slip:" are faulty variants of the
definition that follows; no action uses them, and each shows that a run notices
that fault.

Services narrows two things. A Plugin Fiber provides through the Context of its own
spawn only, where the code takes any Context derived from it (`context.rs` 350 to 417);
that Context may itself be a derived one,
and the root provides through all of them. And the recheck of
the registration gate and the installation in the store are one step of `Provide`:
Journal splits the gate, its lock and the push, and shows that a closed generation
strands nothing.

Abstractions. Publication occurrences and inputs are fresh numbers, as the code
never reuses an identity. User apply and cleanup code either returns or fails;
what it registers is the Journal module's subject. A task of `Context::run` is user
code that returns when its inputs end, that is, once the resources it registered
itself are torn down; this is the use the ordering in `run` is made for.
A committed restart, update or
dispose is framework-owned, so its caller stands for it. Adjacent operations that
no other process can tell apart are one step (claim and first reads of `kick`,
record and ACTIVE store of a drift, death mark and unregister). Memory ordering is
sequential consistency, as in the code except for the relaxed `alive` flag.

## 4. Runs

Passing runs:

| Run | Instance | Shows |
|---|---|---|
| `inertia_lifecycle` | 2 callers, all operations, 1 edge, 1 commit, 1 update, 1 task, fair | mutual exclusion, no reachable protocol panic, disposal barrier, replacement gate, finality of death, what restart and update return for; revisions are acknowledged, `ready` returns, a committed disposal completes |
| `inertia_drift` | 2 callers, 2 edges, 2 commits | idle and acknowledged means converged; a revision always has a driver; `ready` answers the truth |
| `creation_races` | spawn and two callers, one of them without a runtime, that mutate, remove and restart, fair | the first failure is the creation's; the transaction ends with a delivered Fiber, or with a dead one that is neither resident nor registered |
| `journal_generation` | 1 thread, 2 obligations and their tasks, fair | a closed generation strands no obligation, cleanup or task; cleanups run newest first, one at a time; a generation starts fresh; teardowns reclaim everything |
| `events_dispatch` | 2 callers, 2 listeners of all shapes, 2 Scopes | the store implements Occurrence; snapshots are the effective order; no layer is bypassed; a failure keeps the name it was raised with, its author's or that of another operation's listener |
| `services_chain` | root, a provider that depends on it, a dependent; default and one isolated realm; 3 calls, fair | a Fiber at rest has settled the world as it is; publications end with their generation; live slots are not stolen; lookups are typed; the chain comes to rest |
| `era_swap` | 2 callers, 3 Fibers, 3 operations, fair | the Registry loses nobody; one successor, behind the source's whole barrier; nobody is orphaned; barriers converge; every admitted operation ends |
| `loader_execution` | plans of up to 3 entries, 2 loads, fair | outcomes are the plan's; realms meet by label and load; one owner per handle; an abandoned load leaves nothing |
| `timer_deadlines` | 2 waits with timeouts 0, 1, 2 and none, 1 publication and its end, 1 lost worker; or 1 timer of each kind with delays 0 to 2; fair | `wait_state` tells the truth; one verdict per timer; an Interval keeps its phase and drops what it missed beyond the grace; nobody oversleeps |

Runs that exhibit a disagreement between code and documentation (details under
`findings` in `PROJECT.json`):

| Run | Property | What happens |
|---|---|---|
| `creation_slot` | SlotExclusive | the tail of the initial pass stores IDLE over a later holder |
| `creation_handoff` | RecheckHasDriver | a revision kicked during the handoff's claim has no driver |
| `inertia_ready_disposed` | ReadyReturnsOnDisposed | `ready` loops for ever on a disposed Fiber |

Also observed, without a run of their own:

- The first two have consequences. A delivered Fiber can stay Pending with every
  Service present, because a convergence pass withheld the first apply after the
  initial pass had ended; and the second IDLE store lets a convergence pass publish
  Failed on a Fiber whose disposal is complete. `SpawnEnds` therefore asks for death
  and unlinking, not for the state `Disposed`.
- A mutator without a runtime leaves its revision outstanding until a later driver,
  and a Fiber is delivered with it.
- `ready()` polled without a runtime while a revision is outstanding spins: it kicks,
  the kick cannot start a pass, and nothing awaits (`fiber/mod.rs` 1619).
- A clean-up's failure sent to a receiver that is dropped before it is polled is
  neither returned nor reported (`effect.rs` 382).
- A clean-up that somebody's `dispose` runs starts from an empty attribution, so a
  lifecycle call it makes on the Fiber it waits for is not refused and does not end
  (`effect.rs` 572 to 606, `settle_ctx.rs` 135): with `HostedCleanups = TRUE`
  `OperationsEnd` fails in Era.
- A Fiber that requires the very Service it provides, in one realm, reloads for ever:
  each apply changes its own target. `Converges` is checked without such a Fiber, and
  without a cycle: the instance is a chain, and says nothing of two Fibers that provide
  to each other.
- A failed tail's failure is reported under the innermost Around that waited for it:
  that layer correlates whatever leaves it (`events/dispatch.rs` 531). The doc of
  `registration_id` says that tail execution "has no listener occurrence and therefore
  returns `None`" (`events/types.rs` 136), which holds only where no Around waited.
  `FailuresAreAttributed` states what the code does, the tail included, so it fails
  for the documented form (`TailStaysNameless`, one of its mutants).
- An Interval whose period is within tokio's grace of 5 ms goes on, after a tick no
  later than that, at the deadline plus the period, which may be due already; TM-07 says
  that a late poll "never bursts" (`docs/v3-migration.md` 433). With `Grace = 0`
  `TimersAreExact` is TM-07's claim.
- `wait_state` called while the target is current reports `Elapsed` if the state moves
  between its two first snapshots and does not come back in time.

Bounds. Two callers suffice for every pairwise race and a task adds the third
process; two edges are needed for a target read across a mutation; two commits are
needed for a revision that arrives while an earlier one is being settled. A task is
busy only while it owns the slot, so one is enough wherever the slot is exclusive,
or where a single commit allows a single kick; the other instances have two.
Events needs two callers for a contended claim and two listeners for an order,
compaction at the second stale id (`Sparse = 1`, 32 in the code) and a nested Scope;
the operations of a caller are drawn from a fixed list that pairs each kind with each.
One name from elsewhere is enough,
because nothing in the code looks at which it is.
Services needs a chain of two for a provider that is a dependent, a second realm and
a name in both, and four identities so that a dead owner's slot is taken over while
its old handle and clean-up exist; three calls from outside suffice for every pair of
racing mutations and a third that observes them. Three Fibers in Era are two eras and
a sibling; three operations let two race while a third waits inside a body.
`HostedCleanups = FALSE` is discussed above. A load of three entries has parents,
siblings and a pruned grandchild. Two waits with two distinct timeouts make the second
the earlier one; all calls are made at time 0 (`MaxTime`), and `MaxClock` leaves an
Interval room to miss a tick. With `Grace = 1` a period of one tick is within the grace
and can be more than it late, so the clock takes both branches of `NextTick`.
In Journal two obligations are needed for an order of cleanups, for a claim that
races the drain of another, and for a task that registers a resource of its own;
the thread and the started tasks give concurrent registrations. `MaxPush` bounds
committed and open registrations together. The safety part was also explored with
three obligations and with two threads; the proofs remove the bound.
Callers on the same side of the runtime boundary, and tasks, are interchangeable;
symmetry is not used with liveness. `MaxCommits` and `MaxUpdates` bound the only
unbounded counters. `CHECK_DEADLOCK FALSE` appears where the system may stop: a
disposed or torn-down Fiber whose callers can do nothing more.

Fairness. `WF(Step(p))` for every process: an executor polls every started
operation, a compare-exchange loop is not starved for ever, user apply and cleanup
return. Starting an operation and dropping a future are never fair. A spawn future
must be polled or dropped by its caller (the doc of `Context::spawn` says so); the
fairness of the creator is that obligation. In Journal the pass, started registrations and
detached cleanups are weakly fair for the same reason (a claimed cleanup runs on an
executor that needs nobody's polling), and a task that can return does so (strong
fairness of `TaskEnds`: between two moments at which its inputs have ended it may
register something new, and user code that did this for ever would rightly keep its
generation open); starting, disarming, disposing and dropping are not fair.
In Services some pass runs while one can; in Era owners, callers and the dependent's
passes are polled, a Cancel is not fair; in Loader only the rollback and the rescue
are, as both are framework tasks. In Timer the clock runs, the worker thread and the
publisher take their steps, and tasks that are woken are polled; that the scheduler
keeps a worker is a hypothesis of `NobodyOversleeps`, since the OS may refuse it.
`ReadyReturns` and `SpawnEnds` are
conditional on an eventual end of the restarts, updates or removals that can keep
the slot busy: the code gives waiters no priority.

## 5. Proofs

Every safety invariant and every action property of the passing runs is a theorem, for
all values of the constants that the ASSUMEs of the modules allow; what a run adds to it
is the liveness and, with the mutants, the evidence that the property can fail.

**InertiaProofs** proves, for all constants allowed by the ASSUMEs of Inertia
(disjoint process sets, natural bounds, operations from the known ones, at most one
spawn transaction):

- `TypeCorrect`: `Spec => []TypeOK`;
- `SlotIsExclusive`: `Spec => []SlotExclusive`.

Neither is inductive alone. A step indexes the continuation tables by the
operation of its process, so types need to know which operation can be where;
exclusion needs the same to know that a process that continues at a table entry
keeps or loses the slot. `Control` states this for every process, and
`IInv == TypeOK /\ Control /\ SlotExclusive` is inductive. The proof classifies
every action once: it *moves* one process, keeping ownership, claiming an idle slot
or releasing its own (`Moves`), or it *hands over* the slot to a fresh task
(`HandsOver`). Preservation of `Control` and `SlotExclusive` then follows from the
classification alone, and types are checked action by action in three parts.

**JournalProofs** proves, for any set of threads and any number of obligations,

- `TypeCorrect`, `NoObligationStranded`, `NoTaskOutlives`, `CleanupsReversed`:
  `Spec => []P` for `TypeOK`, `NothingStranded`, `TasksJoined`,
  `ReverseCommitOrder`;
- `GenerationIsFresh`: `Spec => FreshGeneration`.

The inductive invariant says why the recheck under the lock suffices. A process
that passed it still holds the lock and the pass has not taken its snapshot
(`Admitted`), so from the snapshot on the journal is covered by the drain's
worklist and empty after it (`Covered`); `PassState` ties the pass to the published
state. `OneCleanup` is the interrupted-drain argument: a running drain cleanup is
the one the Fiber remembers, newer than everything left, and until a later drain
has joined it no registration can commit. `Channels` and `Claimed` relate an
obligation's phase to its one-shot, and `Joins` keeps a task's obligation in the
journal or a drain until the task has ended, with one obligation per pending start.
Every action is either a step of the pass, of a registration, or one that
`Consumes` a single obligation, and each class preserves the invariant.

The second part of **InertiaProofs** proves what the slot is for: `QuiescenceIsTruth`,
`ReadyIsTruthful`, `RevisionsAreDriven`, `AssertionsHold`, `DisposalIsABarrier`,
`GateReopens`, and the action properties `DeathStays` and `ReplacementsAreBarriers`.
None of these is inductive: they speak of an idle Fiber, and an idle Fiber is what the
last holder left. `Truth`, on top of `IInv`, therefore says what the holder owes at each
control point.

- `HolderSound`: `Sound(l)` relates state, generation, target and death mark at point
  `l`; an idle slot is the point `"idle"`. With exclusion, a step must re-establish it
  for one process only.
- `Passes` and `Acknowledged` are the argument of `exit_recheck`: a pass's revision lies
  between the acknowledged and the committed one, and what it has read of the edges is
  still so unless a newer revision was committed. Hence acknowledging a revision puts
  its effect into the target, however the edge reads and mutations interleave.
- `Driven` is the release window: a live Fiber is let go with an outstanding revision
  only while a kicker has still to look at the slot. It has the hypothesis that every
  mutator has a runtime, as the property has.
- `Disposals` makes one process carry the disposal to its barrier, `Observers` says
  what a `ready` under way knows of the publication it saw.

The third part is `FirstFailure`: `SpawnSpec => []FirstFailureIsTheCreations`. It cannot
build on `SlotIsExclusive`, because in Creation the slot is not exclusive. But the only
step that breaks exclusion is the second IDLE store of the initial pass
(`InitialAbandon`), and with it the pass has let go. `CreationInv` is therefore
conditional: *while* the creation's operation is still its initial pass, `Undecided`
holds, and no step makes an operation an initial pass again (`OperationAfter`).

- `InitialControl`: nothing that needs the handle runs, so the rivals are mutations, the
  convergence tasks they spawn and group removals; `OneOwner`: until then the slot has
  one owner.
- `DeathStops`: a generation is worked on only while the Fiber lives.
- `FirstApplyIs`: as long as the creation waits for the slot nobody has applied, and the
  flag that withholds the first apply falls only on the way to death; until it lets go no
  rival is inside apply; and a parked failure is the one it has just settled.

The heart is `RivalAppliesLate`: a convergence task that is about to open a generation
owns the slot, so the creation is either waiting, and then the apply is withheld or the
Fiber is dead, or it has let go. Most steps are `Inert`, a few work on the generation.

**ServicesProofs** proves `LookupsStayTyped`, `PublicationsEnd`, `RestingIsTruth` and
`LivingKeepTheirSlots`, for any Fibers, names, contracts and realms. `Occupants` keeps
identities apart and a slot's payload its occupant's, `Places` ties the position of a
pass to its state and says which states may have publications. `Rest` is the hard part:
what a pass has read or settled is the live target, or a revision is owed. A
visibility change preserves it because the affected set of a commit contains every
registered Fiber whose target the change touches; edges are registered from spawn to
death, so none is missed. Assumed of the constants: `Unbound` is no contract and
`NoTarget` no target, beside the bounds and the shapes of `Requires` and `Publishes`.

**EraProofs** proves `ErasFollow`, `RegistryIsExact`, `NobodyOrphaned` and the action
property `ErasConverge` from `EraInvariant`, for any finite set of callers and any number of
Fibers. The invariant has a part per concern: `Routes` (where each operation can be),
`Hands` (who has a Fiber before its handle is delivered), `Barriers` (what the owner of
a disposal or a creation has established), `Residency`, `Index`, `Eras`, `Seals`,
`Frames` and `Numbers` (a Fiber number is left for every creation under way, which is
where callers must be finitely many). Most parts quantify over callers, and most
steps are one caller's, so the proof is a rely-guarantee one: `Steady(c)` says what a
step may do to the Fibers another caller depends on; each action is shown to keep it,
and its own caller's part separately. `ReleaseKeeps` does the Registry's conditional
prune once for all callers of it.

**TimerProofs** proves `WaitsAreTruthful` and `TimersDecideOnce`. `WInv` joins the
schedule to the waits: identities break every tie, an armed or taken sender belongs to a
wait that is still out or whose deadline has passed, and a wait under way knows of
the target what the cell does. `TInv` gives an operation's clean-up one claimant at a
time, keeps a verdict true between the moment it is found and the moment it is
committed, and states the phase of an Interval as a multiple of its period, from which
the remainder the property asks for follows for every period. `Spaced`, with it, says
what `Skip` is for: the next tick is due after the instant of the last one, unless that
one came no later than the grace. Within the grace nothing of the kind is claimed. `Grace` is any natural number, 0 included.

**EventsProofs** proves `LayersAreNotBypassed`, `FailuresHaveAuthors`, the action property
`PreflightsAreEffective`, and `EventsImplementOccurrence`, for any callers, listeners, Scopes,
shapes and requests, from `EventsInvariant`. `Orders` says that an order is sorted as
`Before` sorts and contains every registered occurrence of its stream: compaction,
removal and both ends of insertion keep it. Of an operation, `Layers` puts every layer
of a chain's snapshot ahead, in hand or behind; `Blame` says that a failure on its way
out is one that was raised, and that it has its name except before it leaves the innermost
frame of a failed tail (`Told`), when that frame is the name it will get; `Lanes` embeds what emit_parallel has claimed into the part of the snapshot it has passed;
`Claiming` keeps the occurrences it is still to claim apart from the claims it holds, and
`Roles` does so across a waterfall's nested query, whose listeners have other roles
than the layers that wait in frames. With the refinement mapping of Events, every step is
then a registration, a withdrawal, a claim or a release of Occurrence, or leaves it
unchanged. What `Only` keeps of a sequence is **SelectionProofs**: that its recursive function
exists, and what its values are, is shown at the least argument at which it would fail,
with the well-foundedness of the naturals.

**LoaderProofs** proves `Outcomes`, `Rendezvous` and `Handles`, for plans of any length,
shape and rows and any set of loads that run at once. Two of its lemmas are about the
algorithms, and the invariant rests on them.

- `ExecutionOrderIs`: on every plan the traversal off the stack of `LoadPlan::load` ends
  and yields the depth-first order that `Precedes` describes, each entry once. Of what is
  visited and what is stacked it keeps that they are disjoint, that a visited entry's
  parent is visited and that siblings are stacked together, so that the next entry off
  the stack precedes everything left; each turn visits one more entry, which bounds the
  recursive function.
- `PlacedIs`, `PlacedByPolicy`: what `place` allocates. Labels keep the realm an earlier
  placement gave them and have one each, a Private row gets a realm nobody else has, a
  Service without a row inherits. It is shown at the first row at which it would fail.

`IInv` has a part per concern: `PlanOK` (a forest whose parents come first, with valid
rows), `Started` (a load runs a frozen plan, in its order), `Rows` (a prefix of the order,
each row of an expected kind), `Pruning` (the code marks a child with what its parent
passed on; the mark is the topmost disabled ancestor), `Progress` (a load that awaits a
spawn is at an entry that runs), `Fibers` (a live Fiber has its row, a Fiber being created
is the current entry's, a rollback works from the end), and `Realms` (a realm is numbered
by the load that allocated it, which keeps loads apart; labels and placements within one
load). Pruning needs the order: when an entry is reached its ancestors have been visited
(`NotBeforeAncestors`, `InLine`), so the marks it inherits are complete.

The assumptions of all proofs are the ASSUMEs of the modules, which TLC evaluates in the
runs. Only model-checked: the liveness properties, since fairness and ENABLED are beyond
the prover, that is `DriftIsSettled`, `ReadyReturns`, `DisposeCompletes`, `SpawnEnds`,
`TeardownReclaimsAll`, `Converges`, `OperationsEnd`, `NobodyOversleeps` and `RollbackEnds`.
The three properties that the violation runs refute have no theorem, but two of them
do hold of a Fiber once delivered (`SlotIsExclusive`, `RevisionsAreDriven`).

## 6. Not modelled

- Runtime observation and logging. No lifecycle decision reads them, and the
  repository's decision records give observations no ordering or audit authority.
- Containment of panicking user destructors and Wakers: a contained panic changes no
  state the models keep. Containment is why `Deliver` fires every due sender.
- The order in which replaced inputs, evicted slots and removed listeners are
  destroyed outside the locks.
- In Era: a spawn refused because its origin closed, tasks of `Context::run` as
  callers, and recheck revisions (the claim that is abandoned at `era.rs` 184 has the
  shape of `creation_handoff`). Two of its definitions narrow the callers: `OneChain`
  leaves out calls hosted by different Fibers that wait for one another, which the code
  does not refuse and consumers must avoid; `Room` keeps a Fiber of `MaxFibers` for every
  creation under way.
- In Services: the scan that replaces a disabled dependency index (tests only) and
  Service configuration, which is data.
- The hand-over of a pending owner between executors (`DetachedWork`).
- Preparation, typed views and re-exports. Overflow of the 64-bit revision, sequence
  and identity counters is out of reach in practice, and the code aborts on it.
