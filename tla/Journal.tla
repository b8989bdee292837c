------------------------------ MODULE Journal ------------------------------
(***************************************************************************)
(* The cleanup journal of one Fiber: registration through the gated seam   *)
(* (gated.rs), early claims and detached execution (effect.rs), and the    *)
(* drain that closes a generation (fiber/mod.rs).                          *)
(*                                                                         *)
(* Registering threads, the Context::run tasks they start, holders of an   *)
(* EffectRegistration and the claimed cleanups run concurrently with the   *)
(* one pass that owns the Fiber's slot (Inertia shows that there is one).  *)
(* A registration is one action per atomic load, lock or push; the pass is *)
(* one action per published state, lock acquisition or await.              *)
(***************************************************************************)
EXTENDS Naturals, FiniteSets

CONSTANTS
    Registrar,   \* threads that register effects and tasks
    MaxPush      \* bound: obligations committed in a behaviour

ASSUME PushAssumption     == MaxPush \in Nat
ASSUME RegistrarAssumption == Registrar \cap (0..MaxPush) = {}

Token   == 1..MaxPush             \* DisposableToken, in commit order
NoToken == 0
Kind    == {"sync", "async", "join"}
Process == Registrar \cup Token   \* a token also names the task it joins
Nobody  == NoToken

VARIABLES
    state, alive, disposing, generation_replacing,   \* the Fiber's gate
    creation,       \* the pass is the creation's, so its caller may drop it
    driver,         \* where the slot owner is
    after,          \* where it continues when the drain is over
    worklist,       \* tokens of the drain's snapshot still to visit
    drain_cleanup,  \* the cleanup last claimed by a drain
    lock,           \* holder of the disposables lock across several steps
    sn,             \* DisposableList::sn
    cleanup,        \* what became of each obligation
    at, checks, wants, token   \* locals of a registering process

gateVars   == <<state, alive, disposing, generation_replacing>>
passVars   == <<creation, driver, after, worklist, drain_cleanup>>
callVars   == <<at, checks, wants, token>>
vars       == <<gateVars, passVars, lock, sn, cleanup, callVars>>

\* phase: "owned" by the generation, "running" once claimed, then "done", or
\* "disarmed".  channel: the one-shot that carries the outcome to the claimant.
\* delivered counts the times its failure was returned or reported.
\* registration: is its EffectRegistration still in somebody's hands.  task: a
\* run task's life.
Obligation ==
    [kind : Kind, by : Process, registration : {"none", "held"},
     phase : {"absent", "owned", "running", "done", "disarmed"},
     claimant : {"none", "drain", "manual"},
     channel : {"none", "open", "sent", "closed"},
     outcome : {"none", "ok", "failed"}, delivered : 0..1,
     task : {"none", "live", "ended"}]

Absent(b) == [kind |-> "sync", by |-> b, registration |-> "none",
              phase |-> "absent",
              claimant |-> "none", channel |-> "none", outcome |-> "none",
              delivered |-> 0, task |-> "none"]

GateTypeOK ==
    /\ state \in {"Pending", "Loading", "Active", "Unloading", "Failed", "Disposed"}
    /\ alive \in BOOLEAN /\ disposing \in BOOLEAN /\ generation_replacing \in BOOLEAN

PassTypeOK ==
    /\ creation \in BOOLEAN
    /\ driver \in {"idle", "settle", "drain", "snapshot", "next", "cleaning",
                   "decide", "apply", "failed", "unload", "die", "disposed", "over"}
    /\ after \in {"decide", "failed", "disposed"}
    /\ worklist \subseteq Token
    /\ drain_cleanup \in Token \cup {NoToken}

JournalTypeOK ==
    /\ lock \in Process \cup {Nobody}
    /\ sn \in 0..MaxPush
    /\ cleanup \in [Token -> Obligation]

CallTypeOK ==
    /\ at \in [Process -> {"rest", "run_gate", "gate", "lock", "recheck", "push", "spawn"}]
    /\ checks \in [Process -> 0..3]
    /\ wants \in [Process -> Kind]
    /\ token \in [Process -> Token \cup {NoToken}]

TypeOK == GateTypeOK /\ PassTypeOK /\ JournalTypeOK /\ CallTypeOK

\* The initial pass owns the slot of a Fiber that was never applied.
Init ==
    /\ state = "Pending" /\ alive = TRUE
    /\ disposing = FALSE /\ generation_replacing = FALSE
    /\ creation = TRUE /\ driver = "settle" /\ after = "decide"
    /\ worklist = {} /\ drain_cleanup = NoToken
    /\ lock = Nobody /\ sn = 0
    /\ cleanup = [t \in Token |-> Absent(t)]
    /\ at = [p \in Process |-> "rest"]
    /\ checks = [p \in Process |-> 0]
    /\ wants = [p \in Process |-> "sync"]
    /\ token = [p \in Process |-> NoToken]

Journal  == {t \in Token : cleanup[t].phase = "owned"}
Draining == {t \in Token : cleanup[t].phase = "running" /\ cleanup[t].claimant = "drain"}

-----------------------------------------------------------------------------
\* Registration

\* The open registrations; MaxPush bounds them with the committed ones.
InFlight == {p \in Process : at[p] \notin {"rest", "spawn"}}

\* A thread, or a live task of this Fiber, calls effect, effect_sync or run.
Register(p) ==
    /\ at[p] = "rest" /\ (p \in Token => cleanup[p].task = "live")
    /\ sn + Cardinality(InFlight) < MaxPush
    /\ \E k \in Kind :
         /\ wants' = [wants EXCEPT ![p] = k]
         /\ at' = [at EXCEPT ![p] = IF k = "join" THEN "run_gate" ELSE "gate"]
    /\ UNCHANGED <<gateVars, passVars, lock, sn, cleanup, checks, token>>

\* The four loads of assert_can_register, in their order.
Admits == <<alive, ~disposing, ~generation_replacing,
            state \in {"Loading", "Active"}>>
Gates   == {"run_gate", "gate", "recheck"}
Passed  == [run_gate |-> "gate", gate |-> "lock", recheck |-> "push"]

\* Return to the caller, with the journal lock released if it was held.
Return(p) ==
    /\ at' = [at EXCEPT ![p] = "rest"]
    /\ checks' = [checks EXCEPT ![p] = 0]
    /\ lock' = IF lock = p THEN Nobody ELSE lock

AssertOpen(p) ==
    /\ at[p] \in Gates /\ Admits[checks[p] + 1]
    /\ IF checks[p] = 3
       THEN at' = [at EXCEPT ![p] = Passed[at[p]]] /\ checks' = [checks EXCEPT ![p] = 0]
       ELSE checks' = [checks EXCEPT ![p] = @ + 1] /\ UNCHANGED at
    /\ UNCHANGED <<gateVars, passVars, lock, sn, cleanup, wants, token>>

AssertClosed(p) ==
    /\ at[p] \in Gates /\ ~Admits[checks[p] + 1]
    /\ Return(p)
    /\ UNCHANGED <<gateVars, passVars, sn, cleanup, wants, token>>

\* run without a current runtime.
ExecutorUnavailable(p) ==
    /\ at[p] = "gate" /\ checks[p] = 0 /\ wants[p] = "join"
    /\ Return(p)
    /\ UNCHANGED <<gateVars, passVars, sn, cleanup, wants, token>>

\* Slip: no recheck under the lock.
LockTrustsGate(p) ==
    /\ at[p] = "lock" /\ lock = Nobody
    /\ lock' = p
    /\ at' = [at EXCEPT ![p] = "push"]
    /\ UNCHANGED <<gateVars, passVars, sn, cleanup, checks, wants, token>>

LockJournal(p) ==
    /\ at[p] = "lock" /\ lock = Nobody
    /\ lock' = p
    /\ at' = [at EXCEPT ![p] = "recheck"]
    /\ UNCHANGED <<gateVars, passVars, sn, cleanup, checks, wants, token>>

\* A resource store refuses to publish; nothing is committed.
PublishRefused(p) ==
    /\ at[p] = "push" /\ wants[p] = "sync"
    /\ Return(p)
    /\ UNCHANGED <<gateVars, passVars, sn, cleanup, wants, token>>

\* The obligation is committed.  The caller of effect gets its registration;
\* run goes on to start the task.
Push(p) ==
    /\ at[p] = "push" /\ sn < MaxPush
    /\ sn' = sn + 1
    /\ cleanup' = [cleanup EXCEPT ![sn + 1] =
         [Absent(p) EXCEPT !.kind = wants[p], !.phase = "owned",
             !.registration = IF wants[p] = "join" THEN "none" ELSE "held"]]
    /\ at' = [at EXCEPT ![p] = IF wants[p] = "join" THEN "spawn" ELSE "rest"]
    /\ token' = [token EXCEPT ![p] = IF wants[p] = "join" THEN sn + 1 ELSE NoToken]
    /\ lock' = Nobody
    /\ UNCHANGED <<gateVars, passVars, checks, wants>>

\* run starts the task and parks its handle for the joining cleanup.
RunSpawn(p) ==
    /\ at[p] = "spawn"
    /\ cleanup' = [cleanup EXCEPT ![token[p]].task = "live"]
    /\ at' = [at EXCEPT ![p] = "rest"]
    /\ token' = [token EXCEPT ![p] = NoToken]
    /\ UNCHANGED <<gateVars, passVars, lock, sn, checks, wants>>

\* A task returns once it sees its inputs end: the resources it registered
\* itself are torn down.  (User code; the ordering trick of run is for it.)
TaskEnds(t) ==
    /\ cleanup[t].task = "live" /\ at[t] = "rest"
    /\ \A u \in Token : cleanup[u].by = t => cleanup[u].phase \notin {"owned", "running"}
    /\ cleanup' = [cleanup EXCEPT ![t].task = "ended"]
    /\ UNCHANGED <<gateVars, passVars, lock, sn, callVars>>

-----------------------------------------------------------------------------
\* Claims and execution

\* EffectRegistration::disarm and dispose, up to its await, when their claim
\* wins: the occurrence is dropped, or its cleanup detached.
Disarm(t) ==
    /\ cleanup[t].registration = "held" /\ t \in Journal /\ lock = Nobody
    /\ cleanup' = [cleanup EXCEPT ![t].registration = "none", ![t].phase = "disarmed"]
    /\ UNCHANGED <<gateVars, passVars, lock, sn, callVars>>

DisposeEffect(t) ==
    /\ cleanup[t].registration = "held" /\ t \in Journal /\ lock = Nobody
    /\ cleanup' = [cleanup EXCEPT ![t].registration = "none", ![t].phase = "running",
                                  ![t].claimant = "manual", ![t].channel = "open"]
    /\ UNCHANGED <<gateVars, passVars, lock, sn, callVars>>

\* A drain was faster: both report false.
ClaimLost(t) ==
    /\ cleanup[t].registration = "held" /\ t \notin Journal /\ lock = Nobody
    /\ cleanup' = [cleanup EXCEPT ![t].registration = "none"]
    /\ UNCHANGED <<gateVars, passVars, lock, sn, callVars>>

\* The caller of dispose receives the outcome, or drops its future.
EffectDisposed(t) ==
    /\ cleanup[t].claimant = "manual" /\ cleanup[t].channel = "sent"
    /\ cleanup' = [cleanup EXCEPT ![t].channel = "closed",
         ![t].delivered = IF cleanup[t].outcome = "failed" THEN @ + 1 ELSE @]
    /\ UNCHANGED <<gateVars, passVars, lock, sn, callVars>>

DropDispose(t) ==
    /\ cleanup[t].claimant = "manual" /\ cleanup[t].channel \in {"open", "sent"}
    /\ cleanup' = [cleanup EXCEPT ![t].channel = "closed"]
    /\ UNCHANGED <<gateVars, passVars, lock, sn, callVars>>

\* Slip: the join does not wait for the handle to be parked.
JoinsUnparked(t) == cleanup[t].task # "live"
\* The cleanup of a task waits for the parked handle and joins it.
Joined(t) == cleanup[t].task = "ended"

\* tx.send fails: the receiver is gone.
Unreceived(t) == cleanup[t].channel = "closed"

\* Slip: a claimed cleanup stops with the wait for it.
StopsUnawaited(t) == cleanup[t].phase = "running" /\ cleanup[t].channel = "open"
\* A claimed cleanup is detached: it needs nobody to await it.
Executing(t) == cleanup[t].phase = "running"

\* execute_cleanup and the detached wrapper: the cleanup returns, fails or
\* panics, and the outcome is sent, or the failure reported when nobody is
\* left to receive it.  The joining cleanup contains its own failures.
RunCleanup(t) ==
    /\ Executing(t) /\ (cleanup[t].kind = "join" => Joined(t))
    /\ \E o \in IF cleanup[t].kind = "join" THEN {"ok"} ELSE {"ok", "failed"} :
         cleanup' = [cleanup EXCEPT ![t].phase = "done", ![t].outcome = o,
             ![t].channel = IF @ = "open" THEN "sent" ELSE @,
             ![t].delivered = IF o = "failed" /\ Unreceived(t) THEN @ + 1 ELSE @]
    /\ UNCHANGED <<gateVars, passVars, lock, sn, callVars>>

-----------------------------------------------------------------------------
\* drain_disposables, run by the pass that owns the slot

\* Slip: the drain does not join the cleanup an interrupted drain left behind.
JoinsNothing ==
    /\ driver = "drain" /\ driver' = "snapshot"
    /\ UNCHANGED <<gateVars, creation, after, worklist, drain_cleanup, lock, sn,
                   cleanup, callVars>>

\* wait_claimed_drain_cleanup
JoinClaimed ==
    /\ driver = "drain" /\ drain_cleanup \notin Draining
    /\ driver' = "snapshot"
    /\ UNCHANGED <<gateVars, creation, after, worklist, drain_cleanup, lock, sn,
                   cleanup, callVars>>

\* Slip: the snapshot is not taken under the journal lock.
SnapshotUnlocked ==
    /\ driver = "snapshot"
    /\ worklist' = Journal /\ driver' = "next"
    /\ UNCHANGED <<gateVars, creation, after, drain_cleanup, lock, sn, cleanup,
                   callVars>>

Snapshot ==
    /\ driver = "snapshot" /\ lock = Nobody
    /\ worklist' = Journal /\ driver' = "next"
    /\ UNCHANGED <<gateVars, creation, after, drain_cleanup, lock, sn, cleanup,
                   callVars>>

\* Reverse commit order.
Visits(t) == t \in worklist /\ \A u \in worklist : u <= t

\* The newest token left is claimed and its cleanup started.
ClaimNext(t) ==
    /\ driver = "next" /\ Visits(t) /\ t \in Journal /\ lock = Nobody
    /\ worklist' = worklist \ {t}
    /\ cleanup' = [cleanup EXCEPT ![t].phase = "running", ![t].claimant = "drain",
                                  ![t].channel = "open"]
    /\ drain_cleanup' = t /\ driver' = "cleaning"
    /\ UNCHANGED <<gateVars, creation, after, lock, sn, callVars>>

\* A manual claim won it.
SkipClaimed(t) ==
    /\ driver = "next" /\ Visits(t) /\ t \notin Journal /\ lock = Nobody
    /\ worklist' = worklist \ {t}
    /\ UNCHANGED <<gateVars, creation, driver, after, drain_cleanup, lock, sn,
                   cleanup, callVars>>

\* The outcome arrives; a failure is reported and the drain goes on.
Cleaned ==
    /\ driver = "cleaning" /\ cleanup[drain_cleanup].channel = "sent"
    /\ cleanup' = [cleanup EXCEPT ![drain_cleanup].channel = "closed",
         ![drain_cleanup].delivered = IF cleanup[drain_cleanup].outcome = "failed" THEN @ + 1 ELSE @]
    /\ driver' = "next"
    /\ UNCHANGED <<gateVars, creation, after, worklist, drain_cleanup, lock, sn,
                   callVars>>

Drained ==
    /\ driver = "next" /\ worklist = {}
    /\ driver' = after
    /\ UNCHANGED <<gateVars, creation, after, worklist, drain_cleanup, lock, sn,
                   cleanup, callVars>>

-----------------------------------------------------------------------------
\* The pass: settle_once_inner and teardown_body around the drain

PassUnchanged == UNCHANGED <<worklist, drain_cleanup, lock, sn, cleanup, callVars>>

\* Drift starts a convergence; restart and update close the generation first.
StartSettle ==
    /\ driver = "idle" /\ driver' = "settle"
    /\ generation_replacing' \in {generation_replacing, TRUE}
    /\ UNCHANGED <<state, alive, disposing, creation, after>> /\ PassUnchanged

StartDispose ==
    /\ driver = "idle" /\ driver' = "unload"
    /\ disposing' = TRUE
    /\ UNCHANGED <<state, alive, generation_replacing, creation, after>>
    /\ PassUnchanged

Settle ==
    /\ driver = "settle"
    /\ IF state \in {"Active", "Failed", "Loading"}
       THEN state' = "Unloading" /\ driver' = "drain" /\ after' = "decide"
       ELSE driver' = "decide" /\ UNCHANGED <<state, after>>
    /\ UNCHANGED <<alive, disposing, generation_replacing, creation>>
    /\ PassUnchanged

\* A missing service parks the Fiber; a creation is delivered Pending.
SettlePending ==
    /\ driver = "decide" /\ driver' = "idle"
    /\ state' = "Pending" /\ creation' = FALSE
    /\ UNCHANGED <<alive, disposing, generation_replacing, after>> /\ PassUnchanged

\* The gate of the new generation opens.
SettleLoading ==
    /\ driver = "decide" /\ driver' = "apply"
    /\ state' = "Loading" /\ generation_replacing' = FALSE
    /\ UNCHANGED <<alive, disposing, creation, after>> /\ PassUnchanged

ApplyOk ==
    /\ driver = "apply" /\ driver' = "idle"
    /\ state' = "Active" /\ creation' = FALSE
    /\ UNCHANGED <<alive, disposing, generation_replacing, after>> /\ PassUnchanged

ApplyFails ==
    /\ driver = "apply" /\ driver' = "drain"
    /\ state' = "Unloading" /\ after' = "failed"
    /\ UNCHANGED <<alive, disposing, generation_replacing, creation>>
    /\ PassUnchanged

\* The failure is parked after the rollback; a failed creation is torn down.
ParkFailure ==
    /\ driver = "failed" /\ state' = "Failed"
    /\ IF creation THEN driver' = "unload" /\ disposing' = TRUE
                   ELSE driver' = "idle" /\ UNCHANGED disposing
    /\ UNCHANGED <<alive, generation_replacing, creation, after>> /\ PassUnchanged

TeardownUnload ==
    /\ driver = "unload" /\ driver' = "die"
    /\ state' = "Unloading"
    /\ UNCHANGED <<alive, disposing, generation_replacing, creation, after>>
    /\ PassUnchanged

TeardownDie ==
    /\ driver = "die" /\ driver' = "drain"
    /\ alive' = FALSE /\ after' = "disposed"
    /\ UNCHANGED <<state, disposing, generation_replacing, creation>>
    /\ PassUnchanged

TeardownDisposed ==
    /\ driver = "disposed" /\ driver' = "over"
    /\ state' = "Disposed"
    /\ UNCHANGED <<alive, disposing, generation_replacing, creation, after>>
    /\ PassUnchanged

\* The creation's caller drops its future at an await: inside user apply, or
\* in a drain that awaits a detached cleanup.  The wait is abandoned, the
\* cleanup is not, and the guard tears the Fiber down.
DropCreation ==
    /\ creation /\ driver \in {"apply", "cleaning"}
    /\ driver = "cleaning" => cleanup[drain_cleanup].kind # "sync"
    /\ creation' = FALSE /\ disposing' = TRUE /\ driver' = "unload"
    /\ cleanup' = IF driver = "cleaning"
                  THEN [cleanup EXCEPT ![drain_cleanup].channel = "closed"]
                  ELSE cleanup
    /\ UNCHANGED <<state, alive, generation_replacing, after, worklist,
                   drain_cleanup, lock, sn, callVars>>

-----------------------------------------------------------------------------
Drive == \/ JoinClaimed \/ Snapshot \/ Cleaned \/ Drained
         \/ \E t \in Token : ClaimNext(t) \/ SkipClaimed(t)
         \/ Settle \/ SettlePending \/ SettleLoading \/ ApplyOk \/ ApplyFails
         \/ ParkFailure \/ TeardownUnload \/ TeardownDie \/ TeardownDisposed

Registering(p) == \/ AssertOpen(p) \/ AssertClosed(p) \/ LockJournal(p)
                  \/ PublishRefused(p) \/ Push(p) \/ RunSpawn(p)

Next == \/ Drive \/ StartSettle \/ StartDispose \/ DropCreation
        \/ \E p \in Process : Register(p) \/ Registering(p) \/ ExecutorUnavailable(p)
        \/ \E t \in Token : \/ RunCleanup(t) \/ TaskEnds(t)
                            \/ Disarm(t) \/ DisposeEffect(t) \/ ClaimLost(t)
                            \/ EffectDisposed(t) \/ DropDispose(t)

Spec == Init /\ [][Next]_vars

\* A started pass is polled, started calls run, detached cleanups run on
\* their executor, and a task whose inputs ended returns.
Fairness == /\ WF_vars(Drive)
            /\ \A p \in Process : WF_vars(Registering(p))
            /\ \A t \in Token : WF_vars(RunCleanup(t)) /\ SF_vars(TaskEnds(t))
FairSpec == Spec /\ Fairness

-----------------------------------------------------------------------------
\* Properties

Closed == state \in {"Pending", "Failed", "Disposed"}

\* push_gated: "a registered cleanup can never strand behind an already-taken
\* drain snapshot".  A Fiber that rests Pending, Failed or Disposed has an
\* empty journal, and no cleanup claimed by a drain is still running, however
\* registrations, early claims, interrupted drains and passes interleave.
NothingStranded == Closed => Journal = {} /\ Draining = {}

\* Context::run: a task never outlives the generation it belongs to, even when
\* the drain meets its obligation before the task has been started.
TasksJoined ==
    Closed => /\ \A t \in Token : cleanup[t].task # "live"
              /\ \A p \in Process : at[p] # "spawn"

\* The drain runs cleanups one at a time in reverse commit order, and so does
\* a teardown that resumes an interrupted drain.
ReverseCommitOrder ==
    \A t \in Draining : \A u \in Token :
        /\ u \in Draining => u = t
        /\ u \in Journal => u < t

\* A new generation starts with a fresh journal: nothing committed before it
\* leaks into it.
FreshGeneration ==
    [][state' = "Loading" /\ state # "Loading" =>
         Journal = {} /\ Draining = {}
         /\ \A t \in Token : cleanup[t].task # "live"]_vars

\* After a disposal commits, every obligation is consumed, the ones claimed
\* manually by callers that went away included.
TeardownReclaimsAll ==
    disposing ~> /\ state = "Disposed"
                 /\ \A t \in Token : cleanup[t].phase \in {"absent", "done", "disarmed"}
=============================================================================
