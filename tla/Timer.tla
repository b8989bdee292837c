------------------------------- MODULE Timer -------------------------------
(***************************************************************************)
(* Timer operations bound to a generation (crates/cordis-timer): Sleep,    *)
(* Timeout and Interval, polled by their owner, against the generation     *)
(* cleanup that cancels them (shapes.rs).  The journal is core's (Journal):*)
(* here it is one obligation per operation, which the drain claims or the  *)
(* operation disarms, never both.  Tokio's timers and wakers are external. *)
(*                                                                         *)
(* Shares the clock with Deadline and nothing else; a behaviour has waits  *)
(* or timers.                                                              *)
(***************************************************************************)
EXTENDS Deadline

CONSTANTS
    Timers,   \* timer operations
    Kind,     \* which of "sleep", "timeout" and "interval" are made
    Delay,    \* the delays and periods they are given, in ticks
    Grace,    \* how late tokio takes a tick to be on time (5 ms), in ticks
    MaxClock  \* bound: ticks of the clock where there are timers

ASSUME DelayAssumption ==
    /\ Delay \subseteq Nat /\ {Grace, MaxClock} \subseteq Nat
    /\ Kind \subseteq {"sleep", "timeout", "interval"}

VARIABLES
    clients,    \* who acts in this behaviour: Waiter or Timers
    open,       \* the generation admits cleanups
    cleanup,    \* the journal's obligation of each operation
    cancelled,  \* GenerationCancellation.cancelled
    waker,      \* a waker is registered in GenerationCancellation.waker
    unwoken,    \* cancel has swapped the flag and is still to wake
    timer       \* the operations

cancelVars == <<cleanup, cancelled, waker, unwoken>>
timerVars  == <<open, cancelVars, timer>>
vars       == <<deadlineVars, clients, timerVars>>

\* The check of is_cancelled that a poll is at, the verdict it is about to
\* commit, and whether its task is woken and its tokio timer set.  ticked is
\* history: when an Interval was last found due.
Absent ==
    [at |-> "absent", kind |-> "sleep", check |-> "first", verdict |-> "none", result |-> "none",
     start |-> 0, delay |-> 0, deadline |-> 0, woken |-> FALSE, set |-> FALSE,
     ticks |-> 0, ticked |-> 0]

Init ==
    /\ DeadlineInit
    /\ clients \in {Waiter, Timers}
    /\ open = TRUE
    /\ cleanup = [k \in Timers |-> "none"]
    /\ cancelled = [k \in Timers |-> FALSE]
    /\ waker = [k \in Timers |-> FALSE] /\ unwoken = [k \in Timers |-> FALSE]
    /\ timer = [k \in Timers |-> Absent]

-----------------------------------------------------------------------------
\* Construction

\* prepare_one_shot, prepare_deadline, prepare_interval: the generation is
\* probed, then the deadline pinned.  A zero period, a closed generation and a
\* deadline out of range refuse and change nothing.
Prepare(k, kind, d) ==
    /\ k \in clients /\ timer[k].at = "absent" /\ open
    /\ kind = "interval" => d # 0
    /\ now + d < MaxClock
    /\ timer' = [timer EXCEPT ![k] = [Absent EXCEPT !.at = "commit", !.kind = kind, !.start = now,
                                                    !.delay = d, !.deadline = now + d]]
    /\ UNCHANGED <<deadlineVars, clients, open, cancelVars>>

\* commit_cancellation: the generation may have closed since the probe.
Commit(k) ==
    /\ timer[k].at = "commit"
    /\ cleanup' = IF open THEN [cleanup EXCEPT ![k] = "armed"] ELSE cleanup
    /\ timer' = [timer EXCEPT ![k].at = IF open THEN "parked" ELSE "refused", ![k].woken = open]
    /\ UNCHANGED <<deadlineVars, clients, open, cancelled, waker, unwoken>>

-----------------------------------------------------------------------------
\* The generation's end

\* The generation closes; the drain claims each cleanup and runs its cancel.
Close ==
    /\ clients = Timers /\ open /\ open' = FALSE
    /\ UNCHANGED <<deadlineVars, clients, cancelVars, timer>>

DrainClaims(k) ==
    /\ ~open /\ cleanup[k] = "armed"
    /\ cleanup' = [cleanup EXCEPT ![k] = "claimed"]
    /\ UNCHANGED <<deadlineVars, clients, open, cancelled, waker, unwoken, timer>>

\* GenerationCancellation::cancel: the flag, then the wake.
CancelSwap(k) ==
    /\ cleanup[k] = "claimed" /\ ~cancelled[k]
    /\ cancelled' = [cancelled EXCEPT ![k] = TRUE] /\ unwoken' = [unwoken EXCEPT ![k] = TRUE]
    /\ UNCHANGED <<deadlineVars, clients, open, cleanup, waker, timer>>

CancelWake(k) ==
    /\ unwoken[k] /\ unwoken' = [unwoken EXCEPT ![k] = FALSE]
    /\ timer' = [timer EXCEPT ![k].woken = @ \/ waker[k]]
    /\ waker' = [waker EXCEPT ![k] = FALSE]
    /\ UNCHANGED <<deadlineVars, clients, open, cleanup, cancelled>>

-----------------------------------------------------------------------------
\* A poll

Set(k, f) == timer' = [timer EXCEPT ![k] = f]

\* Every answer but a tick ends the operation.
Ended(k, result) == [timer[k] EXCEPT !.at = "done", !.result = result, !.set = FALSE]

\* A poll of tokio's timer or of a check that finds nothing goes on here.
Checks(k, check, verdict) ==
    [timer[k] EXCEPT !.at = "load", !.check = check, !.verdict = verdict]

Poll(k) ==
    /\ timer[k].at = "parked" /\ timer[k].woken
    /\ Set(k, [Checks(k, "first", "none") EXCEPT !.woken = FALSE])
    /\ UNCHANGED <<deadlineVars, clients, open, cancelVars>>

\* is_cancelled: load, register, load again.
Load(k) ==
    /\ timer[k].at = "load"
    /\ Set(k, IF cancelled[k] THEN Ended(k, "Cancelled") ELSE [timer[k] EXCEPT !.at = "register"])
    /\ UNCHANGED <<deadlineVars, clients, open, cancelVars>>

Register(k) ==
    /\ timer[k].at = "register"
    /\ waker' = [waker EXCEPT ![k] = TRUE]
    /\ Set(k, [timer[k] EXCEPT !.at = "reload"])
    /\ UNCHANGED <<deadlineVars, clients, open, cleanup, cancelled, unwoken>>

\* Where a check leads that finds no cancellation.  A tick is yielded, and the
\* stream polled again.
Uncancelled(k) ==
    LET t == timer[k]
    IN  CASE t.check = "first"   -> [t EXCEPT !.at = "deadline"]
          [] t.check = "pending" -> [t EXCEPT !.at = "parked"]
          [] t.check = "ready"   -> [t EXCEPT !.at = "again"]
          [] t.check = "verdict" -> [t EXCEPT !.at = "disarm"]
          [] t.check = "tick"    -> [t EXCEPT !.at = "parked", !.woken = TRUE, !.ticks = @ + 1]

\* The flag is read again behind the registration.
Reload(k) ==
    /\ timer[k].at = "reload"
    /\ Set(k, IF cancelled[k] THEN Ended(k, "Cancelled") ELSE Uncancelled(k))
    /\ UNCHANGED <<deadlineVars, clients, open, cancelVars>>

\* Slip: MissedTickBehavior::Burst, the default, makes up for every missed tick.
BurstTick(t) == t.deadline + t.delay

\* MissedTickBehavior::Skip: a late Interval goes on at the next instant of the
\* construction's phase.  One within tokio's grace is not late.
NextTick(t) ==
    IF now > t.deadline + Grace THEN t.start + t.delay * ((now - t.start) \div t.delay + 1)
    ELSE t.deadline + t.delay

\* The deadline is polled; one that is not due sets tokio's timer.
PollDeadline(k) ==
    LET t == timer[k]
    IN  /\ t.at = "deadline"
        /\ Set(k, IF now < t.deadline
                  THEN IF t.kind = "timeout" THEN [t EXCEPT !.at = "work", !.set = TRUE]
                       ELSE [Checks(k, "pending", "none") EXCEPT !.set = TRUE]
                  ELSE IF t.kind = "interval"
                  THEN [Checks(k, "tick", "none") EXCEPT !.deadline = NextTick(t), !.ticked = now]
                  ELSE Checks(k, "verdict", "Elapsed"))
        /\ UNCHANGED <<deadlineVars, clients, open, cancelVars>>

\* poll_timeout polls the caller's work only before the deadline.
PollWork(k) ==
    /\ timer[k].at = "work"
    /\ \/ Set(k, Checks(k, "ready", "none"))
       \/ Set(k, Checks(k, "pending", "none"))
    /\ UNCHANGED <<deadlineVars, clients, open, cancelVars>>

\* Readiness is provisional until the deadline is polled again.
Provisional(k) == IF now < timer[k].deadline THEN "Completed" ELSE "Elapsed"

PollAgain(k) ==
    /\ timer[k].at = "again"
    /\ Set(k, Checks(k, "verdict", Provisional(k)))
    /\ UNCHANGED <<deadlineVars, clients, open, cancelVars>>

\* Slip: the answer does not depend on who had the cleanup.
DisarmsAnyway(k) == TRUE

\* EffectEntry::disarm: the journal gives the obligation to one claimant.
WinsCleanup(k) == cleanup[k] = "armed"

Disarmed(k) == [cleanup EXCEPT ![k] = IF @ = "armed" THEN "disarmed" ELSE @]

Disarm(k) ==
    /\ timer[k].at = "disarm"
    /\ cleanup' = Disarmed(k)
    /\ Set(k, Ended(k, IF WinsCleanup(k) THEN timer[k].verdict ELSE "Cancelled"))
    /\ UNCHANGED <<deadlineVars, clients, open, cancelled, waker, unwoken>>

\* The owner drops the operation between two polls.
DropTimer(k) ==
    /\ timer[k].at = "parked"
    /\ cleanup' = Disarmed(k)
    /\ timer' = [timer EXCEPT ![k].at = "dropped", ![k].set = FALSE]
    /\ UNCHANGED <<deadlineVars, clients, open, cancelled, waker, unwoken>>

\* Tokio's timer goes off; the caller's work wakes its task.
TokioWakes(k) ==
    /\ timer[k].set /\ now >= timer[k].deadline
    /\ timer' = [timer EXCEPT ![k].set = FALSE, ![k].woken = TRUE]
    /\ UNCHANGED <<deadlineVars, clients, open, cancelVars>>

WorkWakes(k) ==
    /\ timer[k].at = "parked" /\ timer[k].kind = "timeout" /\ ~timer[k].woken
    /\ timer' = [timer EXCEPT ![k].woken = TRUE]
    /\ UNCHANGED <<deadlineVars, clients, open, cancelVars>>

-----------------------------------------------------------------------------
PollStep(k) ==
    \/ Commit(k) \/ Poll(k) \/ Load(k) \/ Register(k) \/ Reload(k)
    \/ PollDeadline(k) \/ PollWork(k) \/ PollAgain(k) \/ Disarm(k)

CancelStep(k) == DrainClaims(k) \/ CancelSwap(k) \/ CancelWake(k)

Passes == Tick(IF clients = Waiter THEN MaxTime ELSE MaxClock) /\ UNCHANGED <<clients, timerVars>>

Next ==
    \/ Passes
    \/ clients = Waiter /\ DeadlineNext /\ UNCHANGED <<clients, timerVars>>
    \/ Close
    \/ \E k \in Timers :
         \/ PollStep(k) \/ CancelStep(k) \/ TokioWakes(k) \/ WorkWakes(k) \/ DropTimer(k)
         \/ \E kind \in Kind, d \in Delay : Prepare(k, kind, d)

Spec == Init /\ [][Next]_vars

\* Time passes, tokio's driver and the drain of a closed generation run, and
\* owners poll the operations that are woken.
FairSpec ==
    /\ Spec
    /\ WF_vars(Passes)
    /\ DeadlineFairness
    /\ \A k \in Timers :
         WF_vars(PollStep(k)) /\ WF_vars(CancelStep(k)) /\ WF_vars(TokioWakes(k))

-----------------------------------------------------------------------------
\* Properties

\* One verdict per operation, and the right one (shapes.rs): a normal result has
\* won the cleanup and a cancellation has lost it to the drain, although the
\* drain claims first and signals later; nothing elapses early.  An Interval
\* keeps its phase, is never ahead of it, and goes on behind the instant of a
\* tick, the older missed ones dropped, unless the tick came within the grace:
\* with a period no longer than that it may still burst, which TM-07 says it
\* never does (docs/v3-migration.md).
TimersAreExact ==
    \A k \in Timers : LET t == timer[k] IN
       /\ t.result \in {"Elapsed", "Completed"} => cleanup[k] = "disarmed"
       /\ t.result = "Cancelled" => cleanup[k] = "claimed"
       /\ t.result = "Elapsed" => now >= t.deadline
       /\ t.kind = "interval" =>
            /\ t.delay # 0 => (t.deadline - t.start) % t.delay = 0
            /\ t.ticks * t.delay <= now - t.start
            /\ t.ticked < t.deadline \/ t.ticked <= t.deadline - t.delay + Grace

\* Nobody oversleeps, whichever wake is lost in a race: a wait with a deadline
\* ends unless the scheduler is left without a worker for good, an operation
\* whose cleanup was claimed ends, and a Sleep or Timeout ends with its deadline.
NobodyOversleeps ==
    /\ <>[]worker_running => \A w \in Waiter :
         (wait[w].at = "parked" /\ wait[w].deadline # Never) ~> wait[w].at = "done"
    /\ \A k \in Timers :
         cleanup[k] = "claimed" \/ (timer[k].at = "parked" /\ timer[k].kind # "interval")
           ~> timer[k].at \in {"done", "dropped"}
=============================================================================
