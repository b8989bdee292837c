------------------------------ MODULE Deadline ------------------------------
(***************************************************************************)
(* Deadlines and the waits they bound: the process-wide scheduler with its *)
(* one worker thread (deadline.rs) and FiberHandle::wait_state on the      *)
(* state-publication cell of a Fiber (fiber/mod.rs, StatePublication).     *)
(*                                                                         *)
(* The scheduler's mutex makes insert, disarm and one turn of serve atomic *)
(* steps; the wake after insert, the clock and every await are not under   *)
(* it.  Of the six Fiber states a wait tells its target from the others.   *)
(***************************************************************************)
EXTENDS Naturals, FiniteSets

CONSTANTS
    Waiter,       \* wait_state calls
    Timeout,      \* the timeouts they give, in ticks
    Never,        \* the timeout beyond the representable clock
    MaxTime,      \* bound: the tick at which the last wait is called
    MaxPublish,   \* bound: times the target is published
    MaxLosses     \* bound: workers lost

ASSUME TimeoutAssumption == Never \notin Nat /\ Timeout \subseteq Nat \cup {Never}
ASSUME ClockAssumption   == {MaxTime, MaxPublish, MaxLosses} \subseteq Nat

VARIABLES
    now,       \* Instant::now
    armed,     \* Schedule.armed: deadlines, their identities and whose sender each has
    next_id,
    worker_running,
    worker,    \* where the worker thread is: "none", "scan", "deliver" or "wait"
    until,     \* the instant it sleeps until, Never without one
    due,       \* the senders it has removed and not fired yet
    lost,      \* workers lost so far
    current,   \* StatePublication.current is the target
    revision,  \* revisions[target]
    unnotified,\* a publication whose notify_waiters is still to come
    wait       \* the waits

schedulerVars == <<armed, next_id, worker_running, worker, until, due, lost>>
cellVars      == <<current, revision, unnotified>>
deadlineVars  == <<now, schedulerVars, cellVars, wait>>

\* wait_for_after and the Watchdog it owns.  hit is history: whether the target
\* was current at the call ("held") or was published since ("came"), when the
\* wait made up its mind.
Wait ==
    [at : {"idle", "check", "insert", "notify", "enable", "look", "parked", "done"},
     baseline : 0..MaxPublish, deadline : Nat \cup {Never},
     fired : BOOLEAN, notified : BOOLEAN,
     result : {"none", "Ok", "Elapsed", "DeadlineUnavailable", "abandoned"},
     hit : {"no", "held", "came"}]

Idle ==
    [at |-> "idle", baseline |-> 0, deadline |-> Never, fired |-> FALSE, notified |-> FALSE,
     result |-> "none", hit |-> "no"]

DeadlineInit ==
    /\ now = 0 /\ armed = {} /\ next_id = 0
    /\ worker_running = FALSE /\ worker = "none" /\ until = Never /\ due = {}
    /\ lost = 0
    /\ current = FALSE /\ revision = 0 /\ unnotified = FALSE
    /\ wait = [w \in Waiter |-> Idle]

-----------------------------------------------------------------------------
\* The scheduler

\* DeadlineKey: earliest first, arming order breaks ties.
Earlier(e, f)   == e.deadline < f.deadline \/ (e.deadline = f.deadline /\ e.id < f.id)
First(entries)  == CHOOSE e \in entries : \A f \in entries \ {e} : Earlier(e, f)

\* spawn_worker: the thread starts, or the OS refuses it.
Spawns == worker_running' = TRUE /\ worker' = "scan"

\* Slip: a new deadline never disturbs the worker.
NeverEarliest(e) == FALSE

\* The worker has to hear of it.
Earliest(e) == \A f \in armed : Earlier(e, f)

\* insert: nothing is armed without a worker; the wake follows the unlock.
Insert(w) ==
    LET e == [deadline |-> wait[w].deadline, id |-> next_id, of |-> w]
    IN  /\ wait[w].at = "insert"
        /\ \/ /\ ~worker_running
              /\ wait' = [wait EXCEPT ![w] = [Idle EXCEPT !.at = "done",
                                                          !.result = "DeadlineUnavailable"]]
              /\ UNCHANGED <<armed, next_id, worker_running, worker>>
           \/ /\ IF worker_running THEN UNCHANGED <<worker_running, worker>> ELSE Spawns
              /\ armed' = armed \cup {e} /\ next_id' = next_id + 1
              /\ wait' = [wait EXCEPT ![w].at = IF Earliest(e) THEN "notify" ELSE "enable"]
        /\ UNCHANGED <<now, until, due, lost, cellVars>>

\* changed.notify_one.
NotifyWorker(w) ==
    /\ wait[w].at = "notify"
    /\ worker' = IF worker = "wait" THEN "scan" ELSE worker
    /\ until' = Never
    /\ wait' = [wait EXCEPT ![w].at = "enable"]
    /\ UNCHANGED <<now, armed, next_id, worker_running, due, lost, cellVars>>

\* One turn of serve under the lock: take what is due, or sleep until the first.
Serve ==
    LET expired == {e \in armed : e.deadline <= now}
    IN  /\ worker = "scan"
        /\ due' = expired /\ armed' = armed \ expired
        /\ worker' = IF expired # {} THEN "deliver" ELSE "wait"
        /\ until' = IF due' # {} \/ armed' = {} THEN Never ELSE First(armed').deadline
        /\ UNCHANGED <<now, next_id, worker_running, lost, cellVars, wait>>

\* The senders fire outside the lock, each wake contained; a receiver that is
\* closed does not hear its own.
Deliver ==
    LET e == First(due)
    IN  /\ worker = "deliver"
        /\ due' = due \ {e}
        /\ worker' = IF due' = {} THEN "scan" ELSE "deliver"
        /\ wait' = IF wait[e.of].at = "done" THEN wait ELSE [wait EXCEPT ![e.of].fired = TRUE]
        /\ UNCHANGED <<now, armed, next_id, worker_running, until, lost, cellVars>>

\* wait_until returns at the deadline.
WorkerWakes ==
    /\ worker = "wait" /\ until # Never /\ now >= until
    /\ worker' = "scan" /\ until' = Never
    /\ UNCHANGED <<now, armed, next_id, worker_running, due, lost, cellVars, wait>>

\* Retire::drop: a lost worker hands what is armed to a replacement, or leaves
\* it armed for the next insert to try again.
Retire ==
    /\ worker = "scan" /\ lost < MaxLosses /\ lost' = lost + 1
    /\ \/ armed # {} /\ Spawns
       \/ worker_running' = FALSE /\ worker' = "none"
    /\ UNCHANGED <<now, armed, next_id, until, due, cellVars, wait>>

\* Instant::now: the clock runs on while something is armed.
Tick(limit) ==
    /\ now < limit \/ \E e \in armed : e.deadline > now
    /\ now' = now + 1
    /\ UNCHANGED <<schedulerVars, cellVars, wait>>

-----------------------------------------------------------------------------
\* The publication cell

Satisfied(w) == current \/ revision # wait[w].baseline

\* publish: a state that is current already is not published again.  The pass
\* that publishes notifies before its next state.
Publish ==
    /\ ~unnotified /\ unnotified' = TRUE
    /\ current \/ revision < MaxPublish
    /\ current' = ~current
    /\ revision' = IF current' THEN revision + 1 ELSE revision
    /\ wait' = [w \in Waiter |->
                 IF current' /\ wait[w].at # "idle" /\ wait[w].result = "none"
                 THEN [wait[w] EXCEPT !.hit = "came"] ELSE wait[w]]
    /\ UNCHANGED <<now, schedulerVars>>

\* notify: every enabled Notified, and no later one.
Notify ==
    /\ unnotified /\ unnotified' = FALSE
    /\ wait' = [w \in Waiter |->
                 [wait[w] EXCEPT !.notified = @ \/ wait[w].at \in {"look", "parked"}]]
    /\ UNCHANGED <<now, schedulerVars, current, revision>>

-----------------------------------------------------------------------------
\* wait_state

Goto(w, at) == wait' = [wait EXCEPT ![w].at = at]

\* wait_for takes the baseline.
Call(w) ==
    /\ wait[w].at = "idle" /\ now <= MaxTime
    /\ wait' = [wait EXCEPT ![w] = [Idle EXCEPT !.at = "check", !.baseline = revision,
                                                !.hit = IF current THEN "held" ELSE "no"]]
    /\ UNCHANGED <<now, schedulerVars, cellVars>>

\* The wait is over; Watchdog::drop closes the receiver and disarms the exact
\* entry.
Answer(w, result) ==
    /\ wait' = [wait EXCEPT ![w] = [Idle EXCEPT !.at = "done", !.result = result,
                                                !.deadline = wait[w].deadline,
                                                !.hit = wait[w].hit]]
    /\ armed' = {e \in armed : e.of # w}

\* The first snapshot; then arm: an unrepresentable deadline never elapses, one
\* already due has fired.
Check(w, t) ==
    /\ wait[w].at = "check"
    /\ IF Satisfied(w) THEN Answer(w, "Ok")
       ELSE /\ wait' = [wait EXCEPT ![w].deadline = IF t = Never THEN Never ELSE now + t,
                                    ![w].fired = (t = 0),
                                    ![w].at = IF t \in {0, Never} THEN "enable" ELSE "insert"]
            /\ UNCHANGED armed
    /\ UNCHANGED <<now, next_id, worker_running, worker, until, due, lost, cellVars>>

\* Each turn enables its Notified before it looks.
Enable(w) ==
    /\ wait[w].at = "enable"
    /\ Goto(w, "look")
    /\ UNCHANGED <<now, schedulerVars, cellVars>>

Look(w) ==
    /\ wait[w].at = "look"
    /\ IF Satisfied(w) THEN Answer(w, "Ok") ELSE Goto(w, "parked") /\ UNCHANGED armed
    /\ UNCHANGED <<now, next_id, worker_running, worker, until, due, lost, cellVars>>

\* Slip: the deadline wins the tie.
DeadlineWins(w) == "Elapsed"

\* The final snapshot.
Verdict(w) == IF Satisfied(w) THEN "Ok" ELSE "Elapsed"

\* select! picks either ready branch.
Resume(w) ==
    /\ wait[w].at = "parked"
    /\ \/ wait[w].fired /\ Answer(w, Verdict(w))
       \/ /\ wait[w].notified
          /\ wait' = [wait EXCEPT ![w].at = "enable", ![w].notified = FALSE]
          /\ UNCHANGED armed
    /\ UNCHANGED <<now, next_id, worker_running, worker, until, due, lost, cellVars>>

\* The caller drops its future at the await.
Abandon(w) ==
    /\ wait[w].at = "parked"
    /\ wait' = [wait EXCEPT ![w] = [Idle EXCEPT !.at = "done", !.result = "abandoned"]]
    /\ armed' = {e \in armed : e.of # w}
    /\ UNCHANGED <<now, next_id, worker_running, worker, until, due, lost, cellVars>>

-----------------------------------------------------------------------------
WorkerStep  == Serve \/ Deliver \/ WorkerWakes
WaitStep(w) ==
    \/ \E t \in Timeout : Check(w, t)
    \/ Insert(w) \/ NotifyWorker(w) \/ Enable(w) \/ Look(w) \/ Resume(w)

DeadlineNext ==
    \/ WorkerStep \/ Retire \/ Publish \/ Notify
    \/ \E w \in Waiter : WaitStep(w) \/ Abandon(w) \/ Call(w)

\* The clock runs, the worker thread runs, a publisher reaches its notify, and
\* callers poll the waits they keep.
DeadlineFairness ==
    /\ WF_deadlineVars(WorkerStep) /\ WF_deadlineVars(Notify)
    /\ \A w \in Waiter : WF_deadlineVars(WaitStep(w))

-----------------------------------------------------------------------------
\* What holds of every state

\* wait_state tells the truth whatever wakes it first and however late it
\* resumes: Ok for a target that was there at the call or came since, however
\* briefly, Elapsed only past its deadline and if the target never came; and a wait that is
\* over leaves nothing armed (wait_for_after, Watchdog::drop).
WaitsAnswerTruth ==
    \A w \in Waiter :
       /\ wait[w] \in Wait
       /\ wait[w].result = "Ok" => wait[w].hit # "no"
       /\ wait[w].result = "Elapsed" => wait[w].hit # "came" /\ now >= wait[w].deadline
       /\ wait[w].at = "done" => \A e \in armed : e.of # w
=============================================================================
