---------------------------- MODULE TimerProofs ----------------------------
(***************************************************************************)
(* Proofs about Timer and the Deadline scheduler under it: for any waits,  *)
(* timeouts, operations and delays, a wait answers the truth and a timer   *)
(* operation has one verdict, the right one.                               *)
(***************************************************************************)
EXTENDS Timer, WellFoundedInduction, TLAPS

-----------------------------------------------------------------------------
(* The inductive invariant of the scheduler and the waits *)

Armed == [deadline : Nat, id : Nat, of : Waiter]

DeadlineType ==
    /\ now \in Nat /\ armed \subseteq Armed /\ due \subseteq Armed /\ next_id \in Nat
    /\ worker \in {"none", "scan", "deliver", "wait"}
    /\ worker = "deliver" => due # {}
    /\ current \in BOOLEAN /\ revision \in 0..MaxPublish
    /\ wait \in [Waiter -> Wait]

\* The identities break every tie.
Identities ==
    /\ \A e \in armed \cup due : e.id < next_id
    /\ \A e, f \in armed \cup due : e.id = f.id => e = f

\* Whose sender is armed or taken, waits for its deadline or is done.
Senders ==
    /\ \A e \in armed \cup due :
         /\ wait[e.of].at \in {"notify", "enable", "look", "parked", "done"}
         /\ wait[e.of].at # "done" => e.deadline = wait[e.of].deadline
    /\ \A e \in armed : wait[e.of].at # "done"
    /\ \A e \in due : e.deadline <= now

\* A wait under way knows of the target what the cell does.
Waits(w) ==
    LET t == wait[w]
    IN  /\ t.at \notin {"idle", "done"} =>
             /\ t.baseline <= revision
             /\ Satisfied(w) => t.hit # "no"
             /\ t.hit = "came" => revision # t.baseline
        /\ t.at # "done" => t.result = "none"
        /\ t.fired => t.deadline \in Nat /\ now >= t.deadline
        /\ t.at = "insert" => t.deadline \in Nat
        /\ t.result = "Ok" => t.hit # "no"
        /\ t.result = "Elapsed" => t.hit # "came" /\ t.deadline \in Nat /\ now >= t.deadline

WInv == DeadlineType /\ Identities /\ Senders /\ \A w \in Waiter : Waits(w)

-----------------------------------------------------------------------------
(* The inductive invariant of the timer operations *)

Polling == {"parked", "load", "register", "reload", "deadline", "work", "again", "disarm"}
Checking == {"load", "register", "reload"}

Operation ==
    [at : {"absent", "commit", "refused", "done", "dropped"} \cup Polling,
     kind : {"sleep", "timeout", "interval"},
     check : {"first", "pending", "ready", "verdict", "tick"},
     verdict : {"none", "Completed", "Elapsed"},
     result : {"none", "Completed", "Elapsed", "Cancelled"},
     start : Nat, delay : Nat, deadline : Nat, woken : BOOLEAN, set : BOOLEAN,
     ticks : Nat, ticked : Nat]

TimerType ==
    /\ open \in BOOLEAN /\ waker \in [Timers -> BOOLEAN]
    /\ timer \in [Timers -> Operation]
    /\ cleanup \in [Timers -> {"none", "armed", "claimed", "disarmed"}]
    /\ cancelled \in [Timers -> BOOLEAN]

\* One claimant has the obligation c of an operation t; b is its cancellation.
Claims(t, c, b) ==
    /\ t.at \in {"absent", "commit", "refused"} => c = "none"
    /\ t.at \in Polling => c \in {"armed", "claimed"}
    /\ b => c = "claimed"
    /\ t.at # "done" => t.result = "none"
    /\ t.result \in {"Elapsed", "Completed"} => c = "disarmed"
    /\ t.result = "Cancelled" => c = "claimed"

\* A verdict about to be committed.
Deciding(t) == (t.at \in Checking /\ t.check = "verdict") \/ t.at = "disarm"

\* It is true at n already.
Verdicts(t, n) ==
    /\ Deciding(t) => t.verdict \in {"Elapsed", "Completed"} /\ (t.verdict = "Elapsed" => n >= t.deadline)
    /\ t.result = "Elapsed" => n >= t.deadline

\* A tick that is found due and not yielded yet.
Ticking(t) == t.at \in Checking /\ t.check = "tick"

Spaced(t) == t.ticked < t.deadline \/ t.ticked <= t.deadline - t.delay + Grace

\* The next tick of an Interval is one of its phase, and past every tick it
\* has yielded or is about to; unless the last came within the grace, it is past
\* the instant of that tick, too.
Phase(t, n) ==
    t.kind = "interval" =>
      /\ t.delay # 0 /\ t.start <= n
      /\ t.ticks * t.delay <= n - t.start
      /\ Ticking(t) => (t.ticks + 1) * t.delay <= n - t.start
      /\ Spaced(t)
      /\ \E m \in Nat : /\ t.deadline = t.start + t.delay * m
                        /\ m >= t.ticks + 1
                        /\ Ticking(t) => m >= t.ticks + 2

TInv ==
    /\ TimerType
    /\ \A k \in Timers :
         /\ Claims(timer[k], cleanup[k], cancelled[k])
         /\ Verdicts(timer[k], now) /\ Phase(timer[k], now)

-----------------------------------------------------------------------------
(* The scheduler *)

\* DeadlineKey orders what is armed: there is a first entry.
LEMMA LeastElement ==
    ASSUME NEW S, S \subseteq Nat, S # {}
    PROVE  \E n \in S : \A m \in S : n <= m
<1> DEFINE R == OpToRel(<, Nat)
<1>1. IsWellFoundedOn(R, Nat)
  BY NatLessThanWellFounded
<1> HIDE DEF R
<1>2. PICK n \in S : \A m \in S : ~(<<m, n>> \in R)
  BY <1>1, WFMin, Zenon
<1>3. \A m \in S : ~(m < n)
  BY <1>2 DEF R, OpToRel
<1> QED BY <1>3

LEMMA FirstIsOne ==
    ASSUME NEW entries, entries \subseteq Armed, entries # {},
           \A e, f \in entries : e.id = f.id => e = f
    PROVE  First(entries) \in entries
<1>1. PICK d \in {e.deadline : e \in entries} : \A m \in {e.deadline : e \in entries} : d <= m
  <2>1. {e.deadline : e \in entries} \subseteq Nat /\ {e.deadline : e \in entries} # {}
    BY DEF Armed
  <2> QED BY <2>1, LeastElement
<1> DEFINE D == {e \in entries : e.deadline = d}
<1>2. PICK i \in {e.id : e \in D} : \A m \in {e.id : e \in D} : i <= m
  <2>1. {e.id : e \in D} \subseteq Nat /\ {e.id : e \in D} # {}
    BY DEF Armed
  <2> QED BY <2>1, LeastElement
<1>3. PICK e \in D : e.id = i
  OBVIOUS
<1>4. ASSUME NEW f \in entries \ {e}
      PROVE  Earlier(e, f)
  <2>1. /\ e \in entries /\ e.deadline = d /\ d \in Nat /\ f.deadline \in Nat /\ e.id \in Nat /\ f.id \in Nat
        /\ d <= f.deadline
    BY <1>1 DEF Armed
  <2>2. f.deadline = d => e.id <= f.id /\ e.id # f.id
    BY <1>2, <1>3, <2>1
  <2> QED BY <2>1, <2>2 DEF Earlier
<1>5. e \in entries
  OBVIOUS
<1> QED BY <1>4, <1>5, Zenon DEF First

LEMMA IdleType == Idle \in Wait
BY ClockAssumption DEF Idle, Wait

\* The waits that a step leaves alone.
LEMMA WaitsStay ==
    ASSUME WInv, NEW v \in Waiter, wait'[v] = wait[v], UNCHANGED <<current, revision>>,
           now' \in Nat, now <= now'
    PROVE  Waits(v)'
BY DEF WInv, DeadlineType, Waits, Satisfied, Wait

\* The step of a wait that goes on as it was.
LEMMA WaitGoes ==
    ASSUME WInv, NEW w \in Waiter, NEW at \in {"enable", "look", "parked"}, NEW n \in BOOLEAN,
           wait' = [wait EXCEPT ![w] = [wait[w] EXCEPT !.at = at, !.notified = n]],
           wait[w].at \in {"notify", "enable", "look", "parked"},
           UNCHANGED <<now, armed, due, next_id, current, revision>>,
           worker' \in {"none", "scan", "deliver", "wait"}, worker' = "deliver" => worker = "deliver"
    PROVE  WInv'
<1>1. wait \in [Waiter -> Wait] /\ wait[w] \in Wait /\ now \in Nat
  BY DEF WInv, DeadlineType
<1>2. /\ wait'[w] = [wait[w] EXCEPT !.at = at, !.notified = n] /\ wait'[w] \in Wait
      /\ wait' \in [Waiter -> Wait] /\ \A v \in Waiter : v # w => wait'[v] = wait[v]
  <2>1. [wait[w] EXCEPT !.at = at, !.notified = n] \in Wait
    BY <1>1 DEF Wait
  <2> QED BY <1>1, <2>1
<1>3. DeadlineType' /\ Identities'
  BY <1>2 DEF WInv, DeadlineType, Identities
<1>4. /\ wait'[w].at = at /\ wait'[w].deadline = wait[w].deadline /\ wait'[w].fired = wait[w].fired
      /\ wait'[w].baseline = wait[w].baseline /\ wait'[w].hit = wait[w].hit
      /\ wait'[w].result = wait[w].result
  BY <1>1, <1>2 DEF Wait
<1>5. Senders'
  BY <1>2, <1>4 DEF WInv, Senders, DeadlineType, Armed
<1>6. Waits(w)'
  BY <1>4 DEF WInv, Waits, Satisfied
<1>7. \A v \in Waiter : Waits(v)'
  BY <1>1, <1>2, <1>6, WaitsStay
<1> QED BY <1>3, <1>5, <1>7 DEF WInv

\* Watchdog::drop: a wait that is over leaves nothing armed.
LEMMA WaitEnds ==
    ASSUME WInv, NEW w \in Waiter, NEW t \in Wait, t.at = "done", t.fired = FALSE,
           t.result = "Ok" => t.hit # "no",
           t.result = "Elapsed" => t.hit # "came" /\ t.deadline \in Nat /\ now >= t.deadline,
           wait' = [wait EXCEPT ![w] = t], armed' = {e \in armed : e.of # w},
           UNCHANGED <<now, due, next_id, worker, current, revision>>,
           wait[w].at \notin {"idle", "done"}
    PROVE  WInv'
<1>1. wait \in [Waiter -> Wait] /\ wait[w] \in Wait /\ now \in Nat
  BY DEF WInv, DeadlineType
<1>2. wait'[w] = t /\ wait' \in [Waiter -> Wait] /\ \A v \in Waiter : v # w => wait'[v] = wait[v]
  BY <1>1
<1>3. DeadlineType' /\ Identities'
  BY <1>2 DEF WInv, DeadlineType, Identities
<1>4. Senders'
  BY <1>2 DEF WInv, Senders, DeadlineType, Armed
<1>5. Waits(w)'
  BY <1>2 DEF WInv, Waits
<1>6. \A v \in Waiter : Waits(v)'
  BY <1>1, <1>2, <1>5, WaitsStay
<1> QED BY <1>3, <1>4, <1>6 DEF WInv

LEMMA InsertKeeps ==
    ASSUME WInv, NEW w \in Waiter, Insert(w)
    PROVE  WInv'
<1> DEFINE e == [deadline |-> wait[w].deadline, id |-> next_id, of |-> w]
<1>1. /\ wait \in [Waiter -> Wait] /\ wait[w] \in Wait /\ now \in Nat /\ wait[w].at = "insert"
      /\ wait[w].deadline \in Nat /\ next_id \in Nat /\ armed \subseteq Armed /\ due \subseteq Armed
  BY DEF WInv, DeadlineType, Insert, Waits
<1>2. UNCHANGED <<now, due, current, revision>>
  BY DEF Insert, cellVars
<1>3. \A x \in armed \cup due : x.of # w
  BY <1>1 DEF WInv, Senders
<1>4. CASE /\ wait' = [wait EXCEPT ![w] = [Idle EXCEPT !.at = "done", !.result = "DeadlineUnavailable"]]
           /\ UNCHANGED <<armed, next_id, worker_running, worker>>
  <2> DEFINE t == [Idle EXCEPT !.at = "done", !.result = "DeadlineUnavailable"]
  <2>1. t \in Wait /\ t.at = "done" /\ t.fired = FALSE /\ t.result = "DeadlineUnavailable"
    BY IdleType DEF Idle, Wait
  <2>2. armed' = {x \in armed : x.of # w}
    BY <1>3, <1>4
  <2> HIDE DEF t
  <2>3. wait' = [wait EXCEPT ![w] = t]
    BY <1>4 DEF t
  <2> QED BY <1>1, <1>2, <1>4, <2>1, <2>2, <2>3, WaitEnds
<1>5. CASE /\ IF worker_running THEN UNCHANGED <<worker_running, worker>> ELSE Spawns
           /\ armed' = armed \cup {e} /\ next_id' = next_id + 1
           /\ wait' = [wait EXCEPT ![w].at = IF Earliest(e) THEN "notify" ELSE "enable"]
  <2>1. PICK at \in {"notify", "enable"} : wait' = [wait EXCEPT ![w] = [wait[w] EXCEPT !.at = at]]
    BY <1>1, <1>5
  <2>2. /\ wait'[w] = [wait[w] EXCEPT !.at = at] /\ wait'[w] \in Wait
        /\ wait' \in [Waiter -> Wait] /\ \A v \in Waiter : v # w => wait'[v] = wait[v]
    <3>1. [wait[w] EXCEPT !.at = at] \in Wait
      BY <1>1 DEF Wait
    <3> QED BY <1>1, <2>1, <3>1
  <2>3. /\ wait'[w].at = at /\ wait'[w].deadline = wait[w].deadline /\ wait'[w].fired = wait[w].fired
        /\ wait'[w].baseline = wait[w].baseline /\ wait'[w].hit = wait[w].hit
        /\ wait'[w].result = wait[w].result
    BY <1>1, <2>2 DEF Wait
  <2>4. e \in Armed /\ e.of = w /\ e.id = next_id /\ e.deadline = wait[w].deadline
    BY <1>1 DEF Armed
  <2> HIDE DEF e
  <2>5. DeadlineType'
    BY <1>1, <1>2, <1>5, <2>2, <2>4 DEF WInv, DeadlineType, Spawns
  <2>6. Identities'
    BY <1>1, <1>2, <1>5, <2>4 DEF WInv, Identities, Armed
  <2>7. Senders'
    BY <1>1, <1>2, <1>3, <1>5, <2>2, <2>3, <2>4 DEF WInv, Senders, Armed
  <2>8. Waits(w)'
    BY <1>1, <1>2, <2>3 DEF WInv, Waits, Satisfied
  <2>9. \A v \in Waiter : Waits(v)'
    BY <1>1, <1>2, <2>2, <2>8, WaitsStay
  <2> QED BY <2>5, <2>6, <2>7, <2>9 DEF WInv
<1> QED BY <1>4, <1>5 DEF Insert

LEMMA AnswerKeeps ==
    ASSUME WInv, NEW w \in Waiter, NEW r \in {"Ok", "Elapsed"}, Answer(w, r),
           UNCHANGED <<now, due, next_id, worker, current, revision>>,
           wait[w].at \notin {"idle", "done"},
           r = "Ok" <=> Satisfied(w), r = "Elapsed" => wait[w].fired
    PROVE  WInv'
<1> DEFINE t == [Idle EXCEPT !.at = "done", !.result = r, !.deadline = wait[w].deadline, !.hit = wait[w].hit]
<1>1. wait[w] \in Wait /\ Waits(w)
  BY DEF WInv, DeadlineType
<1>2. /\ t \in Wait /\ t.at = "done" /\ t.fired = FALSE /\ t.result = r /\ t.deadline = wait[w].deadline
      /\ t.hit = wait[w].hit
  BY <1>1, IdleType DEF Idle, Wait
<1>3. wait' = [wait EXCEPT ![w] = t] /\ armed' = {e \in armed : e.of # w}
  BY DEF Answer
<1> HIDE DEF t
<1>4. /\ r = "Ok" => wait[w].hit # "no"
      /\ r = "Elapsed" => wait[w].hit # "came" /\ wait[w].deadline \in Nat /\ now >= wait[w].deadline
  BY <1>1 DEF Waits, Satisfied
<1> QED BY <1>2, <1>3, <1>4, WaitEnds

LEMMA CheckKeeps ==
    ASSUME WInv, NEW w \in Waiter, NEW t \in Timeout, Check(w, t)
    PROVE  WInv'
<1>1. /\ wait \in [Waiter -> Wait] /\ wait[w] \in Wait /\ now \in Nat /\ wait[w].at = "check" /\ Waits(w)
  BY DEF WInv, DeadlineType, Check
<1>2. UNCHANGED <<now, due, next_id, worker, current, revision>>
  BY DEF Check, cellVars
<1>3. CASE Satisfied(w)
  BY <1>1, <1>2, <1>3, AnswerKeeps DEF Check
<1>4. CASE ~Satisfied(w)
  <2>1. PICK d \in Nat \cup {Never}, at \in {"enable", "insert"} :
          /\ wait' = [wait EXCEPT ![w] = [wait[w] EXCEPT !.deadline = d, !.fired = (t = 0), !.at = at]]
          /\ (t = 0 => d = now) /\ (at = "insert" => d \in Nat)
    <3>1. t \in Nat \/ t = Never
      BY TimeoutAssumption
    <3> DEFINE d == IF t = Never THEN Never ELSE now + t
               at == IF t \in {0, Never} THEN "enable" ELSE "insert"
    <3>2. wait' = [wait EXCEPT ![w] = [wait[w] EXCEPT !.deadline = d, !.fired = (t = 0), !.at = at]]
      BY <1>1, <1>4 DEF Check
    <3>3. d \in Nat \cup {Never} /\ at \in {"enable", "insert"} /\ (t = 0 => d = now) /\ (at = "insert" => d \in Nat)
      BY <1>1, <3>1, TimeoutAssumption
    <3> QED BY <3>2, <3>3
  <2>2. [wait[w] EXCEPT !.deadline = d, !.fired = (t = 0), !.at = at] \in Wait
    BY <1>1 DEF Wait
  <2>3. /\ wait'[w] = [wait[w] EXCEPT !.deadline = d, !.fired = (t = 0), !.at = at]
        /\ wait' \in [Waiter -> Wait] /\ \A v \in Waiter : v # w => wait'[v] = wait[v]
    BY <1>1, <2>1, <2>2
  <2>4. /\ wait'[w].at = at /\ wait'[w].deadline = d /\ wait'[w].fired = (t = 0)
        /\ wait'[w].baseline = wait[w].baseline /\ wait'[w].hit = wait[w].hit
        /\ wait'[w].result = wait[w].result
    BY <1>1, <2>3 DEF Wait
  <2>5. armed' = armed /\ \A e \in armed \cup due : e.of # w
    BY <1>1, <1>4 DEF Check, WInv, Senders
  <2>6. DeadlineType' /\ Identities'
    BY <1>2, <2>3, <2>5 DEF WInv, DeadlineType, Identities
  <2>7. Senders'
    BY <1>2, <2>3, <2>5 DEF WInv, Senders, DeadlineType, Armed
  <2>8. Waits(w)'
    <3>1. /\ wait'[w].fired => wait'[w].deadline = now
          /\ wait'[w].at \in {"enable", "insert"} /\ wait'[w].result = "none"
          /\ wait'[w].at = "insert" => wait'[w].deadline \in Nat
      BY <1>1, <2>1, <2>4 DEF Waits
    <3>2. /\ wait'[w].baseline <= revision /\ (wait'[w].hit = "came" => revision # wait'[w].baseline)
          /\ ~current /\ revision = wait'[w].baseline
      BY <1>1, <1>4, <2>4 DEF Waits, Satisfied
    <3> QED BY <1>1, <1>2, <3>1, <3>2 DEF Waits, Satisfied
  <2>9. \A v \in Waiter : Waits(v)'
    BY <1>1, <1>2, <2>3, <2>8, WaitsStay
  <2> QED BY <2>6, <2>7, <2>9 DEF WInv
<1> QED BY <1>3, <1>4

LEMMA CallKeeps ==
    ASSUME WInv, NEW w \in Waiter, Call(w)
    PROVE  WInv'
<1>1. /\ wait \in [Waiter -> Wait] /\ wait[w] \in Wait /\ now \in Nat /\ wait[w].at = "idle"
      /\ revision \in 0..MaxPublish /\ current \in BOOLEAN /\ revision \in Nat
  BY ClockAssumption DEF WInv, DeadlineType, Call
<1>2. UNCHANGED <<now, armed, due, next_id, worker, current, revision>>
  BY DEF Call, cellVars, schedulerVars
<1>3. PICK h \in {"held", "no"} :
        /\ wait' = [wait EXCEPT ![w] = [Idle EXCEPT !.at = "check", !.baseline = revision, !.hit = h]]
        /\ current => h = "held"
  BY DEF Call
<1> DEFINE t == [Idle EXCEPT !.at = "check", !.baseline = revision, !.hit = h]
<1>4. /\ t \in Wait /\ t.at = "check" /\ t.baseline = revision /\ t.hit = h /\ t.fired = FALSE
      /\ t.result = "none"
  BY <1>1, IdleType DEF Idle, Wait
<1>5. wait'[w] = t /\ wait' \in [Waiter -> Wait] /\ \A v \in Waiter : v # w => wait'[v] = wait[v]
  BY <1>1, <1>3, <1>4
<1> HIDE DEF t
<1>6. DeadlineType' /\ Identities'
  BY <1>2, <1>5 DEF WInv, DeadlineType, Identities
<1>7. Senders'
  <2>1. \A e \in armed \cup due : e.of # w
    BY <1>1 DEF WInv, Senders
  <2> QED BY <1>2, <1>5, <2>1 DEF WInv, Senders, DeadlineType, Armed
<1>8. Waits(w)'
  <2>1. /\ wait'[w].at = "check" /\ wait'[w].baseline = revision /\ wait'[w].hit = h
        /\ wait'[w].fired = FALSE /\ wait'[w].result = "none" /\ (current => h = "held")
        /\ h \in {"held", "no"}
    BY <1>3, <1>4, <1>5
  <2> QED BY <1>1, <1>2, <2>1 DEF Waits, Satisfied
<1>9. \A v \in Waiter : Waits(v)'
  BY <1>1, <1>2, <1>5, <1>8, WaitsStay
<1> QED BY <1>6, <1>7, <1>9 DEF WInv

LEMMA WaitStepKeeps ==
    ASSUME WInv, NEW w \in Waiter, WaitStep(w) \/ Abandon(w) \/ Call(w)
    PROVE  WInv'
<1>1. /\ wait \in [Waiter -> Wait] /\ wait[w] \in Wait /\ now \in Nat /\ Waits(w)
      /\ worker \in {"none", "scan", "deliver", "wait"}
  BY DEF WInv, DeadlineType
<1>2. ASSUME NEW at, wait' = [wait EXCEPT ![w].at = at]
      PROVE  wait' = [wait EXCEPT ![w] = [wait[w] EXCEPT !.at = at, !.notified = wait[w].notified]]
             /\ wait[w].notified \in BOOLEAN
  <2>1. wait' = [wait EXCEPT ![w] = [wait[w] EXCEPT !.at = at]] /\ wait[w].notified \in BOOLEAN
    BY <1>1, <1>2 DEF Wait
  <2>2. [wait[w] EXCEPT !.at = at] = [wait[w] EXCEPT !.at = at, !.notified = wait[w].notified]
    BY <1>1 DEF Wait
  <2> QED BY <2>1, <2>2
<1>3. CASE NotifyWorker(w)
  <2>1. /\ UNCHANGED <<now, armed, due, next_id, current, revision>> /\ wait[w].at = "notify"
        /\ wait' = [wait EXCEPT ![w].at = "enable"]
        /\ worker' \in {"none", "scan", "deliver", "wait"} /\ (worker' = "deliver" => worker = "deliver")
    BY <1>1, <1>3 DEF NotifyWorker, cellVars
  <2> QED BY <1>2, <2>1, WaitGoes
<1>4. CASE Enable(w)
  <2>1. /\ UNCHANGED <<now, armed, due, next_id, worker, current, revision>> /\ wait[w].at = "enable"
        /\ wait' = [wait EXCEPT ![w].at = "look"]
    BY <1>4 DEF Enable, Goto, cellVars, schedulerVars
  <2> QED BY <1>1, <1>2, <2>1, WaitGoes
<1>5. CASE Look(w) /\ ~Satisfied(w)
  <2>1. /\ UNCHANGED <<now, armed, due, next_id, worker, current, revision>> /\ wait[w].at = "look"
        /\ wait' = [wait EXCEPT ![w].at = "parked"]
    BY <1>5 DEF Look, Goto, cellVars
  <2> QED BY <1>1, <1>2, <2>1, WaitGoes
<1>6. CASE Look(w) /\ Satisfied(w)
  BY <1>6, AnswerKeeps DEF Look, cellVars
<1>7. CASE Resume(w)
  <2>1. UNCHANGED <<now, due, next_id, worker, current, revision>> /\ wait[w].at = "parked"
    BY <1>7 DEF Resume, cellVars
  <2>2. CASE wait[w].fired /\ Answer(w, Verdict(w))
    <3>1. Verdict(w) \in {"Ok", "Elapsed"} /\ (Verdict(w) = "Ok" <=> Satisfied(w))
      BY DEF Verdict
    <3> QED BY <2>1, <2>2, <3>1, AnswerKeeps
  <2>3. CASE wait' = [wait EXCEPT ![w].at = "enable", ![w].notified = FALSE] /\ UNCHANGED armed
    <3>1. wait' = [wait EXCEPT ![w] = [wait[w] EXCEPT !.at = "enable", !.notified = FALSE]]
      BY <1>1, <2>3
    <3> QED BY <1>1, <2>1, <2>3, <3>1, WaitGoes
  <2> QED BY <1>7, <2>2, <2>3 DEF Resume
<1>8. CASE Abandon(w)
  <2> DEFINE t == [Idle EXCEPT !.at = "done", !.result = "abandoned"]
  <2>1. t \in Wait /\ t.at = "done" /\ t.fired = FALSE /\ t.result = "abandoned"
    BY IdleType DEF Idle, Wait
  <2>2. /\ wait' = [wait EXCEPT ![w] = t] /\ armed' = {e \in armed : e.of # w} /\ wait[w].at = "parked"
        /\ UNCHANGED <<now, due, next_id, worker, current, revision>>
    BY <1>8 DEF Abandon, cellVars
  <2> HIDE DEF t
  <2> QED BY <2>1, <2>2, WaitEnds
<1> QED
  BY <1>3, <1>4, <1>5, <1>6, <1>7, <1>8, CheckKeeps, InsertKeeps, CallKeeps DEF WaitStep

\* The worker, the cell and the clock.
LEMMA WorkerKeeps ==
    ASSUME WInv, WorkerStep \/ Retire
    PROVE  WInv'
<1>1. /\ wait \in [Waiter -> Wait] /\ now \in Nat /\ armed \subseteq Armed /\ due \subseteq Armed
      /\ worker \in {"none", "scan", "deliver", "wait"} /\ UNCHANGED <<now, next_id, current, revision>>
  BY DEF WInv, DeadlineType, WorkerStep, Serve, Deliver, WorkerWakes, Retire, cellVars
<1>2. CASE Serve
  <2>1. PICK expired : /\ expired = {e \in armed : e.deadline <= now} /\ due' = expired /\ armed' = armed \ expired
                       /\ worker' = (IF expired # {} THEN "deliver" ELSE "wait") /\ wait' = wait
    BY <1>2 DEF Serve
  <2>2. DeadlineType'
    BY <1>1, <2>1 DEF WInv, DeadlineType
  <2>3. Identities' /\ Senders'
    BY <1>1, <2>1 DEF WInv, Identities, Senders
  <2>4. \A v \in Waiter : Waits(v)'
    BY <1>1, <2>1, WaitsStay
  <2> QED BY <2>2, <2>3, <2>4 DEF WInv
<1>3. CASE Deliver
  <2>1. PICK e : /\ e = First(due) /\ due' = due \ {e} /\ armed' = armed
                 /\ worker' = (IF due' = {} THEN "scan" ELSE "deliver")
                 /\ wait' = (IF wait[e.of].at = "done" THEN wait ELSE [wait EXCEPT ![e.of].fired = TRUE])
    BY <1>3 DEF Deliver
  <2>2. e \in due
    <3>1. due # {} /\ \A x, y \in due : x.id = y.id => x = y
      BY <1>3 DEF Deliver, WInv, DeadlineType, Identities
    <3> QED BY <1>1, <2>1, <3>1, FirstIsOne
  <2>3. e.of \in Waiter /\ e.deadline \in Nat /\ e.deadline <= now
    BY <1>1, <2>2 DEF Armed, WInv, Senders
  <2>4. CASE wait[e.of].at = "done"
    <3>1. wait' = wait
      BY <2>1, <2>4
    <3>2. DeadlineType'
      BY <1>1, <2>1, <3>1 DEF WInv, DeadlineType
    <3>3. Identities' /\ Senders'
      BY <1>1, <2>1, <3>1 DEF WInv, Identities, Senders
    <3>4. \A v \in Waiter : Waits(v)'
      BY <1>1, <3>1, WaitsStay
    <3> QED BY <3>2, <3>3, <3>4 DEF WInv
  <2>5. CASE wait[e.of].at # "done"
    <3>1. PICK w \in Waiter : w = e.of
      BY <2>3
    <3>2. wait[w] \in Wait /\ wait' = [wait EXCEPT ![w] = [wait[w] EXCEPT !.fired = TRUE]]
      BY <1>1, <2>1, <2>5, <3>1
    <3>3. [wait[w] EXCEPT !.fired = TRUE] \in Wait
      BY <3>2 DEF Wait
    <3>4. /\ wait'[w] = [wait[w] EXCEPT !.fired = TRUE] /\ wait' \in [Waiter -> Wait]
          /\ \A v \in Waiter : v # w => wait'[v] = wait[v]
      BY <1>1, <3>2, <3>3
    <3>5. /\ wait'[w].at = wait[w].at /\ wait'[w].deadline = wait[w].deadline
          /\ wait'[w].baseline = wait[w].baseline /\ wait'[w].hit = wait[w].hit
          /\ wait'[w].result = wait[w].result /\ wait'[w].fired = TRUE
      BY <3>2, <3>4 DEF Wait
    <3>6. DeadlineType'
      BY <1>1, <2>1, <3>4 DEF WInv, DeadlineType
    <3>7. Identities'
      BY <1>1, <2>1 DEF WInv, Identities
    <3>8. Senders'
      BY <1>1, <2>1, <3>4, <3>5 DEF WInv, Senders, Armed
    <3>9. wait[w].deadline = e.deadline
      BY <2>2, <2>5, <3>1 DEF WInv, Senders
    <3>10. Waits(w)'
      BY <1>1, <2>3, <3>5, <3>9 DEF WInv, Waits, Satisfied
    <3>11. \A v \in Waiter : Waits(v)'
      BY <1>1, <3>4, <3>10, WaitsStay
    <3> QED BY <3>6, <3>7, <3>8, <3>11 DEF WInv
  <2> QED BY <2>4, <2>5
<1>4. CASE WorkerWakes \/ Retire
  <2>1. /\ UNCHANGED <<armed, due, wait>> /\ worker' \in {"none", "scan"}
    BY <1>4 DEF WorkerWakes, Retire, Spawns
  <2>2. DeadlineType'
    BY <1>1, <2>1 DEF WInv, DeadlineType
  <2>3. Identities' /\ Senders'
    BY <1>1, <2>1 DEF WInv, Identities, Senders
  <2>4. \A v \in Waiter : Waits(v)'
    BY <1>1, <2>1, WaitsStay
  <2> QED BY <2>2, <2>3, <2>4 DEF WInv
<1> QED BY <1>2, <1>3, <1>4 DEF WorkerStep

LEMMA PublishKeeps ==
    ASSUME WInv, Publish
    PROVE  WInv'
<1>1. /\ wait \in [Waiter -> Wait] /\ now \in Nat /\ armed \subseteq Armed /\ due \subseteq Armed
      /\ current \in BOOLEAN /\ revision \in Nat /\ revision <= MaxPublish /\ MaxPublish \in Nat
  BY ClockAssumption DEF WInv, DeadlineType
<1>2. /\ UNCHANGED <<now, armed, due, next_id, worker>>
      /\ current' = ~current /\ (current \/ revision < MaxPublish)
      /\ revision' = (IF current' THEN revision + 1 ELSE revision)
      /\ wait' = [w \in Waiter |->
                   IF current' /\ wait[w].at # "idle" /\ wait[w].result = "none"
                   THEN [wait[w] EXCEPT !.hit = "came"] ELSE wait[w]]
  BY DEF Publish, schedulerVars
<1>3. ASSUME NEW w \in Waiter
      PROVE  /\ wait'[w] \in Wait /\ wait'[w].at = wait[w].at /\ wait'[w].deadline = wait[w].deadline
             /\ wait'[w].fired = wait[w].fired /\ wait'[w].baseline = wait[w].baseline
             /\ wait'[w].result = wait[w].result
             /\ \/ current' /\ wait[w].at # "idle" /\ wait[w].result = "none" /\ wait'[w].hit = "came"
                \/ wait'[w].hit = wait[w].hit
                   /\ ~(current' /\ wait[w].at # "idle" /\ wait[w].result = "none")
  <2>1. wait[w] \in Wait
    BY <1>1
  <2> DEFINE t == [wait[w] EXCEPT !.hit = "came"]
  <2>2. /\ t \in Wait /\ t.at = wait[w].at /\ t.deadline = wait[w].deadline /\ t.fired = wait[w].fired
        /\ t.baseline = wait[w].baseline /\ t.result = wait[w].result /\ t.hit = "came"
    BY <2>1 DEF Wait
  <2>3. wait'[w] = IF current' /\ wait[w].at # "idle" /\ wait[w].result = "none" THEN t ELSE wait[w]
    BY <1>2
  <2> HIDE DEF t
  <2> QED BY <2>1, <2>2, <2>3
<1>4. wait' \in [Waiter -> Wait]
  <2>1. \A w \in Waiter : wait'[w] \in Wait
    BY <1>3
  <2> HIDE DEF Wait
  <2>2. wait' = [w \in Waiter |-> wait'[w]]
    BY <1>2, Zenon
  <2> QED BY <2>1, <2>2, Zenon
<1>5. current' \in BOOLEAN /\ revision' \in 0..MaxPublish
  <2>1. current' \in BOOLEAN
    BY <1>1, <1>2
  <2>2. \/ current /\ revision' = revision
        \/ ~current /\ revision < MaxPublish /\ revision' = revision + 1
    BY <1>2, Zenon
  <2> QED BY <1>1, <2>1, <2>2
<1>6. DeadlineType' /\ Identities'
  BY <1>2, <1>4, <1>5 DEF WInv, DeadlineType, Identities
<1>7. Senders'
  BY <1>1, <1>2, <1>3 DEF WInv, Senders, Armed
<1>8. ASSUME NEW w \in Waiter
      PROVE  Waits(w)'
  <2>1. wait[w] \in Wait /\ Waits(w) /\ wait[w].baseline \in Nat
    BY <1>1, ClockAssumption DEF WInv, Wait
  <2>2. wait[w].at \notin {"idle", "done"} =>
          /\ wait[w].result = "none" /\ wait[w].baseline <= revision'
          /\ wait'[w].hit = "came" => revision' # wait[w].baseline
          /\ (current' \/ revision' # wait[w].baseline) => wait'[w].hit # "no"
    <3> SUFFICES ASSUME wait[w].at \notin {"idle", "done"}
                 PROVE  /\ wait[w].result = "none" /\ wait[w].baseline <= revision'
                        /\ wait'[w].hit = "came" => revision' # wait[w].baseline
                        /\ (current' \/ revision' # wait[w].baseline) => wait'[w].hit # "no"
      OBVIOUS
    <3>1. /\ wait[w].result = "none" /\ wait[w].baseline <= revision
          /\ (wait[w].hit = "came" => revision # wait[w].baseline)
          /\ ((current \/ revision # wait[w].baseline) => wait[w].hit # "no")
      BY <2>1 DEF Waits, Satisfied
    <3>2. CASE current'
      <4>1. wait'[w].hit = "came" /\ revision' = revision + 1
        BY <1>2, <1>3, <3>1, <3>2
      <4> QED BY <1>1, <2>1, <3>1, <4>1
    <3>3. CASE ~current'
      <4>1. wait'[w].hit = wait[w].hit /\ revision' = revision
        BY <1>2, <1>3, <3>3
      <4> QED BY <1>1, <2>1, <3>1, <3>3, <4>1
    <3> QED BY <3>2, <3>3
  <2>3. /\ (wait[w].result = "Ok" => wait'[w].hit # "no")
        /\ (wait[w].result = "Elapsed" => wait'[w].hit # "came")
    BY <1>3, <2>1 DEF Waits
  <2>4. /\ (wait[w].at # "done" => wait[w].result = "none")
        /\ (wait[w].fired => wait[w].deadline \in Nat /\ now >= wait[w].deadline)
        /\ (wait[w].at = "insert" => wait[w].deadline \in Nat)
        /\ (wait[w].result = "Elapsed" => wait[w].deadline \in Nat /\ now >= wait[w].deadline)
    BY <2>1 DEF Waits
  <2>5. /\ wait'[w].at = wait[w].at /\ wait'[w].deadline = wait[w].deadline
        /\ wait'[w].fired = wait[w].fired /\ wait'[w].baseline = wait[w].baseline
        /\ wait'[w].result = wait[w].result /\ now' = now
    BY <1>2, <1>3
  <2> QED BY <2>2, <2>3, <2>4, <2>5, Zenon DEF Waits, Satisfied
<1> QED BY <1>6, <1>7, <1>8 DEF WInv

LEMMA NotifyKeeps ==
    ASSUME WInv, Notify
    PROVE  WInv'
<1>1. wait \in [Waiter -> Wait] /\ now \in Nat /\ armed \subseteq Armed /\ due \subseteq Armed
  BY DEF WInv, DeadlineType
<1>2. /\ UNCHANGED <<now, armed, due, next_id, worker, current, revision>>
      /\ wait' = [w \in Waiter |->
                   [wait[w] EXCEPT !.notified = @ \/ wait[w].at \in {"look", "parked"}]]
  BY DEF Notify, schedulerVars
<1>3. ASSUME NEW w \in Waiter
      PROVE  /\ wait'[w] \in Wait /\ wait'[w].at = wait[w].at /\ wait'[w].deadline = wait[w].deadline
             /\ wait'[w].fired = wait[w].fired /\ wait'[w].baseline = wait[w].baseline
             /\ wait'[w].result = wait[w].result /\ wait'[w].hit = wait[w].hit
  <2>1. PICK n \in BOOLEAN : wait'[w] = [wait[w] EXCEPT !.notified = n]
    BY <1>2 DEF Wait
  <2>2. wait[w] \in Wait
    BY <1>1
  <2> QED BY <2>1, <2>2 DEF Wait
<1>4. wait' \in [Waiter -> Wait]
  <2>1. \A w \in Waiter : wait'[w] \in Wait
    BY <1>3
  <2>2. wait' = [w \in Waiter |-> wait'[w]]
    BY <1>2, Zenon
  <2> QED BY <2>1, <2>2, Zenon
<1>5. DeadlineType' /\ Identities'
  BY <1>2, <1>4 DEF WInv, DeadlineType, Identities
<1>6. Senders'
  BY <1>1, <1>2, <1>3 DEF WInv, Senders, Armed
<1>7. ASSUME NEW w \in Waiter
      PROVE  Waits(w)'
  <2>1. Waits(w)
    BY DEF WInv
  <2> QED BY <1>2, <1>3, <2>1, Zenon DEF Waits, Satisfied
<1> QED BY <1>5, <1>6, <1>7 DEF WInv

LEMMA TickKeeps ==
    ASSUME WInv, now' = now + 1, UNCHANGED <<armed, due, next_id, worker, current, revision, wait>>
    PROVE  WInv'
<1>1. /\ wait \in [Waiter -> Wait] /\ now \in Nat /\ now' \in Nat /\ now <= now'
      /\ armed \subseteq Armed /\ due \subseteq Armed
  BY DEF WInv, DeadlineType
<1>2. DeadlineType' /\ Identities'
  BY <1>1 DEF WInv, DeadlineType, Identities
<1>3. Senders'
  BY <1>1 DEF WInv, Senders, Armed
<1>4. \A v \in Waiter : Waits(v)'
  BY <1>1, WaitsStay
<1> QED BY <1>2, <1>3, <1>4 DEF WInv

LEMMA WaitsStart == Init => WInv
<1> SUFFICES ASSUME Init PROVE WInv
  OBVIOUS
<1>1. /\ now = 0 /\ armed = {} /\ due = {} /\ next_id = 0 /\ worker = "none" /\ current = FALSE
      /\ revision = 0 /\ wait = [w \in Waiter |-> Idle]
  BY DEF Init, DeadlineInit
<1>2. DeadlineType
  <2>1. 0 \in 0..MaxPublish
    BY ClockAssumption
  <2>2. wait \in [Waiter -> Wait]
    BY <1>1, IdleType
  <2> QED BY <1>1, <2>1, <2>2 DEF DeadlineType
<1>3. Identities /\ Senders
  BY <1>1 DEF Identities, Senders
<1>4. \A w \in Waiter : Waits(w)
  BY <1>1 DEF Waits, Idle, Satisfied
<1> QED BY <1>2, <1>3, <1>4 DEF WInv

LEMMA WaitsInvariant == Spec => []WInv
<1>1. ASSUME WInv, [Next]_vars PROVE WInv'
  <2>1. CASE Passes
    BY <1>1, <2>1, TickKeeps DEF Passes, Tick, schedulerVars, cellVars
  <2>2. CASE DeadlineNext
    BY <1>1, <2>2, WorkerKeeps, PublishKeeps, NotifyKeeps, WaitStepKeeps DEF DeadlineNext
  <2>3. CASE UNCHANGED deadlineVars
    <3>1. UNCHANGED <<now, armed, due, next_id, worker, current, revision, wait>>
      BY <2>3 DEF deadlineVars, schedulerVars, cellVars
    <3> QED BY <1>1, <3>1
          DEF WInv, DeadlineType, Identities, Senders, Waits, Satisfied
  <2> QED
    BY <1>1, <2>1, <2>2, <2>3
    DEF Next, vars, Close, PollStep, Commit, Poll, Load, Register, Reload, PollDeadline, PollWork,
        PollAgain, Disarm, CancelStep, DrainClaims, CancelSwap, CancelWake, TokioWakes, WorkWakes,
        DropTimer, Prepare
<1> QED BY <1>1, WaitsStart, PTL DEF Spec

\* wait_state tells the truth, for any waits, timeouts and publications: Ok for
\* a target that was there at the call or came since, Elapsed only past the
\* deadline and if it never came, nothing left armed by a wait that is over.
THEOREM WaitsAreTruthful == Spec => []WaitsAnswerTruth
<1>1. WInv => WaitsAnswerTruth
  <2> SUFFICES ASSUME WInv, NEW w \in Waiter
               PROVE  /\ wait[w] \in Wait
                      /\ wait[w].result = "Ok" => wait[w].hit # "no"
                      /\ wait[w].result = "Elapsed" => wait[w].hit # "came" /\ now >= wait[w].deadline
                      /\ wait[w].at = "done" => \A e \in armed : e.of # w
    BY DEF WaitsAnswerTruth
  <2> QED BY DEF WInv, DeadlineType, Waits, Senders
<1> QED BY <1>1, WaitsInvariant, PTL

-----------------------------------------------------------------------------
(* The timer operations *)

\* The arithmetic of an Interval's phase.
LEMMA PhaseArithmetic ==
    ASSUME NEW d \in Nat \ {0}, NEW a \in Nat
    PROVE  /\ a \div d \in Nat
           /\ a < d * (a \div d + 1)
           /\ \A m \in Nat : d * m <= a => m <= a \div d
           /\ \A m \in Nat : (d * m) % d = 0
           /\ \A m, n \in Nat : n <= m => n * d <= d * m
           /\ \A m \in Nat : d * (m + 1) = d * m + d
<1>1. a \div d \in Nat
  OBVIOUS
<1>2. ASSUME NEW m \in Nat, d * m <= a
      PROVE  m <= a \div d
  <2>1. a < d * (a \div d) + d
    OBVIOUS
  <2> QED BY <1>1, <1>2, <2>1
<1>3. ASSUME NEW m \in Nat
      PROVE  (d * m) % d = 0
  OBVIOUS
<1>4. ASSUME NEW m \in Nat, NEW n \in Nat, n <= m
      PROVE  n * d <= d * m
  BY <1>4
<1>5. ASSUME NEW m \in Nat
      PROVE  d * (m + 1) = d * m + d
  OBVIOUS
<1>6. a < d * (a \div d + 1)
  <2>1. a < d * (a \div d) + d
    OBVIOUS
  <2>2. d * (a \div d + 1) = d * (a \div d) + d
    BY <1>1, <1>5
  <2> QED BY <2>1, <2>2
<1> QED BY <1>1, <1>2, <1>3, <1>4, <1>5, <1>6

\* A step of one operation leaves the others alone.
LEMMA OneMoves ==
    ASSUME TInv, NEW k \in Timers, NEW u \in Operation, now' = now,
           timer' = [timer EXCEPT ![k] = u], open' \in BOOLEAN, waker' \in [Timers -> BOOLEAN],
           cleanup' \in [Timers -> {"none", "armed", "claimed", "disarmed"}],
           cancelled' \in [Timers -> BOOLEAN],
           \A j \in Timers \ {k} : cleanup'[j] = cleanup[j] /\ cancelled'[j] = cancelled[j],
           Claims(u, cleanup'[k], cancelled'[k]), Verdicts(u, now), Phase(u, now)
    PROVE  TInv'
<1>1. timer \in [Timers -> Operation]
  BY DEF TInv, TimerType
<1>2. timer'[k] = u /\ timer' \in [Timers -> Operation] /\ \A j \in Timers \ {k} : timer'[j] = timer[j]
  BY <1>1
<1>3. TimerType'
  BY <1>2 DEF TimerType
<1>4. ASSUME NEW j \in Timers
      PROVE  Claims(timer'[j], cleanup'[j], cancelled'[j]) /\ Verdicts(timer'[j], now') /\ Phase(timer'[j], now')
  <2>1. CASE j = k
    BY <1>2, <2>1
  <2>2. CASE j # k
    BY <1>2, <2>2 DEF TInv
  <2> QED BY <2>1, <2>2
<1> QED BY <1>3, <1>4 DEF TInv

\* An operation goes on under the journal's obligation.
LEMMA GoesOn ==
    ASSUME TInv, NEW k \in Timers, NEW u \in Operation,
           UNCHANGED <<now, open, cleanup, cancelled>>, waker' \in [Timers -> BOOLEAN],
           timer' = [timer EXCEPT ![k] = u],
           u.kind = timer[k].kind, u.start = timer[k].start, u.delay = timer[k].delay,
           u.deadline = timer[k].deadline, u.ticks = timer[k].ticks, u.ticked = timer[k].ticked,
           u.result = timer[k].result,
           u.at = timer[k].at \/ (u.at \in Polling /\ timer[k].at \in Polling),
           Ticking(u) => Ticking(timer[k]),
           Deciding(u) => /\ u.verdict \in {"Elapsed", "Completed"}
                          /\ u.verdict = "Elapsed" => now >= timer[k].deadline
    PROVE  TInv'
<1>1. /\ TimerType /\ Claims(timer[k], cleanup[k], cancelled[k]) /\ Verdicts(timer[k], now)
      /\ Phase(timer[k], now)
  BY DEF TInv
<1>2. Claims(u, cleanup[k], cancelled[k])
  BY <1>1 DEF Claims, Polling
<1>3. Verdicts(u, now)
  BY <1>1 DEF Verdicts
<1>4. Phase(u, now)
  BY <1>1, Zenon DEF Phase, Spaced
<1> QED BY <1>1, <1>2, <1>3, <1>4, OneMoves DEF TimerType

\* An operation ends: with its verdict if it has won the cleanup.
LEMMA OperationEnds ==
    ASSUME TInv, NEW k \in Timers, NEW u \in Operation, timer[k].at \in Polling,
           NEW c \in {"claimed", "disarmed"}, cleanup' = [cleanup EXCEPT ![k] = c],
           c = "disarmed" <=> cleanup[k] = "armed",
           UNCHANGED <<now, open, cancelled, waker>>, timer' = [timer EXCEPT ![k] = u],
           u.kind = timer[k].kind, u.start = timer[k].start, u.delay = timer[k].delay,
           u.deadline = timer[k].deadline, u.ticks = timer[k].ticks, u.ticked = timer[k].ticked,
           \/ u.at = "dropped" /\ u.result = "none"
           \/ u.at = "done" /\ c = "claimed" /\ u.result = "Cancelled"
           \/ /\ u.at = "done" /\ c = "disarmed" /\ u.result \in {"Elapsed", "Completed"}
              /\ u.result = "Elapsed" => now >= u.deadline
    PROVE  TInv'
<1>1. /\ TimerType /\ Claims(timer[k], cleanup[k], cancelled[k]) /\ Verdicts(timer[k], now)
      /\ Phase(timer[k], now)
  BY DEF TInv
<1>2. /\ cleanup' \in [Timers -> {"none", "armed", "claimed", "disarmed"}] /\ cleanup'[k] = c
      /\ \A j \in Timers \ {k} : cleanup'[j] = cleanup[j]
  BY <1>1 DEF TimerType
<1>3. Claims(u, c, cancelled[k])
  BY <1>1 DEF Claims, Polling
<1>4. Verdicts(u, now)
  BY DEF Verdicts, Deciding, Checking
<1>5. Phase(u, now)
  <2>1. ~Ticking(u)
    BY DEF Ticking, Checking
  <2> QED BY <1>1, <2>1, Zenon DEF Phase, Spaced
<1> QED BY <1>1, <1>2, <1>3, <1>4, <1>5, OneMoves DEF TimerType

LEMMA AbsentType == Absent \in Operation
BY DEF Absent, Operation

LEMMA PrepareKeeps ==
    ASSUME TInv, now \in Nat, NEW k \in Timers, NEW kind \in Kind, NEW d \in Delay, Prepare(k, kind, d)
    PROVE  TInv'
<1> DEFINE u == [Absent EXCEPT !.at = "commit", !.kind = kind, !.start = now, !.delay = d, !.deadline = now + d]
<1>1. d \in Nat /\ kind \in {"sleep", "timeout", "interval"} /\ now + d \in Nat
  BY DelayAssumption
<1>2. /\ u \in Operation /\ u.at = "commit" /\ u.kind = kind /\ u.start = now /\ u.delay = d
      /\ u.deadline = now + d /\ u.ticks = 0 /\ u.ticked = 0 /\ u.result = "none"
  <2>1. Absent.ticks = 0 /\ Absent.ticked = 0 /\ Absent.result = "none"
    BY DEF Absent
  <2> QED BY <1>1, <2>1, AbsentType DEF Operation
<1>3. /\ timer' = [timer EXCEPT ![k] = u] /\ UNCHANGED <<now, open, waker, cleanup, cancelled>>
      /\ timer[k].at = "absent" /\ (kind = "interval" => d # 0)
  BY DEF Prepare, cancelVars, deadlineVars
<1> HIDE DEF u
<1>4. Claims(u, cleanup[k], cancelled[k])
  BY <1>2, <1>3 DEF TInv, Claims, Polling
<1>5. Verdicts(u, now)
  BY <1>2 DEF Verdicts, Deciding, Checking
<1>6. Phase(u, now)
  <2>1. ~Ticking(u)
    BY <1>2 DEF Ticking, Checking
  <2>2. now + d = now + d * 1 /\ 1 >= 0 + 1 /\ 0 * d <= now - now /\ 1 \in Nat
    BY <1>1
  <2>3. kind = "interval" => 0 < now + d
    BY <1>1, <1>3
  <2>4. Spaced(u) \/ kind # "interval"
    BY <1>2, <2>3 DEF Spaced
  <2> QED BY <1>1, <1>2, <1>3, <2>1, <2>2, <2>4 DEF Phase
<1> QED BY <1>2, <1>3, <1>4, <1>5, <1>6, OneMoves DEF TInv, TimerType

LEMMA CommitKeeps ==
    ASSUME TInv, NEW k \in Timers, Commit(k)
    PROVE  TInv'
<1>1. /\ TimerType /\ Claims(timer[k], cleanup[k], cancelled[k]) /\ Verdicts(timer[k], now)
      /\ Phase(timer[k], now) /\ timer[k].at = "commit" /\ timer[k] \in Operation /\ open \in BOOLEAN
  BY DEF TInv, Commit, TimerType
<1>2. PICK at \in {"parked", "refused"}, c \in {"armed", "none"}, woken \in BOOLEAN :
        /\ timer' = [timer EXCEPT ![k] = [timer[k] EXCEPT !.at = at, !.woken = woken]]
        /\ cleanup' = [cleanup EXCEPT ![k] = c]
        /\ (at = "parked" /\ c = "armed") \/ (at = "refused" /\ c = "none")
  <2>1. cleanup[k] = "none" /\ cleanup = [cleanup EXCEPT ![k] = cleanup[k]]
    BY <1>1 DEF Claims, TimerType
  <2>2. timer' = [timer EXCEPT ![k] = [timer[k] EXCEPT !.at = IF open THEN "parked" ELSE "refused", !.woken = open]]
    BY <1>1 DEF Commit, TimerType
  <2>3. CASE open
    BY <1>1, <2>1, <2>2, <2>3 DEF Commit
  <2>4. CASE ~open
    BY <1>1, <2>1, <2>2, <2>4 DEF Commit
  <2> QED BY <2>3, <2>4
<1> DEFINE u == [timer[k] EXCEPT !.at = at, !.woken = woken]
<1>3. /\ u \in Operation /\ u.at = at /\ u.kind = timer[k].kind /\ u.start = timer[k].start
      /\ u.delay = timer[k].delay /\ u.deadline = timer[k].deadline /\ u.ticks = timer[k].ticks
      /\ u.ticked = timer[k].ticked
      /\ u.result = timer[k].result
  BY <1>1 DEF Operation, Polling
<1>4. timer' = [timer EXCEPT ![k] = u] /\ UNCHANGED <<now, open, waker, cancelled>>
  BY <1>2 DEF Commit, deadlineVars
<1> HIDE DEF u
<1>5. /\ cleanup' \in [Timers -> {"none", "armed", "claimed", "disarmed"}] /\ cleanup'[k] = c
      /\ \A j \in Timers \ {k} : cleanup'[j] = cleanup[j]
  BY <1>1, <1>2 DEF TimerType
<1>6. Claims(u, c, cancelled[k])
  BY <1>1, <1>2, <1>3 DEF Claims, Polling
<1>7. Verdicts(u, now)
  BY <1>1, <1>2, <1>3 DEF Verdicts, Deciding, Checking
<1>8. Phase(u, now)
  <2>1. ~Ticking(u)
    BY <1>2, <1>3 DEF Ticking, Checking
  <2> QED BY <1>1, <1>3, <2>1, Zenon DEF Phase, Spaced
<1> QED BY <1>1, <1>3, <1>4, <1>5, <1>6, <1>7, <1>8, OneMoves DEF TimerType

\* The drain of the generation; the wake that follows the flag.
LEMMA CancelKeeps ==
    ASSUME TInv, NEW k \in Timers, CancelStep(k)
    PROVE  TInv'
<1>1. /\ TimerType /\ Claims(timer[k], cleanup[k], cancelled[k]) /\ timer[k] \in Operation
      /\ timer \in [Timers -> Operation] /\ Verdicts(timer[k], now) /\ Phase(timer[k], now)
      /\ timer = [timer EXCEPT ![k] = timer[k]]
  BY DEF TInv, TimerType
<1>2. CASE DrainClaims(k)
  <2>1. /\ UNCHANGED <<now, open, waker, cancelled, timer>> /\ cleanup[k] = "armed"
        /\ cleanup' \in [Timers -> {"none", "armed", "claimed", "disarmed"}] /\ cleanup'[k] = "claimed"
        /\ \A j \in Timers \ {k} : cleanup'[j] = cleanup[j]
    BY <1>1, <1>2 DEF DrainClaims, deadlineVars, TimerType
  <2>2. Claims(timer[k], "claimed", cancelled[k])
    BY <1>1, <2>1 DEF Claims
  <2> QED BY <1>1, <2>1, <2>2, OneMoves DEF TimerType
<1>3. CASE CancelSwap(k)
  <2>1. /\ UNCHANGED <<now, open, waker, cleanup, timer>> /\ cleanup[k] = "claimed"
        /\ cancelled' \in [Timers -> BOOLEAN] /\ cancelled'[k] = TRUE
        /\ \A j \in Timers \ {k} : cancelled'[j] = cancelled[j]
    BY <1>1, <1>3 DEF CancelSwap, deadlineVars, TimerType
  <2>2. Claims(timer[k], cleanup[k], cancelled'[k])
    BY <1>1, <2>1 DEF Claims
  <2> QED BY <1>1, <2>1, <2>2, OneMoves DEF TimerType
<1>4. CASE CancelWake(k)
  <2>1. PICK b \in BOOLEAN : timer' = [timer EXCEPT ![k] = [timer[k] EXCEPT !.woken = b]]
    <3>1. (timer[k].woken \/ waker[k]) \in BOOLEAN
      BY <1>1 DEF TimerType, Operation
    <3>2. timer' = [timer EXCEPT ![k] = [timer[k] EXCEPT !.woken = (timer[k].woken \/ waker[k])]]
      BY <1>1, <1>4 DEF CancelWake
    <3> QED BY <3>1, <3>2
  <2>2. UNCHANGED <<now, open, cleanup, cancelled>> /\ waker' \in [Timers -> BOOLEAN]
    BY <1>1, <1>4 DEF CancelWake, deadlineVars, TimerType
  <2> DEFINE u == [timer[k] EXCEPT !.woken = b]
  <2>3. /\ u \in Operation /\ u.at = timer[k].at /\ u.kind = timer[k].kind /\ u.start = timer[k].start
        /\ u.delay = timer[k].delay /\ u.deadline = timer[k].deadline /\ u.ticks = timer[k].ticks /\ u.ticked = timer[k].ticked
        /\ u.result = timer[k].result /\ u.check = timer[k].check /\ u.verdict = timer[k].verdict
    BY <1>1 DEF Operation
  <2>4. timer' = [timer EXCEPT ![k] = u]
    BY <2>1
  <2> HIDE DEF u
  <2>5. /\ Ticking(u) => Ticking(timer[k])
        /\ Deciding(u) => /\ u.verdict \in {"Elapsed", "Completed"}
                          /\ u.verdict = "Elapsed" => now >= timer[k].deadline
    BY <1>1, <2>3 DEF Ticking, Deciding, Verdicts
  <2> QED BY <2>2, <2>3, <2>4, <2>5, GoesOn
<1> QED BY <1>2, <1>3, <1>4 DEF CancelStep

\* What a poll keeps of its operation.
Kept(u, t) ==
    /\ u \in Operation /\ u.kind = t.kind /\ u.start = t.start /\ u.delay = t.delay
    /\ u.deadline = t.deadline /\ u.ticks = t.ticks /\ u.ticked = t.ticked /\ u.result = t.result

LEMMA PollGoesOn ==
    ASSUME TInv, NEW k \in Timers, NEW u, Kept(u, timer[k]), timer[k].at \in Polling, u.at \in Polling,
           UNCHANGED <<now, open, cleanup, cancelled>>, waker' \in [Timers -> BOOLEAN],
           timer' = [timer EXCEPT ![k] = u],
           Ticking(u) => Ticking(timer[k]),
           Deciding(u) => /\ u.verdict \in {"Elapsed", "Completed"}
                          /\ u.verdict = "Elapsed" => now >= timer[k].deadline
    PROVE  TInv'
BY GoesOn DEF Kept

LEMMA ChecksFields ==
    ASSUME TInv, NEW k \in Timers,
           NEW check \in {"first", "pending", "ready", "verdict", "tick"},
           NEW verdict \in {"none", "Completed", "Elapsed"}
    PROVE  /\ Kept(Checks(k, check, verdict), timer[k])
           /\ Checks(k, check, verdict).at = "load" /\ Checks(k, check, verdict).check = check
           /\ Checks(k, check, verdict).verdict = verdict
<1>1. timer[k] \in Operation
  BY DEF TInv, TimerType
<1> QED BY <1>1, ZenonT(60) DEF Checks, Kept, Operation, Polling

LEMMA Cancels ==
    ASSUME TInv, NEW k \in Timers, timer[k].at \in Polling, cancelled[k],
           Set(k, Ended(k, "Cancelled")), UNCHANGED <<now, open, cleanup, cancelled, waker>>
    PROVE  TInv'
<1>1. /\ TimerType /\ timer[k] \in Operation /\ Claims(timer[k], cleanup[k], cancelled[k])
      /\ cleanup[k] = "claimed" /\ cleanup = [cleanup EXCEPT ![k] = "claimed"]
  BY DEF TInv, TimerType, Claims
<1> DEFINE u == Ended(k, "Cancelled")
<1>2. /\ u \in Operation /\ u.at = "done" /\ u.result = "Cancelled" /\ u.kind = timer[k].kind
      /\ u.start = timer[k].start /\ u.delay = timer[k].delay /\ u.deadline = timer[k].deadline
      /\ u.ticks = timer[k].ticks /\ u.ticked = timer[k].ticked
  BY <1>1, ZenonT(60) DEF Ended, Operation, Polling
<1>3. timer' = [timer EXCEPT ![k] = u]
  BY DEF Set
<1> HIDE DEF u
<1> QED BY <1>1, <1>2, <1>3, OperationEnds

LEMMA PollKeeps ==
    ASSUME TInv, NEW k \in Timers, Poll(k)
    PROVE  TInv'
<1> DEFINE c == Checks(k, "first", "none")
           u == [c EXCEPT !.woken = FALSE]
<1>1. Kept(c, timer[k]) /\ c.at = "load" /\ c.check = "first"
  BY ChecksFields
<1>2. timer' = [timer EXCEPT ![k] = u] /\ timer[k].at = "parked" /\ UNCHANGED <<now, open, cleanup, cancelled, waker>>
  BY DEF Poll, Set, deadlineVars, cancelVars
<1> HIDE DEF c
<1>3. Kept(u, timer[k]) /\ u.at = "load" /\ u.check = "first"
  BY <1>1 DEF Kept, Operation
<1> HIDE DEF u
<1>4. ~Ticking(u) /\ ~Deciding(u) /\ u.at \in Polling /\ timer[k].at \in Polling
  BY <1>2, <1>3 DEF Ticking, Deciding, Polling
<1> QED BY <1>2, <1>3, <1>4, PollGoesOn DEF TInv, TimerType

LEMMA LoadKeeps ==
    ASSUME TInv, NEW k \in Timers, Load(k) \/ Register(k)
    PROVE  TInv'
<1>1. /\ TimerType /\ timer[k] \in Operation /\ timer[k].at \in {"load", "register"}
      /\ UNCHANGED <<now, open, cleanup, cancelled>> /\ waker' \in [Timers -> BOOLEAN]
      /\ timer[k].at \in Polling /\ Verdicts(timer[k], now)
  BY DEF TInv, TimerType, Load, Register, deadlineVars, cancelVars, Polling
<1>2. CASE Load(k) /\ cancelled[k]
  BY <1>1, <1>2, Cancels DEF Load, cancelVars
<1>3. CASE ~(Load(k) /\ cancelled[k])
  <2>1. PICK at \in {"register", "reload"} : timer' = [timer EXCEPT ![k] = [timer[k] EXCEPT !.at = at]]
    BY <1>3 DEF Load, Register, Set
  <2> DEFINE u == [timer[k] EXCEPT !.at = at]
  <2>2. Kept(u, timer[k]) /\ u.at = at /\ u.check = timer[k].check /\ u.verdict = timer[k].verdict
    BY <1>1 DEF Kept, Operation, Polling
  <2>3. timer' = [timer EXCEPT ![k] = u]
    BY <2>1
  <2> HIDE DEF u
  <2>4. /\ u.at \in Polling /\ (Ticking(u) => Ticking(timer[k]))
        /\ Deciding(u) => /\ u.verdict \in {"Elapsed", "Completed"}
                          /\ u.verdict = "Elapsed" => now >= timer[k].deadline
    BY <1>1, <2>2 DEF Ticking, Deciding, Polling, Checking, Verdicts
  <2> QED BY <1>1, <2>2, <2>3, <2>4, PollGoesOn
<1> QED BY <1>2, <1>3

LEMMA ReloadKeeps ==
    ASSUME TInv, now \in Nat, NEW k \in Timers, Reload(k)
    PROVE  TInv'
<1> DEFINE t == timer[k]
<1>1. /\ TimerType /\ t \in Operation /\ t.at = "reload" /\ UNCHANGED <<now, open, cleanup, cancelled, waker>>
      /\ t.at \in Polling /\ Verdicts(t, now) /\ Phase(t, now) /\ Claims(t, cleanup[k], cancelled[k])
      /\ t.check \in {"first", "pending", "ready", "verdict", "tick"}
  BY DEF TInv, TimerType, Reload, deadlineVars, cancelVars, Polling, Operation
<1>2. CASE cancelled[k]
  BY <1>1, <1>2, Cancels DEF Reload
<1>3. CASE ~cancelled[k] /\ t.check # "tick"
  <2>1. PICK at \in {"deadline", "parked", "again", "disarm"} :
          timer' = [timer EXCEPT ![k] = [t EXCEPT !.at = at]] /\ (at = "disarm" => t.check = "verdict")
    <3>1. timer' = [timer EXCEPT ![k] = Uncancelled(k)]
      BY <1>3 DEF Reload, Set
    <3>2. CASE t.check = "first"
      BY <3>1, <3>2 DEF Uncancelled
    <3>3. CASE t.check = "pending"
      BY <3>1, <3>3 DEF Uncancelled
    <3>4. CASE t.check = "ready"
      BY <3>1, <3>4 DEF Uncancelled
    <3>5. CASE t.check = "verdict"
      BY <3>1, <3>5 DEF Uncancelled
    <3> QED BY <1>1, <1>3, <3>2, <3>3, <3>4, <3>5
  <2> DEFINE u == [t EXCEPT !.at = at]
  <2>2. Kept(u, timer[k]) /\ u.at = at /\ u.check = timer[k].check /\ u.verdict = timer[k].verdict
    BY <1>1 DEF Kept, Operation, Polling
  <2>3. timer' = [timer EXCEPT ![k] = u]
    BY <2>1
  <2> HIDE DEF u
  <2>4. /\ u.at \in Polling /\ (Ticking(u) => Ticking(timer[k]))
        /\ Deciding(u) => /\ u.verdict \in {"Elapsed", "Completed"}
                          /\ u.verdict = "Elapsed" => now >= timer[k].deadline
    BY <1>1, <2>1, <2>2 DEF Ticking, Deciding, Polling, Checking, Verdicts
  <2> QED BY <1>1, <2>2, <2>3, <2>4, PollGoesOn DEF TimerType
<1>4. CASE ~cancelled[k] /\ t.check = "tick"
  <2> DEFINE u == [t EXCEPT !.at = "parked", !.woken = TRUE, !.ticks = t.ticks + 1]
  <2>1. timer' = [timer EXCEPT ![k] = u]
    BY <1>4 DEF Reload, Set, Uncancelled
  <2>2. /\ u \in Operation /\ u.at = "parked" /\ u.kind = t.kind /\ u.start = t.start
        /\ u.delay = t.delay /\ u.deadline = t.deadline /\ u.ticks = t.ticks + 1 /\ u.ticked = t.ticked /\ u.result = t.result
    <3>1. t.ticks + 1 \in Nat
      BY <1>1 DEF Operation
    <3> QED BY <1>1, <3>1 DEF Operation, Polling
  <2> HIDE DEF u
  <2>3. Claims(u, cleanup[k], cancelled[k])
    BY <1>1, <2>2 DEF Claims, Polling
  <2>4. Verdicts(u, now)
    BY <1>1, <2>2 DEF Verdicts, Deciding, Checking
  <2>5. Phase(u, now)
    <3>1. ~Ticking(u) /\ Ticking(t)
      BY <1>1, <1>4, <2>2 DEF Ticking, Checking
    <3> SUFFICES ASSUME t.kind = "interval" PROVE Phase(u, now)
      BY <2>2 DEF Phase
    <3>2. /\ t.delay # 0 /\ t.start <= now /\ (t.ticks + 1) * t.delay <= now - t.start
          /\ t.ticks \in Nat
      BY <1>1, <3>1 DEF Phase, Operation
    <3>3. PICK m \in Nat : t.deadline = t.start + t.delay * m /\ m >= t.ticks + 2
      BY <1>1, <3>1 DEF Phase
    <3>4. m >= (t.ticks + 1) + 1
      BY <3>2, <3>3
    <3>5. Spaced(u)
      BY <1>1, <2>2 DEF Phase, Spaced
    <3> QED BY <2>2, <3>1, <3>2, <3>3, <3>4, <3>5 DEF Phase
  <2> QED BY <1>1, <2>1, <2>2, <2>3, <2>4, <2>5, OneMoves DEF TimerType
<1> QED BY <1>2, <1>3, <1>4

\* An Interval that is due takes a later instant of its phase.
LEMMA TickKeepsPhase ==
    ASSUME now \in Nat, NEW t \in Operation, Phase(t, now), t.kind = "interval", t.at = "deadline",
           now >= t.deadline
    PROVE  /\ NextTick(t) \in Nat
           /\ t.delay # 0 /\ t.start <= now
           /\ (t.ticks + 1) * t.delay <= now - t.start
           /\ \E m \in Nat : NextTick(t) = t.start + t.delay * m /\ m >= t.ticks + 2
           /\ now < NextTick(t) \/ now <= NextTick(t) - t.delay + Grace
<1>1. /\ t.delay \in Nat \ {0} /\ t.start \in Nat /\ t.start <= now /\ t.ticks \in Nat /\ now - t.start \in Nat
      /\ t.deadline \in Nat /\ Grace \in Nat
  BY DelayAssumption DEF Phase, Operation
<1>2. PICK m \in Nat : t.deadline = t.start + t.delay * m /\ m >= t.ticks + 1
  BY DEF Phase
<1>3. t.delay * m \in Nat /\ t.delay * m <= now - t.start
  BY <1>1, <1>2
<1> DEFINE a == now - t.start
           q == a \div t.delay
<1>4. a \in Nat /\ t.delay * m <= a
  BY <1>1, <1>3
<1> HIDE DEF a
<1>5. q \in Nat /\ m <= q /\ (t.ticks + 1) * t.delay <= t.delay * m /\ a < t.delay * (q + 1)
  <2>1. t.ticks + 1 \in Nat /\ t.ticks + 1 <= m
    BY <1>1, <1>2
  <2>2. /\ a \div t.delay \in Nat
        /\ a < t.delay * (a \div t.delay + 1)
        /\ \A i \in Nat : t.delay * i <= a => i <= a \div t.delay
        /\ \A i, n \in Nat : n <= i => n * t.delay <= t.delay * i
    BY <1>1, <1>4, PhaseArithmetic
  <2> QED BY <1>4, <2>1, <2>2
<1>6. now > t.deadline + Grace => NextTick(t) = t.start + t.delay * (q + 1)
  BY DEF NextTick, a
<1> HIDE DEF q
<1>7. (t.ticks + 1) * t.delay <= now - t.start
  <2>1. (t.ticks + 1) * t.delay \in Nat
    BY <1>1
  <2> QED BY <1>1, <1>3, <1>5, <2>1
<1>8. CASE now > t.deadline + Grace
  <2>1. NextTick(t) = t.start + t.delay * (q + 1)
    BY <1>6, <1>8
  <2>2. q + 1 \in Nat /\ q + 1 >= t.ticks + 2
    BY <1>1, <1>2, <1>5
  <2>3. t.delay * (q + 1) \in Nat
    BY <1>1, <2>2
  <2>4. NextTick(t) \in Nat /\ now < NextTick(t)
    BY <1>1, <1>5, <2>1, <2>3 DEF a
  <2> QED BY <1>1, <1>7, <2>1, <2>2, <2>4
<1>9. CASE ~(now > t.deadline + Grace)
  <2>1. NextTick(t) = t.deadline + t.delay
    BY <1>9 DEF NextTick
  <2>2. m + 1 \in Nat /\ m + 1 >= t.ticks + 2
    BY <1>1, <1>2
  <2>3. t.delay * (m + 1) = t.delay * m + t.delay
    <3>1. \A i \in Nat : t.delay * (i + 1) = t.delay * i + t.delay
      BY <1>1, <1>4, PhaseArithmetic
    <3> QED BY <3>1
  <2>4. NextTick(t) = t.start + t.delay * (m + 1)
    BY <1>1, <1>2, <1>3, <2>1, <2>3
  <2>5. NextTick(t) \in Nat /\ now <= NextTick(t) - t.delay + Grace
    BY <1>1, <1>9, <2>1
  <2> QED BY <1>1, <1>7, <2>2, <2>4, <2>5
<1> QED BY <1>8, <1>9

LEMMA PollDeadlineKeeps ==
    ASSUME TInv, now \in Nat, NEW k \in Timers, PollDeadline(k)
    PROVE  TInv'
<1> DEFINE t == timer[k]
<1>1. /\ TimerType /\ t \in Operation /\ t.at = "deadline" /\ UNCHANGED <<now, open, cleanup, cancelled, waker>>
      /\ t.at \in Polling /\ Verdicts(t, now) /\ Phase(t, now) /\ Claims(t, cleanup[k], cancelled[k])
      /\ waker' \in [Timers -> BOOLEAN] /\ t.deadline \in Nat
  BY DEF TInv, TimerType, PollDeadline, deadlineVars, cancelVars, Polling, Operation
<1>2. CASE now < t.deadline /\ t.kind = "timeout"
  <2> DEFINE u == [t EXCEPT !.at = "work", !.set = TRUE]
  <2>1. timer' = [timer EXCEPT ![k] = u]
    BY <1>2 DEF PollDeadline, Set
  <2>2. Kept(u, timer[k]) /\ u.at = "work"
    BY <1>1 DEF Kept, Operation, Polling
  <2> HIDE DEF u
  <2>3. u.at \in Polling /\ ~Ticking(u) /\ ~Deciding(u)
    BY <2>2 DEF Ticking, Deciding, Polling, Checking
  <2> QED BY <1>1, <2>1, <2>2, <2>3, PollGoesOn
<1>3. CASE now < t.deadline /\ t.kind # "timeout"
  <2> DEFINE c == Checks(k, "pending", "none")
             u == [c EXCEPT !.set = TRUE]
  <2>1. timer' = [timer EXCEPT ![k] = u]
    BY <1>3 DEF PollDeadline, Set
  <2>2. Kept(c, timer[k]) /\ c.at = "load" /\ c.check = "pending"
    BY ChecksFields
  <2> HIDE DEF c
  <2>3. Kept(u, timer[k]) /\ u.at = "load" /\ u.check = "pending"
    BY <2>2 DEF Kept, Operation
  <2> HIDE DEF u
  <2>4. u.at \in Polling /\ ~Ticking(u) /\ ~Deciding(u)
    BY <2>3 DEF Ticking, Deciding, Polling, Checking
  <2> QED BY <1>1, <2>1, <2>3, <2>4, PollGoesOn
<1>4. CASE ~(now < t.deadline) /\ t.kind = "interval"
  <2> DEFINE c == Checks(k, "tick", "none")
             u == [c EXCEPT !.deadline = NextTick(t), !.ticked = now]
  <2>1. timer' = [timer EXCEPT ![k] = u]
    BY <1>4 DEF PollDeadline, Set
  <2>2. Kept(c, timer[k]) /\ c.at = "load" /\ c.check = "tick"
    BY ChecksFields
  <2>3. /\ NextTick(t) \in Nat /\ t.delay # 0 /\ t.start <= now
        /\ (t.ticks + 1) * t.delay <= now - t.start
        /\ \E m \in Nat : NextTick(t) = t.start + t.delay * m /\ m >= t.ticks + 2
        /\ now < NextTick(t) \/ now <= NextTick(t) - t.delay + Grace
    <3>1. now >= t.deadline
      BY <1>1, <1>4
    <3> HIDE DEF t
    <3> QED BY <1>1, <1>4, <3>1, TickKeepsPhase
  <2> HIDE DEF c
  <2>4. /\ u \in Operation /\ u.at = "load" /\ u.check = "tick" /\ u.kind = t.kind /\ u.start = t.start
        /\ u.delay = t.delay /\ u.deadline = NextTick(t) /\ u.ticks = t.ticks /\ u.ticked = now /\ u.result = t.result
    BY <2>2, <2>3 DEF Kept, Operation
  <2> HIDE DEF u
  <2>5. Claims(u, cleanup[k], cancelled[k]) /\ t.result = "none"
    BY <1>1, <2>4 DEF Claims, Polling
  <2>6. Verdicts(u, now)
    BY <2>4, <2>5 DEF Verdicts, Deciding
  <2>7. Phase(u, now)
    <3>1. t.ticks \in Nat /\ t.ticks * t.delay <= now - t.start
      BY <1>1, <1>4 DEF Phase, Operation
    <3>2. PICK m \in Nat : NextTick(t) = t.start + t.delay * m /\ m >= t.ticks + 2
      BY <2>3
    <3>3. m >= t.ticks + 1
      BY <3>1, <3>2
    <3>4. Spaced(u)
      BY <2>3, <2>4 DEF Spaced
    <3> HIDE DEF t
    <3> QED BY <2>3, <2>4, <3>1, <3>2, <3>3, <3>4 DEF Phase
  <2> QED BY <1>1, <2>1, <2>4, <2>5, <2>6, <2>7, OneMoves DEF TimerType
<1>5. CASE ~(now < t.deadline) /\ t.kind # "interval"
  <2> DEFINE u == Checks(k, "verdict", "Elapsed")
  <2>1. timer' = [timer EXCEPT ![k] = u]
    BY <1>5 DEF PollDeadline, Set
  <2>2. Kept(u, timer[k]) /\ u.at = "load" /\ u.check = "verdict" /\ u.verdict = "Elapsed"
    BY ChecksFields
  <2> HIDE DEF u
  <2>3. u.at \in Polling /\ ~Ticking(u) /\ now >= t.deadline
    BY <1>1, <1>5, <2>2 DEF Ticking, Polling
  <2> QED BY <1>1, <2>1, <2>2, <2>3, PollGoesOn
<1> QED BY <1>2, <1>3, <1>4, <1>5

LEMMA PollWorkKeeps ==
    ASSUME TInv, now \in Nat, NEW k \in Timers, PollWork(k) \/ PollAgain(k)
    PROVE  TInv'
<1>1. /\ timer[k] \in Operation /\ timer[k].deadline \in Nat /\ timer[k].at \in Polling
      /\ UNCHANGED <<now, open, cleanup, cancelled, waker>> /\ waker' \in [Timers -> BOOLEAN]
  BY DEF TInv, TimerType, PollWork, PollAgain, deadlineVars, cancelVars, Polling, Operation
<1>2. PICK check \in {"ready", "pending", "verdict"}, verdict \in {"none", "Completed", "Elapsed"} :
        /\ timer' = [timer EXCEPT ![k] = Checks(k, check, verdict)]
        /\ check = "verdict" => verdict # "none" /\ (verdict = "Elapsed" => ~(now < timer[k].deadline))
  <2>1. CASE PollWork(k)
    BY <2>1 DEF PollWork, Set
  <2>2. CASE PollAgain(k)
    BY <2>2 DEF PollAgain, Set, Provisional
  <2> QED BY <2>1, <2>2
<1> DEFINE u == Checks(k, check, verdict)
<1>3. Kept(u, timer[k]) /\ u.at = "load" /\ u.check = check /\ u.verdict = verdict
  BY ChecksFields
<1>4. timer' = [timer EXCEPT ![k] = u]
  BY <1>2
<1> HIDE DEF u
<1>5. /\ u.at \in Polling /\ ~Ticking(u)
      /\ Deciding(u) => /\ u.verdict \in {"Elapsed", "Completed"}
                        /\ u.verdict = "Elapsed" => now >= timer[k].deadline
  BY <1>1, <1>2, <1>3 DEF Ticking, Deciding, Polling, Checking
<1> QED BY <1>1, <1>3, <1>4, <1>5, PollGoesOn

LEMMA DisarmKeeps ==
    ASSUME TInv, NEW k \in Timers, Disarm(k)
    PROVE  TInv'
<1>1. /\ TimerType /\ timer[k] \in Operation /\ timer[k].at = "disarm" /\ timer[k].at \in Polling
      /\ UNCHANGED <<now, open, cancelled, waker>>
      /\ Verdicts(timer[k], now) /\ Claims(timer[k], cleanup[k], cancelled[k])
  BY DEF TInv, TimerType, Disarm, deadlineVars, Polling
<1>2. /\ cleanup[k] \in {"armed", "claimed"} /\ timer[k].verdict \in {"Elapsed", "Completed"}
      /\ (timer[k].verdict = "Elapsed" => now >= timer[k].deadline)
  BY <1>1 DEF Claims, Verdicts, Deciding
<1>3. PICK c \in {"claimed", "disarmed"}, r \in {"Cancelled", "Elapsed", "Completed"} :
        /\ cleanup' = [cleanup EXCEPT ![k] = c] /\ timer' = [timer EXCEPT ![k] = Ended(k, r)]
        /\ (c = "disarmed" <=> cleanup[k] = "armed")
        /\ c = "claimed" => r = "Cancelled"
        /\ c = "disarmed" => r = timer[k].verdict
  <2>1. CASE cleanup[k] = "armed"
    BY <1>2, <2>1 DEF Disarm, Disarmed, Set, WinsCleanup
  <2>2. CASE cleanup[k] = "claimed"
    BY <1>2, <2>2 DEF Disarm, Disarmed, Set, WinsCleanup
  <2> QED BY <1>2, <2>1, <2>2
<1> DEFINE u == Ended(k, r)
<1>4. /\ u \in Operation /\ u.at = "done" /\ u.result = r /\ u.kind = timer[k].kind
      /\ u.start = timer[k].start /\ u.delay = timer[k].delay /\ u.deadline = timer[k].deadline
      /\ u.ticks = timer[k].ticks /\ u.ticked = timer[k].ticked
  BY <1>1 DEF Ended, Operation, Polling
<1>5. timer' = [timer EXCEPT ![k] = u]
  BY <1>3
<1> HIDE DEF u
<1>6. \/ u.at = "done" /\ c = "claimed" /\ u.result = "Cancelled"
      \/ /\ u.at = "done" /\ c = "disarmed" /\ u.result \in {"Elapsed", "Completed"}
         /\ u.result = "Elapsed" => now >= u.deadline
  BY <1>2, <1>3, <1>4
<1> QED BY <1>1, <1>3, <1>4, <1>5, <1>6, OperationEnds

LEMMA DropKeeps ==
    ASSUME TInv, NEW k \in Timers, DropTimer(k)
    PROVE  TInv'
<1>1. /\ TimerType /\ timer[k] \in Operation /\ timer[k].at = "parked" /\ timer[k].at \in Polling
      /\ UNCHANGED <<now, open, cancelled, waker>> /\ Claims(timer[k], cleanup[k], cancelled[k])
  BY DEF TInv, TimerType, DropTimer, deadlineVars, Polling
<1>2. cleanup[k] \in {"armed", "claimed"} /\ timer[k].result = "none"
  BY <1>1 DEF Claims
<1>3. PICK c \in {"claimed", "disarmed"} :
        cleanup' = [cleanup EXCEPT ![k] = c] /\ (c = "disarmed" <=> cleanup[k] = "armed")
  <2>1. CASE cleanup[k] = "armed"
    BY <2>1 DEF DropTimer, Disarmed
  <2>2. CASE cleanup[k] = "claimed"
    BY <2>2 DEF DropTimer, Disarmed
  <2> QED BY <1>2, <2>1, <2>2
<1> DEFINE u == [timer[k] EXCEPT !.at = "dropped", !.set = FALSE]
<1>4. timer' = [timer EXCEPT ![k] = u]
  BY <1>1 DEF DropTimer
<1>5. /\ u \in Operation /\ u.at = "dropped" /\ u.result = "none" /\ u.kind = timer[k].kind
      /\ u.start = timer[k].start /\ u.delay = timer[k].delay /\ u.deadline = timer[k].deadline
      /\ u.ticks = timer[k].ticks /\ u.ticked = timer[k].ticked
  BY <1>1, <1>2 DEF Operation
<1> HIDE DEF u
<1> QED BY <1>1, <1>3, <1>4, <1>5, OperationEnds

LEMMA WakesKeep ==
    ASSUME TInv, NEW k \in Timers, TokioWakes(k) \/ WorkWakes(k)
    PROVE  TInv'
<1>1. /\ timer[k] \in Operation /\ UNCHANGED <<now, open, cleanup, cancelled, waker>>
      /\ waker' \in [Timers -> BOOLEAN] /\ Verdicts(timer[k], now) /\ timer \in [Timers -> Operation]
  BY DEF TInv, TimerType, TokioWakes, WorkWakes, deadlineVars, cancelVars
<1>2. PICK s \in BOOLEAN : timer' = [timer EXCEPT ![k] = [timer[k] EXCEPT !.set = s, !.woken = TRUE]]
  <2>1. CASE TokioWakes(k)
    BY <1>1, <2>1 DEF TokioWakes
  <2>2. CASE WorkWakes(k)
    <3>1. [timer[k] EXCEPT !.woken = TRUE] = [timer[k] EXCEPT !.set = timer[k].set, !.woken = TRUE]
      BY <1>1 DEF Operation
    <3>2. timer' = [timer EXCEPT ![k] = [timer[k] EXCEPT !.woken = TRUE]] /\ timer[k].set \in BOOLEAN
      BY <1>1, <2>2 DEF WorkWakes, Operation
    <3> QED BY <3>1, <3>2
  <2> QED BY <2>1, <2>2
<1> DEFINE u == [timer[k] EXCEPT !.set = s, !.woken = TRUE]
<1>3. /\ Kept(u, timer[k]) /\ u.at = timer[k].at /\ u.check = timer[k].check /\ u.verdict = timer[k].verdict
  BY <1>1 DEF Kept, Operation
<1>4. timer' = [timer EXCEPT ![k] = u]
  BY <1>2
<1> HIDE DEF u
<1>5. /\ Ticking(u) => Ticking(timer[k])
      /\ Deciding(u) => /\ u.verdict \in {"Elapsed", "Completed"}
                        /\ u.verdict = "Elapsed" => now >= timer[k].deadline
  BY <1>1, <1>3 DEF Ticking, Deciding, Verdicts
<1> QED BY <1>1, <1>3, <1>4, <1>5, GoesOn DEF Kept

\* Time passes: what was due stays due.
LEMMA TimePasses ==
    ASSUME TInv, now \in Nat, now' \in Nat, now <= now', UNCHANGED <<open, cleanup, cancelled, waker, timer>>
    PROVE  TInv'
<1>1. TimerType'
  BY DEF TInv, TimerType
<1>2. ASSUME NEW k \in Timers
      PROVE  Claims(timer[k], cleanup[k], cancelled[k]) /\ Verdicts(timer[k], now') /\ Phase(timer[k], now')
  <2>1. /\ timer[k] \in Operation /\ Claims(timer[k], cleanup[k], cancelled[k]) /\ Verdicts(timer[k], now)
        /\ Phase(timer[k], now)
    BY DEF TInv, TimerType
  <2>2. Verdicts(timer[k], now')
    BY <2>1 DEF Verdicts, Operation
  <2>3. Phase(timer[k], now')
    <3> SUFFICES ASSUME timer[k].kind = "interval" PROVE Phase(timer[k], now')
      BY DEF Phase
    <3>1. /\ timer[k].start \in Nat /\ timer[k].ticks * timer[k].delay \in Nat
          /\ (timer[k].ticks + 1) * timer[k].delay \in Nat
      BY <2>1 DEF Operation
    <3>2. \A n \in Nat : n <= now - timer[k].start => n <= now' - timer[k].start
      BY <3>1
    <3>3. timer[k].start <= now => timer[k].start <= now'
      BY <3>1
    <3> QED BY <2>1, <3>1, <3>2, <3>3 DEF Phase
  <2> QED BY <2>1, <2>2, <2>3
<1> QED BY <1>1, <1>2 DEF TInv

LEMMA TimersStart == Init => TInv
<1> SUFFICES ASSUME Init PROVE TInv
  OBVIOUS
<1>1. TimerType
  BY AbsentType DEF Init, TimerType
<1>2. ASSUME NEW k \in Timers
      PROVE  Claims(timer[k], cleanup[k], cancelled[k]) /\ Verdicts(timer[k], now) /\ Phase(timer[k], now)
  <2>1. timer[k] = Absent /\ cleanup[k] = "none" /\ cancelled[k] = FALSE
    BY DEF Init
  <2>2. Absent.at = "absent" /\ Absent.result = "none" /\ Absent.kind = "sleep"
    BY DEF Absent
  <2> QED BY <2>1, <2>2 DEF Claims, Verdicts, Deciding, Phase, Polling, Checking
<1> QED BY <1>1, <1>2 DEF TInv

LEMMA TimersInvariant == Spec => []TInv
<1>1. ASSUME TInv, WInv, WInv', [Next]_vars PROVE TInv'
  <2>0. now \in Nat /\ now' \in Nat
    BY <1>1 DEF WInv, DeadlineType
  <2>1. CASE Passes
    BY <1>1, <2>0, <2>1, TimePasses DEF Passes, Tick, timerVars, cancelVars
  <2>2. CASE UNCHANGED <<now, open, cleanup, cancelled, waker, timer>>
    BY <1>1, <2>0, <2>2, TimePasses
  <2>3. CASE Close
    BY <1>1, <2>0, <2>3 DEF Close, TInv, TimerType, deadlineVars, cancelVars
  <2>4. ASSUME NEW k \in Timers, PollStep(k)
        PROVE  TInv'
    BY <1>1, <2>0, <2>4, CommitKeeps, PollKeeps, LoadKeeps, ReloadKeeps, PollDeadlineKeeps, PollWorkKeeps,
       DisarmKeeps DEF PollStep
  <2>5. CASE DeadlineNext /\ UNCHANGED timerVars
    <3>1. UNCHANGED <<open, cleanup, cancelled, waker, timer>> /\ now' = now
      BY <2>5 DEF timerVars, cancelVars, DeadlineNext, WorkerStep, Serve, Deliver, WorkerWakes, Retire,
         Publish, Notify, WaitStep, Check, Insert, NotifyWorker, Enable, Look, Resume, Abandon, Call
    <3> QED BY <2>2, <3>1
  <2>6. CASE UNCHANGED vars
    BY <2>2, <2>6 DEF vars, deadlineVars, timerVars, cancelVars
  <2> QED
    BY <1>1, <2>0, <2>1, <2>3, <2>4, <2>5, <2>6, CancelKeeps, WakesKeep, DropKeeps, PrepareKeeps DEF Next
<1> QED BY <1>1, TimersStart, WaitsInvariant, PTL DEF Spec

\* One verdict per operation and the right one, for any operations, delays and
\* clock: a normal result has won the cleanup and a cancellation has lost it,
\* nothing elapses early; an Interval keeps its phase, is never ahead of it, and
\* drops the ticks it missed, except within the grace.
THEOREM TimersDecideOnce == Spec => []TimersAreExact
<1>1. ASSUME WInv, TInv PROVE TimersAreExact
  <2> SUFFICES ASSUME NEW k \in Timers
               PROVE  LET t == timer[k] IN
                 /\ t.result \in {"Elapsed", "Completed"} => cleanup[k] = "disarmed"
                 /\ t.result = "Cancelled" => cleanup[k] = "claimed"
                 /\ t.result = "Elapsed" => now >= t.deadline
                 /\ t.kind = "interval" =>
                      /\ t.delay # 0 => (t.deadline - t.start) % t.delay = 0
                      /\ t.ticks * t.delay <= now - t.start
                      /\ t.ticked < t.deadline \/ t.ticked <= t.deadline - t.delay + Grace
    BY DEF TimersAreExact
  <2>1. /\ timer[k] \in Operation /\ Claims(timer[k], cleanup[k], cancelled[k]) /\ Verdicts(timer[k], now)
        /\ Phase(timer[k], now) /\ now \in Nat
    BY <1>1 DEF WInv, DeadlineType, TInv, TimerType
  <2>2. ASSUME timer[k].kind = "interval"
        PROVE  /\ timer[k].delay # 0 => (timer[k].deadline - timer[k].start) % timer[k].delay = 0
               /\ timer[k].ticks * timer[k].delay <= now - timer[k].start
               /\ Spaced(timer[k])
    <3>1. timer[k].delay \in Nat \ {0} /\ timer[k].start \in Nat
      BY <2>1, <2>2 DEF Phase, Operation
    <3>2. PICK m \in Nat : timer[k].deadline = timer[k].start + timer[k].delay * m
      BY <2>1, <2>2 DEF Phase
    <3>3. timer[k].deadline - timer[k].start = timer[k].delay * m
      <4>1. timer[k].delay * m \in Nat
        BY <3>1
      <4> QED BY <3>1, <3>2, <4>1
    <3>4. (timer[k].delay * m) % timer[k].delay = 0
      BY <3>1, PhaseArithmetic
    <3> QED BY <2>1, <2>2, <3>3, <3>4 DEF Phase
  <2> QED BY <2>1, <2>2 DEF Claims, Verdicts, Spaced
<1> QED BY <1>1, WaitsInvariant, TimersInvariant, PTL
=============================================================================
