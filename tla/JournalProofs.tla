--------------------------- MODULE JournalProofs ---------------------------
(***************************************************************************)
(* Proofs about Journal, for any set of registering threads and any number *)
(* of obligations: types, and the safety of the generation's drain.        *)
(***************************************************************************)
EXTENDS Journal, TLAPS

Open == {"Loading", "Active"}

\* Which states the pass can be in at each of its points.
PassState ==
    /\ driver \in {"die", "drain", "snapshot", "next", "cleaning", "failed", "disposed"}
         => state = "Unloading"
    /\ driver = "apply" => state = "Loading"
    /\ driver = "decide" => state \in {"Pending", "Unloading", "Disposed"}
    /\ driver \in {"idle", "settle"} => state # "Unloading"
    /\ driver \in {"cleaning"} => drain_cleanup \in Token

\* A registration rechecks and pushes under the lock, and one that passed its
\* recheck is met by a pass that has not taken its snapshot yet.
Admitted ==
    /\ \A p \in Process : at[p] \in {"recheck", "push"} => lock = p
    /\ \A p \in Process : at[p] = "push" =>
         state \in Open \/ driver \in {"die", "drain", "snapshot"}

\* The snapshot covers the journal, and a finished drain leaves it empty.
Covered ==
    /\ driver \in {"next", "cleaning"} => Journal \subseteq worklist
    /\ driver \in {"decide", "failed", "disposed"} => Journal = {}
    /\ Closed => Journal = {}

\* One cleanup of a drain runs at a time, older than everything the drain or
\* its successor has yet to claim, while no registration can commit.
OneCleanup ==
    \A t \in Draining :
        /\ t = drain_cleanup /\ state = "Unloading"
        /\ driver \in {"cleaning", "unload", "die", "drain"}
        /\ \A u \in Journal : u < t
        /\ \A p \in Process : at[p] # "push"

\* How an obligation's phase and its outcome channel go together.
ChannelOK(c) ==
    /\ c.phase \in {"absent", "owned", "disarmed"} => c.channel = "none"
    /\ c.phase = "running" => c.channel \in {"open", "closed"} /\ c.delivered = 0
    /\ c.channel # "closed" => c.delivered = 0

Channels == \A t \in Token : ChannelOK(cleanup[t])

\* A drain that awaits an outcome has a channel to await it on.
Claimed == driver = "cleaning" => cleanup[drain_cleanup].channel # "none"

\* The obligation that joins a task belongs to the journal or to a drain until
\* the task has ended, and each pending start has its own obligation.
JoinOK(c) ==
    /\ c.phase = "absent" => c.task = "none" /\ c.registration = "none"
    /\ c.task # "none" => c.kind = "join"
    /\ c.kind = "join" => c.registration = "none"
    /\ c.kind = "join" /\ c.task # "ended" =>
         c.phase = "owned" \/ (c.phase = "running" /\ c.claimant = "drain")

AwaitsStart(c, p) == /\ c.by = p /\ c.kind = "join"
                     /\ c.phase # "absent" /\ c.task = "none"

Joins ==
    /\ \A t \in Token : JoinOK(cleanup[t]) /\ (t > sn => cleanup[t].phase = "absent")
    /\ \A p \in Process : at[p] = "spawn" =>
         token[p] \in Token /\ AwaitsStart(cleanup[token[p]], p)

IInv == /\ TypeOK /\ PassState /\ Admitted /\ Covered /\ OneCleanup
        /\ Channels /\ Claimed /\ Joins

\* The constants keep the lock's null value and the tokens apart from threads.
LEMMA ProcessFacts == Nobody \notin Process /\ Token \subseteq Process /\ Token \subseteq Nat
BY PushAssumption, RegistrarAssumption DEF Nobody, NoToken, Process, Token

\* Steps of the pass that touch neither the obligations nor the registrations.
PassStep == \/ JoinClaimed \/ Snapshot \/ Drained \/ Settle \/ SettlePending
            \/ SettleLoading \/ ApplyOk \/ ApplyFails \/ ParkFailure
            \/ TeardownUnload \/ TeardownDie \/ TeardownDisposed
            \/ StartSettle \/ StartDispose

\* A pass step keeps the invariant: it moves the published state and the
\* snapshot, never an obligation.
LEMMA PassStepInvariant ==
    ASSUME IInv, PassStep
    PROVE  IInv'
<1> USE DEF IInv
<1>1. UNCHANGED <<lock, sn, cleanup, at, checks, wants, token, drain_cleanup>>
  BY DEF PassStep, JoinClaimed, Snapshot, Drained, Settle, SettlePending,
     SettleLoading, ApplyOk, ApplyFails, ParkFailure, TeardownUnload, TeardownDie,
     TeardownDisposed, StartSettle, StartDispose, PassUnchanged, callVars
<1>2. Journal' = Journal /\ Draining' = Draining
  BY <1>1 DEF Journal, Draining
<1>3. TypeOK'
  <2>1. GateTypeOK'
    BY DEF PassStep, JoinClaimed, Snapshot, Drained, Settle, SettlePending,
       SettleLoading, ApplyOk, ApplyFails, ParkFailure, TeardownUnload, TeardownDie,
       TeardownDisposed, StartSettle, StartDispose, TypeOK, GateTypeOK, gateVars
  <2>2. PassTypeOK'
    BY <1>1 DEF PassStep, JoinClaimed, Snapshot, Drained, Settle, SettlePending,
       SettleLoading, ApplyOk, ApplyFails, ParkFailure, TeardownUnload, TeardownDie,
       TeardownDisposed, StartSettle, StartDispose, PassUnchanged, TypeOK,
       PassTypeOK, Journal
  <2>3. JournalTypeOK' /\ CallTypeOK'
    BY <1>1 DEF TypeOK, JournalTypeOK, CallTypeOK
  <2> QED BY <2>1, <2>2, <2>3 DEF TypeOK
<1>4. PassState'
  BY <1>1 DEF PassStep, JoinClaimed, Snapshot, Drained, Settle, SettlePending,
     SettleLoading, ApplyOk, ApplyFails, ParkFailure, TeardownUnload, TeardownDie,
     TeardownDisposed, StartSettle, StartDispose, PassUnchanged, PassState, TypeOK,
     GateTypeOK, PassTypeOK, gateVars
<1>5. Admitted'
  BY <1>1, ProcessFacts DEF PassStep, JoinClaimed, Snapshot, Drained, Settle, SettlePending,
     SettleLoading, ApplyOk, ApplyFails, ParkFailure, TeardownUnload, TeardownDie,
     TeardownDisposed, StartSettle, StartDispose, PassUnchanged, PassState, TypeOK,
     GateTypeOK, PassTypeOK, gateVars, Admitted, Open
<1>6. Covered'
  BY <1>1, <1>2 DEF PassStep, JoinClaimed, Snapshot, Drained, Settle, SettlePending,
     SettleLoading, ApplyOk, ApplyFails, ParkFailure, TeardownUnload, TeardownDie,
     TeardownDisposed, StartSettle, StartDispose, PassUnchanged, PassState, TypeOK,
     GateTypeOK, PassTypeOK, gateVars, Covered, Closed
<1>7. OneCleanup'
  BY <1>1, <1>2 DEF PassStep, JoinClaimed, Snapshot, Drained, Settle, SettlePending,
     SettleLoading, ApplyOk, ApplyFails, ParkFailure, TeardownUnload, TeardownDie,
     TeardownDisposed, StartSettle, StartDispose, PassUnchanged, PassState, TypeOK,
     GateTypeOK, PassTypeOK, gateVars, OneCleanup
<1>8. Channels' /\ Joins'
  BY <1>1 DEF Channels, Joins
<1>9. Claimed'
  BY <1>1 DEF PassStep, JoinClaimed, Snapshot, Drained, Settle, SettlePending,
     SettleLoading, ApplyOk, ApplyFails, ParkFailure, TeardownUnload, TeardownDie,
     TeardownDisposed, StartSettle, StartDispose, TypeOK, PassTypeOK, Claimed
<1> QED BY <1>3, <1>4, <1>5, <1>6, <1>7, <1>8, <1>9

\* Steps of a registration that commit nothing.
GateStep(p) == \/ Register(p) \/ AssertOpen(p) \/ AssertClosed(p)
               \/ ExecutorUnavailable(p) \/ LockJournal(p) \/ PublishRefused(p)

\* A registration that commits nothing keeps it: only a recheck under the
\* lock leads to a push.
LEMMA GateStepInvariant ==
    ASSUME IInv, NEW p \in Process, GateStep(p)
    PROVE  IInv'
<1> USE DEF IInv
<1>1. UNCHANGED <<gateVars, passVars, sn, cleanup, token>>
  BY DEF GateStep, Register, AssertOpen, AssertClosed, ExecutorUnavailable,
     LockJournal, PublishRefused
<1>2. Journal' = Journal /\ Draining' = Draining
  BY <1>1 DEF Journal, Draining
<1>3. TypeOK'
  <2>1. CallTypeOK'
    BY <1>1 DEF GateStep, Register, AssertOpen, AssertClosed, ExecutorUnavailable,
       LockJournal, PublishRefused, Return, Passed, Gates, TypeOK, CallTypeOK, Kind
  <2>2. lock' \in Process \cup {Nobody}
    BY DEF GateStep, Register, AssertOpen, AssertClosed, ExecutorUnavailable,
       LockJournal, PublishRefused, Return, TypeOK, JournalTypeOK
  <2> QED BY <1>1, <2>1, <2>2
          DEF TypeOK, GateTypeOK, PassTypeOK, JournalTypeOK, gateVars, passVars
<1>4. \A q \in Process : q # p => at'[q] = at[q]
  BY DEF GateStep, Register, AssertOpen, AssertClosed, ExecutorUnavailable,
     LockJournal, PublishRefused, Return, TypeOK, CallTypeOK
<1>5. at'[p] = "push" => at[p] = "push" \/ (at[p] = "recheck" /\ state \in Open)
  <2>1. CASE AssertOpen(p)
    <3>1. CASE checks[p] = 3
      <4>1. Admits[4]
        BY <2>1, <3>1 DEF AssertOpen
      <4>2. state \in Open
        BY <4>1 DEF Admits, Open
      <4> QED BY <2>1, <3>1, <4>2 DEF AssertOpen, Passed, Gates, TypeOK, CallTypeOK
    <3>2. CASE checks[p] # 3
      BY <2>1, <3>2 DEF AssertOpen, TypeOK, CallTypeOK
    <3> QED BY <3>1, <3>2
  <2>2. CASE ~AssertOpen(p)
    BY <2>2 DEF GateStep, Register, AssertClosed, ExecutorUnavailable, LockJournal,
       PublishRefused, Return, TypeOK, CallTypeOK
  <2> QED BY <2>1, <2>2
<1>6. Admitted'
  <2>1. ASSUME NEW q \in Process, at'[q] \in {"recheck", "push"}
        PROVE  lock' = q
    <3>1. CASE q = p
      BY <2>1, <3>1 DEF GateStep, Register, AssertOpen, AssertClosed,
         ExecutorUnavailable, LockJournal, PublishRefused, Return, Passed, Gates,
         TypeOK, CallTypeOK, Admitted
    <3>2. CASE q # p
      BY <1>4, <2>1, <3>2, ProcessFacts DEF GateStep, Register, AssertOpen, AssertClosed,
         ExecutorUnavailable, LockJournal, PublishRefused, Return, Admitted
    <3> QED BY <3>1, <3>2
  <2>2. ASSUME NEW q \in Process, at'[q] = "push"
        PROVE  state \in Open \/ driver \in {"die", "drain", "snapshot"}
    BY <1>4, <1>5, <2>2 DEF Admitted
  <2> QED BY <1>1, <2>1, <2>2 DEF Admitted, gateVars, passVars
<1>7. OneCleanup'
  <2>1. ASSUME NEW t \in Draining, NEW q \in Process
        PROVE  at'[q] # "push"
    BY <1>4, <1>5, <2>1 DEF OneCleanup, Open
  <2> QED BY <1>1, <1>2, <2>1 DEF OneCleanup, gateVars, passVars
<1>8. \A q \in Process : at'[q] = "spawn" => at[q] = "spawn"
  BY <1>4 DEF GateStep, Register, AssertOpen, AssertClosed, ExecutorUnavailable,
     LockJournal, PublishRefused, Return, Passed, Gates, TypeOK, CallTypeOK
<1>9. PassState' /\ Covered' /\ Channels' /\ Claimed' /\ Joins'
  BY <1>1, <1>2, <1>8 DEF PassState, Covered, Closed, Channels, Claimed, Joins, gateVars,
     passVars
<1> QED BY <1>3, <1>6, <1>7, <1>9

\* A push lands before the snapshot that has to cover it.
LEMMA PushInvariant ==
    ASSUME IInv, NEW p \in Process, Push(p)
    PROVE  IInv'
<1> USE DEF IInv
<1> DEFINE n == sn + 1
<1>1. /\ UNCHANGED <<gateVars, passVars, checks, wants>>
      /\ n \in Token /\ sn' = n /\ at[p] = "push" /\ lock' = Nobody
  BY PushAssumption DEF Push, TypeOK, JournalTypeOK, Token
<1>2. /\ cleanup'[n] = [Absent(p) EXCEPT !.kind = wants[p], !.phase = "owned",
           !.registration = IF wants[p] = "join" THEN "none" ELSE "held"]
      /\ \A t \in Token : t # n => cleanup'[t] = cleanup[t]
  BY <1>1 DEF Push, TypeOK, JournalTypeOK
<1>3. /\ cleanup'[n].kind = wants[p] /\ cleanup'[n].by = p
      /\ cleanup'[n].phase = "owned" /\ cleanup'[n].channel = "none"
      /\ cleanup'[n].delivered = 0 /\ cleanup'[n].task = "none"
      /\ cleanup'[n].claimant = "none"
      /\ wants[p] = "join" => cleanup'[n].registration = "none"
  BY <1>2 DEF Absent
<1>4. Journal' = Journal \cup {n} /\ Draining' = Draining
  <2>1. cleanup[n].phase = "absent"
    BY <1>1, PushAssumption DEF Joins, Token, TypeOK, JournalTypeOK
  <2>2. ASSUME NEW t \in Token
        PROVE  /\ cleanup'[t].phase = "owned" <=> t = n \/ cleanup[t].phase = "owned"
               /\ cleanup'[t].phase = "running" /\ cleanup'[t].claimant = "drain" <=>
                    cleanup[t].phase = "running" /\ cleanup[t].claimant = "drain"
    BY <1>1, <1>2, <1>3, <2>1, ZenonT(60)
  <2> HIDE DEF n
  <2> QED BY <1>1, <2>2 DEF Journal, Draining
<1>5. TypeOK'
  <2>0. wants[p] \in Kind
    BY DEF TypeOK, CallTypeOK
  <2>1. cleanup'[n] \in Obligation
    <3>1. Absent(p) \in Obligation
      BY DEF Absent, Obligation, Kind
    <3> QED BY <1>2, <2>0, <3>1 DEF Obligation
  <2>2. JournalTypeOK'
    BY <1>1, <2>1, PushAssumption DEF Push, TypeOK, JournalTypeOK, Token
  <2>3. CallTypeOK'
    BY <1>1 DEF Push, TypeOK, CallTypeOK
  <2> QED BY <1>1, <2>2, <2>3
          DEF TypeOK, GateTypeOK, PassTypeOK, gateVars, passVars
<1>6. \A q \in Process : q # p => at'[q] = at[q] /\ token'[q] = token[q]
  BY DEF Push, TypeOK, CallTypeOK
<1>7. at'[p] = IF wants[p] = "join" THEN "spawn" ELSE "rest"
  BY DEF Push, TypeOK, CallTypeOK
<1>8. lock = p /\ (state \in Open \/ driver \in {"die", "drain", "snapshot"})
  BY <1>1 DEF Admitted
<1>9. Admitted'
  BY <1>1, <1>6, <1>7, <1>8 DEF Admitted, gateVars, passVars
<1>10. Covered' /\ PassState'
  BY <1>1, <1>4, <1>8 DEF Covered, Closed, PassState, Open, gateVars, passVars
<1>11. OneCleanup'
  <2>1. Draining = {}
    BY <1>1 DEF OneCleanup
  <2> QED BY <1>4, <2>1 DEF OneCleanup
<1>12. Channels' /\ Claimed'
  <2>1. Channels'
    BY <1>2, <1>3 DEF Channels, ChannelOK
  <2>2. ASSUME driver = "cleaning" PROVE FALSE
    BY <1>8, <2>2 DEF PassState, Open
  <2> QED BY <1>1, <2>1, <2>2 DEF Claimed, passVars
<1>13. Joins'
  <2>1. ASSUME NEW q \in Process, at'[q] = "spawn"
        PROVE  token'[q] \in Token /\ AwaitsStart(cleanup'[token'[q]], q)
    <3>1. CASE q = p
      <4>1. wants[p] = "join" /\ token'[p] = n
        BY <1>7, <2>1, <3>1 DEF Push, TypeOK, CallTypeOK
      <4> QED BY <1>1, <1>3, <3>1, <4>1 DEF AwaitsStart
    <3>2. CASE q # p
      <4>1. at[q] = "spawn" /\ token'[q] = token[q]
        BY <1>6, <2>1, <3>2
      <4>2. token[q] # n
        BY <4>1, <1>1, PushAssumption DEF Joins, AwaitsStart, Token, TypeOK, JournalTypeOK
      <4> QED BY <1>2, <4>1, <4>2 DEF Joins
    <3> QED BY <3>1, <3>2
  <2>2. ASSUME NEW t \in Token
        PROVE  JoinOK(cleanup'[t]) /\ (t > sn' => cleanup'[t].phase = "absent")
    <3>1. CASE t = n
      BY <1>1, <1>3, <3>1, PushAssumption DEF JoinOK, TypeOK, JournalTypeOK, Token
    <3>2. CASE t # n
      BY <1>1, <1>2, <3>2, PushAssumption DEF Joins, TypeOK, JournalTypeOK, Token
    <3> QED BY <3>1, <3>2
  <2> QED BY <2>1, <2>2 DEF Joins
<1> QED BY <1>5, <1>9, <1>10, <1>11, <1>12, <1>13

\* The start of a task keeps it: its obligation is still owned or joining.
LEMMA RunSpawnInvariant ==
    ASSUME IInv, NEW p \in Process, RunSpawn(p)
    PROVE  IInv'
<1> USE DEF IInv
<1> DEFINE t == token[p]
<1>1. /\ UNCHANGED <<gateVars, passVars, lock, sn, checks, wants>>
      /\ at[p] = "spawn" /\ t \in Token
      /\ cleanup' = [cleanup EXCEPT ![t].task = "live"]
  BY DEF RunSpawn, Joins
<1>2. /\ cleanup[t].by = p /\ cleanup[t].kind = "join" /\ cleanup[t].phase # "absent"
      /\ cleanup[t].task = "none"
  BY <1>1 DEF Joins, AwaitsStart
<1>3. \A q \in Process : q # p => at'[q] = at[q] /\ token'[q] = token[q]
  BY DEF RunSpawn, TypeOK, CallTypeOK
<1>4. at'[p] = "rest"
  BY DEF RunSpawn, TypeOK, CallTypeOK
<1>5. TypeOK'
  BY <1>1, SMTT(30) DEF RunSpawn, TypeOK, GateTypeOK, PassTypeOK, JournalTypeOK, CallTypeOK,
     Obligation, gateVars, passVars
<1>6. /\ \A u \in Token : u # t => cleanup'[u] = cleanup[u]
      /\ cleanup'[t] = [cleanup[t] EXCEPT !.task = "live"]
  BY <1>1 DEF TypeOK, JournalTypeOK
<1>7. \A u \in Token :
        /\ cleanup'[u].kind = cleanup[u].kind /\ cleanup'[u].by = cleanup[u].by
        /\ cleanup'[u].phase = cleanup[u].phase
        /\ cleanup'[u].registration = cleanup[u].registration
        /\ cleanup'[u].claimant = cleanup[u].claimant
        /\ cleanup'[u].channel = cleanup[u].channel
        /\ cleanup'[u].delivered = cleanup[u].delivered
        /\ cleanup'[u].task = IF u = t THEN "live" ELSE cleanup[u].task
  BY <1>1 DEF TypeOK, JournalTypeOK, Obligation
<1> HIDE DEF t
<1>8. Journal' = Journal /\ Draining' = Draining
  BY <1>7 DEF Journal, Draining
<1>9. PassState' /\ Covered' /\ Admitted' /\ OneCleanup'
  BY <1>1, <1>3, <1>4, <1>8 DEF PassState, Covered, Closed, Admitted, OneCleanup,
     gateVars, passVars
<1>10. Channels' /\ Claimed'
  BY <1>1, <1>7 DEF Channels, ChannelOK, Claimed, PassState, passVars
<1>11. Joins'
  <2>1. ASSUME NEW q \in Process, at'[q] = "spawn"
        PROVE  at[q] = "spawn" /\ token'[q] = token[q] /\ token[q] # t
    <3>1. q # p
      BY <1>4, <2>1
    <3>2. at[q] = "spawn" /\ token'[q] = token[q]
      BY <1>3, <2>1, <3>1
    <3> QED BY <1>2, <3>1, <3>2 DEF Joins, AwaitsStart
  <2>2. \A q \in Process : at'[q] = "spawn" =>
          token'[q] \in Token /\ AwaitsStart(cleanup'[token'[q]], q)
    BY <1>7, <2>1 DEF Joins, AwaitsStart
  <2>3. sn' = sn
    BY <1>1
  <2>4. ASSUME NEW u \in Token
        PROVE  JoinOK(cleanup'[u]) /\ (u > sn' => cleanup'[u].phase = "absent")
    BY <1>2, <1>7, <2>3 DEF Joins, JoinOK
  <2> QED BY <2>2, <2>4 DEF Joins
<1> QED BY <1>5, <1>9, <1>10, <1>11

\* What every step of a claimed, armed or disarmed obligation has in common: it
\* changes that obligation only and gives nothing back to the journal or to a
\* drain.
Consumes(t) ==
    /\ UNCHANGED <<sn, callVars>>
    /\ cleanup' \in [Token -> Obligation]
    /\ \A u \in Token : u # t => cleanup'[u] = cleanup[u]
    /\ cleanup'[t].phase = "owned" => cleanup[t].phase = "owned"
    /\ cleanup'[t].phase = "running" /\ cleanup'[t].claimant = "drain"
         => cleanup[t].phase = "running" /\ cleanup[t].claimant = "drain"
    /\ ChannelOK(cleanup'[t]) /\ JoinOK(cleanup'[t])
    /\ cleanup[t].channel # "none" => cleanup'[t].channel # "none"
    /\ cleanup[t].phase = "absent" => cleanup'[t].phase = "absent"
    /\ \A p \in Process : AwaitsStart(cleanup[t], p) => AwaitsStart(cleanup'[t], p)

\* What follows from consuming one obligation, whatever the pass does.
LEMMA ConsumesKeeps ==
    ASSUME IInv, NEW t \in Token, Consumes(t)
    PROVE  /\ JournalTypeOK' <=> lock' \in Process \cup {Nobody}
           /\ CallTypeOK' /\ Channels' /\ Joins'
           /\ Journal' \subseteq Journal /\ Draining' \subseteq Draining
<1> USE DEF IInv
<1>1. UNCHANGED <<sn, at, checks, wants, token>>
  BY DEF Consumes, callVars
<1>2. (JournalTypeOK' <=> lock' \in Process \cup {Nobody}) /\ CallTypeOK'
  BY <1>1 DEF Consumes, TypeOK, JournalTypeOK, CallTypeOK
<1>3. Channels'
  BY DEF Consumes, Channels
<1>4. Joins'
  <2>1. \A u \in Token : JoinOK(cleanup'[u]) /\ (u > sn' => cleanup'[u].phase = "absent")
    BY <1>1 DEF Consumes, Joins
  <2>2. ASSUME NEW p \in Process, at'[p] = "spawn"
        PROVE  token'[p] \in Token /\ AwaitsStart(cleanup'[token'[p]], p)
    BY <1>1, <2>2 DEF Consumes, Joins
  <2> QED BY <2>1, <2>2 DEF Joins
<1>5. Journal' \subseteq Journal /\ Draining' \subseteq Draining
  BY DEF Consumes, Journal, Draining
<1> QED BY <1>2, <1>3, <1>4, <1>5

\* Steps of an obligation that leave the pass alone.
ObligationStep(t) == \/ RunCleanup(t) \/ TaskEnds(t) \/ Disarm(t) \/ DisposeEffect(t)
                     \/ ClaimLost(t) \/ EffectDisposed(t) \/ DropDispose(t)

\* Claims, outcomes and task ends consume the obligation they are about.
LEMMA ObligationStepConsumes ==
    ASSUME IInv, NEW t \in Token, ObligationStep(t)
    PROVE  Consumes(t) /\ UNCHANGED <<gateVars, passVars, lock>>
<1> USE DEF IInv
<1> DEFINE c == cleanup[t]
           d == cleanup'[t]
           Written == /\ cleanup' \in [Token -> Obligation]
                      /\ \A u \in Token : u # t => cleanup'[u] = cleanup[u]
                      /\ d.kind = c.kind /\ d.by = c.by
           Kept == d.phase = c.phase /\ d.claimant = c.claimant
           Goal == Consumes(t) /\ UNCHANGED <<gateVars, passVars, lock>>
<1>1. /\ cleanup \in [Token -> Obligation]
      /\ c \in Obligation /\ ChannelOK(c) /\ JoinOK(c)
  BY DEF TypeOK, JournalTypeOK, Channels, Joins
<1>2. CASE TaskEnds(t)
  <2>1. /\ Written /\ Kept /\ d.channel = c.channel /\ d.delivered = c.delivered
        /\ d.registration = c.registration /\ d.task = "ended" /\ c.task = "live"
    BY <1>1, <1>2 DEF TaskEnds, Obligation
  <2> QED BY <1>1, <1>2, <2>1 DEF TaskEnds, Consumes, ChannelOK, JoinOK, AwaitsStart
<1>3. CASE Disarm(t)
  <2>1. /\ Written /\ d.phase = "disarmed" /\ d.channel = c.channel
        /\ d.delivered = c.delivered /\ d.registration = "none" /\ d.task = c.task
        /\ c.registration = "held" /\ c.phase = "owned"
    BY <1>1, <1>3 DEF Disarm, Journal, Obligation
  <2> QED BY <1>1, <1>3, <2>1 DEF Disarm, Consumes, ChannelOK, JoinOK, AwaitsStart
<1>4. CASE DisposeEffect(t)
  <2>1. /\ Written /\ d.phase = "running" /\ d.claimant = "manual"
        /\ d.channel = "open" /\ d.delivered = c.delivered
        /\ d.registration = "none" /\ d.task = c.task
        /\ c.registration = "held" /\ c.phase = "owned"
    BY <1>1, <1>4 DEF DisposeEffect, Journal, Obligation
  <2> QED BY <1>1, <1>4, <2>1 DEF DisposeEffect, Consumes, ChannelOK, JoinOK, AwaitsStart
<1>5. CASE ClaimLost(t)
  <2>1. /\ Written /\ Kept /\ d.channel = c.channel /\ d.delivered = c.delivered
        /\ d.registration = "none" /\ d.task = c.task
    BY <1>1, <1>5 DEF ClaimLost, Obligation
  <2> QED BY <1>1, <1>5, <2>1 DEF ClaimLost, Consumes, ChannelOK, JoinOK, AwaitsStart
<1>6. CASE EffectDisposed(t)
  <2>1. c.channel = "sent" /\ c.delivered = 0 /\ c.phase # "running"
    BY <1>1, <1>6 DEF EffectDisposed, ChannelOK
  <2>2. PICK n \in 0..1 :
          cleanup' = [cleanup EXCEPT ![t].channel = "closed", ![t].delivered = n]
    <3>1. cleanup' = [cleanup EXCEPT ![t].channel = "closed",
            ![t].delivered = IF c.outcome = "failed" THEN c.delivered + 1 ELSE c.delivered]
      BY <1>1, <1>6 DEF EffectDisposed, Obligation
    <3>2. (IF c.outcome = "failed" THEN c.delivered + 1 ELSE c.delivered) \in 0..1
      BY <2>1
    <3> QED BY <3>1, <3>2
  <2>3. /\ Written /\ Kept /\ d.channel = "closed"
        /\ d.registration = c.registration /\ d.task = c.task
    BY <1>1, <2>2 DEF Obligation
  <2> QED BY <1>1, <1>6, <2>1, <2>3
          DEF EffectDisposed, Consumes, ChannelOK, JoinOK, AwaitsStart
<1>7. CASE DropDispose(t)
  <2>1. /\ Written /\ Kept /\ d.channel = "closed" /\ d.delivered = c.delivered
        /\ d.registration = c.registration /\ d.task = c.task
        /\ c.channel \in {"open", "sent"}
    BY <1>1, <1>7 DEF DropDispose, Obligation
  <2> QED BY <1>1, <1>7, <2>1 DEF DropDispose, Consumes, ChannelOK, JoinOK, AwaitsStart
<1>8. CASE RunCleanup(t)
  <2>1. c.phase = "running" /\ c.delivered = 0 /\ (c.kind = "join" => c.task = "ended")
    BY <1>1, <1>8 DEF RunCleanup, Executing, Joined, ChannelOK
  <2>2. PICK o \in {"ok", "failed"} :
          cleanup' = [cleanup EXCEPT ![t].phase = "done", ![t].outcome = o,
             ![t].channel = IF @ = "open" THEN "sent" ELSE @,
             ![t].delivered = IF o = "failed" /\ Unreceived(t) THEN @ + 1 ELSE @]
    BY <1>8 DEF RunCleanup
  <2> DEFINE h == IF c.channel = "open" THEN "sent" ELSE c.channel
             n == IF o = "failed" /\ c.channel = "closed" THEN 1 ELSE 0
  <2>3. /\ h \in {"none", "sent", "closed"}
        /\ n \in 0..1 /\ (h # "closed" => n = 0)
        /\ cleanup' = [cleanup EXCEPT ![t].phase = "done", ![t].outcome = o,
                                      ![t].channel = h, ![t].delivered = n]
    <3>1. cleanup' = [cleanup EXCEPT ![t].phase = "done", ![t].outcome = o,
            ![t].channel = h,
            ![t].delivered = IF o = "failed" /\ Unreceived(t) THEN c.delivered + 1
                                                             ELSE c.delivered]
      BY <1>1, <2>2 DEF Obligation
    <3>2. h \in {"none", "sent", "closed"} /\ n \in 0..1 /\ (h # "closed" => n = 0)
      BY <1>1 DEF Obligation
    <3>3. n = IF o = "failed" /\ Unreceived(t) THEN c.delivered + 1 ELSE c.delivered
      BY <2>1 DEF Unreceived
    <3> QED BY <3>1, <3>2, <3>3
  <2> HIDE DEF h, n
  <2>4. /\ Written /\ d.phase = "done" /\ d.claimant = c.claimant
        /\ d.channel = h /\ d.delivered = n
        /\ d.registration = c.registration /\ d.task = c.task
    BY <1>1, <2>3, ZenonT(60) DEF Obligation
  <2> QED BY <1>1, <1>8, <2>1, <2>3, <2>4
          DEF RunCleanup, Consumes, ChannelOK, JoinOK, AwaitsStart
<1> QED BY <1>2, <1>3, <1>4, <1>5, <1>6, <1>7, <1>8 DEF ObligationStep

\* So they keep the invariant.
LEMMA ObligationStepInvariant ==
    ASSUME IInv, NEW t \in Token, ObligationStep(t)
    PROVE  IInv'
<1> USE DEF IInv
<1>1. Consumes(t) /\ UNCHANGED <<gateVars, passVars, lock>>
  BY ObligationStepConsumes
<1>2. /\ JournalTypeOK' <=> lock' \in Process \cup {Nobody}
      /\ CallTypeOK' /\ Channels' /\ Joins'
      /\ Journal' \subseteq Journal /\ Draining' \subseteq Draining
  BY <1>1, ConsumesKeeps
<1>3. UNCHANGED <<at, state, alive, disposing, generation_replacing, creation,
                  driver, after, worklist, drain_cleanup, lock>>
  BY <1>1 DEF Consumes, callVars, gateVars, passVars
<1>4. TypeOK' /\ PassState' /\ Admitted'
  BY <1>2, <1>3 DEF TypeOK, GateTypeOK, PassTypeOK, JournalTypeOK, PassState, Admitted
<1>5. Covered' /\ OneCleanup'
  BY <1>2, <1>3 DEF Covered, Closed, OneCleanup
<1>6. Claimed'
  BY <1>1, <1>3 DEF Consumes, Claimed, PassState
<1> QED BY <1>2, <1>4, <1>5, <1>6

\* A drain claims the newest obligation left.
LEMMA ClaimNextInvariant ==
    ASSUME IInv, NEW t \in Token, ClaimNext(t)
    PROVE  IInv'
<1> USE DEF IInv
<1> DEFINE c == cleanup[t]
           d == cleanup'[t]
<1>1. /\ UNCHANGED <<gateVars, creation, after, lock, sn, callVars>>
      /\ driver = "next" /\ driver' = "cleaning" /\ drain_cleanup' = t
      /\ t \in worklist /\ worklist' = worklist \ {t} /\ c.phase = "owned"
  BY DEF ClaimNext, Visits, Journal
<1>2. /\ cleanup \in [Token -> Obligation]
      /\ c \in Obligation /\ ChannelOK(c) /\ JoinOK(c)
  BY DEF TypeOK, JournalTypeOK, Channels, Joins
<1>3. /\ cleanup' \in [Token -> Obligation]
      /\ \A u \in Token : u # t => cleanup'[u] = cleanup[u]
      /\ d.kind = c.kind /\ d.by = c.by /\ d.phase = "running"
      /\ d.claimant = "drain" /\ d.channel = "open" /\ d.delivered = c.delivered
      /\ d.registration = c.registration /\ d.task = c.task
  BY <1>2 DEF ClaimNext, Obligation
<1>4. ChannelOK(d) /\ JoinOK(d) /\ \A p \in Process : AwaitsStart(c, p) => AwaitsStart(d, p)
  BY <1>1, <1>2, <1>3 DEF ChannelOK, JoinOK, AwaitsStart
<1> HIDE DEF c, d
<1>5. state = "Unloading" /\ Draining = {} /\ \A p \in Process : at[p] # "push"
  BY <1>1 DEF PassState, OneCleanup, Admitted, Open
<1>6. /\ Journal' = Journal \ {t} /\ Draining' = {t}
      /\ \A u \in Journal' : u < t
  <2>1. \A u \in Token : u # t => cleanup'[u] = cleanup[u]
    BY <1>3
  <2>2. Journal' = Journal \ {t} /\ Draining' = {t}
    BY <1>3, <1>5, <2>1 DEF Journal, Draining, d
  <2>3. Journal \subseteq worklist /\ \A u \in worklist : u <= t
    BY <1>1 DEF Covered, ClaimNext, Visits
  <2>4. worklist \subseteq Nat /\ t \in Nat
    BY ProcessFacts DEF TypeOK, PassTypeOK
  <2> QED BY <2>2, <2>3, <2>4
<1>7. TypeOK'
  BY <1>1, <1>3 DEF TypeOK, GateTypeOK, PassTypeOK, JournalTypeOK, CallTypeOK,
     gateVars, callVars
<1>8. PassState' /\ Admitted'
  BY <1>1, <1>5 DEF PassState, Admitted, gateVars, callVars
<1>9. Covered'
  BY <1>1, <1>5, <1>6 DEF Covered, Closed, gateVars
<1>10. OneCleanup'
  BY <1>1, <1>5, <1>6 DEF OneCleanup, gateVars, callVars
<1>11. Channels' /\ Claimed'
  BY <1>1, <1>3, <1>4 DEF Channels, Claimed, d
<1>12. Joins'
  <2>1. ASSUME NEW p \in Process, at'[p] = "spawn"
        PROVE  token'[p] \in Token /\ AwaitsStart(cleanup'[token'[p]], p)
    <3>1. at[p] = "spawn" /\ token'[p] = token[p]
      BY <1>1, <2>1 DEF callVars
    <3> QED BY <1>3, <1>4, <3>1 DEF Joins, c, d
  <2>2. ASSUME NEW u \in Token
        PROVE  JoinOK(cleanup'[u]) /\ (u > sn' => cleanup'[u].phase = "absent")
    <3>1. sn' = sn
      BY <1>1
    <3>2. CASE u = t
      BY <1>1, <1>4, <3>1, <3>2 DEF Joins, c, d
    <3>3. CASE u # t
      BY <1>3, <3>1, <3>3 DEF Joins
    <3> QED BY <3>2, <3>3
  <2> QED BY <2>1, <2>2 DEF Joins
<1> QED BY <1>7, <1>8, <1>9, <1>10, <1>11, <1>12

\* An obligation another claim won is no longer in the journal.
LEMMA SkipClaimedInvariant ==
    ASSUME IInv, NEW t \in Token, SkipClaimed(t)
    PROVE  IInv'
<1> USE DEF IInv
<1>1. /\ UNCHANGED <<gateVars, creation, driver, after, drain_cleanup, lock, sn,
                     cleanup, callVars>>
      /\ worklist' = worklist \ {t} /\ t \notin Journal
  BY DEF SkipClaimed
<1>2. Journal' = Journal /\ Draining' = Draining
  BY <1>1 DEF Journal, Draining
<1>3. TypeOK' /\ PassState' /\ Admitted'
  BY <1>1 DEF TypeOK, GateTypeOK, PassTypeOK, JournalTypeOK, CallTypeOK, PassState,
     Admitted, gateVars, callVars
<1>4. Covered' /\ OneCleanup'
  BY <1>1, <1>2 DEF Covered, Closed, OneCleanup, gateVars, callVars
<1>5. Channels' /\ Claimed' /\ Joins'
  BY <1>1 DEF Channels, Claimed, Joins, callVars
<1> QED BY <1>3, <1>4, <1>5

\* The drain receives an outcome.
LEMMA CleanedInvariant ==
    ASSUME IInv, Cleaned
    PROVE  IInv'
<1> USE DEF IInv
<1> DEFINE t == drain_cleanup
           c == cleanup[t]
           d == cleanup'[t]
<1>1. /\ UNCHANGED <<gateVars, creation, after, worklist, drain_cleanup, lock, sn,
                     callVars>>
      /\ driver = "cleaning" /\ driver' = "next" /\ t \in Token
      /\ c.channel = "sent"
  BY DEF Cleaned, PassState
<1>2. /\ cleanup \in [Token -> Obligation]
      /\ c \in Obligation /\ ChannelOK(c) /\ JoinOK(c)
  BY <1>1 DEF TypeOK, JournalTypeOK, Channels, Joins
<1>3. c.delivered = 0 /\ c.phase # "running" /\ c.phase # "owned"
  BY <1>1, <1>2 DEF ChannelOK
<1>4. PICK n \in 0..1 :
        cleanup' = [cleanup EXCEPT ![t].channel = "closed", ![t].delivered = n]
  <2>1. cleanup' = [cleanup EXCEPT ![t].channel = "closed",
          ![t].delivered = IF c.outcome = "failed" THEN c.delivered + 1 ELSE c.delivered]
    BY <1>1, <1>2 DEF Cleaned, Obligation
  <2>2. (IF c.outcome = "failed" THEN c.delivered + 1 ELSE c.delivered) \in 0..1
    BY <1>3
  <2> QED BY <2>1, <2>2
<1>5. /\ cleanup' \in [Token -> Obligation]
      /\ \A u \in Token : u # t => cleanup'[u] = cleanup[u]
      /\ d.kind = c.kind /\ d.by = c.by /\ d.phase = c.phase
      /\ d.claimant = c.claimant /\ d.channel = "closed"
      /\ d.registration = c.registration /\ d.task = c.task
  BY <1>1, <1>2, <1>4 DEF Obligation
<1>6. Consumes(t)
  BY <1>1, <1>2, <1>3, <1>5 DEF Consumes, ChannelOK, JoinOK, AwaitsStart
<1>7. /\ JournalTypeOK' <=> lock' \in Process \cup {Nobody}
      /\ CallTypeOK' /\ Channels' /\ Joins'
      /\ Journal' \subseteq Journal /\ Draining' \subseteq Draining
  BY <1>1, <1>6, ConsumesKeeps
<1>8. Draining = {}
  BY <1>3 DEF OneCleanup, Draining
<1>9. TypeOK' /\ PassState' /\ Admitted'
  BY <1>1, <1>7 DEF TypeOK, GateTypeOK, PassTypeOK, JournalTypeOK, PassState, Admitted,
     Open, gateVars, callVars
<1>10. Covered' /\ OneCleanup' /\ Claimed'
  BY <1>1, <1>7, <1>8 DEF Covered, Closed, OneCleanup, Claimed, PassState, gateVars
<1> QED BY <1>7, <1>9, <1>10

\* A dropped creation abandons its wait: the claimed cleanup runs on.
LEMMA DropCreationInvariant ==
    ASSUME IInv, DropCreation
    PROVE  IInv'
<1> USE DEF IInv
<1> DEFINE t == drain_cleanup
<1>1. /\ UNCHANGED <<state, alive, generation_replacing, after, worklist,
                     drain_cleanup, lock, sn, callVars>>
      /\ driver \in {"apply", "cleaning"} /\ driver' = "unload"
      /\ creation' = FALSE /\ disposing' = TRUE
  BY DEF DropCreation
<1>2. /\ JournalTypeOK' /\ CallTypeOK' /\ Channels' /\ Joins'
      /\ Journal' \subseteq Journal /\ Draining' \subseteq Draining
  <2>1. CASE driver = "apply"
    <3>1. cleanup' = cleanup
      BY <2>1 DEF DropCreation
    <3> QED BY <1>1, <3>1 DEF TypeOK, JournalTypeOK, CallTypeOK, Channels, Joins,
               Journal, Draining, callVars
  <2>2. CASE driver = "cleaning"
    <3> DEFINE c == cleanup[t]
               d == cleanup'[t]
    <3>1. /\ t \in Token /\ cleanup \in [Token -> Obligation]
          /\ c \in Obligation /\ ChannelOK(c) /\ JoinOK(c)
      BY <2>2 DEF PassState, TypeOK, JournalTypeOK, Channels, Joins
    <3>2. cleanup' = [cleanup EXCEPT ![t].channel = "closed"]
      BY <2>2 DEF DropCreation
    <3>3. /\ cleanup' \in [Token -> Obligation]
          /\ \A u \in Token : u # t => cleanup'[u] = cleanup[u]
          /\ d.kind = c.kind /\ d.by = c.by /\ d.phase = c.phase
          /\ d.claimant = c.claimant /\ d.channel = "closed"
          /\ d.delivered = c.delivered
          /\ d.registration = c.registration /\ d.task = c.task
      BY <3>1, <3>2 DEF Obligation
    <3>4. c.phase \notin {"absent", "owned", "disarmed"}
      BY <2>2, <3>1 DEF Claimed, ChannelOK
    <3>5. Consumes(t)
      BY <1>1, <3>1, <3>3, <3>4 DEF Consumes, ChannelOK, JoinOK, AwaitsStart
    <3>6. lock' \in Process \cup {Nobody}
      BY <1>1 DEF TypeOK, JournalTypeOK
    <3> QED BY <3>1, <3>5, <3>6, ConsumesKeeps
  <2> QED BY <1>1, <2>1, <2>2
<1>3. TypeOK' /\ PassState' /\ Admitted'
  BY <1>1, <1>2 DEF TypeOK, GateTypeOK, PassTypeOK, PassState, Admitted, Open, callVars
<1>4. Covered' /\ OneCleanup' /\ Claimed'
  BY <1>1, <1>2 DEF Covered, Closed, OneCleanup, Claimed, PassState, callVars
<1> QED BY <1>2, <1>3, <1>4

\* The invariant holds when the initial pass starts.
LEMMA InitInvariant == Init => IInv
<1> SUFFICES ASSUME Init PROVE IInv
  OBVIOUS
<1> USE DEF Init
<1>1. \A t \in Token : Absent(t) \in Obligation
  BY ProcessFacts DEF Absent, Obligation, Kind
<1>2. \A t \in Token : cleanup[t] = Absent(t)
  OBVIOUS
<1>3. \A t \in Token : /\ cleanup[t].phase = "absent" /\ cleanup[t].channel = "none"
                       /\ cleanup[t].delivered = 0 /\ cleanup[t].task = "none"
                       /\ cleanup[t].registration = "none" /\ cleanup[t].kind = "sync"
  BY <1>2 DEF Absent
<1>4. Journal = {} /\ Draining = {}
  BY <1>3 DEF Journal, Draining
<1>5. TypeOK
  <2>1. JournalTypeOK
    BY <1>1, PushAssumption DEF JournalTypeOK
  <2>2. GateTypeOK /\ PassTypeOK
    BY Zenon DEF GateTypeOK, PassTypeOK
  <2>3. CallTypeOK
    BY DEF CallTypeOK, Kind
  <2> QED BY <2>1, <2>2, <2>3 DEF TypeOK
<1>6. PassState /\ Admitted /\ Claimed
  BY DEF PassState, Admitted, Claimed
<1>7. Covered /\ OneCleanup
  BY <1>4 DEF Covered, OneCleanup
<1>8. Channels
  BY <1>3 DEF Channels, ChannelOK
<1>9. Joins
  BY <1>3 DEF Joins, JoinOK
<1> QED BY <1>5, <1>6, <1>7, <1>8, <1>9 DEF IInv

\* Every step keeps the invariant, one case per class of actions.
LEMMA NextInvariant == IInv /\ [Next]_vars => IInv'
<1> SUFFICES ASSUME IInv, [Next]_vars PROVE IInv'
  OBVIOUS
<1>1. CASE PassStep
  BY <1>1, PassStepInvariant
<1>2. ASSUME NEW p \in Process, GateStep(p) PROVE IInv'
  BY <1>2, GateStepInvariant
<1>3. ASSUME NEW p \in Process, Push(p) PROVE IInv'
  BY <1>3, PushInvariant
<1>4. ASSUME NEW p \in Process, RunSpawn(p) PROVE IInv'
  BY <1>4, RunSpawnInvariant
<1>5. ASSUME NEW t \in Token, ObligationStep(t) PROVE IInv'
  BY <1>5, ObligationStepInvariant
<1>6. ASSUME NEW t \in Token, ClaimNext(t) PROVE IInv'
  BY <1>6, ClaimNextInvariant
<1>7. ASSUME NEW t \in Token, SkipClaimed(t) PROVE IInv'
  BY <1>7, SkipClaimedInvariant
<1>8. CASE Cleaned
  BY <1>8, CleanedInvariant
<1>9. CASE DropCreation
  BY <1>9, DropCreationInvariant
<1>10. CASE UNCHANGED vars
  <2>1. Journal' = Journal /\ Draining' = Draining
    BY <1>10 DEF vars, Journal, Draining
  <2> QED BY <1>10, <2>1 DEF IInv, vars, gateVars, passVars, callVars, TypeOK,
             GateTypeOK, PassTypeOK, JournalTypeOK, CallTypeOK, PassState, Admitted,
             Covered, Closed, OneCleanup, Channels, Claimed, Joins
<1> QED BY <1>1, <1>2, <1>3, <1>4, <1>5, <1>6, <1>7, <1>8, <1>9, <1>10
        DEF Next, Drive, Registering, PassStep, GateStep, ObligationStep

\* The inductive invariant of one Fiber's journal.
THEOREM Invariance == Spec => []IInv
BY InitInvariant, NextInvariant, PTL DEF Spec

\* Every variable keeps its type, whatever registers, claims and drains.
THEOREM TypeCorrect == Spec => []TypeOK
<1>1. IInv => TypeOK
  BY DEF IInv
<1> QED BY Invariance, <1>1, PTL

\* push_gated's promise: a resting Fiber has no committed obligation left and no
\* cleanup of a drain still running.
THEOREM NoObligationStranded == Spec => []NothingStranded
<1>1. IInv => NothingStranded
  BY DEF IInv, NothingStranded, Covered, OneCleanup, Closed
<1> QED BY Invariance, <1>1, PTL

\* Context::run's promise: no task, and no start of a task, outlives its
\* generation.
THEOREM NoTaskOutlives == Spec => []TasksJoined
<1>1. IInv => TasksJoined
  <2> SUFFICES ASSUME IInv, Closed PROVE TasksJoined
    BY DEF TasksJoined
  <2>1. Journal = {} /\ Draining = {}
    BY DEF IInv, Covered, OneCleanup, Closed
  <2>2. ASSUME NEW t \in Token, cleanup[t].kind = "join"
        PROVE  cleanup[t].task = "ended"
    BY <2>1, <2>2 DEF IInv, Joins, JoinOK, Journal, Draining
  <2>3. \A t \in Token : cleanup[t].task # "live"
    BY <2>2 DEF IInv, Joins, JoinOK
  <2>4. \A p \in Process : at[p] # "spawn"
    BY <2>2 DEF IInv, Joins, AwaitsStart
  <2> QED BY <2>3, <2>4 DEF TasksJoined
<1> QED BY Invariance, <1>1, PTL

\* drain_disposables' order: one cleanup at a time, newest commit first, through
\* interrupted and resumed drains.
THEOREM CleanupsReversed == Spec => []ReverseCommitOrder
<1>1. IInv => ReverseCommitOrder
  BY DEF IInv, ReverseCommitOrder, OneCleanup
<1> QED BY Invariance, <1>1, PTL

\* A generation opens on an empty journal, with no task of its predecessor.
THEOREM GenerationIsFresh == Spec => FreshGeneration
<1>1. ASSUME IInv, Next, state' = "Loading", state # "Loading"
      PROVE  /\ Journal = {} /\ Draining = {}
             /\ \A t \in Token : cleanup[t].task # "live"
  <2>1. driver = "decide"
    <3>1. ~ UNCHANGED state
      BY <1>1
    <3> QED BY <1>1, <3>1 DEF Next, Drive, Registering, JoinClaimed, Snapshot, Cleaned,
       Drained, ClaimNext, SkipClaimed, Settle, SettlePending, SettleLoading, ApplyOk,
       ApplyFails, ParkFailure, TeardownUnload, TeardownDie, TeardownDisposed,
       StartSettle, StartDispose, DropCreation, Register, AssertOpen, AssertClosed,
       LockJournal, PublishRefused, Push, RunSpawn, ExecutorUnavailable, RunCleanup,
       TaskEnds, Disarm, DisposeEffect, ClaimLost, EffectDisposed, DropDispose, gateVars
  <2>2. Journal = {} /\ Draining = {}
    BY <1>1, <2>1 DEF IInv, Covered, OneCleanup
  <2>3. ASSUME NEW t \in Token
        PROVE  cleanup[t].task # "live"
    BY <1>1, <2>2 DEF IInv, Joins, JoinOK, Journal, Draining
  <2> QED BY <2>2, <2>3
<1>2. IInv /\ [Next]_vars => [state' = "Loading" /\ state # "Loading" =>
        Journal = {} /\ Draining = {}
        /\ \A t \in Token : cleanup[t].task # "live"]_vars
  BY <1>1
<1> QED BY Invariance, <1>2, PTL DEF Spec, FreshGeneration
=============================================================================
