------------------------------- MODULE Events -------------------------------
(***************************************************************************)
(* Event listeners and dispatch (events/), and the update-control chain    *)
(* (update.rs), which has a store and a chain of its own of the same shape.*)
(*                                                                         *)
(* Callers dispatch while listeners are registered, removed by their       *)
(* control, withdrawn with the generation that owns them, or consumed by   *)
(* another dispatch.  The preflight and every claim are one acquisition of *)
(* the store's lock each; callbacks run between them and may do anything.  *)
(***************************************************************************)
EXTENDS Naturals, Sequences, FiniteSets, SequencesExt, Selection

CONSTANTS
    Caller,        \* tasks that dispatch or update
    MaxListeners,  \* bound: registrations in a behaviour
    Event,         \* Event names
    Contract,      \* Args/Output pairs
    Scope,         \* Scope nodes below the root Scope
    Parent,        \* the node each was derived from
    Shape,         \* the registrations made: see ShapeAssumption
    Request,       \* the operations each caller starts: see RequestAssumption
    Sparse         \* stale ids an order keeps before it is compacted (32)

Root    == "root Scope"
Foreign == "Scope of another Runtime"
Updates == "on_update"          \* the stream of update policy
Stream  == Event \cup {Updates}
Unbound == "unbound"

\* ListenerRole, EventOperation and what a dispatch can report.
ListenerRole   == {"Observer", "Responder", "Mapper", "Around"}
PolicyRole     == {"Mapper", "Around"}      \* the adapters on_update accepts
EventOperation == {"Emit", "EmitParallel", "Query", "Waterfall"}
Operation      == EventOperation \cup {"WaterfallQuery", "Update"}
Refusal        == {"ForeignScope", "EventContractMismatch", "IncompatibleRole"}
Outcome        == {"none", "Completed", "Answered", "Missed", "Accepted", "Vetoed",
                   "Invocation", "Parallel"} \cup Refusal

\* An occurrence's immutable facts.  Update policy has a Plugin contract fixed
\* by its type, so it carries none here.
ListenerOptions == [prepend : BOOLEAN, global : BOOLEAN, once : BOOLEAN]
Hook == [stream : Stream, contract : Contract \cup {Unbound}, role : ListenerRole,
         scope : Scope \cup {Root}, options : ListenerOptions]

\* What a caller asks for.
Ask == [op : Operation, stream : Stream, contract : Contract \cup {Unbound},
        routing : Scope \cup {Root, "Unscoped", Foreign}]

ASSUME ShapeAssumption  == Shape \subseteq Hook
ASSUME UpdateAssumption ==
    \A s \in Shape :
      /\ (s.stream = Updates) <=> (s.contract = Unbound)
      /\ s.stream = Updates => s.role \in PolicyRole
ASSUME RequestAssumption ==
    /\ Request \in [Caller -> SUBSET Ask]
    /\ \A c \in Caller : \A r \in Request[c] :
         /\ (r.op = "Update") <=> (r.stream = Updates)
         /\ (r.op = "Update") <=> (r.contract = Unbound)
         /\ r.op = "Update" => r.routing \in Scope \cup {Root}
ASSUME ScopeAssumption  == Parent \in [Scope -> Scope \cup {Root}]
ASSUME BoundAssumption  == MaxListeners \in Nat /\ Sparse \in Nat \ {0}

Listener == 1..MaxListeners     \* ListenerRegistrationId, in allocation order

\* Who a failure names: a listener, nobody, or whoever a failure of another
\* operation named.
Nobody    == 0
Elsewhere == MaxListeners + 1
Name      == Listener \cup {Nobody, Elsewhere}

\* A failure as it is raised: by a listener, or by the tail, which names nobody,
\* within the innermost Around that waits for it.
Raised == [by : Listener \cup {Nobody}, as : Name]

VARIABLES
    contracts,   \* EventState.contracts
    order,       \* EventHooks.order (and UpdateState's list), per stream
    entries,     \* the occurrences their store holds
    hook,        \* the facts of every occurrence so far, withdrawn ones too
    journal,     \* occurrences whose cleanup the owner's generation still owes
    open,        \* the owner's generation admits registrations
    call         \* the operation of each caller

storeVars == <<contracts, order, entries, hook>>
vars == <<contracts, order, entries, hook, journal, open, call>>

\* An operation in flight.  hooks: its snapshot, from the next one to claim.
\* nested: the query of a waterfall_query's tail.  frames: Around listeners
\* waiting for their Next.  failure: who a failure on its way out names.
\* snapshot, behind and failed are history: what the preflight chose, which of
\* it was skipped or passed the value on, and the failure on its way out as it
\* was raised, or all the failures of a parallel notification.
Call == [op : Operation, stream : Stream, contract : Contract \cup {Unbound},
         at : {"idle", "claim", "invoke", "join", "tail", "resolve", "unwind",
               "done", "dropped"},
         nested : BOOLEAN,
         routing : Scope \cup {Root, "Unscoped", Foreign},
         hooks : Seq(Listener), current : Listener \cup {Nobody},
         claimed : Seq(Listener), running : SUBSET Listener, frames : Seq(Listener),
         failing : BOOLEAN, failure : Name, reached : BOOLEAN,
         outcome : Outcome, failures : Seq(Name),
         snapshot : Seq(Listener), behind : SUBSET Listener, failed : SUBSET Raised]

Idle == [op |-> "Emit", stream |-> Updates, contract |-> Unbound, at |-> "idle",
         nested |-> FALSE, routing |-> Root, hooks |-> <<>>, current |-> Nobody,
         claimed |-> <<>>, running |-> {}, frames |-> <<>>, failing |-> FALSE, failure |-> Nobody,
         reached |-> FALSE, outcome |-> "none", failures |-> <<>>,
         snapshot |-> <<>>, behind |-> {}, failed |-> {}]

Live(s)   == {l \in entries : hook[l].stream = s}

Init ==
    /\ contracts = [e \in Event |-> Unbound]
    /\ order = [s \in Stream |-> <<>>]
    /\ entries = {} /\ journal = {} /\ open = TRUE
    /\ hook = <<>>
    /\ call = [c \in Caller |-> Idle]

-----------------------------------------------------------------------------
\* The store

\* bind_locked: a name keeps the first contract it is used with.
Binds(e, k) == contracts[e] \in {Unbound, k}
Bound(e, k) == [contracts EXCEPT ![e] = k]

\* compact_if_sparse: the order forgets stale ids once they are many and
\* outnumber the live ones.  Update policy is removed from its list at once.
Compacted(s) ==
    LET stale == Len(order[s]) - Cardinality(Live(s))
    IN  IF stale < Sparse \/ stale < Cardinality(Live(s)) THEN order[s]
        ELSE Only(order[s], entries)

\* Slip: an appended occurrence goes first.
AddedInFront(s, l, prepend) == <<l>> \o Compacted(s)

\* EventHooks::add and UpdateStore::add.
Added(s, l, prepend) ==
    IF prepend THEN <<l>> \o Compacted(s) ELSE Append(Compacted(s), l)

\* EventHooks::remove with the emptied stream dropped: what the order holds
\* once l is gone.
Forgotten(s, l) ==
    IF Live(s) = {l} THEN <<>>
    ELSE IF s = Updates THEN Only(order[s], Listener \ {l}) ELSE order[s]

\* EventStore::remove and UpdateStore::remove, a no-op once the entry is gone.
Withdrawn(l) ==
    IF l \in entries
    THEN /\ entries' = entries \ {l}
         /\ order' = [order EXCEPT ![hook[l].stream] = Forgotten(hook[l].stream, l)]
    ELSE UNCHANGED <<entries, order>>

\* A dispatched Scope reaches the Scopes of its own chain.
Reaches(from, scope) ==
    LET chain[s \in Scope \cup {Root}] ==
          s = scope \/ (s # Root /\ chain[Parent[s]])
    IN  chain[from]

\* Routing: everybody, or globals and the registrations on an ancestor-or-self.
Eligible(l, routing) ==
    \/ routing = "Unscoped"
    \/ hook[l].options.global
    \/ hook[l].scope = Root
    \/ routing # Root /\ Reaches(routing, hook[l].scope)

Compatible(op, role) ==
    IF op \in {"Emit", "EmitParallel", "Query"} THEN role \in {"Observer", "Responder"}
    ELSE role \in {"Mapper", "Around"}

\* The eligible occurrences in effective order.
Selected(s, routing) ==
    Only(order[s], {l \in entries : Eligible(l, routing)})

-----------------------------------------------------------------------------
\* Registration and withdrawal

\* The gated seam (Journal): the entry appears under the journal's lock, and a
\* closed generation refuses and changes nothing.
Commits(l, s) ==
    /\ l = Len(hook) + 1 /\ open
    /\ hook' = Append(hook, s)
    /\ order' = [order EXCEPT ![s.stream] = Added(s.stream, l, s.options.prepend)]
    /\ entries' = entries \cup {l}
    /\ journal' = journal \cup {l}
    /\ UNCHANGED <<open, call>>

\* Context::on and on_with.  Another contract refuses and changes nothing.
Register(l) ==
    \E s \in Shape :
      /\ s.stream # Updates /\ Binds(s.stream, s.contract)
      /\ contracts' = Bound(s.stream, s.contract)
      /\ Commits(l, s)

\* Context::on_update.
OnUpdate(l) ==
    \E s \in Shape : s.stream = Updates /\ Commits(l, s) /\ UNCHANGED contracts

\* ListenerRegistration::remove: out of the store, then out of the journal.
RemoveListener(l) ==
    /\ l \in journal
    /\ Withdrawn(l)
    /\ journal' = journal \ {l}
    /\ UNCHANGED <<contracts, hook, open, call>>

\* The generation closes; its drain runs the listeners' cleanups, newest
\* first, and a fresh generation opens on an empty journal.
CloseGeneration ==
    /\ open /\ journal # {}
    /\ open' = FALSE
    /\ UNCHANGED <<storeVars, journal, call>>

Cleanup(l) ==
    /\ ~open /\ l \in journal /\ \A m \in journal : m <= l
    /\ Withdrawn(l)
    /\ journal' = journal \ {l}
    /\ UNCHANGED <<contracts, hook, open, call>>

OpenGeneration ==
    /\ ~open /\ journal = {}
    /\ open' = TRUE
    /\ UNCHANGED <<storeVars, journal, call>>

-----------------------------------------------------------------------------
\* Dispatch

\* An operation returns; its future, what it captured and its request are gone.
Finish(k, outcome) ==
    [Idle EXCEPT !.at = "done", !.outcome = outcome,
                 !.failure = k.failure, !.failures = k.failures, !.reached = k.reached,
                 !.snapshot = k.snapshot, !.behind = k.behind, !.failed = k.failed]

\* drop_unclaimed_hooks and an uncalled continuation: the rest of the snapshot
\* is destroyed unclaimed, whatever its destructors do.
Discarded(k) == [k EXCEPT !.hooks = <<>>]

\* Context::emit, emit_parallel, query, waterfall, waterfall_query and
\* FiberHandle::update up to the end of their preflight.
StartedAs(r) ==
    LET selected == Selected(r.stream, r.routing)
    IN  [Idle EXCEPT !.op = r.op, !.stream = r.stream, !.contract = r.contract,
                     !.at = "claim", !.routing = r.routing,
                     !.hooks = selected, !.snapshot = selected]

\* EventStore::preflight refuses a snapshot with a role foreign to the operation.
HasForeignRole(k) ==
    \E i \in DOMAIN k.hooks : ~Compatible(k.op, hook[k.hooks[i]].role)

Admitted(k) ==
    IF HasForeignRole(k)
    THEN Finish(Idle, "IncompatibleRole") ELSE k

RefusedAs(c, refusal) ==
    /\ call' = [call EXCEPT ![c] = Finish(Idle, refusal)]
    /\ UNCHANGED <<contracts, order>>

\* A Scope of another Runtime is refused before the store is touched, another
\* contract before the order is looked at.
Dispatch(c) ==
    /\ call[c].at = "idle"
    /\ \E r \in Request[c] :
         /\ r.op # "Update"
         /\ \/ r.routing = Foreign /\ RefusedAs(c, "ForeignScope")
            \/ /\ r.routing # Foreign /\ ~Binds(r.stream, r.contract)
               /\ RefusedAs(c, "EventContractMismatch")
            \/ /\ r.routing # Foreign /\ Binds(r.stream, r.contract)
               /\ contracts' = Bound(r.stream, r.contract)
               /\ order' = [order EXCEPT ![r.stream] = Compacted(r.stream)]
               /\ call' = [call EXCEPT ![c] = Admitted(StartedAs(r))]
    /\ UNCHANGED <<entries, hook, journal, open>>

\* UpdateStore::control: the policy on the target's Scope chain.
Control(c) ==
    /\ call[c].at = "idle"
    /\ \E r \in Request[c] :
         r.op = "Update" /\ call' = [call EXCEPT ![c] = StartedAs(r)]
    /\ UNCHANGED <<storeVars, journal, open>>

\* Slip: a snapshot is enough to invoke.
ClaimsSnapshot(l) == TRUE

\* EventStore::claim: still registered, and consumed if once.
Claimable(l) == l \in entries

\* claim_hook: the next occurrence of the snapshot is invoked or skipped.
ClaimNext(c) ==
    LET k == call[c]
        l == Head(k.hooks)
        rest == [k EXCEPT !.hooks = Tail(k.hooks)]
    IN  /\ k.at = "claim" /\ k.hooks # <<>>
        /\ IF Claimable(l)
           THEN /\ IF hook[l].options.once THEN Withdrawn(l)
                   ELSE UNCHANGED <<entries, order>>
                /\ call' = [call EXCEPT ![c] =
                     IF k.op = "EmitParallel" THEN [rest EXCEPT !.claimed = Append(@, l)]
                     ELSE [rest EXCEPT !.current = l, !.at = "invoke"]]
           ELSE /\ call' = [call EXCEPT ![c] = [rest EXCEPT !.behind = @ \cup {l}]]
                /\ UNCHANGED <<entries, order>>
        /\ UNCHANGED <<contracts, hook, journal, open>>

-----------------------------------------------------------------------------
\* Invocation.  A callback may return an error or panic, in its state factory,
\* its future or its destructor: one outcome, "it failed".

Passed(k)    == [k EXCEPT !.at = "claim", !.current = Nobody,
                          !.behind = @ \cup {k.current}]
Failing(k, l, name) ==
    [Discarded(k) EXCEPT !.failing = TRUE, !.failure = name,
                         !.failed = {[by |-> l, as |-> name]}]

\* normalize_returned and correlate: what a callback raises itself, or got from
\* elsewhere without a name, is given its name; a failure of another operation
\* that it returns keeps the name it has.
Names(l) == {l, Elsewhere}
Failures(k, l) == {Failing(k, l, name) : name \in Names(l)}

\* The failure did not leave the operation.
Recovered(k) == [k EXCEPT !.failing = FALSE, !.failure = Nobody, !.failed = {}]

\* query_inner's result goes to the caller or to the waterfall's resolver.
QueryEnds(k, outcome) ==
    IF k.nested THEN [Recovered(k) EXCEPT !.op = "WaterfallQuery", !.nested = FALSE,
                                          !.at = "resolve"]
    ELSE Finish(k, outcome)

\* The snapshot is exhausted.
Exhausted(c) ==
    LET k == call[c]
    IN  /\ k.at = "claim" /\ k.hooks = <<>>
        /\ call' = [call EXCEPT ![c] =
             CASE k.op = "Emit"  -> Finish(k, "Completed")
               [] k.op = "Query" -> QueryEnds(k, "Missed")
               [] k.op = "EmitParallel" ->
                    [k EXCEPT !.at = "join", !.running = Range(k.claimed)]
               [] k.op = "Update" -> [k EXCEPT !.at = "unwind", !.reached = TRUE]
               [] OTHER -> [k EXCEPT !.at = "tail"]]
        /\ UNCHANGED <<storeVars, journal, open>>

\* emit_inner and query_inner: an Observer's output is dropped, the first
\* answer wins, the first failure ends the operation.
Notified(k) == {Passed(k)}
Answered(k) ==
    IF k.op = "Query" /\ hook[k.current].role = "Responder"
    THEN {QueryEnds(Discarded(k), "Answered")} ELSE {}
Refused(k) ==
    {IF k.op = "Query" THEN QueryEnds(f, "Invocation") ELSE Finish(f, "Invocation") :
       f \in Failures(k, k.current)}

\* A layer of a waterfall fails: the rest of the chain is not called.
Broken(k, l) == {[f EXCEPT !.at = "unwind"] : f \in Failures(k, l)}

\* A Mapper hands its value on or fails; its uncalled continuation is dropped.
Mapped(k) == {Passed(k)} \cup Broken(k, k.current)

\* An Around calls its Next once, answers without it, or fails without it.
Around(k) ==
    {[Passed(k) EXCEPT !.frames = Append(@, k.current)],
     [Discarded(k) EXCEPT !.at = "unwind"]}
    \cup Broken(k, k.current)

\* A layer of a waterfall or of the update chain, by its role.
Layer(k) == IF hook[k.current].role = "Mapper" THEN Mapped(k) ELSE Around(k)

Invoke(c) ==
    LET k == call[c]
    IN  /\ k.at = "invoke" /\ k.op # "Update"
        /\ \E r \in (IF k.op \in {"Emit", "Query"}
                     THEN Notified(k) \cup Answered(k) \cup Refused(k)
                     ELSE Layer(k)) :
             call' = [call EXCEPT ![c] = r]
        /\ UNCHANGED <<storeVars, journal, open>>

\* UpdateStore::run_chain: a Mapper's change or an Around's own go on sealed
\* again; the change is the input of the next layer.
InvokePolicy(c) ==
    /\ call[c].at = "invoke" /\ call[c].op = "Update"
    /\ \E r \in Layer(call[c]) : call' = [call EXCEPT ![c] = r]
    /\ UNCHANGED <<storeVars, journal, open>>

\* emit_parallel_inner: every claimed invocation runs; the last one to end
\* reports the failures in effective order.
Authors(k) == {f.by : f \in k.failed}

ParallelFailures(k) ==
    LET authors == Only(k.claimed, Authors(k))
    IN  [i \in DOMAIN authors |-> (CHOOSE f \in k.failed : f.by = authors[i]).as]

Join(c) ==
    LET k == call[c]
    IN  /\ k.at = "join"
        /\ \/ /\ k.running = {}
              /\ call' = [call EXCEPT ![c] =
                   IF k.failed = {} THEN Finish(k, "Completed")
                   ELSE [Finish(k, "Parallel") EXCEPT !.failures = ParallelFailures(k)]]
           \/ \E l \in k.running :
                \E f \in {{}} \cup {{[by |-> l, as |-> name]} : name \in Names(l)} :
                  call' = [call EXCEPT ![c] =
                    [k EXCEPT !.running = @ \ {l}, !.failed = @ \cup f]]
        /\ UNCHANGED <<storeVars, journal, open>>

\* The caller's tail, or the resolver of a waterfall_query, returns or fails,
\* naming nobody whatever it returns.
Innermost(frames) == IF frames = <<>> THEN Nobody ELSE Last(frames)

RunTail(c) ==
    LET k == call[c]
        ran == [k EXCEPT !.at = "unwind", !.reached = TRUE]
    IN  /\ \/ k.at = "tail" /\ k.op = "Waterfall"
           \/ k.at = "resolve"
        /\ \E r \in {ran, Failing(ran, Innermost(k.frames), Nobody)} : call' = [call EXCEPT ![c] = r]
        /\ UNCHANGED <<storeVars, journal, open>>

\* waterfall_query's tail is one query with the same routing and contract; its
\* refusal, too, goes to the resolver.
NestedQuery(c) ==
    LET k == call[c]
    IN  /\ k.at = "tail" /\ k.op = "WaterfallQuery"
        /\ \E q \in Event :
             LET asked == [k EXCEPT !.op = "Query", !.stream = q, !.nested = TRUE,
                                    !.at = "claim", !.hooks = Selected(q, k.routing)]
             IN  IF Binds(q, k.contract)
                 THEN /\ contracts' = Bound(q, k.contract)
                      /\ order' = [order EXCEPT ![q] = Compacted(q)]
                      /\ call' = [call EXCEPT ![c] =
                           IF HasForeignRole(asked)
                           THEN QueryEnds(Discarded(asked), "IncompatibleRole") ELSE asked]
                 ELSE /\ call' = [call EXCEPT ![c] = [k EXCEPT !.at = "resolve"]]
                      /\ UNCHANGED <<contracts, order>>
        /\ UNCHANGED <<entries, hook, journal, open>>

\* Slip: an Around that lets a failure pass takes it for its own.
Reattributed(k, l) == l

\* Slip: what registration_id documents, a tail's failure stays nameless.
TailStaysNameless(k, l) == k.failure

\* InvocationFailure::correlate: only a failure that names nobody is given a
\* name, that of the listener it leaves.  run_chain does so on leaving a Mapper's
\* layer, too, where every failure has a name: the tail of an update has none.
Correlated(k, l) == IF k.failure = Nobody THEN l ELSE k.failure

\* The innermost Around gets what its Next returned.  It may return a value,
\* recovering a failure, let the failure pass, or fail itself.
Returned(k) ==
    LET l == Last(k.frames)
        out == [k EXCEPT !.frames = Front(@)]
    IN  {Recovered(out)} \cup Failures(out, l)
        \cup (IF k.failing THEN {[out EXCEPT !.failure = Correlated(k, l)]} ELSE {})

\* Slip: success is acceptance.
VerdictOfSuccess(k) ==
    IF k.failing THEN "Invocation"
    ELSE IF k.op # "Update" THEN "Completed" ELSE "Accepted"

\* UpdateStore::control: a chain that failed is an error, one that never
\* reached its tail a veto.
Verdict(k) ==
    IF k.failing THEN "Invocation"
    ELSE IF k.op # "Update" THEN "Completed"
    ELSE IF k.reached THEN "Accepted" ELSE "Vetoed"

Unwind(c) ==
    LET k == call[c]
    IN  /\ k.at = "unwind"
        /\ \E r \in (IF k.frames = <<>> THEN {Finish(k, Verdict(k))} ELSE Returned(k)) :
             call' = [call EXCEPT ![c] = r]
        /\ UNCHANGED <<storeVars, journal, open>>

\* The caller drops its future while a callback is awaited.
Drop(c) ==
    /\ call[c].at \in {"invoke", "join", "tail", "resolve", "unwind"}
    /\ call' = [call EXCEPT ![c] =
         [Discarded(call[c]) EXCEPT !.at = "dropped", !.current = Nobody,
                                !.claimed = <<>>, !.running = {}, !.frames = <<>>]]
    /\ UNCHANGED <<storeVars, journal, open>>

\* The caller has the result and may start another operation.
Return(c) ==
    /\ call[c].at \in {"done", "dropped"}
    /\ call' = [call EXCEPT ![c] = Idle]
    /\ UNCHANGED <<storeVars, journal, open>>

-----------------------------------------------------------------------------
Step(c) ==
    \/ ClaimNext(c) \/ Exhausted(c) \/ Invoke(c) \/ InvokePolicy(c) \/ Join(c)
    \/ RunTail(c) \/ NestedQuery(c) \/ Unwind(c)

Owner ==
    \/ \E l \in Listener : Register(l) \/ OnUpdate(l) \/ RemoveListener(l) \/ Cleanup(l)
    \/ CloseGeneration \/ OpenGeneration

Next ==
    \/ Owner
    \/ \E c \in Caller : Dispatch(c) \/ Control(c) \/ Step(c) \/ Drop(c) \/ Return(c)

Spec == Init /\ [][Next]_vars

-----------------------------------------------------------------------------
\* Properties

\* The claims an operation holds.
Holds(k) == {k.current} \cup Range(k.claimed) \cup Range(k.frames)

\* Two dispatches, a removal and a closing generation race for one occurrence:
\* it is withdrawn once, claimed only while registered, and a once-occurrence
\* by one dispatch only (EventStore::claim, remove and the listener cleanup).
Withdrawal == INSTANCE Occurrence WITH
    phase <- [l \in Listener |-> IF l \notin DOMAIN hook THEN "absent"
                                 ELSE IF l \in entries THEN "registered" ELSE "withdrawn"],
    once  <- [l \in Listener |-> l \in DOMAIN hook /\ hook[l].options.once],
    running <- [l \in Listener |-> {c \in Caller : l \in Holds(call[c])}]

OccurrencesAreExact == Withdrawal!Spec

\* What the snapshot of a preflight must be, said without the order: every
\* eligible occurrence, prepended ones newest first before appended ones
\* oldest first.
Before(l, m) ==
    IF hook[l].options.prepend THEN hook[m].options.prepend => l > m
    ELSE ~hook[m].options.prepend /\ l < m

IsEffectiveOrder(hooks, s, routing) ==
    /\ Range(hooks) = {l \in Live(s) : Eligible(l, routing)}
    /\ \A i, j \in DOMAIN hooks : i < j => Before(hooks[i], hooks[j])

\* Compaction, prepending and removal never cost a preflight an eligible
\* listener, duplicate one or change the effective order (EventStore::preflight,
\* UpdateStore::snapshot).
SnapshotsAreEffective ==
    [][\A c \in Caller :
         LET k == call'[c]
         IN  (k.at = "claim" /\ (call[c].at = "idle" \/ (k.nested /\ ~call[c].nested)))
               => IsEffectiveOrder(k.hooks, k.stream, k.routing)]_vars

\* A tail that ran, and an accepted update with it, passed every layer of the
\* snapshot that was still registered when its turn came (run_chain and
\* waterfall_inner claim one by one, between awaits).
NoLayerBypassed ==
    \A c \in Caller :
      /\ call[c].reached => Range(call[c].snapshot) \subseteq call[c].behind
      /\ call[c].outcome = "Accepted" => call[c].reached

\* A failure keeps its name on its way out: the one reported names the listener
\* whose callback raised it, or whoever another operation's failure named that
\* the callback let out.  What a tail raised is reported under the innermost
\* Around that waited for it, and names nobody only where none did: the code, not
\* the doc of registration_id ("Framework tail execution has no listener
\* occurrence and therefore returns `None`", types.rs).  Parallel failures are those of the failed invocations, in effective
\* order (normalize_returned, correlate, emit_parallel_inner); and every
\* dispatch's record is well formed.
FailuresAreAttributed ==
    \A c \in Caller : LET k == call[c] IN
      /\ k \in Call
      /\ k.outcome = "Invocation" =>
           \E f \in k.failed : k.failure = (IF f.as = Nobody THEN f.by ELSE f.as)
      /\ k.outcome = "Parallel" =>
           /\ k.failures # <<>>
           /\ \E place \in [DOMAIN k.failures -> DOMAIN k.snapshot] :
                /\ \A i, j \in DOMAIN place : i < j => place[i] < place[j]
                /\ k.failed = {[by |-> k.snapshot[place[i]], as |-> k.failures[i]] : i \in DOMAIN place}
=============================================================================
