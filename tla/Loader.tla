------------------------------- MODULE Loader -------------------------------
(***************************************************************************)
(* The Loader (crates/cordis-loader): plans built entry by entry and       *)
(* frozen (plan.rs), resolution before any lifecycle admission             *)
(* (resolver.rs), execution with one outcome per entry (plan.rs,           *)
(* outcome.rs), and the handoff that disposes what an abandoned execution  *)
(* had spawned (handoff.rs).                                               *)
(*                                                                         *)
(* One plan is executed by several loads at once, which share nothing but  *)
(* the plan.  Spawning a Fiber is core's (Creation): here it succeeds,     *)
(* fails, or is abandoned and torn down by core.                           *)
(***************************************************************************)
EXTENDS Naturals, SequencesExt, Selection

CONSTANTS
    Load,        \* executions of the plan
    Service,     \* Services that entries place in realms
    Label,       \* labels of Shared realm policies
    Key,         \* resolve identities
    Known,       \* those the resolver knows
    NoKey,       \* the identity of a row that has none
    Row,         \* rows a plan is built from
    MaxEntries,  \* bound: entries of the plan
    Removed,     \* bound: entries whose Fibers others may remove
    Private      \* the policy that is not a label

ASSUME EntriesAssumption == MaxEntries \in Nat \ {0} /\ Removed \subseteq 1..MaxEntries
ASSUME PolicyAssumption  == Private \notin Label

ASSUME KeyAssumption     == Known \subseteq Key /\ NoKey \notin Key

-----------------------------------------------------------------------------
\* The serialized source

\* A JSON source is what its typed preparation makes of it.
Config == {"good", "malformed", "rejected", "panics"}

\* InjectEntry: a Service, with a configuration of its own or none.
InjectEntry == [service : Service, config : Config \cup {"required"}]

\* IsolateEntry, RealmPolicy: Private, or Shared under a label.
IsolateEntry == [service : Service, policy : Label \cup {Private}]

\* PluginEntry.
PluginEntry ==
    [group : {FALSE}, key : Key \cup {NoKey}, name : Key \cup {NoKey}, config : Config,
     disabled : BOOLEAN, inject : Seq(InjectEntry), isolate : Seq(IsolateEntry)]

\* EntryGroup: its name is dropped, it has nothing but its place.
EntryGroup == [group |-> TRUE]

ASSUME RowAssumption == Row \subseteq PluginEntry \cup {EntryGroup}

None  == 0
Entry == 1..MaxEntries

\* ServiceRealm: new_service_realm gives a realm nobody else has, named here by
\* the execution that asked and how often it had; Default is the inherited one.
NewRealm(e, n) == [by |-> {e}, nth |-> n]
Default        == [by |-> {}, nth |-> 0]

VARIABLES
    nodes,     \* LoadPlanBuilder.nodes: rows, each with its parent
    frozen,    \* finish has made it a LoadPlan
    at,        \* where each execution is
    order,     \* execution_order, as a load computes it
    off,       \* disabled_by_entry of each execution
    shared,    \* RealmEnvironment.shared of each execution
    rows,      \* ResultHandoff.entries: the outcomes so far
    fiber,     \* what became of the Fiber an execution spawned for an entry
    realm,     \* the realms that Fiber was placed in
    realms     \* realms each execution has allocated

planVars == <<nodes, frozen>>
vars     == <<planVars, at, order, off, shared, rows, fiber, realm, realms>>

-----------------------------------------------------------------------------
\* Plans

\* validate_parent: nothing, or an entry this builder admitted; every kind can
\* be a parent.
AdmitsParent(p) == p = None \/ p \in 1..Len(nodes)

\* validate_plugin.
Valid(row) ==
    ~row.group =>
       /\ row.key # NoKey \/ row.name # NoKey
       /\ IsInjective([i \in DOMAIN row.inject |-> row.inject[i].service])
       /\ IsInjective([i \in DOMAIN row.isolate |-> row.isolate[i].service])

\* validate_complete: parents come before their children.
Complete == \A n \in DOMAIN nodes : nodes[n].parent \in 0..(n - 1) /\ Valid(nodes[n].row)

\* execution_order: depth first off a stack that the children are pushed on
\* last one first.
Children(p) == Only([n \in 1..Len(nodes) |-> n], {n \in DOMAIN nodes : nodes[n].parent = p})

\* Slip: children are pushed in declaration order.
Push(p, stack) == stack \o Children(p)

PushReversed(p, stack) == stack \o Reverse(Children(p))

ExecutionOrder ==
    LET run[k \in 0..Len(nodes)] ==
            IF k = 0 THEN [order |-> <<>>, stack |-> PushReversed(None, <<>>)]
            ELSE LET n == Last(run[k - 1].stack)
                 IN  [order |-> Append(run[k - 1].order, n),
                      stack |-> PushReversed(n, Front(run[k - 1].stack))]
    IN  run[Len(nodes)].order

-----------------------------------------------------------------------------
\* Resolution

\* PluginRequest::from_entry: the explicit key, else the name.
ResolveKey(row) == IF row.key # NoKey THEN row.key ELSE row.name

\* prepare_plugin_json, prepare_service_json: an error of the deserialization or
\* of the preparation is returned, a panic unwinds.
PrepareJson(config) ==
    CASE config \in {"good", "required"}      -> "prepared"
      [] config \in {"malformed", "rejected"} -> "error"
      [] config = "panics"                    -> "unwinds"

\* PluginResolver::resolve, as its contract has it: None for a key it does not
\* know, else the Plugin's source and its layers are prepared one after another,
\* up to the first that fails.
Resolve(row) ==
    LET results == <<PrepareJson(row.config)>>
                   \o [i \in DOMAIN row.inject |-> PrepareJson(row.inject[i].config)]
        bad     == SelectInSeq(results, LAMBDA r : r # "prepared")
    IN  IF ResolveKey(row) \notin Known THEN "None"
        ELSE IF bad = 0 THEN "prepared" ELSE results[bad]

\* resolve_entry, and load's reading of it: the failure of the row, or None.
ResolveEntry(row) ==
    CASE Resolve(row) = "prepared" -> "none"
      [] Resolve(row) = "None"     -> "UnresolvedKey"
      [] Resolve(row) = "error"    -> "ReturnedError"
      [] Resolve(row) = "unwinds"  -> "Panic"

-----------------------------------------------------------------------------
\* Outcomes

\* EntryOutcome, LoaderFailure: by is the disabled ancestor of a pruned row, why
\* the failure of a failed one.
Outcome(n, kind, by, why) == [id |-> n, kind |-> kind, by |-> by, why |-> why]

\* LoadOutcome::fiber_handles: the rows with a Fiber, in outcome order.
FiberHandles(outcome) == Only(outcome, {row \in Range(outcome) : row.kind = "spawned"})

\* LoadOutcome::is_ok.
IsOk(outcome) == \A i \in DOMAIN outcome : outcome[i].kind # "failed"

Init ==
    /\ nodes = <<>> /\ frozen = FALSE
    /\ at = [e \in Load |-> "idle"] /\ order = [e \in Load |-> <<>>]
    /\ off = [e \in Load |-> [n \in Entry |-> None]]
    /\ shared = [e \in Load |-> [l \in Label |-> Default]]
    /\ rows = [e \in Load |-> <<>>]
    /\ fiber = [e \in Load |-> [n \in Entry |-> "none"]]
    /\ realm = [e \in Load |-> [n \in Entry |-> [s \in Service |-> Default]]]
    /\ realms = [e \in Load |-> 0]

\* add_plugin, add_group.  A refused row changes nothing.
Add(row, p) ==
    /\ ~frozen /\ Len(nodes) < MaxEntries
    /\ AdmitsParent(p) /\ Valid(row)
    /\ nodes' = Append(nodes, [parent |-> p, row |-> row])
    /\ UNCHANGED <<frozen, at, order, off, shared, rows, fiber, realm, realms>>

\* finish.
Finish ==
    /\ ~frozen /\ Complete
    /\ frozen' = TRUE
    /\ UNCHANGED <<nodes, at, order, off, shared, rows, fiber, realm, realms>>

-----------------------------------------------------------------------------
\* Execution

Start(e) ==
    /\ frozen /\ at[e] = "idle"
    /\ at' = [at EXCEPT ![e] = "entry"]
    /\ order' = [order EXCEPT ![e] = ExecutionOrder]
    /\ UNCHANGED <<planVars, off, shared, rows, fiber, realm, realms>>

\* The entry whose turn it is, and the disabled ancestor it inherits.
Current(e) == order[e][Len(rows[e]) + 1]
More(e)    == Len(rows[e]) < Len(nodes)

Inherited(e) ==
    LET p == nodes[Current(e)].parent
    IN  IF p = None THEN None ELSE off[e][p]

PushRow(e, kind, by, why) ==
    rows' = [rows EXCEPT ![e] = Append(@, Outcome(Current(e), kind, by, why))]

Prune(e) ==
    /\ at[e] = "entry" /\ More(e) /\ Inherited(e) # None
    /\ off' = [off EXCEPT ![e][Current(e)] = Inherited(e)]
    /\ PushRow(e, "pruned", Inherited(e), "none")
    /\ UNCHANGED <<planVars, at, order, shared, fiber, realm, realms>>

Reached(e) == at[e] = "entry" /\ More(e) /\ Inherited(e) = None

Group(e) ==
    /\ Reached(e) /\ nodes[Current(e)].row.group
    /\ PushRow(e, "group", None, "none")
    /\ UNCHANGED <<planVars, at, order, off, shared, fiber, realm, realms>>

Disabled(e) ==
    /\ Reached(e) /\ ~nodes[Current(e)].row.group /\ nodes[Current(e)].row.disabled
    /\ off' = [off EXCEPT ![e][Current(e)] = Current(e)]
    /\ PushRow(e, "disabled", None, "none")
    /\ UNCHANGED <<planVars, at, order, shared, fiber, realm, realms>>

Enabled(e) == Reached(e) /\ ~nodes[Current(e)].row.group /\ ~nodes[Current(e)].row.disabled

\* A failed resolution costs this row only.
Unresolved(e) ==
    /\ Enabled(e) /\ ResolveEntry(nodes[Current(e)].row) # "none"
    /\ PushRow(e, "failed", None, ResolveEntry(nodes[Current(e)].row))
    /\ UNCHANGED <<planVars, at, order, off, shared, fiber, realm, realms>>

\* Slip: the table of labels outlives the execution.
SharedOfAny(e, l) ==
    IF \E x \in Load : shared[x][l] # Default
    THEN shared[CHOOSE x \in Load : shared[x][l] # Default][l] ELSE Default

SharedOf(e, l) == shared[e][l]

\* One row of RealmEnvironment::place: a fresh realm for every Private row, one
\* per label for the Shared ones.
PlaceRow(e, env, row) ==
    LET fresh == NewRealm(e, env.next + 1)
    IN  IF row.policy = Private
        THEN [env EXCEPT !.next = @ + 1, !.map[row.service] = fresh]
        ELSE IF env.table[row.policy] = Default
        THEN [env EXCEPT !.next = @ + 1, !.map[row.service] = fresh, !.table[row.policy] = fresh]
        ELSE [env EXCEPT !.map[row.service] = env.table[row.policy]]

\* RealmEnvironment::place, row by row.
Placed(e, isolate) ==
    LET env[i \in 0..Len(isolate)] ==
            IF i = 0 THEN [table |-> [l \in Label |-> SharedOf(e, l)], next |-> realms[e],
                           map |-> [s \in Service |-> Default]]
            ELSE PlaceRow(e, env[i - 1], isolate[i])
    IN  env[Len(isolate)]

\* A prepared Plugin is placed, and its spawn awaited.
Place(e) ==
    LET n   == Current(e)
        env == Placed(e, nodes[n].row.isolate)
    IN  /\ Enabled(e) /\ ResolveEntry(nodes[n].row) = "none"
        /\ shared' = [shared EXCEPT ![e] = env.table]
        /\ realms' = [realms EXCEPT ![e] = env.next]
        /\ realm' = [realm EXCEPT ![e][n] = env.map]
        /\ fiber' = [fiber EXCEPT ![e][n] = "creating"]
        /\ at' = [at EXCEPT ![e] = "spawn"]
        /\ UNCHANGED <<planVars, order, off, rows>>

SpawnReturns(e) ==
    /\ at[e] = "spawn"
    /\ \/ /\ fiber' = [fiber EXCEPT ![e][Current(e)] = "live"]
          /\ PushRow(e, "spawned", None, "none")
       \/ /\ fiber' = [fiber EXCEPT ![e][Current(e)] = "none"]
          /\ PushRow(e, "failed", None, "Spawn")
    /\ at' = [at EXCEPT ![e] = "entry"]
    /\ UNCHANGED <<planVars, order, off, shared, realm, realms>>

\* ResultHandoff::finish: the Fibers are the caller's.
Deliver(e) ==
    /\ at[e] = "entry" /\ ~More(e)
    /\ at' = [at EXCEPT ![e] = "delivered"]
    /\ UNCHANGED <<planVars, order, off, shared, rows, fiber, realm, realms>>

-----------------------------------------------------------------------------
\* Abandoned executions

\* Slip: the entries fall through the inert Drop of their handles.
Forget(e) == "ended"

\* ResultHandoff::drop.
Rollback(e) == "rollback"

\* The future is dropped at its one await: core tears down the Fiber being
\* created, the handoff starts the rollback.
Abandon(e) ==
    /\ at[e] = "spawn"
    /\ fiber' = [fiber EXCEPT ![e][Current(e)] = "abandoned"]
    /\ at' = [at EXCEPT ![e] = Rollback(e)]
    /\ UNCHANGED <<planVars, order, off, shared, rows, realm, realms>>

\* CreationGuard, in core.
Rescue(e, n) ==
    /\ fiber[e][n] = "abandoned"
    /\ fiber' = [fiber EXCEPT ![e][n] = "none"]
    /\ UNCHANGED <<planVars, at, order, off, shared, rows, realm, realms>>

\* Slip: a disposal that others have completed is waited for.
DisposesLive(state) == state = "live"

\* rollback_fiber: dispose tears down the live and answers for the disposed.
Disposes(state) == state \in {"live", "removed"}

\* rollback: last row first; each disposal is awaited.
RollbackNext(e) ==
    /\ at[e] = "rollback"
    /\ \/ /\ rows[e] = <<>>
          /\ at' = [at EXCEPT ![e] = "ended"]
          /\ UNCHANGED <<rows, fiber>>
       \/ /\ rows[e] # <<>>
          /\ LET row == Last(rows[e])
             IN  IF row.kind = "spawned"
                 THEN /\ Disposes(fiber[e][row.id])
                      /\ fiber' = [fiber EXCEPT ![e][row.id] = IF @ = "live" THEN "disposed" ELSE @]
                 ELSE UNCHANGED fiber
          /\ rows' = [rows EXCEPT ![e] = Front(@)]
          /\ UNCHANGED at
    /\ UNCHANGED <<planVars, order, off, shared, realm, realms>>

\* A Fiber is removed with its group, by anybody (while its load is running).
RemoveFiber(e, n) ==
    /\ n \in Removed /\ fiber[e][n] = "live" /\ at[e] # "delivered"
    /\ fiber' = [fiber EXCEPT ![e][n] = "removed"]
    /\ UNCHANGED <<planVars, at, order, off, shared, rows, realm, realms>>

-----------------------------------------------------------------------------
Step(e) ==
    \/ Start(e) \/ Prune(e) \/ Group(e) \/ Disabled(e) \/ Unresolved(e) \/ Place(e)
    \/ SpawnReturns(e) \/ Deliver(e)

Next ==
    \/ \E row \in Row, p \in 0..(MaxEntries + 1) : Add(row, p)
    \/ Finish
    \/ \E e \in Load :
         \/ Step(e) \/ Abandon(e) \/ RollbackNext(e)
         \/ \E n \in Entry : Rescue(e, n) \/ RemoveFiber(e, n)

Spec == Init /\ [][Next]_vars

\* The rollback and the rescue run on framework tasks.
FairSpec ==
    /\ Spec
    /\ \A e \in Load : WF_vars(RollbackNext(e)) /\ \A n \in Entry : WF_vars(Rescue(e, n))

-----------------------------------------------------------------------------
\* The reference: ancestry, and depth-first plan order

\* The least set with n's parent and the parents of its members.
Ancestors(n) ==
    {a \in DOMAIN nodes :
       \A S \in SUBSET DOMAIN nodes :
          (\A x \in S \cup {n} : nodes[x].parent \in S \cup {None}) => a \in S}

\* a's subtree or a sibling branch declared earlier.
Precedes(a, b) ==
    \/ a \in Ancestors(b)
    \/ \E x \in Ancestors(a) \cup {a}, y \in Ancestors(b) \cup {b} :
         nodes[x].parent = nodes[y].parent /\ x < y

IsDisabled(n) == ~nodes[n].row.group /\ nodes[n].row.disabled

DisabledAncestors(n) == {a \in Ancestors(n) : IsDisabled(a)}

\* What may become of an entry: its kind, and why it failed.
Expected(n) ==
    IF DisabledAncestors(n) # {} THEN {<<"pruned", "none">>}
    ELSE IF nodes[n].row.group THEN {<<"group", "none">>}
    ELSE IF IsDisabled(n) THEN {<<"disabled", "none">>}
    ELSE IF ResolveEntry(nodes[n].row) = "none" THEN {<<"spawned", "none">>, <<"failed", "Spawn">>}
    ELSE {<<"failed", ResolveEntry(nodes[n].row)>>}

-----------------------------------------------------------------------------
\* What holds of every state

\* Outcomes are the plan's (outcome.rs): a builder can always finish, rows come
\* in plan order, parents first and siblings as declared, each of the kind its
\* own resolution and its ancestry ask for and nobody else's failure, a pruned
\* one naming the reachable disabled ancestor; and a delivered outcome has every
\* entry once, and a Fiber for each that should run when it says it is_ok.
OutcomesAreFaithful ==
    /\ Complete
    /\ \A e \in Load :
         /\ \A i, j \in DOMAIN rows[e] : i < j => Precedes(rows[e][i].id, rows[e][j].id)
         /\ \A i \in DOMAIN rows[e] :
              /\ <<rows[e][i].kind, rows[e][i].why>> \in Expected(rows[e][i].id)
              /\ rows[e][i].kind = "pruned" =>
                   /\ rows[e][i].by \in DisabledAncestors(rows[e][i].id)
                   /\ DisabledAncestors(rows[e][i].by) = {}
         /\ at[e] = "delivered" =>
              /\ {rows[e][i].id : i \in DOMAIN rows[e]} = DOMAIN nodes
              /\ IsOk(rows[e]) =>
                   {FiberHandles(rows[e])[i].id : i \in DOMAIN FiberHandles(rows[e])}
                     = {n \in DOMAIN nodes : <<"spawned", "none">> \in Expected(n)}

PolicyOf(n, s) ==
    LET isolate == nodes[n].row.isolate
    IN  {isolate[i].policy : i \in {j \in DOMAIN isolate : isolate[j].service = s}}

\* Realms rendezvous exactly by label and execution (plan.rs, RealmEnvironment):
\* two placements are one realm when both are Shared under one label in one
\* execution, a row without a policy inherits, and nothing else coincides.
RealmsRendezvous ==
    \A e, g \in Load, n, m \in Entry, s, t \in Service :
       /\ fiber[e][n] \in {"creating", "live"} /\ fiber[g][m] \in {"creating", "live"}
       /\ <<e, n, s>> # <<g, m, t>> /\ realm[e][n][s] # Default
       => (realm[e][n][s] = realm[g][m][t]
             <=> e = g /\ PolicyOf(n, s) = PolicyOf(m, t) /\ PolicyOf(n, s) # {Private})

\* Every Fiber of an execution has one owner (handoff.rs): the execution that
\* has its row, the caller an outcome was delivered to, or a rollback, which
\* takes the last spawned first and never touches what was delivered.
HandlesAreOwned ==
    \A e \in Load :
       /\ \A n \in Entry : fiber[e][n] = "live" =>
            \E i \in DOMAIN FiberHandles(rows[e]) : FiberHandles(rows[e])[i].id = n
       /\ \A n \in Entry : fiber[e][n] = "live" => at[e] # "ended"
       /\ \A n, m \in Entry :
            fiber[e][n] = "disposed" =>
              /\ at[e] \in {"rollback", "ended"}
              /\ fiber[e][m] = "live" => Precedes(m, n)

-----------------------------------------------------------------------------
\* What every behaviour does

\* An abandoned load leaves no Fiber behind, whatever rows failed and whoever
\* else removed some of them.
RollbackEnds ==
    \A e \in Load :
       at[e] = "rollback" ~> \A n \in Entry : fiber[e][n] \notin {"creating", "live", "abandoned"}
=============================================================================
