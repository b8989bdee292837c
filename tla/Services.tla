------------------------------ MODULE Services ------------------------------
(***************************************************************************)
(* Services across Fibers: the ServiceStore (service.rs), the dependency   *)
(* index (deps.rs), the realms a Context's isolate layers select           *)
(* (context.rs), and several Fibers whose passes publish, lose and react   *)
(* to one another's Services (fiber/mod.rs).                               *)
(*                                                                         *)
(* Every critical section of the store is one step.  A Fiber's pass is     *)
(* abstracted to what Inertia establishes of it: one pass at a time, which *)
(* reads the whole target and acknowledges the revisions committed before. *)
(***************************************************************************)
EXTENDS Naturals, Sequences, FiniteSetsExt, TLC

CONSTANTS
    Fiber,           \* Plugin Fibers
    RootFiber,       \* the ever-active Fiber of root Contexts
    Name,            \* Service names
    Contract,        \* Service types
    Requires,        \* the names each Fiber's InjectSpec asks for
    Isolable,        \* the names callers isolate
    Publishes,       \* the names each Fiber, and the root, may provide, and as what
    MaxRealms,       \* bound: allocated realms
    MaxViews,        \* bound: Contexts with isolate layers of their own
    MaxOccurrences,  \* bound: identities in use at once
    MaxCalls,        \* bound: operations of callers on a running system
    NoTarget

Owner == Fiber \cup {RootFiber}

ASSUME OwnerAssumption     == RootFiber \notin Fiber
ASSUME IsolableAssumption  == Isolable \subseteq Name
ASSUME RequiresAssumption  == Requires \in [Fiber -> SUBSET Name]
ASSUME PublishesAssumption == Publishes \in [Owner -> SUBSET (Name \X Contract)]
ASSUME BoundAssumption     ==
    /\ MaxRealms \in Nat /\ MaxCalls \in Nat
    /\ MaxViews \in Nat \ {0} /\ MaxOccurrences \in Nat \ {0}

Unbound == "unbound"
ASSUME UnboundAssumption   == Unbound \notin Contract

Missing == 0                 \* no visible publication
DefaultRealm == 0            \* RealmKey::DEFAULT
Realm == 0..MaxRealms
Key   == Realm \X Name       \* an exact slot
Occurrence == 1..MaxOccurrences
Publication == [id : Occurrence, owner : Owner, key : Key, contract : Contract]
Target == UNION {[names -> Occurrence \cup {Missing}] : names \in SUBSET Name}

ASSUME NoTargetAssumption  == NoTarget \notin Target

VARIABLES
    contracts,   \* ServiceState.contracts
    slots,       \* ServiceState.slots: the publications that occupy one
    payload,     \* ServiceSlot.value: whose capability wrote what a slot holds
    handles,     \* the ServicePublications somebody holds
    disarming,   \* removed by their handle, cleanup not yet disarmed
    journal,     \* publications whose cleanup their owner's generation owes
    index,       \* DependencyIndex.reverse, as pairs
    realms,      \* realms allocated
    views,       \* the Contexts derived so far, as what they select
    delivered,   \* Fibers whose spawn has returned
    view,        \* the Context each Fiber was spawned from
    state, alive, disposing, generation_replacing,
    owed,        \* revisions committed and not acknowledged
    pc, goal, settled,
    calls        \* operations callers still make

storeVars   == <<contracts, slots, payload>>
handleVars  == <<handles, disarming>>
contextVars == <<realms, views>>
fiberVars   == <<delivered, view, state, alive, disposing, generation_replacing, pc, goal, settled>>
vars == <<storeVars, handleVars, journal, index, contextVars, fiberVars, owed, calls>>

-----------------------------------------------------------------------------
\* Contexts: which slot a name selects

\* IsolateLayer::lookup over one more layer: the nearest mapping wins.
Shadowed(outer, layer) ==
    [n \in Name |-> IF n \in DOMAIN layer THEN layer[n] ELSE outer[n]]

\* Context::isolate_key for a Fiber's Context.
SlotOf(f, n) == <<view[f][n], n>>

-----------------------------------------------------------------------------
\* The store

\* What occupies an exact slot.
In(k) == {p \in slots : p.key = k}

\* ServiceStore::visible: an occurrence is seen exactly while its owner is Active.
Visible(k) == {p \in In(k) : alive[p.owner] /\ state[p.owner] = "Active"}

\* ServiceStore::occurrence_id.
OccurrenceId(k) == IF Visible(k) = {} THEN Missing ELSE (CHOOSE p \in Visible(k) : TRUE).id

\* compute_target: every edge of f.
LiveTarget(f) == [n \in Requires[f] |-> OccurrenceId(SlotOf(f, n))]

HasMissing(t) == \E n \in DOMAIN t : t[n] = Missing

\* Slip: the gate looks at its marks and not at the state.
CanRegisterUnmarked(o) == alive[o] /\ ~disposing[o] /\ ~generation_replacing[o]

\* assert_can_register.
CanRegister(o) ==
    /\ alive[o] /\ ~disposing[o] /\ ~generation_replacing[o]
    /\ state[o] \in {"Loading", "Active"}

SlotsOwnedBy(o) == {p.key : p \in {q \in slots : q.owner = o}}

\* Slip: dependents are looked up by name, in the default realm.
DependentsByName(keys) ==
    {f \in Fiber : \E k \in keys : <<<<DefaultRealm, k[2]>>, f>> \in index}

\* DependencyIndex::dependents_of.
DependentsOf(keys) == {f \in Fiber : \E k \in keys : <<k, f>> \in index}

\* CommittedServiceDrift::commit: every dependent carries the revision before
\* the store shows the change.
CommitDrift(keys) == owed' = [f \in Fiber |-> owed[f] \/ f \in DependentsOf(keys)]

\* ServiceOccurrenceId::fresh allocates: an identity is free again only when
\* nobody refers to it, not even a settled target.
Targets    == {t \in {goal[f] : f \in Fiber} \cup {settled[f] : f \in Fiber} : t # NoTarget}
Referenced ==
    {p.id : p \in slots \cup handles \cup disarming \cup journal}
      \cup UNION {{t[n] : n \in DOMAIN t} : t \in Targets}

Fresh == Occurrence \ Referenced

Init ==
    /\ contracts = [n \in Name |-> Unbound]
    /\ payload = [k \in Key |-> Missing]
    /\ slots = {} /\ handles = {} /\ disarming = {} /\ journal = {}
    /\ index = {} /\ realms = 0 /\ delivered = {}
    /\ views = <<[n \in Name |-> DefaultRealm]>>
    /\ view = [f \in Fiber |-> views[1]]
    /\ state = [o \in Owner |-> IF o = RootFiber THEN "Active" ELSE "absent"]
    /\ alive = [o \in Owner |-> TRUE]
    /\ disposing = [o \in Owner |-> FALSE]
    /\ generation_replacing = [o \in Owner |-> FALSE]
    /\ owed = [f \in Fiber |-> FALSE]
    /\ pc = [f \in Fiber |-> "absent"]
    /\ goal = [f \in Fiber |-> NoTarget] /\ settled = [f \in Fiber |-> NoTarget]
    /\ calls = MaxCalls

-----------------------------------------------------------------------------
\* Callers: Contexts, publications and their handles

\* Context::with_isolated_service: a fresh realm for one name.
WithIsolatedService ==
    /\ Len(views) < MaxViews /\ realms < MaxRealms
    /\ realms' = realms + 1
    /\ \E v \in DOMAIN views, n \in Isolable :
         views' = Append(views, Shadowed(views[v], [m \in {n} |-> realms']))
    /\ UNCHANGED <<storeVars, handleVars, journal, index, fiberVars, owed, calls>>

\* Context::new_service_realm, then with_service_realms: one layer maps several
\* names to realms of this Runtime; duplicate names and foreign realms refuse.
WithServiceRealms ==
    /\ Len(views) < MaxViews
    /\ realms' \in {realms, realms + 1} /\ realms' <= MaxRealms
    /\ \E v \in DOMAIN views, names \in (SUBSET Isolable) \ {{}} :
         \E layer \in [names -> 1..realms'] :
           views' = Append(views, Shadowed(views[v], layer))
    /\ UNCHANGED <<storeVars, handleVars, journal, index, fiberVars, owed, calls>>

Called == calls > 0 /\ calls' = calls - 1

\* The Context an owner provides through.
ViewOf(o) == IF o = RootFiber THEN {views[v] : v \in DOMAIN views} ELSE {view[o]}

\* A change in a slot of an Active owner is a change of visibility.
InstallDrift(o, k) == IF state[o] = "Active" THEN CommitDrift({k}) ELSE UNCHANGED owed

\* An occupant whose owner lives refuses the newcomer; a dead one is evicted.
Duplicate(k) == \E q \in In(k) : alive[q.owner]

\* ServiceStore::install under the gated seam: another contract refuses; a
\* duplicate refuses too, after the name has been bound.
Install(p) ==
    LET n == p.key[2]
    IN  /\ contracts[n] \in {Unbound, p.contract}
        /\ contracts' = [contracts EXCEPT ![n] = p.contract]
        /\ IF Duplicate(p.key)
           THEN UNCHANGED <<slots, payload, handles, journal, owed>>
           ELSE /\ InstallDrift(p.owner, p.key)
                /\ slots' = (slots \ In(p.key)) \cup {p}
                /\ payload' = [payload EXCEPT ![p.key] = p.id]
                /\ handles' \in {handles, handles \cup {p}}    \* kept, or dropped: inert
                /\ journal' = journal \cup {p}

\* Context::provide, by a Plugin's apply or by a caller of an open generation.
Provide(o) ==
    /\ CanRegister(o) /\ Fresh # {}
    /\ IF state[o] = "Loading" THEN UNCHANGED calls ELSE Called
    /\ \E s \in Publishes[o], v \in ViewOf(o) :
         Install([id |-> Min(Fresh), owner |-> o, key |-> <<v[s[1]], s[1]>>, contract |-> s[2]])
    /\ UNCHANGED <<disarming, index, contextVars, fiberVars>>

\* A slot's value leaves with it.
Vacated == payload' = [k \in Key |-> IF \E p \in slots' : p.key = k THEN payload[k] ELSE Missing]

\* Slip: a capability writes to whatever occupies its slot.
SetSlot(p) ==
    /\ Called /\ p \in handles
    /\ payload' = IF In(p.key) # {} THEN [payload EXCEPT ![p.key] = p.id] ELSE payload
    /\ UNCHANGED <<contracts, slots, handleVars, journal, index, contextVars, fiberVars, owed>>

\* ServicePublication::set: a stale capability and a closed generation refuse;
\* otherwise the payload changes and the occurrence does not.
SetExact(p) ==
    /\ Called /\ p \in handles
    /\ payload' = IF p \in slots /\ CanRegister(p.owner)
                  THEN [payload EXCEPT ![p.key] = p.id] ELSE payload
    /\ UNCHANGED <<contracts, slots, handleVars, journal, index, contextVars, fiberVars, owed>>

\* ServicePublication::remove consumes the handle.  Stale identity and a
\* closed gate refuse; otherwise the exact occurrence leaves its slot.
RemoveExact(p) ==
    /\ Called /\ p \in handles
    /\ handles' = handles \ {p}
    /\ IF p \in slots /\ CanRegister(p.owner)
       THEN /\ InstallDrift(p.owner, p.key)
            /\ slots' = slots \ {p}
            /\ disarming' = disarming \cup {p}
       ELSE UNCHANGED <<slots, disarming, owed>>
    /\ Vacated
    /\ UNCHANGED <<contracts, journal, index, contextVars, fiberVars>>

\* remove_disposable, unless the drain has claimed the cleanup.
Disarm(p) ==
    /\ p \in disarming
    /\ disarming' = disarming \ {p}
    /\ journal' = journal \ {p}
    /\ UNCHANGED <<storeVars, handles, index, contextVars, fiberVars, owed, calls>>

\* Spawn: the edges are fixed by the Context, and registered before the
\* initial pass reads its first target.
EdgesOf(f) == {<<<<view'[f][n], n>>, f>> : n \in Requires[f]}

Spawn(f) ==
    /\ pc[f] = "absent"
    /\ \E v \in DOMAIN views : view' = [view EXCEPT ![f] = views[v]]
    /\ state' = [state EXCEPT ![f] = "Pending"]
    /\ index' = index \cup EdgesOf(f)
    /\ pc' = [pc EXCEPT ![f] = "compute"]
    /\ UNCHANGED <<storeVars, handleVars, journal, contextVars, delivered, alive, disposing,
                   generation_replacing, goal, settled, owed, calls>>

\* FiberHandle::restart: the old generation admits nothing from here on.
Restart(f) ==
    /\ Called /\ pc[f] = "idle" /\ alive[f]
    /\ generation_replacing' = [generation_replacing EXCEPT ![f] = TRUE]
    /\ settled' = [settled EXCEPT ![f] = NoTarget]
    /\ pc' = [pc EXCEPT ![f] = "compute"]
    /\ UNCHANGED <<storeVars, handleVars, journal, index, contextVars, delivered, view, state, alive,
                   disposing, goal, owed>>

\* FiberHandle::dispose and group removal: claim_terminal.
Dispose(f) ==
    /\ Called /\ pc[f] = "idle" /\ alive[f]
    /\ disposing' = [disposing EXCEPT ![f] = TRUE]
    /\ pc' = [pc EXCEPT ![f] = "unload"]
    /\ UNCHANGED <<storeVars, handleVars, journal, index, contextVars, delivered, view, state, alive,
                   generation_replacing, goal, settled, owed>>

-----------------------------------------------------------------------------
\* Passes

\* Fiber::transition and ServiceStore::commit_fiber_transition: crossing the
\* Active boundary commits the dependents of every slot f owns.
Transition(f, next) ==
    /\ state' = [state EXCEPT ![f] = next]
    /\ IF (state[f] = "Active") # (next = "Active")
       THEN CommitDrift(SlotsOwnedBy(f)) ELSE UNCHANGED owed

Goto(f, where) == pc' = [pc EXCEPT ![f] = where]

\* kick: a committed revision starts a pass on an idle Fiber.
Kick(f) ==
    /\ pc[f] = "idle" /\ owed[f] /\ alive[f]
    /\ Goto(f, "compute")
    /\ UNCHANGED <<storeVars, handleVars, journal, index, contextVars, delivered, view, state, alive,
                   disposing, generation_replacing, goal, settled, owed, calls>>

\* compute_target under the revision read before it; the same target again
\* releases the slot.
Compute(f) ==
    /\ pc[f] = "compute"
    /\ owed' = [owed EXCEPT ![f] = FALSE]
    /\ goal' = [goal EXCEPT ![f] = LiveTarget(f)]
    /\ IF settled[f] = LiveTarget(f)
       THEN Goto(f, "idle") /\ delivered' = delivered \cup {f}
       ELSE Goto(f, "settle") /\ UNCHANGED delivered
    /\ UNCHANGED <<storeVars, handleVars, journal, index, contextVars, view, state, alive,
                   disposing, generation_replacing, settled, calls>>

\* settle_once: what is live is unloaded first.
Settle(f) ==
    /\ pc[f] = "settle"
    /\ IF state[f] \in {"Active", "Failed", "Loading"}
       THEN Transition(f, "Unloading") /\ Goto(f, "drain")
       ELSE Goto(f, "drain") /\ UNCHANGED <<state, owed>>
    /\ UNCHANGED <<storeVars, handleVars, journal, index, contextVars, delivered, view, alive,
                   disposing, generation_replacing, goal, settled, calls>>

\* Slip: the cleanup empties the slot, whoever holds it now.
WithdrawSlot(p) == slots \ In(p.key)

\* withdraw_exact: a no-op once another occurrence has the slot.
WithdrawExact(p) == slots \ {p}

\* drain_disposables runs the publications' cleanups.
Owes(o) == {p \in journal : p.owner = o}

Drain(f) ==
    /\ pc[f] \in {"drain", "rollback", "bury"}     \* unload, failed apply, death
    /\ \E p \in Owes(f) : slots' = WithdrawExact(p) /\ journal' = journal \ {p}
    /\ Vacated
    /\ UNCHANGED <<contracts, handleVars, index, contextVars, fiberVars, owed, calls>>

\* Missing services: stable Pending.
SettlePending(f) ==
    /\ pc[f] = "drain" /\ Owes(f) = {} /\ HasMissing(goal[f])
    /\ Transition(f, "Pending")
    /\ settled' = [settled EXCEPT ![f] = goal[f]]
    /\ Goto(f, "compute")
    /\ UNCHANGED <<storeVars, handleVars, journal, index, contextVars, delivered, view, alive,
                   disposing, generation_replacing, goal, calls>>

\* A generation opens; the Plugin's apply may Provide from here on.
SettleLoading(f) ==
    /\ pc[f] = "drain" /\ Owes(f) = {} /\ ~HasMissing(goal[f])
    /\ generation_replacing' = [generation_replacing EXCEPT ![f] = FALSE]
    /\ Transition(f, "Loading")
    /\ Goto(f, "apply")
    /\ UNCHANGED <<storeVars, handleVars, journal, index, contextVars, delivered, view, alive,
                   disposing, goal, settled, calls>>

ApplyOk(f) ==
    /\ pc[f] = "apply"
    /\ Transition(f, "Active")
    /\ settled' = [settled EXCEPT ![f] = goal[f]]
    /\ Goto(f, "compute")
    /\ UNCHANGED <<storeVars, handleVars, journal, index, contextVars, delivered, view, alive,
                   disposing, generation_replacing, goal, calls>>

ApplyFails(f) ==
    /\ pc[f] = "apply"
    /\ Transition(f, "Unloading")
    /\ Goto(f, "rollback")
    /\ UNCHANGED <<storeVars, handleVars, journal, index, contextVars, delivered, view, alive,
                   disposing, generation_replacing, goal, settled, calls>>

\* Slip: a failure is retried.
RetryFailure(f) ==
    /\ pc[f] = "rollback" /\ Owes(f) = {}
    /\ Transition(f, "Failed")
    /\ settled' = [settled EXCEPT ![f] = NoTarget]
    /\ disposing' = [disposing EXCEPT ![f] = f \notin delivered]
    /\ Goto(f, IF f \in delivered THEN "compute" ELSE "unload")
    /\ UNCHANGED <<storeVars, handleVars, journal, index, contextVars, delivered, view, alive,
                   generation_replacing, goal, calls>>

\* The failed target stays parked: the same target is not tried again.  A
\* first apply that fails ends the creation instead.
ParkFailure(f) ==
    /\ pc[f] = "rollback" /\ Owes(f) = {}
    /\ Transition(f, "Failed")
    /\ settled' = [settled EXCEPT ![f] = goal[f]]
    /\ disposing' = [disposing EXCEPT ![f] = f \notin delivered]
    /\ Goto(f, IF f \in delivered THEN "compute" ELSE "unload")
    /\ UNCHANGED <<storeVars, handleVars, journal, index, contextVars, delivered, view, alive,
                   generation_replacing, goal, calls>>

\* teardown_body: the generation closes, the Fiber dies, leaves the index, and
\* only then are its cleanups run.
TeardownUnload(f) ==
    /\ pc[f] = "unload"
    /\ Transition(f, "Unloading")
    /\ goal' = [goal EXCEPT ![f] = NoTarget]
    /\ settled' = [settled EXCEPT ![f] = NoTarget]
    /\ Goto(f, "die")
    /\ UNCHANGED <<storeVars, handleVars, journal, index, contextVars, delivered, view, alive,
                   disposing, generation_replacing, calls>>

TeardownDie(f) ==
    /\ pc[f] = "die"
    /\ alive' = [alive EXCEPT ![f] = FALSE]
    /\ index' = {row \in index : row[2] # f}
    /\ Goto(f, "bury")
    /\ UNCHANGED <<storeVars, handleVars, journal, contextVars, delivered, view, state,
                   disposing, generation_replacing, goal, settled, owed, calls>>

TeardownDisposed(f) ==
    /\ pc[f] = "bury" /\ Owes(f) = {}
    /\ Transition(f, "Disposed")
    /\ Goto(f, "gone")
    /\ UNCHANGED <<storeVars, handleVars, journal, index, contextVars, delivered, view, alive,
                   disposing, generation_replacing, goal, settled, calls>>

-----------------------------------------------------------------------------
Pass(f) ==
    \/ Kick(f) \/ Compute(f) \/ Settle(f) \/ Drain(f)
    \/ SettlePending(f) \/ SettleLoading(f) \/ ApplyOk(f) \/ ApplyFails(f) \/ ParkFailure(f)
    \/ TeardownUnload(f) \/ TeardownDie(f) \/ TeardownDisposed(f)

Callers ==
    \/ WithIsolatedService \/ WithServiceRealms
    \/ \E o \in Owner : Provide(o)
    \/ \E p \in handles : SetExact(p) \/ RemoveExact(p)
    \/ \E p \in disarming : Disarm(p)
    \/ \E f \in Fiber : Spawn(f) \/ Restart(f) \/ Dispose(f)

Next == Callers \/ \E f \in Fiber : Pass(f)

Spec == Init /\ [][Next]_vars

\* Passes are framework tasks (apply and cleanups return): while some pass has
\* a step to take, the executor runs one.  No fairness between Fibers is needed.
FairSpec == Spec /\ WF_vars(\E f \in Fiber : Pass(f))

-----------------------------------------------------------------------------
\* Properties

\* Context::try_service finds in a visible slot what its own occurrence's
\* capability wrote, of the one contract the name is bound to, under an identity
\* that is nobody else's: no stale capability, late cleanup or rival publication
\* reaches another's payload, so the downcast after visible_value's unlock
\* cannot fail.
LookupsAreTyped ==
    \A p \in slots :
       /\ p \in Publication
       /\ payload[p.key] = p.id /\ contracts[p.key[2]] = p.contract
       /\ \A q \in slots \cup handles \cup disarming \cup journal : p.id = q.id => p = q

AtRest(f) == pc[f] = "idle" /\ ~owed[f]

\* Whatever order publications, removals, transitions of providers and spawns
\* commit in, a Fiber at rest with nothing owed has settled the world as it is:
\* no visibility change anywhere in the Runtime, in any realm, was missed by
\* the affected set (CommittedServiceDrift, DependencyIndex, SemanticTarget).
RestIsTruth ==
    \A f \in Fiber : AtRest(f) =>
      /\ settled[f] = LiveTarget(f)
      /\ state[f] \in (IF HasMissing(settled[f]) THEN {"Pending"} ELSE {"Active", "Failed"})

\* A generation's publications end with it, even those whose handles raced the
\* drain or whose slots were taken over after the owner died.
NoPublicationOutlivesItsGeneration ==
    \A p \in slots : p.owner # RootFiber =>
      /\ state[p.owner] \in {"Loading", "Active", "Unloading"}
      /\ p \in journal

\* The slot of a living owner is never taken over: only its own handle or its
\* own drain empties it, whatever stale handles and stale cleanups do
\* (install, remove_exact, withdraw_exact).
SlotsAreNotStolen ==
    [][\A p \in slots \ slots' :
         \/ ~alive[p.owner]
         \/ p \in handles \ handles'
         \/ p \in journal \ journal']_vars

\* Once callers stop, the chain of providers and dependents comes to rest:
\* passes that publish and withdraw never keep one another busy for ever.
Converges == <>[](\A f \in Fiber : AtRest(f) \/ pc[f] \in {"absent", "gone"})
=============================================================================
