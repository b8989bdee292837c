--------------------------- MODULE ServicesProofs ---------------------------
(***************************************************************************)
(* Proofs about Services: for any Fibers, names, contracts and realms, a   *)
(* lookup finds what its own occurrence wrote, a generation's publications *)
(* end with it, the slot of a living owner is not taken over, and a Fiber  *)
(* at rest has settled the world as it is.                                 *)
(***************************************************************************)
EXTENDS Services, WellFoundedInduction, TLAPS

-----------------------------------------------------------------------------
(* The inductive invariant *)

View  == [Name -> Realm]
State == {"absent", "Pending", "Loading", "Active", "Failed", "Unloading", "Disposed"}
Place == {"absent", "idle", "compute", "settle", "drain", "apply", "rollback", "unload", "die",
          "bury", "gone"}

\* Everything somebody still refers to.
Held == slots \cup handles \cup disarming \cup journal

StoreTypes ==
    /\ contracts \in [Name -> Contract \cup {Unbound}]
    /\ payload \in [Key -> Occurrence \cup {Missing}]
    /\ Held \subseteq Publication

ContextTypes ==
    /\ realms \in Realm
    /\ views \in Seq(View)
    /\ view \in [Fiber -> View]

FiberTypes ==
    /\ index \subseteq Key \X Fiber
    /\ delivered \subseteq Fiber
    /\ state \in [Owner -> State]
    /\ alive \in [Owner -> BOOLEAN]
    /\ disposing \in [Owner -> BOOLEAN]
    /\ generation_replacing \in [Owner -> BOOLEAN]
    /\ owed \in [Fiber -> BOOLEAN]
    /\ pc \in [Fiber -> Place]
    /\ goal \in [Fiber -> Target \cup {NoTarget}]
    /\ settled \in [Fiber -> Target \cup {NoTarget}]

TypeOK == StoreTypes /\ ContextTypes /\ FiberTypes

\* Identities are nobody else's; a slot holds what its own occupant wrote, of
\* the name's contract; its cleanup is still owed and is not being disarmed.
Occupants ==
    /\ \A p, q \in Held : p.id = q.id => p = q
    /\ \A p \in slots : payload[p.key] = p.id /\ contracts[p.key[2]] = p.contract
    /\ \A p \in slots : p \in journal /\ p \notin disarming

\* Where a pass is, and the state it is there in.
StatesAt(l) ==
    CASE l = "absent" -> {"absent"}
      [] l \in {"idle", "compute", "settle", "unload"} -> {"Pending", "Active", "Failed"}
      [] l = "drain" -> {"Pending", "Unloading"}
      [] l = "apply" -> {"Loading"}
      [] l \in {"rollback", "die", "bury"} -> {"Unloading"}
      [] l = "gone" -> {"Disposed"}

PlaceOf(f) ==
    /\ state[f] \in StatesAt(pc[f])
    /\ alive[f] <=> pc[f] \notin {"bury", "gone"}

\* Only a generation that is open, or closing, has publications.
Opened(f) == state[f] \notin {"Loading", "Active", "Unloading"} => \A p \in slots : p.owner # f

Places == \A f \in Fiber : PlaceOf(f) /\ Opened(f)

\* The edges of a Fiber are registered from its spawn to its death.
Indexed(f) ==
    pc[f] \notin {"absent", "bury", "gone"} => \A n \in Requires[f] : <<SlotOf(f, n), f>> \in index

\* What a pass has read is still the world, or a revision is owed.
Current(f) ==
    (pc[f] \in {"idle", "settle", "drain", "apply", "rollback"} /\ ~owed[f]) => goal[f] = LiveTarget(f)

\* The state a settled target stands for.
Expected(t) == IF HasMissing(t) THEN {"Pending"} ELSE {"Active", "Failed"}

Parked(f) ==
    /\ pc[f] = "absent" => settled[f] = NoTarget
    /\ pc[f] \in {"apply", "rollback"} => ~HasMissing(goal[f])
    /\ (pc[f] = "compute" /\ settled[f] # NoTarget) => state[f] \in Expected(settled[f])
    /\ pc[f] = "idle" => settled[f] = goal[f] /\ state[f] \in Expected(settled[f])

Rest == \A f \in Fiber : Indexed(f) /\ Current(f) /\ Parked(f)

IInv == TypeOK /\ Occupants /\ Places /\ Rest

-----------------------------------------------------------------------------
(* Operators *)

\* A non-empty set of naturals has a least element, and Min chooses it.
LEMMA MinOfNaturals ==
    ASSUME NEW S, S \subseteq Nat, S # {}
    PROVE  Min(S) \in S
<1> DEFINE R == OpToRel(<, Nat)
<1>1. IsWellFoundedOn(R, Nat)
  BY NatLessThanWellFounded
<1> HIDE DEF R
<1>2. PICK n \in S : \A m \in S : ~(<<m, n>> \in R)
  BY <1>1, WFMin, Zenon
<1>3. \A m \in S : ~(m < n)
  BY <1>2 DEF R, OpToRel
<1>4. \A m \in S : n <= m
  BY <1>3
<1> QED BY <1>4, Zenon DEF Min

\* ServiceOccurrenceId::fresh: an identity nobody refers to.
LEMMA FreshIsFree ==
    ASSUME Fresh # {}
    PROVE  Min(Fresh) \in Occurrence /\ \A p \in Held : p.id # Min(Fresh)
<1>1. Fresh \subseteq Nat
  BY DEF Fresh, Occurrence
<1>2. Min(Fresh) \in Fresh
  BY <1>1, MinOfNaturals, Zenon
<1>3. \A p \in Held : p.id \in Referenced
  BY DEF Referenced, Held
<1> QED BY <1>2, <1>3 DEF Fresh

\* A target reads an identity, or that there is none, for every edge.
LEMMA LiveTargetType ==
    ASSUME TypeOK, NEW f \in Fiber
    PROVE  LiveTarget(f) \in Target /\ LiveTarget(f) # NoTarget
<1>1. ASSUME NEW k, Visible(k) # {}
      PROVE  (CHOOSE p \in Visible(k) : TRUE).id \in Occurrence
  <2>1. (CHOOSE p \in Visible(k) : TRUE) \in Visible(k)
    BY <1>1, Zenon
  <2>2. (CHOOSE p \in Visible(k) : TRUE) \in Publication
    BY <2>1 DEF Visible, In, TypeOK, StoreTypes, Held
  <2> QED BY <2>2 DEF Publication
<1>2. LiveTarget(f) \in [Requires[f] -> Occurrence \cup {Missing}]
  BY <1>1 DEF LiveTarget, OccurrenceId
<1>3. Requires[f] \in SUBSET Name
  BY RequiresAssumption
<1>4. LiveTarget(f) \in Target
  BY <1>2, <1>3 DEF Target
<1> QED BY <1>4, NoTargetAssumption

-----------------------------------------------------------------------------
(* Drift: no visibility changes without a revision for its dependents *)

Committed ==
    \A k \in Key : Visible(k)' = Visible(k) \/ \A f \in Fiber : <<k, f>> \in index => owed'[f]

Kept(f) == (owed[f] => owed'[f]) /\ goal'[f] = goal[f] /\ view'[f] = view[f]

LEMMA CommitDriftKeeps ==
    ASSUME TypeOK, NEW keys, CommitDrift(keys)
    PROVE  /\ owed' \in [Fiber -> BOOLEAN]
           /\ \A f \in Fiber : owed[f] => owed'[f]
           /\ \A k \in keys, f \in Fiber : <<k, f>> \in index => owed'[f]
<1>1. owed \in [Fiber -> BOOLEAN]
  BY DEF TypeOK, FiberTypes
<1>2. owed' = [f \in Fiber |-> owed[f] \/ f \in DependentsOf(keys)]
  BY DEF CommitDrift
<1>3. \A f \in Fiber : owed'[f] = (owed[f] \/ f \in DependentsOf(keys))
  BY <1>2
<1>4. \A k \in keys, f \in Fiber : <<k, f>> \in index => f \in DependentsOf(keys)
  BY DEF DependentsOf
<1>5. owed' \in [Fiber -> BOOLEAN]
  BY <1>1, <1>2
<1> QED BY <1>3, <1>4, <1>5, Zenon

\* commit_fiber_transition.
LEMMA TransitionCommits ==
    ASSUME TypeOK, NEW f \in Fiber, NEW next \in State, Transition(f, next),
           UNCHANGED <<slots, alive>>
    PROVE  /\ Committed
           /\ owed' \in [Fiber -> BOOLEAN]
           /\ \A g \in Fiber : owed[g] => owed'[g]
           /\ state' = [state EXCEPT ![f] = next]
           /\ state' \in [Owner -> State]
<1>1. state' = [state EXCEPT ![f] = next] /\ state \in [Owner -> State] /\ f \in Owner
  BY DEF Transition, TypeOK, FiberTypes, Owner
<1>2. state' \in [Owner -> State]
  BY <1>1
<1>3. \A p \in slots : p.owner \in Owner
  BY DEF TypeOK, StoreTypes, Held, Publication
<1>4. CASE (state[f] = "Active") # (next = "Active")
  <2>1. CommitDrift(SlotsOwnedBy(f))
    BY <1>4 DEF Transition
  <2>2. ASSUME NEW k \in Key, k \notin SlotsOwnedBy(f)
        PROVE  Visible(k)' = Visible(k)
    <3>1. \A p \in In(k) : p.owner # f /\ p \in slots
      BY <2>2 DEF In, SlotsOwnedBy
    <3>2. \A p \in In(k) : state'[p.owner] = state[p.owner]
      BY <3>1, <1>1, <1>3
    <3>3. In(k)' = In(k)
      BY DEF In
    <3> QED BY <3>2, <3>3 DEF Visible
  <2>3. Committed
    BY <2>1, <2>2, CommitDriftKeeps, Zenon DEF Committed
  <2> QED BY <1>1, <1>2, <2>1, <2>3, CommitDriftKeeps, Zenon
<1>5. CASE ~((state[f] = "Active") # (next = "Active"))
  <2>1. UNCHANGED owed
    BY <1>5 DEF Transition
  <2>2. \A o \in Owner : (state'[o] = "Active") <=> (state[o] = "Active")
    BY <1>1, <1>5
  <2>3. \A k : Visible(k)' = Visible(k)
    BY <2>2, <1>3 DEF Visible, In
  <2> QED BY <1>1, <1>2, <2>1, <2>3, Zenon DEF Committed, TypeOK, FiberTypes
<1> QED BY <1>4, <1>5

\* Nobody's view, owner or slot moved.
LEMMA StillCommits ==
    ASSUME UNCHANGED <<slots, alive, state>>
    PROVE  Committed
<1>1. \A k : Visible(k)' = Visible(k)
  BY DEF Visible, In
<1> QED BY <1>1, Zenon DEF Committed

\* A target read before is a target still, or a revision is owed.
LEMMA CurrentKeeps ==
    ASSUME IInv, Committed, NEW f \in Fiber, Kept(f),
           pc[f] \in {"idle", "settle", "drain", "apply", "rollback"}
    PROVE  ~owed'[f] => goal'[f] = LiveTarget(f)'
<1>1. SUFFICES ASSUME ~owed'[f]
               PROVE  goal'[f] = LiveTarget(f)'
  OBVIOUS
<1>2. goal'[f] = LiveTarget(f)
  BY <1>1 DEF Kept, IInv, Rest, Current
<1>3. ASSUME NEW n \in Requires[f], NEW k, k = SlotOf(f, n)
      PROVE  Visible(k)' = Visible(k) /\ SlotOf(f, n)' = k
  <2>1. n \in Name
    BY RequiresAssumption
  <2>2. k \in Key
    BY <1>3, <2>1 DEF SlotOf, Key, View, IInv, TypeOK, ContextTypes
  <2>3. <<k, f>> \in index
    BY <1>3 DEF IInv, Rest, Indexed
  <2>4. SlotOf(f, n)' = k
    BY <1>3 DEF SlotOf, Kept
  <2> QED BY <1>1, <2>2, <2>3, <2>4, Zenon DEF Committed
<1>4. ASSUME NEW n \in Requires[f]
      PROVE  OccurrenceId(SlotOf(f, n))' = OccurrenceId(SlotOf(f, n))
  <2>1. PICK k : k = SlotOf(f, n)
    OBVIOUS
  <2>2. Visible(k)' = Visible(k) /\ SlotOf(f, n)' = k
    BY <2>1, <1>3
  <2>3. OccurrenceId(k)' = OccurrenceId(k)
    BY <2>2 DEF OccurrenceId
  <2> QED BY <2>1, <2>2, <2>3 DEF OccurrenceId, Visible, In
<1>5. LiveTarget(f)' = LiveTarget(f)
  BY <1>4, Zenon DEF LiveTarget
<1> QED BY <1>2, <1>5

\* A step of f's own leaves the others where they are.
Only(f) ==
    /\ \A o \in Owner \ {f} : state'[o] = state[o] /\ alive'[o] = alive[o]
    /\ \A g \in Fiber \ {f} :
         /\ pc'[g] = pc[g] /\ goal'[g] = goal[g] /\ settled'[g] = settled[g] /\ view'[g] = view[g]
         /\ \A k \in Key : <<k, g>> \in index => <<k, g>> \in index'
         /\ owed[g] => owed'[g]

Whole(f) == PlaceOf(f) /\ Opened(f) /\ Indexed(f) /\ Current(f) /\ Parked(f)

LEMMA OthersKeep ==
    ASSUME IInv, Committed, NEW f, Only(f), NEW g \in Fiber \ {f},
           \A p \in slots' \ slots : p.owner = g => state[g] \in {"Loading", "Active"}
    PROVE  Whole(g)'
<1>1. g \in Fiber /\ g \in Owner /\ g # f
  BY DEF Owner
<1>2. PlaceOf(g) /\ Opened(g) /\ Indexed(g) /\ Current(g) /\ Parked(g)
  BY <1>1 DEF IInv, Places, Rest
<1>3. /\ pc'[g] = pc[g] /\ goal'[g] = goal[g] /\ settled'[g] = settled[g] /\ view'[g] = view[g]
      /\ state'[g] = state[g] /\ alive'[g] = alive[g]
      /\ owed[g] => owed'[g]
  BY <1>1 DEF Only
<1>4. PlaceOf(g)'
  BY <1>2, <1>3 DEF PlaceOf
<1>5. Opened(g)'
  BY <1>2, <1>3 DEF Opened
<1>6. Indexed(g)'
  <2>1. \A n \in Requires[g] : SlotOf(g, n)' = SlotOf(g, n) /\ SlotOf(g, n) \in Key
    BY <1>1, <1>3, RequiresAssumption DEF SlotOf, Key, View, IInv, TypeOK, ContextTypes
  <2>2. \A k \in Key : <<k, g>> \in index => <<k, g>> \in index'
    BY <1>1 DEF Only
  <2> QED BY <1>2, <1>3, <2>1, <2>2 DEF Indexed
<1>7. Current(g)'
  <2>1. Kept(g)
    BY <1>3 DEF Kept
  <2> QED BY <1>1, <1>3, <2>1, CurrentKeeps, Zenon DEF Current
<1>8. Parked(g)'
  BY <1>2, <1>3 DEF Parked, Expected
<1> QED BY <1>4, <1>5, <1>6, <1>7, <1>8 DEF Whole

-----------------------------------------------------------------------------
(* The callers' steps *)

ContextStep == WithIsolatedService \/ WithServiceRealms

LEMMA ContextKeeps ==
    ASSUME IInv, ContextStep
    PROVE  ContextTypes' /\ UNCHANGED <<storeVars, handleVars, journal, index, fiberVars, owed, calls>>
<1> USE DEF ContextStep
<1>1. /\ realms \in Realm /\ MaxRealms \in Nat /\ views \in Seq(View) /\ view \in [Fiber -> View]
  BY BoundAssumption DEF IInv, TypeOK, ContextTypes
<1>2. ASSUME NEW outer \in View, NEW layer, \A n \in DOMAIN layer : layer[n] \in Realm
      PROVE  Shadowed(outer, layer) \in View
  BY <1>2 DEF Shadowed, View
<1>3. \A v \in DOMAIN views : views[v] \in View
  BY <1>1
<1>4. CASE WithIsolatedService
  <2>1. realms' \in Realm /\ UNCHANGED view
    BY <1>1, <1>4 DEF WithIsolatedService, Realm, fiberVars
  <2>2. PICK v \in DOMAIN views, n \in Isolable : views' = Append(views, Shadowed(views[v], [m \in {n} |-> realms']))
    BY <1>4 DEF WithIsolatedService
  <2>4. Shadowed(views[v], [m \in {n} |-> realms']) \in View
    BY <1>2, <1>3, <2>1
  <2> QED BY <1>1, <1>4, <2>1, <2>2, <2>4 DEF ContextTypes, WithIsolatedService
<1>5. CASE WithServiceRealms
  <2>1. realms' \in Realm /\ UNCHANGED view
    BY <1>1, <1>5 DEF WithServiceRealms, Realm, fiberVars
  <2>2. PICK v \in DOMAIN views, names \in (SUBSET Isolable) \ {{}} :
          \E layer \in [names -> 1..realms'] : views' = Append(views, Shadowed(views[v], layer))
    BY <1>5, Zenon DEF WithServiceRealms
  <2>3. PICK layer \in [names -> 1..realms'] : views' = Append(views, Shadowed(views[v], layer))
    BY <2>2
  <2>4. \A n \in DOMAIN layer : layer[n] \in Realm
    BY <2>1, <1>1 DEF Realm
  <2>5. Shadowed(views[v], layer) \in View
    BY <1>2, <1>3, <2>4
  <2> QED BY <1>1, <1>5, <2>1, <2>3, <2>5 DEF ContextTypes, WithServiceRealms
<1> QED BY <1>4, <1>5 DEF ContextStep

\* What a step on the store keeps: its own types and occupants, and what the
\* passes have read of it.
StoreKept ==
    /\ StoreTypes' /\ Occupants' /\ Committed
    /\ owed' \in [Fiber -> BOOLEAN]
    /\ \A f \in Fiber : owed[f] => owed'[f]
    /\ \A p \in slots' \ slots : p.owner = RootFiber \/ state[p.owner] \in {"Loading", "Active"}

LEMMA InstallDriftKeeps ==
    ASSUME TypeOK, NEW o, NEW k, InstallDrift(o, k)
    PROVE  /\ owed' \in [Fiber -> BOOLEAN]
           /\ \A f \in Fiber : owed[f] => owed'[f]
           /\ state[o] = "Active" => \A f \in Fiber : <<k, f>> \in index => owed'[f]
<1>1. CASE state[o] = "Active"
  BY <1>1, CommitDriftKeeps, Zenon DEF InstallDrift
<1>2. CASE state[o] # "Active"
  BY <1>2 DEF InstallDrift, TypeOK, FiberTypes
<1> QED BY <1>1, <1>2

LEMMA ProvideKeeps ==
    ASSUME IInv, NEW o \in Owner, Provide(o)
    PROVE  StoreKept
<1>1. CanRegister(o) /\ Fresh # {} /\ UNCHANGED <<disarming, state, alive>>
  BY DEF Provide, fiberVars
<1>2. PICK s \in Publishes[o], v \in ViewOf(o) :
        Install([id |-> Min(Fresh), owner |-> o, key |-> <<v[s[1]], s[1]>>, contract |-> s[2]])
  BY DEF Provide
<1> DEFINE p == [id |-> Min(Fresh), owner |-> o, key |-> <<v[s[1]], s[1]>>, contract |-> s[2]]
<1>3. s[1] \in Name /\ s[2] \in Contract
  BY PublishesAssumption
<1>4. v \in View
  BY OwnerAssumption DEF ViewOf, IInv, TypeOK, ContextTypes, Owner
<1>5. p \in Publication /\ p.key \in Key /\ p.key[2] \in Name /\ p.key[2] = s[1] /\ p.owner = o
  BY <1>1, <1>3, <1>4, FreshIsFree DEF Publication, Key, View
<1>6. \A q \in Held : q.id # p.id
  BY <1>1, FreshIsFree
<1>7. Install(p)
  BY <1>2
<1> HIDE DEF p
<1>8. /\ contracts[p.key[2]] \in {Unbound, p.contract}
      /\ contracts' = [contracts EXCEPT ![p.key[2]] = p.contract]
  BY <1>7 DEF Install
<1>9. contracts' \in [Name -> Contract \cup {Unbound}]
  BY <1>5, <1>8 DEF IInv, TypeOK, StoreTypes, Publication
<1>10. \A q \in slots : q.contract \in Contract /\ q.key \in Key /\ q.key[2] \in Name /\ q.owner \in Owner
  BY DEF IInv, TypeOK, StoreTypes, Publication, Held, Key
<1>11. \A q \in slots : contracts'[q.key[2]] = q.contract
  BY <1>5, <1>8, <1>10, UnboundAssumption DEF IInv, TypeOK, StoreTypes, Occupants
<1>12. CASE Duplicate(p.key)
  <2>1. UNCHANGED <<slots, payload, handles, journal, owed>>
    BY <1>7, <1>12 DEF Install
  <2>2. Committed
    BY <1>1, <2>1, StillCommits
  <2>3. Held' = Held
    BY <1>1, <2>1 DEF Held
  <2>4. StoreTypes'
    BY <1>9, <2>1, <2>3 DEF StoreTypes, IInv, TypeOK
  <2>5. Occupants'
    BY <1>1, <1>11, <2>1, <2>3 DEF Occupants, IInv
  <2> QED BY <2>1, <2>2, <2>4, <2>5 DEF StoreKept, IInv, TypeOK, FiberTypes
<1>13. CASE ~Duplicate(p.key)
  <2>1. /\ InstallDrift(p.owner, p.key)
        /\ slots' = (slots \ In(p.key)) \cup {p}
        /\ payload' = [payload EXCEPT ![p.key] = p.id]
        /\ handles' \subseteq handles \cup {p}
        /\ journal' = journal \cup {p}
    BY <1>7, <1>13 DEF Install
  <2>2. Held' \subseteq Held \cup {p}
    BY <1>1, <2>1 DEF Held
  <2>3. StoreTypes'
    BY <1>5, <1>9, <2>1, <2>2 DEF StoreTypes, IInv, TypeOK, Publication
  <2>4. \A q \in slots' \ {p} : q \in slots /\ q.key # p.key
    BY <2>1 DEF In
  <2>5. p \notin Held
    BY <1>6
  <2>6. Occupants'
    <3>1. \A q, r \in Held' : q.id = r.id => q = r
      BY <1>6, <2>2 DEF Occupants, IInv
    <3>2. \A q \in slots' : payload'[q.key] = q.id
      BY <1>5, <1>10, <2>1, <2>4 DEF Occupants, IInv, TypeOK, StoreTypes
    <3>3. \A q \in slots' : contracts'[q.key[2]] = q.contract
      BY <1>5, <1>8, <1>11, <2>4 DEF IInv, TypeOK, StoreTypes
    <3>4. \A q \in slots' : q \in journal' /\ q \notin disarming'
      BY <1>1, <2>1, <2>4, <2>5 DEF Occupants, IInv, Held
    <3> QED BY <3>1, <3>2, <3>3, <3>4 DEF Occupants
  <2>7. Committed
    <3>1. SUFFICES ASSUME NEW k \in Key, Visible(k)' # Visible(k)
                   PROVE  \A f \in Fiber : <<k, f>> \in index => owed'[f]
      BY Zenon DEF Committed
    <3>2. \A q \in In(p.key) : ~alive[q.owner]
      BY <1>13 DEF Duplicate
    <3>3. \A q \in slots \ slots' : ~alive[q.owner]
      BY <2>1, <3>2
    <3>4. state[p.owner] = "Active" /\ k = p.key
      BY <1>1, <2>1, <3>1, <3>3 DEF Visible, In
    <3> QED BY <2>1, <3>4, InstallDriftKeeps DEF IInv
  <2>8. \A q \in slots' \ slots : state[q.owner] \in {"Loading", "Active"}
    BY <1>1, <1>5, <2>4 DEF CanRegister
  <2> QED BY <2>1, <2>3, <2>6, <2>7, <2>8, InstallDriftKeeps DEF StoreKept, IInv
<1> QED BY <1>12, <1>13

\* A slot that is given up takes its value with it and nothing else.
LEMMA VacatedKeeps ==
    ASSUME IInv, slots' \subseteq slots, Vacated
    PROVE  /\ payload' \in [Key -> Occurrence \cup {Missing}]
           /\ \A p \in slots' : payload'[p.key] = p.id
<1>1. \A p \in slots : p.key \in Key /\ payload[p.key] = p.id
  BY DEF IInv, TypeOK, StoreTypes, Held, Publication, Occupants
<1> QED BY <1>1 DEF Vacated, IInv, TypeOK, StoreTypes

LEMMA SetExactKeeps ==
    ASSUME IInv, NEW p \in handles, SetExact(p)
    PROVE  StoreKept
<1>1. UNCHANGED <<contracts, slots, handles, disarming, journal, state, alive, owed>>
  BY DEF SetExact, handleVars, fiberVars
<1>2. payload' = IF p \in slots /\ CanRegister(p.owner) THEN [payload EXCEPT ![p.key] = p.id] ELSE payload
  BY DEF SetExact
<1>3. payload' = payload
  BY <1>2 DEF IInv, TypeOK, StoreTypes, Occupants
<1>4. StoreTypes' /\ Occupants'
  BY <1>1, <1>3 DEF IInv, TypeOK, StoreTypes, Occupants, Held
<1> QED BY <1>1, <1>4, StillCommits DEF StoreKept, IInv, TypeOK, FiberTypes

LEMMA RemoveExactKeeps ==
    ASSUME IInv, NEW p \in handles, RemoveExact(p)
    PROVE  StoreKept
<1>1. UNCHANGED <<contracts, journal, state, alive>> /\ handles' \subseteq handles /\ Vacated
  BY DEF RemoveExact, fiberVars
<1>2. CASE p \in slots /\ CanRegister(p.owner)
  <2>1. InstallDrift(p.owner, p.key) /\ slots' = slots \ {p} /\ disarming' = disarming \cup {p}
    BY <1>2 DEF RemoveExact
  <2>2. Held' \subseteq Held /\ slots' \subseteq slots
    BY <1>1, <1>2, <2>1 DEF Held
  <2>3. StoreTypes' /\ Occupants'
    BY <1>1, <2>1, <2>2, VacatedKeeps DEF IInv, TypeOK, StoreTypes, Occupants
  <2>4. ASSUME NEW k \in Key, k # p.key \/ state[p.owner] # "Active"
        PROVE  Visible(k)' = Visible(k)
    BY <1>1, <2>1, <2>4 DEF Visible, In
  <2>5. Committed
    BY <2>1, <2>4, InstallDriftKeeps, Zenon DEF Committed, IInv
  <2> QED BY <2>1, <2>2, <2>3, <2>5, InstallDriftKeeps DEF StoreKept, IInv
<1>3. CASE ~(p \in slots /\ CanRegister(p.owner))
  <2>1. UNCHANGED <<slots, disarming, owed>>
    BY <1>3 DEF RemoveExact
  <2>2. Held' \subseteq Held
    BY <1>1, <2>1 DEF Held
  <2>3. StoreTypes' /\ Occupants'
    BY <1>1, <2>1, <2>2, VacatedKeeps DEF IInv, TypeOK, StoreTypes, Occupants
  <2> QED BY <1>1, <2>1, <2>3, StillCommits DEF StoreKept, IInv, TypeOK, FiberTypes
<1> QED BY <1>2, <1>3

LEMMA DisarmKeeps ==
    ASSUME IInv, NEW p \in disarming, Disarm(p)
    PROVE  StoreKept
<1>1. /\ UNCHANGED <<contracts, slots, payload, handles, state, alive, owed>>
      /\ disarming' = disarming \ {p} /\ journal' = journal \ {p}
  BY DEF Disarm, storeVars, fiberVars
<1>2. Held' \subseteq Held
  BY <1>1 DEF Held
<1>3. StoreTypes' /\ Occupants'
  BY <1>1, <1>2 DEF IInv, TypeOK, StoreTypes, Occupants
<1> QED BY <1>1, <1>3, StillCommits DEF StoreKept, IInv, TypeOK, FiberTypes

LEMMA DrainKeeps ==
    ASSUME IInv, NEW f \in Fiber, Drain(f)
    PROVE  StoreKept
<1>1. UNCHANGED <<contracts, handles, disarming, state, alive, owed>> /\ Vacated
  BY DEF Drain, handleVars, fiberVars
<1>2. PICK p \in Owes(f) : slots' = slots \ {p} /\ journal' = journal \ {p}
  BY DEF Drain, WithdrawExact
<1>3. Held' \subseteq Held /\ slots' \subseteq slots /\ p.owner = f
  BY <1>1, <1>2 DEF Held, Owes
<1>4. StoreTypes' /\ Occupants'
  BY <1>1, <1>2, <1>3, VacatedKeeps DEF IInv, TypeOK, StoreTypes, Occupants
<1>5. state[f] # "Active"
  BY DEF Drain, IInv, Places, PlaceOf, StatesAt
<1>6. \A k : Visible(k)' = Visible(k)
  BY <1>1, <1>2, <1>3, <1>5 DEF Visible, In
<1>7. Committed
  BY <1>6, Zenon DEF Committed
<1> QED BY <1>1, <1>3, <1>4, <1>7 DEF StoreKept, IInv, TypeOK, FiberTypes

StoreStep ==
    \/ \E o \in Owner : Provide(o)
    \/ \E p \in handles : SetExact(p) \/ RemoveExact(p)
    \/ \E p \in disarming : Disarm(p)
    \/ \E f \in Fiber : Drain(f)

LEMMA StoreStepKeeps ==
    ASSUME IInv, StoreStep
    PROVE  IInv'
<1>1. StoreKept
  BY ProvideKeeps, SetExactKeeps, RemoveExactKeeps, DisarmKeeps, DrainKeeps, Zenon DEF StoreStep
<1>2. UNCHANGED <<index, contextVars, fiberVars>>
  BY DEF StoreStep, Provide, SetExact, RemoveExact, Disarm, Drain
<1>3. TypeOK'
  BY <1>1, <1>2 DEF TypeOK, ContextTypes, FiberTypes, contextVars, fiberVars, StoreKept, IInv
<1>4. Only(RootFiber)
  BY <1>1, <1>2 DEF Only, fiberVars, StoreKept
<1>5. ASSUME NEW g \in Fiber
      PROVE  Whole(g)'
  <2>1. g \in Fiber \ {RootFiber}
    BY OwnerAssumption
  <2>2. \A p \in slots' \ slots : p.owner = g => state[g] \in {"Loading", "Active"}
    BY <1>1, <2>1 DEF StoreKept
  <2> QED BY <1>1, <1>4, <2>1, <2>2, OthersKeep DEF StoreKept
<1> QED BY <1>1, <1>3, <1>5 DEF IInv, Places, Rest, Whole, StoreKept

-----------------------------------------------------------------------------
(* The Fibers' steps *)

\* What a step of f itself has to show.
FiberKept(f) ==
    /\ Committed /\ Only(f) /\ Whole(f)'
    /\ ContextTypes' /\ FiberTypes'

Quiet == UNCHANGED <<storeVars, handleVars, journal>>

LEMMA FiberKeeps ==
    ASSUME IInv, NEW f \in Fiber, Quiet, FiberKept(f)
    PROVE  IInv'
<1>1. StoreTypes' /\ Occupants'
  BY DEF Quiet, storeVars, handleVars, IInv, TypeOK, StoreTypes, Occupants, Held
<1>2. ASSUME NEW g \in Fiber
      PROVE  Whole(g)'
  <2>1. CASE g = f
    BY <2>1 DEF FiberKept
  <2>2. CASE g # f
    <3>1. g \in Fiber \ {f} /\ \A p \in slots' \ slots : p.owner = g => state[g] \in {"Loading", "Active"}
      BY <2>2 DEF Quiet, storeVars
    <3> QED BY <3>1, OthersKeep DEF FiberKept
  <2> QED BY <2>1, <2>2
<1> QED BY <1>1, <1>2 DEF IInv, TypeOK, Places, Rest, Whole, FiberKept

\* Transition of f, as FiberKept needs it.
LEMMA PassTransition ==
    ASSUME IInv, NEW f \in Fiber, NEW next \in State, Transition(f, next), Quiet,
           UNCHANGED <<index, view, alive>>,
           \A g \in Fiber \ {f} : pc'[g] = pc[g] /\ goal'[g] = goal[g] /\ settled'[g] = settled[g]
    PROVE  /\ Committed /\ Only(f)
           /\ state' \in [Owner -> State] /\ owed' \in [Fiber -> BOOLEAN]
           /\ state'[f] = next /\ (owed[f] => owed'[f])
<1>1. UNCHANGED slots /\ TypeOK /\ f \in Owner /\ state \in [Owner -> State]
  BY DEF Quiet, storeVars, IInv, TypeOK, FiberTypes, Owner
<1>2. /\ Committed
      /\ owed' \in [Fiber -> BOOLEAN]
      /\ \A g \in Fiber : owed[g] => owed'[g]
      /\ state' = [state EXCEPT ![f] = next]
      /\ state' \in [Owner -> State]
  BY <1>1, TransitionCommits
<1> QED BY <1>1, <1>2 DEF Only

\* The edges stay with the view.
LEMMA IndexedKeeps ==
    ASSUME IInv, NEW f \in Fiber, UNCHANGED <<index, view>>, pc[f] \notin {"absent", "bury", "gone"}
    PROVE  Indexed(f)'
<1>1. \A n \in Requires[f] : SlotOf(f, n)' = SlotOf(f, n)
  BY DEF SlotOf
<1> QED BY <1>1 DEF Indexed, IInv, Rest

LEMMA SpawnKeeps ==
    ASSUME IInv, NEW f \in Fiber, Spawn(f)
    PROVE  FiberKept(f) /\ Quiet
<1> USE DEF Spawn
<1>1. f \in Owner /\ state \in [Owner -> State] /\ pc \in [Fiber -> Place] /\ view \in [Fiber -> View]
  BY DEF IInv, TypeOK, FiberTypes, ContextTypes, Owner
<1>2. /\ pc[f] = "absent" /\ state[f] = "absent" /\ settled[f] = NoTarget /\ alive[f]
      /\ \A p \in slots : p.owner # f
  BY DEF IInv, Places, PlaceOf, Opened, StatesAt, Rest, Parked
<1>3. PICK v \in DOMAIN views : view' = [view EXCEPT ![f] = views[v]]
  OBVIOUS
<1>4. views[v] \in View
  BY DEF IInv, TypeOK, ContextTypes
<1>5. ContextTypes'
  BY <1>1, <1>3, <1>4 DEF IInv, TypeOK, ContextTypes, contextVars
<1>6. EdgesOf(f) \subseteq Key \X Fiber
  <2>1. \A n \in Requires[f] : n \in Name /\ view'[f][n] \in Realm
    BY <1>1, <1>3, <1>4, RequiresAssumption DEF View
  <2>2. \A n \in Requires[f] : <<<<view'[f][n], n>>, f>> \in Key \X Fiber
    BY <2>1 DEF Key
  <2> QED BY <2>2, Zenon DEF EdgesOf
<1>7. FiberTypes'
  BY <1>1, <1>6 DEF IInv, TypeOK, FiberTypes, State, Place
<1>8. Committed
  <2>1. \A p \in slots : state'[p.owner] = state[p.owner]
    BY <1>1, <1>2 DEF IInv, TypeOK, StoreTypes, Held, Publication
  <2>2. \A k : Visible(k)' = Visible(k)
    BY <2>1 DEF Visible, In, storeVars
  <2> QED BY <2>2, Zenon DEF Committed
<1>9. Only(f)
  BY <1>1, <1>3 DEF Only, IInv, TypeOK, FiberTypes
<1>10. Whole(f)'
  <2>1. pc'[f] = "compute" /\ state'[f] = "Pending" /\ alive'[f] /\ settled'[f] = NoTarget /\ slots' = slots
    BY <1>1, <1>2 DEF storeVars
  <2>2. PlaceOf(f)' /\ Opened(f)' /\ Current(f)' /\ Parked(f)'
    BY <1>2, <2>1 DEF PlaceOf, Opened, Current, Parked, StatesAt
  <2>3. Indexed(f)'
    BY <2>1 DEF Indexed, EdgesOf, SlotOf
  <2> QED BY <2>2, <2>3 DEF Whole
<1> QED BY <1>5, <1>7, <1>8, <1>9, <1>10 DEF FiberKept, Quiet

\* Steps of f that neither change a state nor a life.
LEMMA PlainKeeps ==
    ASSUME IInv, NEW f \in Fiber, Restart(f) \/ Dispose(f) \/ Kick(f) \/ Compute(f)
    PROVE  FiberKept(f) /\ Quiet
<1> USE DEF Restart, Dispose, Kick, Compute, Goto
<1>1. /\ f \in Owner /\ state \in [Owner -> State] /\ pc \in [Fiber -> Place]
      /\ settled \in [Fiber -> Target \cup {NoTarget}] /\ goal \in [Fiber -> Target \cup {NoTarget}]
      /\ owed \in [Fiber -> BOOLEAN]
      /\ disposing \in [Owner -> BOOLEAN] /\ generation_replacing \in [Owner -> BOOLEAN]
  BY DEF IInv, TypeOK, FiberTypes, Owner
<1>2. UNCHANGED <<slots, alive, state, index, view, realms, views>> /\ Quiet
  BY DEF storeVars, contextVars, Quiet
<1>3. Committed
  BY <1>2, StillCommits
<1>4. ContextTypes'
  BY <1>2 DEF ContextTypes, IInv, TypeOK
<1>5. PlaceOf(f) /\ Opened(f) /\ Indexed(f) /\ Current(f) /\ Parked(f)
  BY DEF IInv, Places, Rest
<1>6. Opened(f)'
  BY <1>2, <1>5 DEF Opened
<1>7. LiveTarget(f) \in Target /\ LiveTarget(f) # NoTarget
  BY LiveTargetType DEF IInv
<1>8. CASE Restart(f) \/ Dispose(f) \/ Kick(f)
  <2>1. /\ pc[f] = "idle" /\ pc'[f] \in {"compute", "unload"} /\ UNCHANGED <<goal, owed>>
        /\ \A g \in Fiber \ {f} : pc'[g] = pc[g] /\ settled'[g] = settled[g]
        /\ pc' \in [Fiber -> Place] /\ settled' \in [Fiber -> Target \cup {NoTarget}]
    BY <1>1, <1>8 DEF Place
  <2>2. FiberTypes'
    BY <1>1, <1>2, <1>8, <2>1 DEF FiberTypes, IInv, TypeOK
  <2>3. Only(f)
    BY <1>2, <2>1 DEF Only
  <2>4. PlaceOf(f)' /\ Current(f)'
    BY <1>2, <1>5, <2>1 DEF PlaceOf, Current, StatesAt
  <2>5. Parked(f)'
    BY <1>1, <1>2, <1>5, <1>8, <2>1 DEF Parked, Expected
  <2>6. Indexed(f)'
    BY <1>2, <2>1, IndexedKeeps
  <2> QED BY <1>2, <1>3, <1>4, <1>6, <2>2, <2>3, <2>4, <2>5, <2>6 DEF FiberKept, Whole
<1>9. CASE Compute(f)
  <2>1. /\ pc[f] = "compute" /\ UNCHANGED settled
        /\ goal' = [goal EXCEPT ![f] = LiveTarget(f)] /\ owed' = [owed EXCEPT ![f] = FALSE]
        /\ pc' = [pc EXCEPT ![f] = IF settled[f] = LiveTarget(f) THEN "idle" ELSE "settle"]
        /\ delivered' \subseteq delivered \cup {f}
    BY <1>9
  <2>2. FiberTypes'
    BY <1>1, <1>2, <1>7, <1>9, <2>1 DEF FiberTypes, IInv, TypeOK, Place
  <2>3. Only(f)
    BY <1>1, <1>2, <2>1 DEF Only
  <2>4. PlaceOf(f)'
    BY <1>1, <1>2, <1>5, <2>1 DEF PlaceOf, StatesAt
  <2>5. LiveTarget(f)' = LiveTarget(f)
    BY <1>2 DEF LiveTarget, OccurrenceId, Visible, In, SlotOf
  <2>6. Current(f)'
    BY <1>1, <2>1, <2>5 DEF Current
  <2>7. Parked(f)'
    BY <1>1, <1>2, <1>5, <1>7, <2>1 DEF Parked, Expected
  <2>8. Indexed(f)'
    BY <1>2, <2>1, IndexedKeeps
  <2> QED BY <1>2, <1>3, <1>4, <1>6, <2>2, <2>3, <2>4, <2>6, <2>7, <2>8 DEF FiberKept, Whole
<1> QED BY <1>8, <1>9

\* Steps of f's pass through Fiber::transition.
TransitionStep(f) ==
    \/ Settle(f) \/ SettlePending(f) \/ SettleLoading(f) \/ ApplyOk(f) \/ ApplyFails(f)
    \/ ParkFailure(f) \/ TeardownUnload(f) \/ TeardownDisposed(f)

Moves(f, next) ==
    \/ state[f] = next /\ UNCHANGED <<state, owed>>
    \/ Transition(f, next)

LEMMA MovesKeeps ==
    ASSUME IInv, NEW f \in Fiber, NEW next \in State, Moves(f, next), Quiet,
           UNCHANGED <<index, view, alive>>,
           \A g \in Fiber \ {f} : pc'[g] = pc[g] /\ goal'[g] = goal[g] /\ settled'[g] = settled[g]
    PROVE  /\ Committed /\ Only(f)
           /\ state' \in [Owner -> State] /\ owed' \in [Fiber -> BOOLEAN]
           /\ state'[f] = next /\ (owed[f] => owed'[f])
<1>1. CASE Transition(f, next)
  BY <1>1, PassTransition
<1>2. CASE state[f] = next /\ UNCHANGED <<state, owed>>
  <2>1. Committed
    BY <1>2, StillCommits DEF Quiet, storeVars
  <2> QED BY <1>2, <2>1 DEF Only, IInv, TypeOK, FiberTypes
<1> QED BY <1>1, <1>2 DEF Moves

\* A drained generation has left every slot.
LEMMA DrainedHoldsNothing ==
    ASSUME IInv, NEW f \in Fiber, Owes(f) = {}
    PROVE  \A p \in slots : p.owner # f
BY DEF Owes, IInv, Occupants

LEMMA TransitionStepKeeps ==
    ASSUME IInv, NEW f \in Fiber, TransitionStep(f)
    PROVE  FiberKept(f) /\ Quiet
<1> USE DEF Goto
<1>1. /\ f \in Owner /\ state \in [Owner -> State] /\ pc \in [Fiber -> Place]
      /\ settled \in [Fiber -> Target \cup {NoTarget}] /\ goal \in [Fiber -> Target \cup {NoTarget}]
      /\ owed \in [Fiber -> BOOLEAN]
      /\ disposing \in [Owner -> BOOLEAN] /\ generation_replacing \in [Owner -> BOOLEAN]
  BY DEF IInv, TypeOK, FiberTypes, Owner
<1>2. UNCHANGED <<slots, alive, index, view, realms, views, delivered>> /\ Quiet
  BY DEF TransitionStep, Settle, SettlePending, SettleLoading, ApplyOk, ApplyFails, ParkFailure,
         TeardownUnload, TeardownDisposed, storeVars, contextVars, Quiet
<1>3. ContextTypes'
  BY <1>2 DEF ContextTypes, IInv, TypeOK
<1>4. PlaceOf(f) /\ Opened(f) /\ Indexed(f) /\ Current(f) /\ Parked(f)
  BY DEF IInv, Places, Rest
<1> DEFINE Shape(next, where) ==
             /\ Moves(f, next)
             /\ pc' = [pc EXCEPT ![f] = where]
             /\ \A g \in Fiber \ {f} : goal'[g] = goal[g] /\ settled'[g] = settled[g]
             /\ goal' \in [Fiber -> Target \cup {NoTarget}]
             /\ settled' \in [Fiber -> Target \cup {NoTarget}]
             /\ disposing' \in [Owner -> BOOLEAN] /\ generation_replacing' \in [Owner -> BOOLEAN]
<1>5. ASSUME NEW next \in State, NEW where \in Place \ {"absent"}, Shape(next, where),
             next \in StatesAt(where), pc[f] \notin {"absent", "gone"}, pc[f] = "bury" => where = "gone",
             where = "gone" => pc[f] = "bury", where # "bury",
             next \notin {"Loading", "Active", "Unloading"} => \A p \in slots : p.owner # f,
             where \in {"idle", "settle", "drain", "apply", "rollback"} =>
               /\ pc[f] \in {"idle", "settle", "drain", "apply", "rollback"}
               /\ goal'[f] = goal[f],
             where \in {"apply", "rollback"} => ~HasMissing(goal'[f]),
             where = "compute" => next \in Expected(settled'[f]),
             where # "idle"
      PROVE  FiberKept(f)
  <2>1. pc'[f] = where /\ \A g \in Fiber \ {f} : pc'[g] = pc[g]
    BY <1>1, <1>5
  <2>2. /\ Committed /\ Only(f)
        /\ state' \in [Owner -> State] /\ owed' \in [Fiber -> BOOLEAN]
        /\ state'[f] = next /\ (owed[f] => owed'[f])
    BY <1>2, <1>5, <2>1, MovesKeeps
  <2>3. FiberTypes'
    BY <1>1, <1>2, <1>5, <2>2 DEF FiberTypes, IInv, TypeOK
  <2>4. PlaceOf(f)'
    BY <1>2, <1>4, <1>5, <2>1, <2>2 DEF PlaceOf
  <2>5. Opened(f)'
    BY <1>2, <1>5, <2>2 DEF Opened
  <2>6. Indexed(f)'
    BY <1>2, <1>5, <2>1, IndexedKeeps DEF Indexed
  <2>7. Current(f)'
    BY <1>2, <1>5, <2>1, <2>2, CurrentKeeps DEF Current, Kept
  <2>8. Parked(f)'
    BY <1>5, <2>1, <2>2 DEF Parked, Expected, HasMissing
  <2> QED BY <1>3, <2>2, <2>3, <2>4, <2>5, <2>6, <2>7, <2>8 DEF FiberKept, Whole
<1> HIDE DEF Shape
<1>6. CASE Settle(f)
  <2>1. PICK next \in {"Unloading", "Pending"} :
          Moves(f, next) /\ pc[f] = "settle" /\ (next = "Pending" => state[f] = "Pending")
    BY <1>4, <1>6 DEF Settle, Moves, PlaceOf, StatesAt
  <2>2. Shape(next, "drain") /\ UNCHANGED goal
    BY <1>1, <1>6, <2>1 DEF Settle, Shape
  <2>3. next = "Pending" => \A p \in slots : p.owner # f
    BY <1>4, <2>1 DEF Opened
  <2> QED BY <1>2, <1>5, <2>1, <2>2, <2>3 DEF State, Place, StatesAt
<1>7. CASE SettlePending(f)
  <2>1. /\ pc[f] = "drain" /\ Owes(f) = {} /\ HasMissing(goal[f]) /\ Moves(f, "Pending")
        /\ settled'[f] = goal[f]
    BY <1>1, <1>7 DEF SettlePending, Moves
  <2>2. Shape("Pending", "compute")
    BY <1>1, <1>7, <2>1 DEF SettlePending, Shape
  <2> QED BY <1>2, <1>5, <2>1, <2>2, DrainedHoldsNothing DEF State, Place, StatesAt, Expected
<1>8. CASE SettleLoading(f)
  <2>1. pc[f] = "drain" /\ ~HasMissing(goal[f]) /\ Moves(f, "Loading") /\ UNCHANGED goal
    BY <1>1, <1>8 DEF SettleLoading, Moves
  <2>2. Shape("Loading", "apply")
    BY <1>1, <1>8, <2>1 DEF SettleLoading, Shape
  <2> QED BY <1>2, <1>5, <2>1, <2>2 DEF State, Place, StatesAt
<1>9. CASE ApplyOk(f)
  <2>1. /\ pc[f] = "apply" /\ ~HasMissing(goal[f]) /\ Moves(f, "Active")
        /\ settled'[f] = goal[f]
    BY <1>1, <1>4, <1>9 DEF ApplyOk, Moves, Parked
  <2>2. Shape("Active", "compute")
    BY <1>1, <1>9, <2>1 DEF ApplyOk, Shape
  <2> QED BY <1>2, <1>5, <2>1, <2>2 DEF State, Place, StatesAt, Expected
<1>10. CASE ApplyFails(f)
  <2>1. pc[f] = "apply" /\ ~HasMissing(goal[f]) /\ Moves(f, "Unloading") /\ UNCHANGED goal
    BY <1>1, <1>4, <1>10 DEF ApplyFails, Moves, Parked
  <2>2. Shape("Unloading", "rollback")
    BY <1>1, <1>10, <2>1 DEF ApplyFails, Shape
  <2> QED BY <1>2, <1>5, <2>1, <2>2 DEF State, Place, StatesAt
<1>11. CASE ParkFailure(f)
  <2>1. PICK where \in {"compute", "unload"} :
        /\ pc[f] = "rollback" /\ Owes(f) = {} /\ ~HasMissing(goal[f]) /\ Moves(f, "Failed")
        /\ settled'[f] = goal[f] /\ pc' = [pc EXCEPT ![f] = where]
    BY <1>1, <1>4, <1>11 DEF ParkFailure, Moves, Parked
  <2>2. Shape("Failed", where)
    BY <1>1, <1>11, <2>1 DEF ParkFailure, Shape
  <2> QED BY <1>2, <1>5, <2>1, <2>2, DrainedHoldsNothing DEF State, Place, StatesAt, Expected
<1>12. CASE TeardownUnload(f)
  <2>1. pc[f] = "unload" /\ Moves(f, "Unloading")
    BY <1>12 DEF TeardownUnload, Moves
  <2>2. Shape("Unloading", "die")
    BY <1>1, <1>12, <2>1 DEF TeardownUnload, Shape
  <2> QED BY <1>2, <1>5, <2>1, <2>2 DEF State, Place, StatesAt
<1>13. CASE TeardownDisposed(f)
  <2>1. pc[f] = "bury" /\ Owes(f) = {} /\ Moves(f, "Disposed")
    BY <1>13 DEF TeardownDisposed, Moves
  <2>2. Shape("Disposed", "gone")
    BY <1>1, <1>13, <2>1 DEF TeardownDisposed, Shape
  <2> QED BY <1>2, <1>5, <2>1, <2>2, DrainedHoldsNothing DEF State, Place, StatesAt
<1> QED
  BY <1>6, <1>7, <1>8, <1>9, <1>10, <1>11, <1>12, <1>13 DEF TransitionStep

LEMMA TeardownDieKeeps ==
    ASSUME IInv, NEW f \in Fiber, TeardownDie(f)
    PROVE  FiberKept(f) /\ Quiet
<1> USE DEF TeardownDie, Goto
<1>1. f \in Owner /\ alive \in [Owner -> BOOLEAN] /\ pc \in [Fiber -> Place] /\ index \subseteq Key \X Fiber
  BY DEF IInv, TypeOK, FiberTypes, Owner
<1>2. pc[f] = "die" /\ state[f] = "Unloading"
  BY DEF IInv, Places, PlaceOf, StatesAt
<1>3. Committed
  <2>1. \A p \in slots : p.owner \in Owner
    BY DEF IInv, TypeOK, StoreTypes, Held, Publication
  <2>2. \A p \in slots : p.owner # f => alive'[p.owner] = alive[p.owner]
    BY <1>1, <2>1
  <2>3. \A k : Visible(k)' = Visible(k)
    BY <1>2, <2>2 DEF Visible, In, storeVars
  <2> QED BY <2>3, Zenon DEF Committed
<1>4. ContextTypes' /\ FiberTypes'
  BY <1>1 DEF IInv, TypeOK, ContextTypes, FiberTypes, contextVars, Place
<1>5. Only(f)
  BY <1>1 DEF Only
<1>6. Whole(f)'
  BY <1>1, <1>2 DEF Whole, PlaceOf, Opened, Indexed, Current, Parked, StatesAt
<1> QED BY <1>3, <1>4, <1>5, <1>6 DEF FiberKept, Quiet

-----------------------------------------------------------------------------
(* The invariant *)

LEMMA Initially == Init => IInv
<1>1. SUFFICES ASSUME Init
               PROVE  IInv
  OBVIOUS
<1> USE <1>1 DEF Init
<1>2. DefaultRealm \in Realm
  BY BoundAssumption DEF DefaultRealm, Realm
<1>3. [n \in Name |-> DefaultRealm] \in View /\ view = [f \in Fiber |-> [n \in Name |-> DefaultRealm]]
  BY <1>2 DEF View
<1>4. StoreTypes
  BY DEF StoreTypes, Held
<1>5. ContextTypes
  BY <1>2, <1>3, BoundAssumption DEF ContextTypes, Realm
<1>6. FiberTypes
  BY DEF FiberTypes, State, Place
<1>7. Occupants
  BY DEF Occupants, Held
<1>8. \A f \in Fiber : state[f] = "absent"
  BY OwnerAssumption DEF Owner
<1>9. Places
  BY <1>8 DEF Places, PlaceOf, Opened, StatesAt, Owner
<1>10. Rest
  BY DEF Rest, Indexed, Current, Parked
<1> QED BY <1>4, <1>5, <1>6, <1>7, <1>9, <1>10 DEF IInv, TypeOK

LEMMA Preserved == IInv /\ [Next]_vars => IInv'
<1>1. SUFFICES ASSUME IInv, [Next]_vars
               PROVE  IInv'
  OBVIOUS
<1>2. CASE UNCHANGED vars
  <2>1. UNCHANGED <<index, view, goal, owed, pc, settled, state, alive>> /\ Quiet
    BY <1>2 DEF vars, fiberVars, Quiet
  <2>2. Only(RootFiber) /\ Committed
    BY <2>1, StillCommits DEF Only, Quiet, storeVars
  <2>3. ASSUME NEW g \in Fiber
        PROVE  Whole(g)'
    <3>1. g \in Fiber \ {RootFiber} /\ \A p \in slots' \ slots : p.owner = g => state[g] \in {"Loading", "Active"}
      BY <2>1, OwnerAssumption DEF Quiet, storeVars
    <3> QED BY <1>1, <2>2, <3>1, OthersKeep
  <2>4. TypeOK' /\ Occupants'
    BY <1>1, <1>2 DEF vars, storeVars, handleVars, contextVars, fiberVars, IInv, TypeOK, StoreTypes,
                      ContextTypes, FiberTypes, Occupants, Held
  <2> QED BY <2>3, <2>4 DEF IInv, Places, Rest, Whole
<1>3. CASE ContextStep
  <2>1. ContextTypes' /\ UNCHANGED <<storeVars, handleVars, journal, index, fiberVars, owed, calls>>
    BY <1>1, <1>3, ContextKeeps
  <2>2. Only(RootFiber) /\ Committed
    BY <2>1, StillCommits DEF Only, storeVars, fiberVars
  <2>3. ASSUME NEW g \in Fiber
        PROVE  Whole(g)'
    <3>1. g \in Fiber \ {RootFiber} /\ \A p \in slots' \ slots : p.owner = g => state[g] \in {"Loading", "Active"}
      BY <2>1, OwnerAssumption DEF storeVars
    <3> QED BY <1>1, <2>2, <3>1, OthersKeep
  <2>4. TypeOK' /\ Occupants'
    BY <1>1, <2>1 DEF storeVars, handleVars, fiberVars, IInv, TypeOK, StoreTypes,
                      FiberTypes, Occupants, Held
  <2> QED BY <2>3, <2>4 DEF IInv, Places, Rest, Whole
<1>4. CASE StoreStep
  BY <1>1, <1>4, StoreStepKeeps
<1>5. ASSUME NEW f \in Fiber,
             \/ Spawn(f) \/ Restart(f) \/ Dispose(f) \/ Kick(f) \/ Compute(f)
             \/ TransitionStep(f) \/ TeardownDie(f)
      PROVE  IInv'
  BY <1>1, <1>5, SpawnKeeps, PlainKeeps, TransitionStepKeeps, TeardownDieKeeps, FiberKeeps, Zenon
<1> QED BY <1>1, <1>2, <1>3, <1>4, <1>5
        DEF Next, Callers, Pass, ContextStep, StoreStep, TransitionStep

LEMMA Invariance == Spec => []IInv
BY Initially, Preserved, PTL DEF Spec

-----------------------------------------------------------------------------
(* The theorems *)

\* For any Fibers, names, contracts and realms: what Context::try_service finds
\* in a slot is what the slot's own occurrence wrote, of the one contract of its
\* name, whatever stale capabilities, late cleanups and rivals do.
THEOREM LookupsStayTyped == Spec => []LookupsAreTyped
<1>1. IInv => LookupsAreTyped
  BY DEF IInv, TypeOK, StoreTypes, Occupants, LookupsAreTyped, Held
<1> QED BY <1>1, Invariance, PTL

\* A generation's publications end with it: none is left in a slot once its owner
\* is Pending, Failed or Disposed, and what is left is still owed by a drain.
THEOREM PublicationsEnd == Spec => []NoPublicationOutlivesItsGeneration
<1>1. IInv => NoPublicationOutlivesItsGeneration
  <2>1. SUFFICES ASSUME IInv, NEW p \in slots, p.owner # RootFiber
                 PROVE  state[p.owner] \in {"Loading", "Active", "Unloading"} /\ p \in journal
    BY DEF NoPublicationOutlivesItsGeneration
  <2>2. p.owner \in Fiber
    BY <2>1 DEF IInv, TypeOK, StoreTypes, Held, Publication, Owner
  <2> QED BY <2>1, <2>2 DEF IInv, Occupants, Places, Opened
<1> QED BY <1>1, Invariance, PTL

\* A Fiber at rest with nothing owed has settled the world as it is, in every
\* realm and whatever order changes are committed in: the affected sets miss
\* nobody.
THEOREM RestingIsTruth == Spec => []RestIsTruth
<1>1. IInv => RestIsTruth
  BY DEF IInv, Rest, Current, Parked, Expected, RestIsTruth, AtRest
<1> QED BY <1>1, Invariance, PTL

\* No step takes over the slot of a living owner: only its own handle or its own
\* drain empties it.
THEOREM LivingKeepTheirSlots == Spec => SlotsAreNotStolen
<1>1. IInv /\ [Next]_vars =>
        [\A p \in slots \ slots' :
           \/ ~alive[p.owner]
           \/ p \in handles \ handles'
           \/ p \in journal \ journal']_vars
  <2>1. SUFFICES ASSUME IInv, Next, NEW p \in slots \ slots'
                 PROVE  ~alive[p.owner] \/ p \in handles \ handles' \/ p \in journal \ journal'
    OBVIOUS
  <2>2. CASE \E o \in Owner : Provide(o)
    <3>1. PICK q : Install(q)
      BY <2>2 DEF Provide
    <3>2. ~Duplicate(q.key) /\ p \in In(q.key)
      BY <2>1, <3>1 DEF Install
    <3> QED BY <3>2 DEF Duplicate
  <2>3. CASE \E q \in handles : RemoveExact(q)
    BY <2>1, <2>3 DEF RemoveExact
  <2>4. CASE \E f \in Fiber : Drain(f)
    BY <2>1, <2>4 DEF Drain, WithdrawExact, Owes
  <2>5. CASE UNCHANGED slots
    BY <2>1, <2>5
  <2>6. Next => \/ \E o \in Owner : Provide(o)
                \/ \E q \in handles : RemoveExact(q)
                \/ \E f \in Fiber : Drain(f)
                \/ UNCHANGED slots
    BY DEF Next, Callers, Pass, WithIsolatedService, WithServiceRealms, SetExact, Disarm, Spawn, Restart,
           Dispose, Kick, Compute, Settle, SettlePending, SettleLoading, ApplyOk, ApplyFails, ParkFailure,
           TeardownUnload, TeardownDie, TeardownDisposed, storeVars
  <2> QED BY <2>1, <2>2, <2>3, <2>4, <2>5, <2>6
<1> QED BY <1>1, Invariance, PTL DEF Spec, SlotsAreNotStolen
=============================================================================
