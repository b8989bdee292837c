----------------------------- MODULE EraProofs -----------------------------
(***************************************************************************)
(* Proofs about Era: for any callers and any number of Fibers, eras follow *)
(* one another, the Registry loses nobody, no live Fiber is orphaned and   *)
(* an era passes its convergence barriers only when they are met.          *)
(***************************************************************************)
EXTENDS Era, WellFoundedInduction, FiniteSetTheorems, TLAPS

-----------------------------------------------------------------------------
(* The inductive invariant *)

Place ==
    {"idle", "claim", "join", "teardown", "drain", "unlink", "publish", "next",
     "attach", "install", "register", "initial", "apply", "abort", "handoff",
     "converge", "successor", "final", "offer", "offered", "undelivered", "last"}

Someone == Fiber \cup {Nobody}

Task == [op : Operation \cup {None}, at : Place, fiber : Someone, succ : Someone, freed : Someone,
         frozen : SUBSET Fiber, edges : BOOLEAN, host : Body \cup {None}, attr : SUBSET Body,
         waits : BOOLEAN]

TypeOK ==
    /\ born \in Fiber /\ known \subseteq 1..born /\ origin \in [Fiber -> Someone]
    /\ current \in Someone /\ residents \subseteq Fiber
    /\ group \in [Fiber -> SUBSET Fiber] /\ claim \in [Fiber -> Someone]
    /\ installed \in [Fiber -> BOOLEAN] /\ indexed \subseteq Fiber
    /\ alive \in [Fiber -> BOOLEAN] /\ active \in [Fiber -> BOOLEAN]
    /\ disposing \in [Fiber -> BOOLEAN] /\ complete \in [Fiber -> BOOLEAN]
    /\ slot \in [Fiber -> Caller \cup {None}]
    /\ seal \in [Fiber -> {"home", "leased", "moved"}]
    /\ provider \in Someone /\ owed \in BOOLEAN
    /\ frames \in [Body -> SUBSET Body]
    /\ task \in [Caller -> Task]

\* The way of each operation.
Barrier  == {"teardown", "drain", "unlink", "publish"}
Creating == {"install", "register", "initial", "apply", "abort", "handoff"}
Delivery == {"offer", "offered", "undelivered"}

Way(op, at) ==
    /\ op = None      => at = "idle"
    /\ op = "dispose" => at \in {"claim", "join"} \cup Barrier
    /\ op = "remove"  => at \in {"next", "claim", "join"} \cup Barrier
    /\ op = "spawn"   => at \in {"attach"} \cup Creating
    /\ op = "era"     => at \in {"claim", "converge", "successor", "attach", "final"}
                                  \cup Barrier \cup Creating \cup Delivery
    /\ op = "cleanup" => at \in {"claim", "join", "last"} \cup Barrier

\* Where an operation that creates has no successor yet.
Before == {"claim", "converge", "successor", "attach"} \cup Barrier

Routed(c) ==
    LET t == task[c]
    IN  /\ Way(t.op, t.at)
        /\ t.fiber \in 0..born /\ t.succ \in 0..born
        /\ t.op \in {"dispose", "era"} => t.fiber \in known
        /\ (t.op = "remove" /\ t.at # "next") => t.fiber # Nobody
        /\ t.op = "cleanup" => t.fiber = t.succ
        /\ t.op = "spawn" => t.fiber = Nobody
        /\ t.op \in {None, "dispose", "remove"} => t.succ = Nobody
        /\ (t.op \in {"spawn", "era"} /\ t.at \in Before) => t.succ = Nobody
        /\ (t.at \in Creating \cup Delivery \/ t.op = "cleanup") => t.succ # Nobody

Routes == \A c \in Caller : Routed(c)

\* A number that is not given out has no history.
Unborn(f) ==
    /\ claim[f] = Nobody /\ origin[f] = Nobody /\ current # f /\ provider # f
    /\ alive[f] /\ ~disposing[f] /\ ~complete[f] /\ slot[f] = None /\ seal[f] = "home"

\* Whoever made a Fiber has it alone until its handle is delivered.
Hands ==
    /\ \A f \in Fiber : f > born => Unborn(f)
    /\ \A c \in Caller : task[c].succ \notin known
    /\ \A c, d \in Caller : task[c].succ = task[d].succ /\ task[c].succ # Nobody => c = d
    /\ \A f \in 1..born : alive[f] => f \in known \/ \E c \in Caller : task[c].succ = f

\* What a task has established of the Fiber whose barrier it owns, and of the
\* one it creates.
Owns(c) ==
    LET f == task[c].fiber
        g == task[c].succ
        at == task[c].at
    IN  /\ at \in {"teardown", "drain"} => slot[f] = c
        /\ at \in Barrier => disposing[f]
        /\ at \in {"drain", "unlink", "publish"} => ~alive[f]
        /\ at \in {"unlink", "publish"} => provider # f
        /\ at = "publish" => claim[f] = Nobody
        /\ at \in {"converge", "successor", "last"} => complete[f]
        /\ task[c].op = "era" /\ at = "attach" => complete[f]
        /\ at \in {"apply", "abort"} => slot[g] = c
        /\ at = "apply" => alive[g]
        /\ at = "abort" => ~alive[g] /\ disposing[g]
        /\ at \in {"install", "register", "initial", "apply", "abort"} => provider # g
        /\ at = "register" => installed[g]

Ended(f) == complete[f] => disposing[f] /\ ~alive[f] /\ claim[f] = Nobody /\ provider # f

Barriers == (\A c \in Caller : Owns(c)) /\ (\A f \in Fiber : Ended(f))

\* Claims, memberships and residents are one relation; a removal has the
\* members of what it detached before it.
Removal(c) ==
    LET t == task[c]
    IN  t.op = "remove" =>
          /\ t.freed \in 1..born /\ t.freed # current
          /\ group[t.freed] \subseteq t.frozen \cup {t.fiber} /\ t.frozen \subseteq 1..born
          /\ t.at = "next" => t.fiber = Nobody \/ complete[t.fiber]

Residency ==
    /\ \A f \in Fiber : f \in residents <=> claim[f] # Nobody
    /\ \A f, a \in Fiber : f \in group[a] <=> claim[f] = a
    /\ current # Nobody => group[current] # {}
    /\ \A f \in residents : claim[f] = current \/ disposing[f] \/ Removing(f)
    /\ \A c \in Caller : Removal(c)

Index == \A f \in indexed : alive[f] /\ installed[f]

\* A source is one era's, from its terminal mark on.
Sourcing(c) == task[c].op = "era" /\ task[c].at \in Before \ {"claim"}

Eras ==
    /\ \A f \in Fiber : origin[f] # Nobody => complete[origin[f]]
    /\ \A f, g \in Fiber : origin[f] = origin[g] /\ origin[f] # Nobody => f = g
    /\ \A c \in Caller : Sourcing(c) =>
         /\ disposing[task[c].fiber]
         /\ \A f \in Fiber : origin[f] # task[c].fiber
         /\ task[c].at # "attach" => seal[task[c].fiber] = "home"
    /\ \A c, d \in Caller : Sourcing(c) /\ Sourcing(d) /\ task[c].fiber = task[d].fiber => c = d

Seals ==
    /\ \A f \in Fiber : seal[f] = "moved" => disposing[f]
    /\ \A f \in known : seal[f] # "leased"
    /\ \A c \in Caller : task[c].succ # Nobody /\ task[c].at # "apply" => seal[task[c].succ] # "leased"

\* Dependent's frame is live wherever it is referred to.
Frames ==
    /\ frames[Dependent] \in {{}, {Dependent}}
    /\ \A b \in Body : Dependent \in frames[b] => frames[Dependent] # {}
    /\ \A c \in Caller : Dependent \in task[c].attr => frames[Dependent] # {}

\* A number is left for every creation that is still to attach.
Pending == {c \in Caller : task[c].op \in {"spawn", "era"} /\ task[c].at \in Before}

Numbers == born + Cardinality(Pending) <= MaxFibers

IInv ==
    /\ TypeOK /\ Routes /\ Hands /\ Barriers /\ Residency /\ Index /\ Eras /\ Seals /\ Frames
    /\ Numbers

-----------------------------------------------------------------------------
(* What a step does to the tasks *)

Same(d) ==
    /\ task'[d].op = task[d].op /\ task'[d].at = task[d].at /\ task'[d].fiber = task[d].fiber
    /\ task'[d].succ = task[d].succ /\ task'[d].freed = task[d].freed
    /\ task'[d].frozen = task[d].frozen

Becomes(c, op, at, f, g, freed, frozen) ==
    /\ task'[c].op = op /\ task'[c].at = at /\ task'[c].fiber = f /\ task'[c].succ = g
    /\ task'[c].freed = freed /\ task'[c].frozen = frozen
    /\ \A d \in Caller \ {c} : Same(d)

\* c goes on from where it is.
Goes(c, at) ==
    Becomes(c, task[c].op, at, task[c].fiber, task[c].succ, task[c].freed, task[c].frozen)

Ends(c) == Becomes(c, None, "idle", Nobody, Nobody, Nobody, {})

\* Nobody is attributed to more.
Detached == task' \in [Caller -> Task] /\ \A d \in Caller : task'[d].attr \subseteq task[d].attr

LEMMA GotoGoes ==
    ASSUME TypeOK, NEW c \in Caller, NEW at \in Place, Goto(c, at)
    PROVE  Goes(c, at) /\ Detached
<1>1. task \in [Caller -> Task] /\ task' = [task EXCEPT ![c].at = at]
  BY DEF TypeOK, Goto
<1>2. \A d \in Caller : d # c => task'[d] = task[d]
  BY <1>1
<1>3. task'[c] = [task[c] EXCEPT !.at = at] /\ task[c] \in Task
  BY <1>1
<1>4. task'[c] \in Task
  BY <1>3 DEF Task
<1>5. task' \in [Caller -> Task]
  BY <1>1, <1>4
<1> QED BY <1>2, <1>3, <1>5 DEF Goes, Becomes, Same, Detached, Task

LEMMA RestingType == Resting \in Task
BY DEF Resting, Task, Someone, Place

LEMMA EndEnds ==
    ASSUME TypeOK, NEW c \in Caller, End(c)
    PROVE  Ends(c) /\ Detached
<1>1. task \in [Caller -> Task] /\ task' = [task EXCEPT ![c] = Resting]
  BY DEF TypeOK, End
<1>2. \A d \in Caller : d # c => task'[d] = task[d]
  BY <1>1
<1>3. task'[c] = Resting /\ Resting \in Task
  BY <1>1, RestingType
<1>4. task' \in [Caller -> Task]
  BY <1>1, <1>3
<1> QED BY <1>2, <1>3, <1>4 DEF Ends, Becomes, Same, Detached, Resting

\* The frame that is left stops refusing in every copy of it.
LEMMA LeftKeeps ==
    ASSUME TypeOK, NEW b, NEW d \in Caller
    PROVE  /\ Left(b)[d] \in Task /\ Left(b)[d].attr = task[d].attr \ {b}
           /\ Left(b)[d].op = task[d].op /\ Left(b)[d].at = task[d].at
           /\ Left(b)[d].fiber = task[d].fiber /\ Left(b)[d].succ = task[d].succ
           /\ Left(b)[d].freed = task[d].freed /\ Left(b)[d].frozen = task[d].frozen
<1>1. task[d] \in Task
  BY DEF TypeOK
<1>2. Left(b)[d] = [task[d] EXCEPT !.attr = @ \ {b}, !.host = IF @ = b THEN None ELSE @]
  BY DEF Left
<1>3. PICK h \in Body \cup {None} : Left(b)[d] = [task[d] EXCEPT !.attr = @ \ {b}, !.host = h]
  BY <1>1, <1>2 DEF Task
<1> QED BY <1>1, <1>3 DEF Task

LEMMA LeftGoes ==
    ASSUME TypeOK, NEW c \in Caller, NEW at \in Place, NEW b, task' = [Left(b) EXCEPT ![c].at = at]
    PROVE  /\ Goes(c, at) /\ Detached
           /\ \A d \in Caller : b \notin task'[d].attr
<1>1. \A d \in Caller : d # c => task'[d] = Left(b)[d]
  BY DEF Left
<1>2. task'[c] = [Left(b)[c] EXCEPT !.at = at]
  BY DEF Left
<1>3. /\ task'[c] \in Task /\ task'[c].attr = task[c].attr \ {b}
      /\ task'[c].op = task[c].op /\ task'[c].at = at
      /\ task'[c].fiber = task[c].fiber /\ task'[c].succ = task[c].succ
      /\ task'[c].freed = task[c].freed /\ task'[c].frozen = task[c].frozen
  BY <1>2, LeftKeeps DEF Task
<1>4. task' \in [Caller -> Task]
  BY <1>1, <1>3, LeftKeeps DEF Left
<1>5. Goes(c, at)
  BY <1>1, <1>3, LeftKeeps DEF Goes, Becomes, Same
<1>6. \A d \in Caller : task'[d].attr = task[d].attr \ {b}
  BY <1>1, <1>3, LeftKeeps
<1> QED BY <1>4, <1>5, <1>6 DEF Detached

LEMMA StartedType ==
    ASSUME TypeOK, NEW op \in Operation, NEW at \in Place, NEW f \in Someone, NEW h \in Body \cup {None}
    PROVE  Started(op, at, f, h) \in Task
<1>1. Attribution(h) \in SUBSET Body
  BY DEF Attribution, TypeOK
<1> QED BY <1>1 DEF Started, Resting, Task, Someone

-----------------------------------------------------------------------------
(* Parts that most steps leave alone *)

LEMMA NumbersKeep ==
    ASSUME IInv, born' = born, Pending' \subseteq Pending
    PROVE  Numbers'
<1>1. IsFiniteSet(Pending) /\ IsFiniteSet(Pending')
  BY CallerAssumption, FS_Subset DEF Pending
<1>2. Cardinality(Pending') <= Cardinality(Pending)
  BY <1>1, FS_Subset
<1>3. Cardinality(Pending) \in Nat /\ Cardinality(Pending') \in Nat
  BY <1>1, FS_CardinalityType
<1>4. Cardinality(Pending)' = Cardinality(Pending')
  OBVIOUS
<1> QED BY <1>2, <1>3, <1>4, BoundAssumption DEF IInv, Numbers, TypeOK, Fiber

LEMMA FramesKeep ==
    ASSUME IInv, UNCHANGED frames, Detached
    PROVE  Frames'
BY DEF IInv, Frames, Detached

LEMMA NotPending ==
    ASSUME NEW c, \A d \in Caller \ {c} : Same(d),
           c \in Caller /\ task'[c].op \in {"spawn", "era"} /\ task'[c].at \in Before => c \in Pending
    PROVE  Pending' \subseteq Pending
BY DEF Pending, Same

\* What the steps of c guarantee to the other tasks.
Steady(c) ==
    /\ born' \in Fiber /\ born <= born' /\ known \subseteq known'
    /\ \A d \in Caller \ {c} : Same(d)
    /\ \A x \in Fiber :
         /\ disposing[x] => disposing'[x]
         /\ complete[x] => complete'[x]
         /\ installed[x] => installed'[x]
         /\ alive'[x] => alive[x]
         /\ (x <= born /\ claim[x] = Nobody) => claim'[x] = Nobody
         /\ \A d \in Caller \ {c} : slot[x] = d => slot'[x] = d /\ alive'[x] = alive[x]
    /\ \/ provider' \in {provider, Nobody}
       \/ provider' \in Fiber /\ alive[provider'] /\ provider' \in known
       \/ provider' \in Fiber /\ alive[provider'] /\ c \in Caller /\ provider' = task[c].succ

LEMMA RoutesKeep ==
    ASSUME IInv, NEW c, Steady(c), c \in Caller => Routed(c)'
    PROVE  Routes'
<1>1. ASSUME NEW d \in Caller, d # c
      PROVE  Routed(d)'
  <2>1. Same(d) /\ Routed(d)
    BY <1>1 DEF Steady, IInv, Routes
  <2>2. task[d].fiber \in 0..born' /\ task[d].succ \in 0..born'
    BY <2>1 DEF Routed, Steady, IInv, TypeOK, Fiber
  <2> QED BY <2>1, <2>2 DEF Routed, Same, Steady, Way
<1> QED BY <1>1 DEF Routes

LEMMA BarriersKeep ==
    ASSUME IInv, NEW c, Steady(c), c \in Caller => Owns(c)',
           \A x \in Fiber : complete'[x] /\ ~complete[x] => Ended(x)'
    PROVE  Barriers'
<1>1. ASSUME NEW d \in Caller, d # c
      PROVE  Owns(d)'
  <2>1. Same(d) /\ Owns(d) /\ Routed(d) /\ task[d].fiber \in 0..born /\ task[d].succ \in 0..born
    BY <1>1 DEF Steady, IInv, Routes, Barriers, Routed
  <2>2. /\ task[d].at \in Barrier \cup {"converge", "successor", "last"} => task[d].fiber # Nobody
        /\ task[d].op = "era" => task[d].fiber # Nobody
        /\ task[d].at \in Creating => task[d].succ # Nobody
    BY <2>1 DEF Routed, Way, Barrier, Creating, Delivery, IInv, TypeOK, Operation, Task, Nobody
  <2>3. task[d].fiber # Nobody => task[d].fiber \in Fiber /\ task[d].fiber <= born
    BY <2>1, BoundAssumption DEF IInv, TypeOK, Fiber, Nobody
  <2>4. task[d].succ # Nobody => task[d].succ \in Fiber /\ task[d].succ <= born
    BY <2>1, BoundAssumption DEF IInv, TypeOK, Fiber, Nobody
  <2>5. ASSUME NEW x \in Fiber, ~alive[x], provider # x
        PROVE  provider' # x
    BY <2>5 DEF Steady, Fiber, Nobody
  <2>6. ASSUME task[d].succ # Nobody, provider # task[d].succ
        PROVE  provider' # task[d].succ
    <3>1. task[d].succ \notin known
      BY DEF IInv, Hands
    <3>2. c \in Caller => task[c].succ # task[d].succ
      BY <1>1, <2>6 DEF IInv, Hands
    <3> QED BY <2>4, <2>6, <3>1, <3>2 DEF Steady
  <2> DEFINE f == task[d].fiber
             g == task[d].succ
             at == task[d].at
  <2>7. /\ at \in {"teardown", "drain"} => slot'[f] = d
        /\ at \in Barrier => disposing'[f]
        /\ at \in {"drain", "unlink", "publish"} => ~alive'[f]
        /\ at \in {"unlink", "publish"} => provider' # f
        /\ at = "publish" => claim'[f] = Nobody
    BY <1>1, <2>1, <2>2, <2>3, <2>5 DEF Owns, Steady, Barrier
  <2>8. /\ at \in {"converge", "successor", "last"} => complete'[f]
        /\ task[d].op = "era" /\ at = "attach" => complete'[f]
    BY <2>1, <2>2, <2>3 DEF Owns, Steady
  <2>9. /\ at \in {"apply", "abort"} => slot'[g] = d
        /\ at = "apply" => alive'[g]
        /\ at = "abort" => ~alive'[g] /\ disposing'[g]
        /\ at \in {"install", "register", "initial", "apply", "abort"} => provider' # g
        /\ at = "register" => installed'[g]
    BY <1>1, <2>1, <2>2, <2>4, <2>6 DEF Owns, Steady, Creating
  <2> QED BY <2>1, <2>7, <2>8, <2>9 DEF Owns, Same
<1>2. ASSUME NEW x \in Fiber
      PROVE  Ended(x)'
  <2>1. complete[x] => x <= born
    BY DEF IInv, Hands, Unborn, TypeOK, Fiber
  <2>2. complete[x] => provider' # x
    BY DEF Ended, Steady, IInv, Barriers, Fiber, Nobody
  <2> QED BY <2>1, <2>2 DEF Ended, Steady, IInv, Barriers
<1> QED BY <1>1, <1>2 DEF Barriers

\* Unless a handle changes hands.
LEMMA HandsKeep ==
    ASSUME IInv, NEW c, Steady(c), UNCHANGED <<born, known>>,
           \A x \in Fiber : x > born => Unborn(x)',
           c \in Caller => \/ task'[c].succ = task[c].succ
                           \/ task'[c].succ = Nobody /\ (task[c].succ # Nobody => ~alive'[task[c].succ])
    PROVE  Hands'
<1>1. Nobody \notin known
  BY DEF IInv, TypeOK, Nobody
<1>2. \A d \in Caller : task'[d].succ \in {task[d].succ, Nobody}
  BY DEF Steady, Same
<1>3. ASSUME NEW f \in 1..born', alive'[f]
      PROVE  f \in known' \/ \E d \in Caller : task'[d].succ = f
  <2>1. f \in 1..born /\ f \in Fiber /\ alive[f] /\ f # Nobody
    BY <1>3, BoundAssumption DEF Steady, IInv, TypeOK, Fiber, Nobody
  <2>2. CASE f \in known
    BY <2>2
  <2>3. CASE f \notin known
    <3>1. PICK d \in Caller : task[d].succ = f
      BY <2>1, <2>3 DEF IInv, Hands
    <3>2. task'[d].succ = f
      BY <1>3, <2>1, <3>1 DEF Steady, Same
    <3> QED BY <3>2
  <2> QED BY <2>2, <2>3
<1> QED BY <1>1, <1>2, <1>3 DEF IInv, Hands

\* Unless the Registry changes or a removal goes on.
LEMMA ResidencyKeep ==
    ASSUME IInv, NEW c, Steady(c), UNCHANGED <<registryVars, born>>,
           c \in Caller /\ task[c].op = "remove" =>
             /\ task'[c].op = "remove" /\ task'[c].fiber = task[c].fiber
             /\ task'[c].frozen = task[c].frozen /\ task'[c].freed = task[c].freed
             /\ task'[c].at = "next" => task[c].at = "next" \/ complete'[task[c].fiber],
           c \in Caller /\ task[c].op # "remove" => task'[c].op # "remove"
    PROVE  Residency'
<1>1. UNCHANGED <<current, group, residents, claim>>
  BY DEF registryVars
<1>2. ASSUME NEW d \in Caller
      PROVE  /\ task'[d].op = "remove" <=> task[d].op = "remove"
             /\ task[d].op = "remove" =>
                  /\ task'[d].fiber = task[d].fiber /\ task'[d].frozen = task[d].frozen
                  /\ task'[d].freed = task[d].freed
                  /\ task'[d].at = "next" => task[d].at = "next" \/ complete'[task[d].fiber]
  BY DEF Steady, Same
<1>3. \A d \in Caller : Removal(d)'
  <2>1. SUFFICES ASSUME NEW d \in Caller, task[d].op = "remove"
                 PROVE  Removal(d)'
    BY <1>2 DEF Removal
  <2>2. Removal(d) /\ task[d].fiber \in Someone
    BY <2>1 DEF IInv, Residency, TypeOK, Task
  <2>3. task'[d].at = "next" => task[d].fiber = Nobody \/ complete'[task[d].fiber]
    BY <1>2, <2>1, <2>2 DEF Removal, Steady, Someone
  <2> QED BY <1>1, <1>2, <2>1, <2>2, <2>3 DEF Removal
<1>4. \A f \in Fiber : Removing(f) => Removing(f)'
  BY <1>2 DEF Removing
<1>5. \A f \in residents : f \in Fiber
  BY DEF IInv, TypeOK
<1> QED BY <1>1, <1>3, <1>4, <1>5 DEF Residency, IInv, Steady

LEMMA IndexKeep ==
    ASSUME IInv, NEW c, Steady(c), indexed' \subseteq indexed, \A x \in indexed' : alive'[x] = alive[x]
    PROVE  Index'
BY DEF Index, IInv, Steady, TypeOK

\* Unless an era passes its claim or attaches.
LEMMA ErasKeep ==
    ASSUME IInv, NEW c, Steady(c), UNCHANGED origin,
           \A x \in Fiber : seal'[x] # seal[x] =>
             \A d \in Caller \ {c} : Sourcing(d) => task[d].fiber # x,
           c \in Caller /\ Sourcing(c)' =>
             /\ Sourcing(c) /\ task'[c].fiber = task[c].fiber
             /\ task'[c].at # "attach" => task[c].at # "attach" /\ seal'[task[c].fiber] = seal[task[c].fiber]
    PROVE  Eras'
<1>1. \A f \in Fiber : origin[f] \in Someone
  BY DEF IInv, TypeOK
<1>2. ASSUME NEW d \in Caller, Sourcing(d)'
      PROVE  /\ Sourcing(d) /\ task'[d].fiber = task[d].fiber /\ task[d].fiber \in Fiber
             /\ task'[d].at # "attach" => task[d].at # "attach" /\ seal'[task[d].fiber] = seal[task[d].fiber]
  <2>1. Sourcing(d) => task[d].fiber \in Fiber
    BY BoundAssumption DEF Sourcing, IInv, Routes, Routed, TypeOK, Fiber
  <2> QED BY <1>2, <2>1 DEF Steady, Same, Sourcing
<1>3. \A f \in Fiber : origin'[f] # Nobody => complete'[origin'[f]]
  BY <1>1 DEF IInv, Eras, Steady, Someone
<1>4. \A d \in Caller : Sourcing(d)' =>
         /\ disposing'[task'[d].fiber]
         /\ \A f \in Fiber : origin'[f] # task'[d].fiber
         /\ task'[d].at # "attach" => seal'[task'[d].fiber] = "home"
  BY <1>2 DEF IInv, Eras, Steady
<1>5. \A d, e \in Caller : Sourcing(d)' /\ Sourcing(e)' /\ task'[d].fiber = task'[e].fiber => d = e
  BY <1>2 DEF IInv, Eras
<1> QED BY <1>3, <1>4, <1>5 DEF IInv, Eras

LEMMA SealsKeep ==
    ASSUME IInv, NEW c, Steady(c), UNCHANGED <<seal, known>>,
           c \in Caller /\ task'[c].succ # Nobody /\ task'[c].at # "apply" =>
             task'[c].succ = task[c].succ /\ task[c].at # "apply"
    PROVE  Seals'
<1>1. known \subseteq Fiber
  BY BoundAssumption DEF IInv, TypeOK, Fiber
<1> QED BY <1>1 DEF IInv, Seals, Steady, Same

\* What is known of a task wherever it is.
LEMMA Facts ==
    ASSUME IInv, NEW c \in Caller
    PROVE  /\ TypeOK /\ Routed(c) /\ Owns(c) /\ Removal(c) /\ c # None /\ task[c] \in Task
           /\ born \in Nat /\ born >= 1 /\ known \subseteq Fiber /\ Nobody \notin known /\ 1..born \subseteq Fiber
           /\ task[c].fiber # Nobody => task[c].fiber \in Fiber /\ task[c].fiber \in 1..born
           /\ task[c].succ # Nobody => task[c].succ \in Fiber /\ task[c].succ \in 1..born
<1>1. TypeOK /\ Routed(c) /\ Owns(c) /\ Removal(c) /\ task[c] \in Task
  BY DEF IInv, Routes, Barriers, Residency, TypeOK
<1>2. c # None
  BY CallerAssumption
<1>3. born \in Nat /\ born >= 1 /\ known \subseteq Fiber /\ Nobody \notin known /\ 1..born \subseteq Fiber
  BY <1>1, BoundAssumption DEF TypeOK, Fiber, Nobody
<1>4. task[c].fiber \in 0..born /\ task[c].succ \in 0..born
  BY <1>1 DEF Routed
<1> QED BY <1>1, <1>2, <1>3, <1>4 DEF Nobody

-----------------------------------------------------------------------------
(* Steps that change nothing but their own task *)

Still == UNCHANGED <<registryVars, fiberVars, lineVars, provider>>

LEMMA StillSteady ==
    ASSUME IInv, NEW c, Still, \A d \in Caller \ {c} : Same(d)
    PROVE  Steady(c) /\ \A x \in Fiber : x > born => Unborn(x)'
<1>1. /\ UNCHANGED <<born, known, origin, current, claim, installed, alive, disposing, complete, slot, seal, provider>>
      /\ born \in Fiber
  BY DEF Still, registryVars, fiberVars, lineVars, IInv, TypeOK
<1>2. Steady(c)
  BY <1>1 DEF Steady, Fiber
<1>3. \A x \in Fiber : x > born => Unborn(x)'
  BY <1>1 DEF Unborn, IInv, Hands
<1> QED BY <1>2, <1>3

LEMMA StillKeeps ==
    ASSUME IInv, NEW c \in Caller, Still, \A d \in Caller \ {c} : Same(d),
           task' \in [Caller -> Task], owed' \in BOOLEAN, frames' \in [Body -> SUBSET Body], Frames',
           Routed(c)', Owns(c)', Residency', Numbers',
           \/ task'[c].succ = task[c].succ
           \/ task'[c].succ = Nobody /\ (task[c].succ # Nobody => ~alive[task[c].succ]),
           Sourcing(c)' => /\ Sourcing(c) /\ task'[c].fiber = task[c].fiber
                           /\ task'[c].at # "attach" => task[c].at # "attach",
           task[c].at = "apply" => task'[c].at = "apply"
    PROVE  IInv'
<1>1. /\ UNCHANGED <<born, known, origin, current, group, residents, claim, installed, indexed, alive, active,
                     disposing, complete, slot, seal, provider>>
  BY DEF Still, registryVars, fiberVars, lineVars
<1>2. Steady(c) /\ \A x \in Fiber : x > born => Unborn(x)'
  BY StillSteady
<1>3. TypeOK'
  BY <1>1 DEF IInv, TypeOK
<1>4. Routes'
  BY <1>2, RoutesKeep
<1>5. Barriers'
  BY <1>1, <1>2, BarriersKeep
<1>6. Hands'
  BY <1>1, <1>2, HandsKeep
<1>7. Index' /\ Seals'
  BY <1>1, <1>2, IndexKeep, SealsKeep
<1>8. Eras'
  BY <1>1, <1>2, ErasKeep
<1> QED BY <1>3, <1>4, <1>5, <1>6, <1>7, <1>8 DEF IInv

\* A task goes on.
LEMMA StillGoes ==
    ASSUME IInv, NEW c \in Caller, Still, UNCHANGED <<frames, owed>>,
           NEW at \in Place, Goto(c, at), task[c].op \in Operation, Way(task[c].op, at), Owns(c)',
           task[c].op \in {"spawn", "era"} /\ at \in Before => task[c].at \in Before,
           task[c].op = "era" /\ at \in Before \ {"claim"} => task[c].at \in Before \ {"claim"},
           at # "attach" => task[c].at # "attach",
           at \in Creating \cup Delivery => task[c].succ # Nobody,
           task[c].op = "remove" => (IF at = "next" THEN complete[task[c].fiber] ELSE task[c].fiber # Nobody),
           task[c].at # "apply"
    PROVE  IInv'
<1>1. /\ TypeOK /\ Routed(c) /\ Owns(c) /\ c # None /\ task[c] \in Task
  BY Facts
<1>2. Goes(c, at) /\ Detached
  BY <1>1, GotoGoes
<1>3. None \notin Operation
  BY CallerAssumption
<1>4. Routed(c)'
  BY <1>1, <1>2, <1>3 DEF Routed, Goes, Becomes, Still, lineVars
<1>5. complete' = complete /\ born' = born
  BY DEF Still, fiberVars, lineVars
<1>6. Residency'
  BY <1>2, <1>5, StillSteady, ResidencyKeep DEF Goes, Becomes, Still, lineVars
<1>7. Numbers'
  BY <1>2, <1>5, NotPending, NumbersKeep DEF Goes, Becomes, Pending
<1> QED
  BY <1>1, <1>2, <1>4, <1>6, <1>7, FramesKeep, StillKeeps DEF Goes, Becomes, Detached, Sourcing, TypeOK

\* A task that has nothing in hand ends.
LEMMA StillEnds ==
    ASSUME IInv, NEW c \in Caller, Still, UNCHANGED <<frames, owed>>, End(c),
           task[c].succ # Nobody => ~alive[task[c].succ],
           task[c].op = "remove" => task[c].at = "next" /\ task[c].frozen = {},
           task[c].at # "apply"
    PROVE  IInv'
<1>1. /\ TypeOK /\ Routed(c) /\ Owns(c) /\ Removal(c) /\ c # None /\ task[c] \in Task /\ born \in Nat
      /\ (task[c].fiber # Nobody => task[c].fiber \in Fiber)
  BY Facts
<1>2. Ends(c) /\ Detached
  BY <1>1, EndEnds
<1>3. None \notin Operation
  BY CallerAssumption
<1>4. Routed(c)'
  BY <1>1, <1>2, <1>3 DEF Routed, Way, Ends, Becomes, Still, lineVars, Nobody, Operation, Before, Barrier, Creating,
     Delivery
<1>5. Owns(c)'
  BY <1>2, <1>3 DEF Owns, Ends, Becomes, Operation, Barrier
<1>6. UNCHANGED <<current, group, residents, claim, born, disposing, complete>>
  BY DEF Still, fiberVars, lineVars, registryVars
<1>7. Residency'
  <2>1. \A d \in Caller : task'[d].op = "remove" => d # c /\ Same(d)
    BY <1>2, <1>3 DEF Ends, Becomes, Operation
  <2>2. \A d \in Caller : Removal(d)'
    BY <1>6, <2>1 DEF Removal, Same, IInv, Residency
  <2>3. ASSUME NEW f \in residents, Removing(f)
        PROVE  Removing(f)'
    <3>1. claim[f] # Nobody /\ f \in Fiber
      BY DEF IInv, TypeOK, Residency
    <3>2. ~complete[f] /\ f # Nobody
      BY <3>1 DEF IInv, Barriers, Ended, Fiber, Nobody
    <3>3. PICK d \in Caller : task[d].op = "remove" /\ (f \in task[d].frozen \/ task[d].fiber = f)
      BY <2>3 DEF Removing
    <3>4. d # c
      BY <1>1, <3>2, <3>3 DEF Removal
    <3> QED BY <1>2, <3>3, <3>4 DEF Removing, Ends, Becomes, Same
  <2> QED BY <1>6, <2>2, <2>3 DEF IInv, Residency
<1>8. Numbers'
  BY <1>2, <1>3, <1>6, NotPending, NumbersKeep DEF Ends, Becomes, Operation
<1> QED
  BY <1>1, <1>2, <1>3, <1>4, <1>5, <1>7, <1>8, FramesKeep, StillKeeps
     DEF Ends, Becomes, Detached, Sourcing, TypeOK, Operation

ConvergeStep(c) == ConvergeEntry(c) \/ ConvergeFinal(c) \/ Offer(c) \/ ConvergeLast(c)

LEMMA ConvergeKeeps ==
    ASSUME IInv, NEW c \in Caller, ConvergeStep(c)
    PROVE  IInv'
<1>1. Still /\ UNCHANGED <<frames, owed>>
  BY DEF ConvergeStep, ConvergeEntry, ConvergeFinal, Offer, ConvergeLast, Still
<1>2. /\ TypeOK /\ Routed(c) /\ Owns(c) /\ c # None /\ task[c] \in Task
      /\ task[c].succ # Nobody => task[c].succ \in Fiber
  BY Facts
<1> USE DEF Routed, Way, Operation, Barrier, Creating, Delivery, Before, Place
<1>3. complete' = complete
  BY <1>1 DEF Still, fiberVars
<1>4. CASE ConvergeEntry(c)
  <2>1. task[c].at = "converge" /\ Goto(c, "successor") /\ task[c].op = "era"
    BY <1>2, <1>4 DEF ConvergeEntry, Task
  <2>2. Owns(c)'
    BY <1>2, <1>3, <2>1, GotoGoes DEF Owns, Goes, Becomes
  <2> QED BY <1>1, <1>2, <2>1, <2>2, StillGoes
<1>5. CASE ConvergeFinal(c)
  <2>1. task[c].at = "final" /\ task[c].op = "era"
    BY <1>2, <1>5 DEF ConvergeFinal, Task
  <2>2. CASE Incomplete(c)
    BY <1>1, <1>5, <2>1, <2>2, StillEnds DEF ConvergeFinal, Incomplete
  <2>3. CASE ~Incomplete(c)
    <3>1. Goto(c, "offer") /\ task[c].succ # Nobody
      BY <1>5, <2>3 DEF ConvergeFinal, Incomplete
    <3>2. Owns(c)'
      BY <1>2, <3>1, GotoGoes DEF Owns, Goes, Becomes
    <3> QED BY <1>1, <1>2, <2>1, <3>1, <3>2, StillGoes
  <2> QED BY <2>2, <2>3
<1>6. CASE Offer(c)
  <2>1. PICK at \in {"offered", "undelivered"} : Goto(c, at) /\ task[c].at = "offer" /\ task[c].op = "era"
    BY <1>2, <1>6 DEF Offer, Task
  <2>2. Owns(c)' /\ task[c].succ # Nobody
    BY <1>2, <2>1, GotoGoes DEF Owns, Goes, Becomes
  <2> QED BY <1>1, <1>2, <2>1, <2>2, StillGoes
<1>7. CASE ConvergeLast(c)
  <2>1. task[c].at = "last" /\ task[c].op = "cleanup" /\ task[c].fiber = task[c].succ
    BY <1>2, <1>7 DEF ConvergeLast, Task
  <2>2. complete[task[c].succ] /\ task[c].succ # Nobody
    BY <1>2, <2>1 DEF Owns
  <2>3. ~alive[task[c].succ]
    BY <1>2, <2>2 DEF IInv, Barriers, Ended
  <2> QED BY <1>1, <1>7, <2>1, <2>3, StillEnds DEF ConvergeLast
<1> QED BY <1>4, <1>5, <1>6, <1>7 DEF ConvergeStep

\* Joining a barrier that is complete.
LEMMA AfterBarrierKeeps ==
    ASSUME IInv, NEW c \in Caller, Still, UNCHANGED <<frames, owed>>, AfterBarrier(c),
           task[c].at \in {"claim", "join"}, task[c].op # "era", complete[task[c].fiber]
    PROVE  IInv'
<1>1. /\ TypeOK /\ Routed(c) /\ Owns(c) /\ c # None /\ task[c] \in Task
  BY Facts
<1> USE DEF Routed, Way, Operation, Barrier, Creating, Delivery, Before, Place
<1>2. task[c].op \in {"dispose", "remove", "cleanup"}
  BY <1>1 DEF Task
<1>3. complete' = complete
  BY DEF Still, fiberVars
<1>4. CASE task[c].op = "dispose"
  BY <1>1, <1>4, StillEnds DEF AfterBarrier
<1>5. CASE task[c].op = "remove"
  <2>1. Goto(c, "next")
    BY <1>5 DEF AfterBarrier
  <2>2. Owns(c)'
    BY <1>1, <2>1, GotoGoes DEF Owns, Goes, Becomes
  <2> QED BY <1>1, <1>5, <2>1, <2>2, StillGoes
<1>6. CASE task[c].op = "cleanup"
  <2>1. Goto(c, "last")
    BY <1>6 DEF AfterBarrier
  <2>2. Owns(c)'
    BY <1>1, <1>3, <2>1, GotoGoes DEF Owns, Goes, Becomes
  <2> QED BY <1>1, <1>6, <2>1, <2>2, StillGoes
<1> QED BY <1>2, <1>4, <1>5, <1>6

LEMMA JoinKeeps ==
    ASSUME IInv, NEW c \in Caller, Join(c)
    PROVE  IInv'
<1>1. Still /\ UNCHANGED <<frames, owed>> /\ AfterBarrier(c) /\ task[c].at = "join" /\ complete[task[c].fiber]
  BY DEF Join, Still
<1>2. Routed(c) /\ task[c].op # "era"
  BY <1>1, Facts DEF Routed, Way, Barrier, Creating, Delivery
<1> QED BY <1>1, <1>2, AfterBarrierKeeps

\* EraHandoffGuard::drop.
LEMMA UndeliveredKeeps ==
    ASSUME IInv, NEW c \in Caller, Undelivered(c)
    PROVE  IInv'
<1>1. Still /\ UNCHANGED <<frames, owed>> /\ task[c].at = "undelivered"
  BY DEF Undelivered, Still
<1>2. /\ TypeOK /\ Routed(c) /\ Owns(c) /\ c # None /\ task[c] \in Task
      /\ task[c].succ # Nobody => task[c].succ \in Fiber
  BY Facts
<1> USE DEF Routed, Way, Operation, Barrier, Creating, Delivery, Before, Place
<1>3. task[c].op = "era" /\ task[c].succ # Nobody
  BY <1>1, <1>2 DEF Task
<1> DEFINE g  == task[c].succ
           at == IF complete[g] THEN "last" ELSE "claim"
<1>4. /\ task \in [Caller -> Task]
      /\ task' = [task EXCEPT ![c] = [task[c] EXCEPT !.op = "cleanup", !.fiber = g,
                                                     !.edges = @ \/ provider = g, !.at = at]]
  BY <1>2 DEF Undelivered, TypeOK
<1>5. [task[c] EXCEPT !.op = "cleanup", !.fiber = g, !.edges = @ \/ provider = g, !.at = at] \in Task
  BY <1>2 DEF Task
<1>6. /\ Becomes(c, "cleanup", at, g, g, task[c].freed, task[c].frozen) /\ Detached
  <2>1. PICK u \in Task :
          u = [task[c] EXCEPT !.op = "cleanup", !.fiber = g, !.edges = @ \/ provider = g, !.at = at]
    BY <1>5
  <2>2. task' = [task EXCEPT ![c] = u]
    BY <1>4, <2>1
  <2>3. /\ u.op = "cleanup" /\ u.at = at /\ u.fiber = g /\ u.succ = g
        /\ u.freed = task[c].freed /\ u.frozen = task[c].frozen /\ u.attr = task[c].attr
    BY <1>2, <2>1 DEF Task
  <2>4. task'[c] = u /\ \A d \in Caller \ {c} : task'[d] = task[d]
    BY <1>4, <2>2
  <2>5. task' \in [Caller -> Task]
    BY <1>4, <2>2
  <2> QED BY <2>3, <2>4, <2>5 DEF Becomes, Same, Detached
<1>7. Routed(c)'
  BY <1>1, <1>2, <1>3, <1>6, CallerAssumption DEF Becomes, Still, lineVars
<1>8. Owns(c)'
  BY <1>1, <1>6 DEF Owns, Becomes, Still, fiberVars
<1>9. Residency'
  BY <1>1, <1>3, <1>6, StillSteady, ResidencyKeep DEF Becomes, Still, lineVars
<1>10. Numbers'
  BY <1>1, <1>6, NotPending, NumbersKeep DEF Becomes, Still, lineVars
<1> QED
  BY <1>1, <1>2, <1>6, <1>7, <1>8, <1>9, <1>10, FramesKeep, StillKeeps
     DEF Becomes, Detached, Sourcing, TypeOK

\* A call names Fibers whose handles were delivered, and starts from the frames
\* its host runs under.
LEMMA StartFrames ==
    ASSUME IInv, NEW c \in Caller, NEW h \in Host(c), UNCHANGED frames,
           task'[c].attr = Attribution(h), \A d \in Caller \ {c} : task'[d].attr = task[d].attr
    PROVE  Frames'
<1>1. h \in {None} \cup Body
  BY DEF Host
<1>2. Dependent \in Attribution(h) => frames[Dependent] # {}
  BY <1>1 DEF Attribution, IInv, Frames
<1> QED BY <1>2 DEF IInv, Frames

\* A number is left for one creation more.
LEMMA RoomIsKept ==
    ASSUME IInv, NEW c \in Caller, Room, born' = born, Pending' \subseteq Pending \cup {c}
    PROVE  Numbers'
<1> DEFINE P == {d \in Caller : task[d].op \in {"spawn", "era"} /\ task[d].succ = Nobody}
<1>1. Pending \subseteq P
  BY DEF Pending, IInv, Routes, Routed
<1>2. IsFiniteSet(P) /\ IsFiniteSet(Pending') /\ IsFiniteSet(P \cup {c})
  BY CallerAssumption, FS_Subset, FS_AddElement DEF Pending
<1>5. born + Cardinality(P) < MaxFibers
  BY DEF Room
<1> HIDE DEF P
<1>3. /\ Cardinality(P) \in Nat /\ Cardinality(Pending') \in Nat
      /\ Cardinality(P \cup {c}) <= Cardinality(P) + 1 /\ Cardinality(P \cup {c}) \in Nat
  <2>1. Cardinality(P) \in Nat /\ Cardinality(Pending') \in Nat /\ Cardinality(P \cup {c}) \in Nat
    BY <1>2, FS_CardinalityType
  <2>2. Cardinality(P \cup {c}) = IF c \in P THEN Cardinality(P) ELSE Cardinality(P) + 1
    BY <1>2, FS_AddElement
  <2> QED BY <2>1, <2>2
<1>4. Cardinality(Pending') <= Cardinality(P \cup {c})
  BY <1>1, <1>2, FS_Subset
<1>6. Cardinality(Pending)' = Cardinality(Pending')
  OBVIOUS
<1> QED BY <1>3, <1>4, <1>5, <1>6, BoundAssumption DEF Numbers, IInv, TypeOK, Fiber

StartStep(c) == Dispose(c) \/ EraSwap(c) \/ Spawn(c)

LEMMA StartKeeps ==
    ASSUME IInv, NEW c \in Caller, StartStep(c)
    PROVE  IInv'
<1>1. Still /\ UNCHANGED <<frames, owed>> /\ task[c].at = "idle"
  BY DEF StartStep, Dispose, EraSwap, Spawn, Called, Still
<1>2. /\ TypeOK /\ Routed(c) /\ Owns(c) /\ c # None /\ task[c] \in Task
      /\ known \subseteq Fiber /\ Nobody \notin known /\ born \in Nat
  BY Facts
<1>3. task[c].op = None /\ task[c].succ = Nobody
  BY <1>1, <1>2, CallerAssumption
     DEF Task, Routed, Way, Operation, Barrier, Creating, Delivery, Before
<1>4. PICK op \in {"dispose", "era", "spawn"}, h \in Host(c), f \in known \cup {Nobody} :
        \E at \in {"attach", "claim"} :
          /\ task' = [task EXCEPT ![c] = Started(op, at, f, h)]
          /\ IF op = "spawn" THEN f = Nobody /\ at = "attach" ELSE f \in known /\ at = "claim"
          /\ op \in {"era", "spawn"} => Room
  <2>1. CASE Dispose(c)
    BY <2>1 DEF Dispose
  <2>2. CASE EraSwap(c)
    BY <2>2 DEF EraSwap
  <2>3. CASE Spawn(c)
    BY <2>3 DEF Spawn
  <2> QED BY <2>1, <2>2, <2>3 DEF StartStep
<1>5. PICK at \in {"attach", "claim"} :
        /\ task' = [task EXCEPT ![c] = Started(op, at, f, h)]
        /\ IF op = "spawn" THEN f = Nobody /\ at = "attach" ELSE f \in known /\ at = "claim"
        /\ op \in {"era", "spawn"} => Room
  BY <1>4
<1>6. /\ Becomes(c, op, at, f, Nobody, Nobody, {}) /\ task' \in [Caller -> Task]
      /\ task'[c].attr = Attribution(h) /\ \A d \in Caller \ {c} : task'[d].attr = task[d].attr
      /\ f \in 0..born
  <2>1. f \in 0..born
    BY <1>2 DEF TypeOK, Nobody
  <2>2. f \in Someone
    BY <1>2 DEF Someone
  <2>3. h \in Body \cup {None}
    BY DEF Host
  <2>4. op \in Operation /\ at \in Place
    BY DEF Operation, Place
  <2>5. task' = [task EXCEPT ![c] = Started(op, at, f, h)]
    BY <1>5
  <2>6. Started(op, at, f, h) \in Task
    BY <1>2, <2>2, <2>3, <2>4, StartedType
  <2>7. task \in [Caller -> Task]
    BY <1>2 DEF TypeOK
  <2>8. task'[c] = Started(op, at, f, h) /\ \A d \in Caller \ {c} : task'[d] = task[d]
    BY <2>5, <2>7
  <2>9. task' \in [Caller -> Task]
    BY <2>5, <2>6, <2>7
  <2> QED BY <2>1, <2>8, <2>9 DEF Becomes, Same, Started, Resting
<1> USE DEF Routed, Way, Operation, Barrier, Creating, Delivery, Before
<1>7. Routed(c)'
  <2>1. UNCHANGED <<born, known>> /\ 0 \in 0..born
    BY <1>1, <1>2 DEF Still, lineVars
  <2> QED BY <1>4, <1>5, <1>6, <2>1, CallerAssumption DEF Becomes, Nobody
<1>8. Owns(c)'
  BY <1>4, <1>5, <1>6 DEF Owns, Becomes
<1>9. Residency'
  BY <1>1, <1>3, <1>4, <1>6, CallerAssumption, StillSteady, ResidencyKeep DEF Becomes, Still, lineVars
<1>10. Frames'
  BY <1>1, <1>6, StartFrames
<1>11. Numbers'
  <2>1. CASE op = "dispose"
    BY <1>1, <1>6, <2>1, NotPending, NumbersKeep DEF Becomes, Still, lineVars
  <2>2. CASE op \in {"era", "spawn"}
    <3>1. Pending' \subseteq Pending \cup {c}
      BY <1>6 DEF Pending, Becomes, Same
    <3> QED BY <1>1, <1>5, <2>2, <3>1, RoomIsKept DEF Still, lineVars
  <2> QED BY <2>1, <2>2
<1>12. ~Sourcing(c)'
  BY <1>4, <1>5, <1>6 DEF Becomes, Sourcing
<1> QED
  BY <1>1, <1>2, <1>3, <1>6, <1>7, <1>8, <1>9, <1>10, <1>11, <1>12, StillKeeps
     DEF Becomes, TypeOK

\* The caller's future is dropped.
LEMMA CancelKeeps ==
    ASSUME IInv, NEW c \in Caller, Cancel(c)
    PROVE  IInv'
<1>1. Still /\ UNCHANGED <<frames, owed>>
  BY DEF Cancel, Still
<1>2. /\ TypeOK /\ Routed(c) /\ Owns(c) /\ Removal(c) /\ c # None /\ task[c] \in Task
  BY Facts
<1> USE DEF Routed, Way, Operation, Barrier, Creating, Delivery, Before, Place
<1>3. CASE task[c].op \in {"dispose", "era"} /\ task[c].at \in {"claim", "join"}
  <2>1. End(c) /\ task[c].succ = Nobody
    BY <1>2, <1>3 DEF Cancel
  <2> QED BY <1>1, <1>3, <2>1, StillEnds
<1>4. CASE ~(task[c].op \in {"dispose", "era"} /\ task[c].at \in {"claim", "join"})
  <2> DEFINE at == IF task[c].at = "offered" THEN "undelivered" ELSE task[c].at
  <2>1. /\ task \in [Caller -> Task]
        /\ task' = [task EXCEPT ![c] = [task[c] EXCEPT !.waits = FALSE, !.at = at]]
    BY <1>2, <1>4 DEF Cancel, Abandoned, TypeOK
  <2>2. [task[c] EXCEPT !.waits = FALSE, !.at = at] \in Task
    BY <1>2 DEF Task
  <2>3. Goes(c, at) /\ Detached
    BY <1>2, <2>1, <2>2 DEF Goes, Becomes, Same, Detached, Task
  <2>4. Routed(c)'
    BY <1>1, <1>2, <2>3 DEF Goes, Becomes, Still, lineVars
  <2>5. Owns(c)'
    BY <1>1, <1>2, <2>3 DEF Owns, Goes, Becomes, Still, registryVars, fiberVars
  <2>6. Residency'
    BY <1>1, <1>2, <2>3, StillSteady, ResidencyKeep DEF Goes, Becomes, Still, lineVars
  <2>7. Numbers'
    BY <1>1, <2>3, NotPending, NumbersKeep DEF Goes, Becomes, Still, lineVars, Pending
  <2> QED
    BY <1>1, <1>2, <2>3, <2>4, <2>5, <2>6, <2>7, FramesKeep, StillKeeps
       DEF Goes, Becomes, Detached, Sourcing, TypeOK
<1> QED BY <1>3, <1>4

-----------------------------------------------------------------------------
(* Removal *)

LEMMA MinOfNaturals ==
    ASSUME NEW S, S \subseteq Nat, S # {}
    PROVE  Min(S) \in S
<1> DEFINE R == OpToRel(<, Nat)
<1>1. IsWellFoundedOn(R, Nat)
  BY NatLessThanWellFounded
<1> HIDE DEF R
<1>2. PICK n \in S : \A m \in S : ~(<<m, n>> \in R)
  BY <1>1, WFMin, Zenon
<1>3. \A m \in S : ~(m < n)
  BY <1>2 DEF R, OpToRel
<1>4. \A m \in S : n <= m
  BY <1>3
<1> QED BY <1>4, Zenon DEF Min

LEMMA RemoveNextKeeps ==
    ASSUME IInv, NEW c \in Caller, RemoveNext(c)
    PROVE  IInv'
<1>1. Still /\ UNCHANGED <<frames, owed>> /\ task[c].at = "next"
  BY DEF RemoveNext, Still
<1>2. /\ TypeOK /\ Routed(c) /\ Owns(c) /\ Removal(c) /\ c # None /\ task[c] \in Task
      /\ 1..born \subseteq Fiber /\ born \in Nat
      /\ task[c].fiber # Nobody => task[c].fiber \in Fiber /\ task[c].fiber \in 1..born
  BY Facts
<1>3. task[c].op = "remove" /\ task[c].succ = Nobody
  BY <1>1, <1>2 DEF Routed, Way, Task, Operation, Barrier, Creating, Delivery
<1>4. CASE task[c].frozen = {}
  BY <1>1, <1>3, <1>4, StillEnds DEF RemoveNext
<1>5. CASE task[c].frozen # {}
  <2> DEFINE f  == Min(task[c].frozen)
             at == IF complete[f] THEN "next" ELSE "claim"
  <2>1. task[c].frozen \subseteq 1..born /\ task[c].frozen \subseteq Nat
    BY <1>2, <1>3 DEF Removal
  <2>2. f \in task[c].frozen
    BY <1>5, <2>1, MinOfNaturals
  <2>3. task' = [task EXCEPT ![c] = [task[c] EXCEPT !.frozen = @ \ {f}, !.fiber = f, !.at = at]]
    BY <1>2, <1>5 DEF RemoveNext, TypeOK
  <2> HIDE DEF f, at
  <2>4. f \in 1..born /\ f \in Fiber /\ f # Nobody /\ at \in {"next", "claim"}
    BY <1>2, <2>1, <2>2 DEF at, Nobody
  <2>5. [task[c] EXCEPT !.frozen = @ \ {f}, !.fiber = f, !.at = at] \in Task
    BY <1>2, <2>4 DEF Task, Someone, Place
  <2>6. /\ Becomes(c, "remove", at, f, Nobody, task[c].freed, task[c].frozen \ {f}) /\ Detached
    BY <1>2, <1>3, <2>3, <2>5 DEF Becomes, Same, Detached, Task, TypeOK
  <2>7. Routed(c)'
    BY <1>1, <1>2, <2>4, <2>6, CallerAssumption
       DEF Routed, Way, Becomes, Still, lineVars, Nobody, Operation, Creating, Delivery, Before, Barrier
  <2>8. Owns(c)'
    BY <2>4, <2>6 DEF Owns, Becomes, Barrier
  <2>9. UNCHANGED <<current, group, residents, claim, born, disposing, complete>>
    BY <1>1 DEF Still, fiberVars, lineVars, registryVars
  <2>10. Residency'
    <3>1. task[c].fiber # Nobody => task[c].fiber \notin group[task[c].freed] /\ task[c].fiber \notin residents
      <4>1. task[c].fiber # Nobody => complete[task[c].fiber]
        BY <1>1, <1>2, <1>3 DEF Removal
      <4>2. task[c].fiber # Nobody => claim[task[c].fiber] = Nobody
        BY <1>2, <4>1 DEF IInv, Barriers, Ended
      <4>3. task[c].freed \in Fiber /\ Nobody \notin Fiber
        BY <1>2, <1>3 DEF Removal, Fiber, Nobody
      <4> QED BY <1>2, <4>2, <4>3 DEF IInv, Residency
    <3>2. Nobody \notin group[task[c].freed] /\ Nobody \notin residents
      BY <1>2, <1>3 DEF Removal, TypeOK, Fiber, Nobody
    <3>3. Removal(c)'
      BY <1>2, <1>3, <2>2, <2>6, <2>9, <3>1, <3>2 DEF Removal, Becomes, at
    <3>4. ASSUME NEW d \in Caller
          PROVE  Removal(d)'
      BY <2>6, <2>9, <3>3 DEF Removal, Becomes, Same, IInv, Residency
    <3>5. ASSUME NEW g \in residents, Removing(g)
          PROVE  Removing(g)'
      <4>1. PICK d \in Caller : task[d].op = "remove" /\ (g \in task[d].frozen \/ task[d].fiber = g)
        BY <3>5 DEF Removing
      <4>2. CASE d = c
        BY <2>6, <3>1, <3>2, <4>1, <4>2 DEF Removing, Becomes
      <4>3. CASE d # c
        BY <2>6, <4>1, <4>3 DEF Removing, Becomes, Same
      <4> QED BY <4>2, <4>3
    <3> QED BY <2>9, <3>4, <3>5 DEF IInv, Residency
  <2>11. Numbers'
    BY <2>6, <2>9, NotPending, NumbersKeep DEF Becomes
  <2> QED
    BY <1>1, <1>2, <1>3, <2>6, <2>7, <2>8, <2>10, <2>11, FramesKeep, StillKeeps
       DEF Becomes, Detached, Sourcing, TypeOK
<1> QED BY <1>4, <1>5

\* detach_for_removal.
LEMMA RemovePluginsKeeps ==
    ASSUME IInv, NEW c \in Caller, RemovePlugins(c)
    PROVE  IInv'
<1>1. /\ UNCHANGED <<group, residents, claim, fiberVars, frames, lineVars, provider, owed>>
      /\ task[c].at = "idle" /\ current # Nobody /\ current' = Nobody
  BY DEF RemovePlugins, Called
<1>2. /\ TypeOK /\ Routed(c) /\ Owns(c) /\ c # None /\ task[c] \in Task
      /\ 1..born \subseteq Fiber /\ born \in Nat
  BY Facts
<1>3. task[c].op = None /\ task[c].succ = Nobody
  BY <1>1, <1>2, CallerAssumption DEF Task, Routed, Way, Operation, Barrier, Creating, Delivery
<1>4. PICK h \in Host(c) :
        task' = [task EXCEPT ![c] = [Started("remove", "next", Nobody, h) EXCEPT
                                       !.frozen = group[current], !.freed = current]]
  BY DEF RemovePlugins
<1>5. h \in Body \cup {None}
  BY DEF Host
<1>6. Started("remove", "next", Nobody, h) \in Task
  BY <1>2, <1>5, StartedType DEF Operation, Place, Someone
<1>7. current \in Fiber /\ group[current] \subseteq Fiber
  BY <1>1, <1>2 DEF TypeOK, Someone
<1>8. [Started("remove", "next", Nobody, h) EXCEPT !.frozen = group[current], !.freed = current] \in Task
  BY <1>6, <1>7 DEF Task, Someone
<1>9. /\ Becomes(c, "remove", "next", Nobody, Nobody, current, group[current])
      /\ task' \in [Caller -> Task]
      /\ task'[c].attr = Attribution(h) /\ \A d \in Caller \ {c} : task'[d].attr = task[d].attr
  BY <1>2, <1>4, <1>6, <1>8 DEF Becomes, Same, Started, Resting, TypeOK
<1>10. UNCHANGED <<born, known, origin, installed, indexed, alive, active, disposing, complete, slot, seal>>
  BY <1>1 DEF fiberVars, lineVars
<1>11. TypeOK'
  BY <1>1, <1>9, <1>10 DEF IInv, TypeOK, Someone
<1>12. Steady(c)
  BY <1>1, <1>2, <1>9, <1>10 DEF Steady, Becomes, TypeOK
<1>13. Routed(c)'
  BY <1>2, <1>9, <1>10, CallerAssumption
     DEF Routed, Way, Becomes, Nobody, Operation, Creating, Delivery, Before, Barrier
<1>14. Routes'
  BY <1>12, <1>13, RoutesKeep
<1>15. Owns(c)'
  BY <1>9 DEF Owns, Becomes, Barrier
<1>16. Barriers'
  BY <1>10, <1>12, <1>15, BarriersKeep
<1>17. \A x \in Fiber : x > born => Unborn(x)'
  BY <1>1, <1>10 DEF Unborn, IInv, Hands, Fiber, Nobody
<1>18. Hands'
  BY <1>3, <1>9, <1>10, <1>12, <1>17, HandsKeep DEF Becomes
<1>19. Index' /\ Seals'
  BY <1>3, <1>9, <1>10, <1>12, IndexKeep, SealsKeep DEF Becomes
<1>20. Eras'
  BY <1>9, <1>10, <1>12, ErasKeep DEF Becomes, Sourcing
<1>21. Frames'
  BY <1>1, <1>9, StartFrames
<1>22. Numbers'
  BY <1>9, <1>10, NotPending, NumbersKeep DEF Becomes
<1>23. Residency'
  <2>1. group[current] \subseteq 1..born /\ current \in 1..born
    <3>1. \A f \in Fiber : f > born => claim[f] = Nobody /\ current # f
      BY DEF IInv, Hands, Unborn
    <3>2. \A f \in group[current] : claim[f] = current
      BY <1>7 DEF IInv, Residency
    <3> QED BY <1>1, <1>2, <1>7, <3>1, <3>2 DEF Fiber
  <2>2. Removal(c)'
    BY <1>1, <1>9, <1>10, <2>1 DEF Removal, Becomes, Nobody
  <2>3. ASSUME NEW d \in Caller, d # c
        PROVE  Removal(d)'
    BY <1>1, <1>9, <1>10, <2>3 DEF Removal, Becomes, Same, IInv, Residency, Nobody
  <2>4. ASSUME NEW g \in residents
        PROVE  disposing[g] \/ Removing(g)'
    <3>1. g \in Fiber /\ claim[g] # Nobody
      BY <1>2 DEF TypeOK, IInv, Residency
    <3>2. CASE claim[g] = current
      <4>1. g \in group[current]
        BY <1>7, <3>1, <3>2 DEF IInv, Residency
      <4> QED BY <1>9, <4>1 DEF Removing, Becomes
    <3>3. CASE Removing(g)
      <4>1. PICK d \in Caller : task[d].op = "remove" /\ (g \in task[d].frozen \/ task[d].fiber = g)
        BY <3>3 DEF Removing
      <4>2. d # c
        BY <1>3, <4>1, CallerAssumption DEF Operation
      <4> QED BY <1>9, <4>1, <4>2 DEF Removing, Becomes, Same
    <3> QED BY <3>2, <3>3 DEF IInv, Residency
  <2> QED BY <1>1, <1>10, <2>2, <2>3, <2>4 DEF IInv, Residency
<1> QED
  BY <1>11, <1>14, <1>16, <1>18, <1>19, <1>20, <1>21, <1>22, <1>23 DEF IInv

-----------------------------------------------------------------------------
(* The terminal barrier *)

LEMMA ClaimDisposeKeeps ==
    ASSUME IInv, NEW c \in Caller, ClaimDispose(c)
    PROVE  IInv'
<1> DEFINE f == task[c].fiber
<1>1. /\ TypeOK /\ Routed(c) /\ Owns(c) /\ Removal(c) /\ c # None /\ task[c] \in Task
      /\ 1..born \subseteq Fiber /\ born \in Nat /\ known \subseteq Fiber /\ Nobody \notin known
      /\ f # Nobody => f \in Fiber /\ f \in 1..born
  BY Facts
<1>2. task[c].at = "claim" /\ task[c].op \in {"dispose", "remove", "cleanup"} /\ slot[f] = None
  BY <1>1, CallerAssumption DEF ClaimDispose, Task, Routed, Way, Operation, Creating
<1>3. f \in Fiber /\ f \in 1..born /\ f # Nobody
  BY <1>1, <1>2 DEF Routed
<1>4. UNCHANGED <<born, known, origin, current, group, residents, claim, installed, indexed, alive, active,
                  complete, seal, frames, provider, owed>>
  BY DEF ClaimDispose, registryVars, lineVars
<1> HIDE DEF f
<1>5. CASE complete[f]
  <2>1. AfterBarrier(c) /\ UNCHANGED <<disposing, slot>>
    BY <1>5 DEF ClaimDispose, f
  <2>2. Still
    BY <1>4, <2>1 DEF Still, registryVars, fiberVars, lineVars
  <2> QED BY <1>2, <1>4, <1>5, <2>1, <2>2, AfterBarrierKeeps DEF f
<1>6. CASE ~complete[f] /\ disposing[f]
  <2>1. Goto(c, "join") /\ UNCHANGED <<disposing, slot>>
    BY <1>6 DEF ClaimDispose, f
  <2>2. Still
    BY <1>4, <2>1 DEF Still, registryVars, fiberVars, lineVars
  <2>3. Owns(c)'
    BY <1>1, <2>1, GotoGoes DEF Owns, Goes, Becomes, Place, Barrier
  <2>4. /\ "join" \in Place /\ task[c].op \in Operation /\ Way(task[c].op, "join")
        /\ "join" \notin Before /\ "join" \notin Creating \cup Delivery
    BY <1>2, CallerAssumption DEF Place, Operation, Way, Barrier, Creating, Delivery, Before
  <2>5. task[c].fiber # Nobody
    BY <1>3 DEF f
  <2> QED BY <1>2, <1>4, <2>1, <2>2, <2>3, <2>4, <2>5, StillGoes
<1>7. CASE ~complete[f] /\ ~disposing[f]
  <2>1. /\ disposing' = [disposing EXCEPT ![f] = TRUE] /\ slot' = [slot EXCEPT ![f] = c]
        /\ Goto(c, "teardown")
    BY <1>7 DEF ClaimDispose, f
  <2>2. Goes(c, "teardown") /\ Detached
    BY <1>1, <2>1, GotoGoes DEF Place
  <2>3. TypeOK'
    BY <1>1, <1>3, <1>4, <2>1, <2>2 DEF TypeOK, Detached
  <2>4. Steady(c)
    BY <1>1, <1>2, <1>3, <1>4, <2>1, <2>2, CallerAssumption DEF Steady, Goes, Becomes, TypeOK, f
  <2>5. Routed(c)'
    BY <1>1, <1>2, <1>3, <1>4, <2>2 DEF Routed, Way, Goes, Becomes, Barrier, Creating, Delivery, Before, f
  <2>6. Owns(c)'
    BY <1>1, <1>2, <1>3, <2>1, <2>2 DEF Owns, Goes, Becomes, Barrier, TypeOK, f
  <2>7. Routes' /\ Barriers'
    BY <1>4, <2>4, <2>5, <2>6, RoutesKeep, BarriersKeep
  <2>8. \A x \in Fiber : x > born => Unborn(x)'
    BY <1>1, <1>3, <1>4, <2>1 DEF Unborn, IInv, Hands, TypeOK
  <2>9. Hands'
    BY <1>4, <2>2, <2>4, <2>8, HandsKeep DEF Goes, Becomes
  <2>10. Residency'
    BY <1>2, <1>4, <2>2, <2>4, ResidencyKeep DEF Goes, Becomes, registryVars
  <2>11. Index' /\ Seals'
    BY <1>2, <1>4, <2>2, <2>4, IndexKeep, SealsKeep DEF Goes, Becomes
  <2>12. Eras'
    BY <1>2, <1>4, <2>2, <2>4, ErasKeep DEF Goes, Becomes, Sourcing
  <2>13. Frames' /\ Numbers'
    BY <1>2, <1>4, <2>2, FramesKeep, NotPending, NumbersKeep DEF Goes, Becomes
  <2> QED BY <2>3, <2>7, <2>9, <2>10, <2>11, <2>12, <2>13 DEF IInv
<1> QED BY <1>5, <1>6, <1>7

\* The frames of a body that is entered are its driver's.
LEMMA EnterFrames ==
    ASSUME IInv, NEW c \in Caller, NEW f \in Fiber, NEW under, Detached,
           under \subseteq task[c].attr, Enter(f, under)
    PROVE  Frames' /\ frames' \in [Body -> SUBSET Body]
<1>1. frames \in [Body -> SUBSET Body] /\ task[c].attr \subseteq Body /\ f \in Body /\ Dependent \in Body
  BY DEF IInv, TypeOK, Task, Body
<1>2. frames' = [frames EXCEPT ![f] = under \cup {f}]
  BY DEF Enter
<1>3. f # Dependent
  BY DependentAssumption
<1>4. frames'[Dependent] = frames[Dependent] /\ frames' \in [Body -> SUBSET Body]
  BY <1>1, <1>2, <1>3
<1>5. \A b \in Body : Dependent \in frames'[b] => frames[Dependent] # {}
  BY <1>1, <1>2, <1>3 DEF IInv, Frames
<1> QED BY <1>4, <1>5 DEF IInv, Frames, Detached

\* A body that returns takes its frame from every driver.
LEMMA LeaveFrames ==
    ASSUME IInv, NEW f \in Fiber, Leave(f), Detached
    PROVE  Frames' /\ frames' \in [Body -> SUBSET Body]
<1>1. frames \in [Body -> SUBSET Body] /\ Dependent \in Body /\ f # Dependent
  BY DependentAssumption DEF IInv, TypeOK, Body
<1>2. \A b \in Body : frames'[b] \subseteq frames[b] /\ frames'[Dependent] = frames[Dependent] \ {f}
  BY <1>1 DEF Leave
<1>3. frames'[Dependent] = frames[Dependent]
  <2>1. frames[Dependent] \in {{}, {Dependent}}
    BY DEF IInv, Frames
  <2>2. f \notin frames[Dependent]
    BY <1>1, <2>1
  <2> QED BY <1>1, <1>2, <2>2
<1>4. frames' \in [Body -> SUBSET Body]
  BY <1>1 DEF Leave
<1> QED BY <1>1, <1>2, <1>3, <1>4 DEF IInv, Frames, Detached

LEMMA TeardownKeeps ==
    ASSUME IInv, NEW c \in Caller, Teardown(c)
    PROVE  IInv'
<1> DEFINE f == task[c].fiber
<1>1. /\ TypeOK /\ Routed(c) /\ Owns(c) /\ Removal(c) /\ c # None /\ task[c] \in Task
      /\ 1..born \subseteq Fiber /\ born \in Nat /\ known \subseteq Fiber /\ Nobody \notin known
      /\ f # Nobody => f \in Fiber /\ f \in 1..born
  BY Facts
<1>2. /\ task[c].at = "teardown" /\ Goto(c, "drain") /\ Enter(f, OwnerAttribution(c))
      /\ alive' = [alive EXCEPT ![f] = FALSE] /\ active' = [active EXCEPT ![f] = FALSE]
      /\ indexed' = IF installed[f] THEN indexed \ {f} ELSE indexed
      /\ owed' = (owed \/ Shown' # Shown)
  BY DEF Teardown, Drifts
<1>3. task[c].op \in {"dispose", "remove", "cleanup", "era"}
  BY <1>1, <1>2 DEF Routed, Way, Task, Operation, Creating
<1>4. f \in Fiber /\ f \in 1..born /\ f # Nobody
  BY <1>1, <1>2, <1>3 DEF Routed
<1>5. slot[f] = c /\ disposing[f]
  BY <1>1, <1>2 DEF Owns, Barrier
<1>6. UNCHANGED <<born, known, origin, current, group, residents, claim, installed, disposing, complete, slot,
                  seal, provider>>
  BY DEF Teardown, registryVars, lineVars
<1> HIDE DEF f
<1>7. Goes(c, "drain") /\ Detached
  BY <1>1, <1>2, GotoGoes DEF Place
<1>8. OwnerAttribution(c) \subseteq task[c].attr
  BY DEF OwnerAttribution
<1>9. Frames' /\ frames' \in [Body -> SUBSET Body]
  BY <1>2, <1>4, <1>7, <1>8, EnterFrames
<1>10. TypeOK'
  BY <1>1, <1>2, <1>4, <1>6, <1>7, <1>9 DEF TypeOK, Detached
<1>11. Steady(c)
  <2>1. \A x \in Fiber : (alive'[x] => alive[x]) /\ (x # f => alive'[x] = alive[x])
    BY <1>1, <1>2, <1>4 DEF TypeOK
  <2> QED BY <1>1, <1>5, <1>6, <1>7, <2>1 DEF Steady, Goes, Becomes, TypeOK
<1>12. Routed(c)'
  BY <1>1, <1>2, <1>3, <1>4, <1>6, <1>7 DEF Routed, Way, Goes, Becomes, Barrier, Creating, Delivery, Before
<1>13. Owns(c)'
  BY <1>1, <1>2, <1>3, <1>4, <1>5, <1>6, <1>7 DEF Owns, Goes, Becomes, Barrier, TypeOK, f
<1>14. Routes' /\ Barriers'
  BY <1>6, <1>11, <1>12, <1>13, RoutesKeep, BarriersKeep
<1>15. \A x \in Fiber : x > born => Unborn(x)'
  BY <1>1, <1>2, <1>4, <1>6 DEF Unborn, IInv, Hands, TypeOK
<1>16. Hands'
  BY <1>6, <1>7, <1>11, <1>15, HandsKeep DEF Goes, Becomes
<1>17. Residency'
  BY <1>2, <1>6, <1>7, <1>11, ResidencyKeep DEF Goes, Becomes, registryVars
<1>18. Index'
  BY <1>1, <1>2, <1>4, <1>6 DEF Index, IInv, TypeOK
<1>19. Seals'
  BY <1>2, <1>6, <1>7, <1>11, SealsKeep DEF Goes, Becomes
<1>20. Eras'
  BY <1>2, <1>6, <1>7, <1>11, ErasKeep DEF Goes, Becomes, Sourcing, Before, Barrier
<1>21. Numbers'
  BY <1>2, <1>6, <1>7, NotPending, NumbersKeep DEF Goes, Becomes, Pending, Before, Barrier
<1> QED
  BY <1>9, <1>10, <1>14, <1>16, <1>17, <1>18, <1>19, <1>20, <1>21 DEF IInv

\* A removal is where it was.
RemovalsStay ==
    \A d \in Caller :
      /\ task'[d].op = "remove" <=> task[d].op = "remove"
      /\ task[d].op = "remove" =>
           /\ task'[d].fiber = task[d].fiber /\ task'[d].frozen = task[d].frozen
           /\ task'[d].freed = task[d].freed
           /\ task'[d].at = "next" => task[d].at = "next"

\* release_residency takes f from the Registry and leaves every other Fiber in
\* the allocation it is in.
LEMMA ReleaseKeeps ==
    ASSUME IInv, NEW f \in Fiber, ReleaseResidency(f), born' = born, RemovalsStay,
           \A x \in Fiber : (disposing[x] => disposing'[x]) /\ (complete[x] => complete'[x])
    PROVE  /\ Residency' /\ claim' \in [Fiber -> Someone] /\ group' \in [Fiber -> SUBSET Fiber]
           /\ residents' \subseteq Fiber /\ current' \in Someone /\ current' \in {current, Nobody}
           /\ claim'[f] = Nobody /\ \A x \in Fiber : x # f => claim'[x] = claim[x]
<1> DEFINE a == claim[f]
<1>1. /\ claim \in [Fiber -> Someone] /\ group \in [Fiber -> SUBSET Fiber] /\ residents \subseteq Fiber
      /\ current \in Someone /\ Nobody \notin Fiber /\ 1..born \subseteq Fiber /\ a \in Someone
  BY BoundAssumption DEF IInv, TypeOK, Fiber, Nobody
<1> HIDE DEF a
<1>2. CASE a = Nobody
  <2>1. UNCHANGED <<current, group, residents, claim>>
    BY <1>2 DEF ReleaseResidency, registryVars, a
  <2>2. \A d \in Caller : Removal(d)'
    <3>1. \A d \in Caller : Removal(d) /\ (task[d].fiber \in Someone)
      BY DEF IInv, Residency, TypeOK, Task
    <3> QED BY <2>1, <3>1 DEF Removal, RemovalsStay, Someone
  <2>3. \A x \in Fiber : Removing(x) => Removing(x)'
    BY DEF Removing, RemovalsStay
  <2>4. Residency'
    BY <1>1, <2>1, <2>2, <2>3 DEF IInv, Residency
  <2> QED BY <1>1, <1>2, <2>1, <2>4 DEF a
<1>3. CASE a # Nobody
  <2>1. /\ a \in Fiber
        /\ claim' = [claim EXCEPT ![f] = Nobody] /\ group' = [group EXCEPT ![a] = @ \ {f}]
        /\ current' = (IF current = a /\ group'[current] = {} THEN Nobody ELSE current)
        /\ residents' = residents \ {f}
    BY <1>1, <1>3 DEF ReleaseResidency, a, Someone
  <2>2. /\ claim' \in [Fiber -> Someone] /\ group' \in [Fiber -> SUBSET Fiber]
        /\ residents' \subseteq Fiber /\ current' \in {current, Nobody}
        /\ claim'[f] = Nobody /\ \A x \in Fiber : x # f => claim'[x] = claim[x]
    BY <1>1, <2>1 DEF Someone
  <2>3. \A b \in Fiber : group'[b] = group[b] \ {f}
    <3>1. \A b \in Fiber : b # a => f \notin group[b]
      BY DEF IInv, Residency, a
    <3> QED BY <1>1, <2>1, <3>1
  <2>4. \A x \in Fiber : x \in residents' <=> claim'[x] # Nobody
    BY <2>1, <2>2 DEF IInv, Residency
  <2>5. \A x, b \in Fiber : x \in group'[b] <=> claim'[x] = b
    BY <1>1, <2>2, <2>3 DEF IInv, Residency
  <2>6. current' # Nobody => group'[current'] # {}
    <3>1. CASE current = a
      BY <2>1, <3>1
    <3>2. CASE current # a /\ current # Nobody
      BY <1>1, <2>1, <3>2 DEF IInv, Residency, Someone
    <3> QED BY <2>1, <3>1, <3>2
  <2>7. \A x \in Fiber : Removing(x) => Removing(x)'
    BY DEF Removing, RemovalsStay
  <2>8. ASSUME NEW x \in residents'
        PROVE  claim'[x] = current' \/ disposing'[x] \/ Removing(x)'
    <3>1. x \in residents /\ x # f /\ x \in Fiber /\ claim'[x] = claim[x] /\ claim[x] # Nobody
      BY <1>1, <2>1, <2>2 DEF IInv, Residency
    <3>2. claim[x] = current => claim'[x] = current'
      <4>1. SUFFICES ASSUME claim[x] = current, current = a, group'[current] = {}
                     PROVE  FALSE
        BY <2>1, <3>1
      <4> QED BY <2>1, <2>5, <3>1, <4>1
    <3> QED BY <2>7, <3>1, <3>2 DEF IInv, Residency
  <2>9. ASSUME NEW d \in Caller
        PROVE  Removal(d)'
    <3>1. Removal(d) /\ task[d].fiber \in Someone
      BY DEF IInv, Residency, TypeOK, Task
    <3>2. SUFFICES ASSUME task[d].op = "remove" PROVE Removal(d)'
      BY DEF Removal, RemovalsStay
    <3>3. task[d].freed \in Fiber /\ task[d].freed # current' /\ task[d].freed \in 1..born
      BY <1>1, <2>2, <3>1, <3>2 DEF Removal
    <3>4. group'[task[d].freed] \subseteq task[d].frozen \cup {task[d].fiber}
      BY <2>3, <3>1, <3>2, <3>3 DEF Removal
    <3> QED BY <3>1, <3>2, <3>3, <3>4 DEF Removal, RemovalsStay, Someone
  <2> QED BY <1>1, <2>2, <2>4, <2>5, <2>6, <2>8, <2>9 DEF Residency, Someone
<1> QED BY <1>2, <1>3

LEMMA DrainedKeeps ==
    ASSUME IInv, NEW c \in Caller, Drained(c)
    PROVE  IInv'
<1> DEFINE f == task[c].fiber
<1>1. /\ TypeOK /\ Routed(c) /\ Owns(c) /\ Removal(c) /\ c # None /\ task[c] \in Task
      /\ 1..born \subseteq Fiber /\ born \in Nat /\ known \subseteq Fiber /\ Nobody \notin known
      /\ f # Nobody => f \in Fiber /\ f \in 1..born
  BY Facts
<1>2. /\ task[c].at = "drain" /\ Leave(f) /\ task' = [Left(f) EXCEPT ![c].at = "unlink"]
      /\ provider' = (IF provider = f THEN Nobody ELSE provider)
      /\ slot' = [slot EXCEPT ![f] = None]
  BY DEF Drained
<1>3. task[c].op \in {"dispose", "remove", "cleanup", "era"}
  BY <1>1, <1>2 DEF Routed, Way, Task, Operation, Creating
<1>4. f \in Fiber /\ f \in 1..born /\ f # Nobody
  BY <1>1, <1>2, <1>3 DEF Routed
<1>5. slot[f] = c /\ disposing[f] /\ ~alive[f]
  BY <1>1, <1>2 DEF Owns, Barrier
<1>6. UNCHANGED <<born, known, origin, current, group, residents, claim, installed, indexed, alive, active,
                  disposing, complete, seal, owed>>
  BY DEF Drained, registryVars, lineVars
<1> HIDE DEF f
<1>7. Goes(c, "unlink") /\ Detached
  BY <1>1, <1>2, LeftGoes DEF Place
<1>8. Frames' /\ frames' \in [Body -> SUBSET Body]
  BY <1>2, <1>4, <1>7, LeaveFrames
<1>9. provider' \in {provider, Nobody} /\ provider' # f
  BY <1>2, <1>4
<1>10. TypeOK'
  BY <1>1, <1>2, <1>6, <1>7, <1>8, <1>9 DEF TypeOK, Detached, Someone
<1>11. Steady(c)
  <2>1. \A x \in Fiber : x # f => slot'[x] = slot[x]
    BY <1>1, <1>2 DEF TypeOK
  <2> QED BY <1>1, <1>5, <1>6, <1>7, <1>9, <2>1 DEF Steady, Goes, Becomes, TypeOK
<1>12. Routed(c)'
  BY <1>1, <1>2, <1>3, <1>4, <1>6, <1>7 DEF Routed, Way, Goes, Becomes, Barrier, Creating, Delivery, Before
<1>13. Owns(c)'
  BY <1>1, <1>2, <1>3, <1>4, <1>5, <1>6, <1>7, <1>9 DEF Owns, Goes, Becomes, Barrier, f
<1>14. Routes' /\ Barriers'
  BY <1>6, <1>11, <1>12, <1>13, RoutesKeep, BarriersKeep
<1>15. \A x \in Fiber : x > born => Unborn(x)'
  BY <1>1, <1>2, <1>4, <1>6, <1>9 DEF Unborn, IInv, Hands, TypeOK, Fiber, Nobody
<1>16. Hands'
  BY <1>6, <1>7, <1>11, <1>15, HandsKeep DEF Goes, Becomes
<1>17. Residency'
  BY <1>2, <1>6, <1>7, <1>11, ResidencyKeep DEF Goes, Becomes, registryVars
<1>18. Index' /\ Seals'
  BY <1>2, <1>6, <1>7, <1>11, IndexKeep, SealsKeep DEF Goes, Becomes
<1>19. Eras'
  BY <1>2, <1>6, <1>7, <1>11, ErasKeep DEF Goes, Becomes, Sourcing, Before, Barrier
<1>20. Numbers'
  BY <1>2, <1>6, <1>7, NotPending, NumbersKeep DEF Goes, Becomes, Pending, Before, Barrier
<1> QED
  BY <1>8, <1>10, <1>14, <1>16, <1>17, <1>18, <1>19, <1>20 DEF IInv

LEMMA UnlinkKeeps ==
    ASSUME IInv, NEW c \in Caller, Unlink(c)
    PROVE  IInv'
<1> DEFINE f == task[c].fiber
<1>1. /\ TypeOK /\ Routed(c) /\ Owns(c) /\ Removal(c) /\ c # None /\ task[c] \in Task
      /\ 1..born \subseteq Fiber /\ born \in Nat /\ known \subseteq Fiber /\ Nobody \notin known
      /\ f # Nobody => f \in Fiber /\ f \in 1..born
  BY Facts
<1>2. task[c].at = "unlink" /\ ReleaseResidency(f) /\ Goto(c, "publish")
  BY DEF Unlink
<1>3. task[c].op \in {"dispose", "remove", "cleanup", "era"}
  BY <1>1, <1>2 DEF Routed, Way, Task, Operation, Creating
<1>4. f \in Fiber /\ f \in 1..born /\ f # Nobody
  BY <1>1, <1>2, <1>3 DEF Routed
<1>5. disposing[f] /\ ~alive[f] /\ provider # f
  BY <1>1, <1>2 DEF Owns, Barrier
<1>6. UNCHANGED <<born, known, origin, installed, indexed, alive, active, disposing, complete, slot, seal,
                  frames, provider, owed>>
  BY DEF Unlink, fiberVars, lineVars
<1> HIDE DEF f
<1>7. Goes(c, "publish") /\ Detached
  BY <1>1, <1>2, GotoGoes DEF Place
<1>8. RemovalsStay
  BY <1>7 DEF RemovalsStay, Goes, Becomes, Same
<1>9. /\ Residency' /\ claim' \in [Fiber -> Someone] /\ group' \in [Fiber -> SUBSET Fiber]
      /\ residents' \subseteq Fiber /\ current' \in Someone /\ current' \in {current, Nobody}
      /\ claim'[f] = Nobody /\ \A x \in Fiber : x # f => claim'[x] = claim[x]
  BY <1>2, <1>4, <1>6, <1>8, ReleaseKeeps
<1>10. TypeOK'
  BY <1>1, <1>6, <1>7, <1>9 DEF TypeOK, Detached
<1>11. Steady(c)
  BY <1>1, <1>6, <1>7, <1>9 DEF Steady, Goes, Becomes, TypeOK
<1>12. Routed(c)'
  BY <1>1, <1>2, <1>3, <1>4, <1>6, <1>7 DEF Routed, Way, Goes, Becomes, Barrier, Creating, Delivery, Before
<1>13. Owns(c)'
  BY <1>1, <1>2, <1>3, <1>5, <1>6, <1>7, <1>9 DEF Owns, Goes, Becomes, Barrier, f
<1>14. Routes' /\ Barriers'
  BY <1>6, <1>11, <1>12, <1>13, RoutesKeep, BarriersKeep
<1>15. \A x \in Fiber : x > born => Unborn(x)'
  BY <1>1, <1>6, <1>9 DEF Unborn, IInv, Hands, Fiber, Nobody
<1>16. Hands'
  BY <1>6, <1>7, <1>11, <1>15, HandsKeep DEF Goes, Becomes
<1>17. Index' /\ Seals'
  BY <1>2, <1>6, <1>7, <1>11, IndexKeep, SealsKeep DEF Goes, Becomes
<1>18. Eras'
  BY <1>2, <1>6, <1>7, <1>11, ErasKeep DEF Goes, Becomes, Sourcing, Before, Barrier
<1>19. Frames' /\ Numbers'
  BY <1>2, <1>6, <1>7, FramesKeep, NotPending, NumbersKeep DEF Goes, Becomes, Pending, Before, Barrier
<1> QED
  BY <1>9, <1>10, <1>14, <1>16, <1>17, <1>18, <1>19 DEF IInv

LEMMA PublishCompleteKeeps ==
    ASSUME IInv, NEW c \in Caller, PublishComplete(c)
    PROVE  IInv'
<1> DEFINE f == task[c].fiber
<1>1. /\ TypeOK /\ Routed(c) /\ Owns(c) /\ Removal(c) /\ c # None /\ task[c] \in Task
      /\ 1..born \subseteq Fiber /\ born \in Nat /\ known \subseteq Fiber /\ Nobody \notin known
      /\ f # Nobody => f \in Fiber /\ f \in 1..born
  BY Facts
<1>2. task[c].at = "publish" /\ complete' = [complete EXCEPT ![f] = TRUE] /\ AfterBarrier(c)
  BY DEF PublishComplete
<1>3. task[c].op \in {"dispose", "remove", "cleanup", "era"}
  BY <1>1, <1>2 DEF Routed, Way, Task, Operation, Creating
<1>4. f \in Fiber /\ f \in 1..born /\ f # Nobody
  BY <1>1, <1>2, <1>3 DEF Routed
<1>5. disposing[f] /\ ~alive[f] /\ provider # f /\ claim[f] = Nobody
  BY <1>1, <1>2 DEF Owns, Barrier
<1>6. UNCHANGED <<born, known, origin, current, group, residents, claim, installed, indexed, alive, active,
                  disposing, slot, seal, frames, provider, owed>>
  BY DEF PublishComplete, registryVars, lineVars
<1>7. complete'[f] /\ \A x \in Fiber : x # f => complete'[x] = complete[x]
  BY <1>1, <1>2, <1>4 DEF TypeOK
<1>8. \/ task[c].op = "dispose" /\ Ends(c) /\ Detached
      \/ \E at \in {"next", "converge", "last"} :
           /\ Goes(c, at) /\ Detached
           /\ at = "next" <=> task[c].op = "remove"
           /\ at = "converge" <=> task[c].op = "era"
           /\ at = "last" <=> task[c].op = "cleanup"
  <2>1. CASE task[c].op = "dispose"
    BY <1>1, <1>2, <2>1, EndEnds DEF AfterBarrier
  <2>2. CASE task[c].op = "remove"
    BY <1>1, <1>2, <2>2, GotoGoes DEF AfterBarrier, Place
  <2>3. CASE task[c].op = "era"
    BY <1>1, <1>2, <2>3, GotoGoes DEF AfterBarrier, Place
  <2>4. CASE task[c].op = "cleanup"
    BY <1>1, <1>2, <2>4, GotoGoes DEF AfterBarrier, Place
  <2> QED BY <1>3, <2>1, <2>2, <2>3, <2>4
<1>9. /\ Detached /\ task'[c].succ = task[c].succ /\ \A d \in Caller \ {c} : Same(d)
      /\ Routed(c)' /\ Owns(c)'
  <2>1. CASE task[c].op = "dispose" /\ Ends(c) /\ Detached
    <3>1. task[c].succ = Nobody
      BY <1>1, <2>1 DEF Routed
    <3> QED BY <1>1, <1>6, <2>1, <3>1, CallerAssumption
            DEF Ends, Becomes, Routed, Way, Owns, Operation, Nobody, Barrier, Creating, Delivery, Before
  <2>2. ASSUME NEW at \in {"next", "converge", "last"}, Goes(c, at), Detached,
               at = "next" <=> task[c].op = "remove",
               at = "converge" <=> task[c].op = "era",
               at = "last" <=> task[c].op = "cleanup"
        PROVE  Routed(c)' /\ Owns(c)' /\ task'[c].succ = task[c].succ /\ \A d \in Caller \ {c} : Same(d)
    <3>1. Routed(c)'
      BY <1>1, <1>2, <1>3, <1>6, <2>2, CallerAssumption
         DEF Goes, Becomes, Routed, Way, Operation, Barrier, Creating, Delivery, Before
    <3>2. Owns(c)'
      BY <1>1, <1>7, <2>2 DEF Goes, Becomes, Owns, Barrier
    <3> QED BY <2>2, <3>1, <3>2 DEF Goes, Becomes
  <2> QED BY <1>8, <2>1, <2>2
<1> HIDE DEF f
<1>10. TypeOK'
  BY <1>1, <1>2, <1>6, <1>9 DEF TypeOK, Detached
<1>11. Steady(c)
  BY <1>1, <1>6, <1>7, <1>9 DEF Steady, TypeOK
<1>12. \A x \in Fiber : complete'[x] /\ ~complete[x] => Ended(x)'
  BY <1>5, <1>6, <1>7 DEF Ended
<1>13. Routes' /\ Barriers'
  BY <1>9, <1>11, <1>12, RoutesKeep, BarriersKeep
<1>14. \A x \in Fiber : x > born => Unborn(x)'
  BY <1>1, <1>4, <1>6, <1>7 DEF Unborn, IInv, Hands
<1>15. Hands'
  BY <1>6, <1>9, <1>11, <1>14, HandsKeep
<1>16. Residency'
  <2>1. /\ task[c].op = "remove" =>
             /\ task'[c].op = "remove" /\ task'[c].fiber = task[c].fiber
             /\ task'[c].frozen = task[c].frozen /\ task'[c].freed = task[c].freed
        /\ task[c].op # "remove" => task'[c].op # "remove"
    BY <1>8, CallerAssumption DEF Ends, Goes, Becomes, Operation
  <2> QED BY <1>6, <1>7, <1>11, <2>1, ResidencyKeep DEF registryVars, f
<1>17. Index' /\ Seals'
  BY <1>2, <1>6, <1>9, <1>11, IndexKeep, SealsKeep
<1>18. /\ task'[c].op \in {"spawn", "era"} => task[c].op = "era"
       /\ Sourcing(c)' => Sourcing(c) /\ task'[c].fiber = task[c].fiber
  BY <1>2, <1>3, <1>8, CallerAssumption DEF Ends, Goes, Becomes, Operation, Sourcing, Before, Barrier
<1>19. Eras'
  BY <1>2, <1>6, <1>11, <1>18, ErasKeep
<1>20. Frames' /\ Numbers'
  <2>1. task'[c].op \in {"spawn", "era"} => c \in Pending
    BY <1>2, <1>18 DEF Pending, Before, Barrier
  <2> QED BY <1>6, <1>9, <2>1, FramesKeep, NotPending, NumbersKeep
<1> QED
  BY <1>10, <1>13, <1>15, <1>16, <1>17, <1>19, <1>20 DEF IInv

-----------------------------------------------------------------------------
(* Creation *)

LEMMA InstallKeeps ==
    ASSUME IInv, NEW c \in Caller, Install(c) \/ Register(c)
    PROVE  IInv'
<1> DEFINE g == task[c].succ
<1>1. /\ TypeOK /\ Routed(c) /\ Owns(c) /\ c # None /\ task[c] \in Task
      /\ 1..born \subseteq Fiber /\ born \in Nat
      /\ g # Nobody => g \in Fiber /\ g \in 1..born
  BY Facts
<1>2. \/ task[c].at = "install" /\ Goto(c, "register")
      \/ task[c].at = "register" /\ Goto(c, "initial")
  BY DEF Install, Register
<1>3. task[c].op \in {"spawn", "era"}
  BY <1>1, <1>2 DEF Routed, Way, Task, Operation, Barrier
<1>4. g \in Fiber /\ g \in 1..born /\ g # Nobody
  BY <1>1, <1>2 DEF Routed, Creating
<1>5. provider # g /\ (task[c].at = "register" => installed[g])
  BY <1>1, <1>2 DEF Owns
<1>6. UNCHANGED <<born, known, origin, current, group, residents, claim, alive, active, disposing, complete, slot,
                  seal, frames, provider, owed>>
  BY DEF Install, Register, registryVars, lineVars
<1>7. \/ /\ task[c].at = "install" /\ installed' = [installed EXCEPT ![g] = TRUE]
         /\ UNCHANGED indexed
      \/ /\ task[c].at = "register" /\ UNCHANGED installed
         /\ indexed' = IF alive[g] THEN indexed \cup {g} ELSE indexed
  BY DEF Install, Register
<1> HIDE DEF g
<1>8. PICK at \in {"register", "initial"} : Goes(c, at) /\ Detached /\ (at = "register" <=> task[c].at = "install")
  BY <1>1, <1>2, GotoGoes DEF Place
<1>9. /\ installed' \in [Fiber -> BOOLEAN] /\ indexed' \subseteq Fiber
      /\ \A x \in Fiber : installed[x] => installed'[x]
      /\ at = "register" => installed'[g]
  BY <1>1, <1>4, <1>7, <1>8 DEF TypeOK
<1>10. TypeOK'
  BY <1>1, <1>6, <1>8, <1>9 DEF TypeOK, Detached
<1>11. Steady(c)
  BY <1>1, <1>6, <1>8, <1>9 DEF Steady, Goes, Becomes, TypeOK
<1>12. Routed(c)'
  BY <1>1, <1>2, <1>3, <1>6, <1>8, CallerAssumption
     DEF Routed, Way, Goes, Becomes, Barrier, Creating, Delivery, Before, Operation
<1>13. Owns(c)'
  BY <1>1, <1>5, <1>6, <1>8, <1>9 DEF Owns, Goes, Becomes, Barrier, g
<1>14. Routes' /\ Barriers'
  BY <1>6, <1>11, <1>12, <1>13, RoutesKeep, BarriersKeep
<1>15. \A x \in Fiber : x > born => Unborn(x)'
  BY <1>6 DEF Unborn, IInv, Hands
<1>16. Hands'
  BY <1>6, <1>8, <1>11, <1>15, HandsKeep DEF Goes, Becomes
<1>17. Residency'
  BY <1>2, <1>3, <1>6, <1>8, <1>11, ResidencyKeep DEF Goes, Becomes, registryVars
<1>18. Index'
  BY <1>1, <1>4, <1>5, <1>6, <1>7, <1>9 DEF Index, IInv, TypeOK
<1>19. Seals'
  BY <1>2, <1>6, <1>8, <1>11, SealsKeep DEF Goes, Becomes
<1>20. Eras'
  BY <1>6, <1>8, <1>11, ErasKeep DEF Goes, Becomes, Sourcing, Before, Barrier
<1>21. Frames' /\ Numbers'
  BY <1>6, <1>8, FramesKeep, NotPending, NumbersKeep DEF Goes, Becomes, Before, Barrier
<1> QED
  BY <1>10, <1>14, <1>16, <1>17, <1>18, <1>19, <1>20, <1>21 DEF IInv

\* The Fiber that is taken out of the creation's hands is dead.
LEMMA DropKeeps ==
    ASSUME IInv, NEW c \in Caller, NEW f, f = task[c].succ, ReleaseResidency(f), NotCreated(c),
           task[c].at \in Creating, task[c].op \in {"spawn", "era"}, ~alive[f],
           UNCHANGED <<born, known, origin, installed, indexed, alive, active, disposing, seal, frames,
                       provider, owed>>,
           \/ UNCHANGED <<slot, complete>>
           \/ /\ slot[f] = c /\ disposing[f] /\ provider # f
              /\ slot' = [slot EXCEPT ![f] = None] /\ complete' = [complete EXCEPT ![f] = TRUE]
    PROVE  IInv'
<1>1. /\ TypeOK /\ Routed(c) /\ Owns(c) /\ c # None /\ task[c] \in Task
      /\ 1..born \subseteq Fiber /\ born \in Nat
      /\ f # Nobody => f \in Fiber /\ f \in 1..born
  BY Facts
<1>2. f \in Fiber /\ f \in 1..born /\ f # Nobody
  BY <1>1 DEF Routed
<1>3. \/ Ends(c) /\ Detached
      \/ /\ Becomes(c, "era", "final", task[c].fiber, Nobody, task[c].freed, task[c].frozen) /\ Detached
         /\ task[c].op = "era"
  <2>1. CASE task[c].op = "spawn"
    BY <1>1, <2>1, EndEnds DEF NotCreated
  <2>2. CASE task[c].op = "era"
    <3>1. task' = [task EXCEPT ![c] = [task[c] EXCEPT !.succ = Nobody, !.at = "final"]]
      BY <1>1, <2>2, ZenonT(60) DEF NotCreated, TypeOK
    <3>2. [task[c] EXCEPT !.succ = Nobody, !.at = "final"] \in Task
      BY <1>1 DEF Task, Someone, Place
    <3> QED BY <1>1, <2>2, <3>1, <3>2 DEF Becomes, Same, Detached, Task, TypeOK
  <2> QED BY <2>1, <2>2
<1>4. /\ Detached /\ task'[c].succ = Nobody /\ \A d \in Caller \ {c} : Same(d)
      /\ task'[c].op # "remove" /\ task'[c].at \notin Before /\ ~Sourcing(c)'
  BY <1>3, CallerAssumption DEF Ends, Becomes, Operation, Before, Barrier, Sourcing
<1>5. Routed(c)'
  BY <1>1, <1>3, CallerAssumption
     DEF Routed, Way, Ends, Becomes, Barrier, Creating, Delivery, Before, Operation, Nobody
<1>6. Owns(c)'
  BY <1>3 DEF Owns, Ends, Becomes, Barrier
<1>7. /\ slot' \in [Fiber -> Caller \cup {None}] /\ complete' \in [Fiber -> BOOLEAN]
      /\ \A x \in Fiber : complete[x] => complete'[x]
      /\ \A x \in Fiber : x # f => slot'[x] = slot[x] /\ complete'[x] = complete[x]
      /\ slot'[f] = slot[f] \/ slot[f] = c
      /\ complete'[f] /\ ~complete[f] => disposing[f] /\ provider # f
  BY <1>1, <1>2 DEF TypeOK
<1>8. RemovalsStay
  BY <1>4 DEF RemovalsStay, Same
<1>9. /\ Residency' /\ claim' \in [Fiber -> Someone] /\ group' \in [Fiber -> SUBSET Fiber]
      /\ residents' \subseteq Fiber /\ current' \in Someone /\ current' \in {current, Nobody}
      /\ claim'[f] = Nobody /\ \A x \in Fiber : x # f => claim'[x] = claim[x]
  BY <1>2, <1>7, <1>8, ReleaseKeeps
<1>10. TypeOK'
  BY <1>1, <1>4, <1>7, <1>9 DEF TypeOK, Detached
<1>11. Steady(c)
  BY <1>1, <1>4, <1>7, <1>9 DEF Steady, TypeOK
<1>12. \A x \in Fiber : complete'[x] /\ ~complete[x] => Ended(x)'
  BY <1>7, <1>9 DEF Ended
<1>13. Routes' /\ Barriers'
  BY <1>5, <1>6, <1>11, <1>12, RoutesKeep, BarriersKeep
<1>14. \A x \in Fiber : x > born => Unborn(x)'
  BY <1>1, <1>2, <1>7, <1>9 DEF Unborn, IInv, Hands, Fiber, Nobody
<1>15. Hands'
  BY <1>4, <1>11, <1>14, HandsKeep
<1>16. Index' /\ Seals' /\ Eras'
  BY <1>4, <1>11, IndexKeep, SealsKeep, ErasKeep
<1>17. Frames' /\ Numbers'
  BY <1>4, FramesKeep, NotPending, NumbersKeep
<1> QED
  BY <1>9, <1>10, <1>13, <1>15, <1>16, <1>17 DEF IInv

\* A handle is delivered.
LEMMA DeliverKeeps ==
    ASSUME IInv, NEW c \in Caller, End(c), known' = known \cup {task[c].succ}, task[c].succ # Nobody,
           task[c].at # "apply", task[c].op \in {"spawn", "era"},
           UNCHANGED <<registryVars, fiberVars, frames, born, origin, provider, owed>>
    PROVE  IInv'
<1> DEFINE g == task[c].succ
<1>1. /\ TypeOK /\ Routed(c) /\ Owns(c) /\ c # None /\ task[c] \in Task
      /\ 1..born \subseteq Fiber /\ born \in Nat /\ known \subseteq Fiber /\ Nobody \notin known
      /\ g \in Fiber /\ g \in 1..born
  BY Facts
<1>2. Ends(c) /\ Detached
  BY <1>1, EndEnds
<1>3. UNCHANGED <<current, group, residents, claim, installed, indexed, alive, active, disposing, complete, slot,
                  seal, frames, born, origin, provider, owed>>
  BY DEF registryVars, fiberVars
<1> HIDE DEF g
<1>4. TypeOK'
  BY <1>1, <1>2, <1>3 DEF TypeOK, Detached, g
<1>5. Steady(c)
  BY <1>1, <1>2, <1>3 DEF Steady, Ends, Becomes, TypeOK
<1>6. Routed(c)'
  BY <1>1, <1>2, <1>3, CallerAssumption
     DEF Routed, Way, Ends, Becomes, Barrier, Creating, Delivery, Before, Operation, Nobody
<1>7. Owns(c)'
  BY <1>2 DEF Owns, Ends, Becomes, Barrier
<1>8. Routes' /\ Barriers'
  BY <1>3, <1>5, <1>6, <1>7, RoutesKeep, BarriersKeep
<1>9. Hands'
  <2>1. \A x \in Fiber : x > born => Unborn(x)'
    BY <1>3 DEF Unborn, IInv, Hands
  <2>2. task'[c].succ = Nobody /\ \A d \in Caller \ {c} : task'[d].succ = task[d].succ /\ task[d].succ # g
    BY <1>2 DEF Ends, Becomes, Same, IInv, Hands, g
  <2>3. \A d \in Caller : task'[d].succ \notin known'
    BY <1>1, <2>2 DEF IInv, Hands, g, Fiber, Nobody
  <2>4. \A d, e \in Caller : task'[d].succ = task'[e].succ /\ task'[d].succ # Nobody => d = e
    BY <2>2 DEF IInv, Hands
  <2>5. ASSUME NEW x \in 1..born, alive[x]
        PROVE  x \in known' \/ \E d \in Caller : task'[d].succ = x
    <3>1. x \in known \/ \E d \in Caller : task[d].succ = x
      BY <2>5 DEF IInv, Hands
    <3> QED BY <2>2, <3>1 DEF g
  <2> QED BY <1>3, <2>1, <2>3, <2>4, <2>5 DEF Hands
<1>10. Residency'
  BY <1>2, <1>3, <1>5, ResidencyKeep, CallerAssumption DEF Ends, Becomes, Operation
<1>11. Index'
  BY <1>3, <1>5, IndexKeep
<1>12. Seals'
  BY <1>1, <1>2, <1>3 DEF Seals, IInv, Ends, Becomes, Same, g
<1>13. Eras'
  BY <1>2, <1>3, <1>5, ErasKeep, CallerAssumption DEF Ends, Becomes, Sourcing, Operation
<1>14. Frames' /\ Numbers'
  BY <1>2, <1>3, FramesKeep, NotPending, NumbersKeep, CallerAssumption DEF Ends, Becomes, Operation
<1> QED
  BY <1>4, <1>8, <1>9, <1>10, <1>11, <1>12, <1>13, <1>14 DEF IInv

\* attach_fiber: the new number has no history, and joins the mapped
\* allocation or opens its own.
LEMMA AttachKeeps ==
    ASSUME IInv, NEW c \in Caller, Attach(c)
    PROVE  IInv'
<1> DEFINE g == born + 1
           f == task[c].fiber
<1>1. /\ TypeOK /\ Routed(c) /\ Owns(c) /\ c # None /\ task[c] \in Task
      /\ 1..born \subseteq Fiber /\ born \in Nat /\ known \subseteq Fiber /\ Nobody \notin known
      /\ f # Nobody => f \in Fiber /\ f \in 1..born
  BY Facts
<1>2. task[c].at = "attach" /\ born' = g /\ origin' = [origin EXCEPT ![g] = f] /\ AttachFiber(g)
  BY DEF Attach
<1>3. task[c].op \in {"spawn", "era"} /\ task[c].succ = Nobody /\ c \in Pending
  BY <1>1, <1>2 DEF Routed, Way, Task, Operation, Barrier, Before, Pending
<1>4. UNCHANGED <<known, installed, indexed, alive, active, disposing, complete, slot, seal, frames, provider,
                  owed>>
  BY DEF Attach, fiberVars
<1>5. /\ IsFiniteSet(Pending) /\ Cardinality(Pending) \in Nat
      /\ Cardinality(Pending \ {c}) = Cardinality(Pending) - 1 /\ Cardinality(Pending \ {c}) \in Nat
  <2>1. IsFiniteSet(Pending)
    BY CallerAssumption, FS_Subset DEF Pending
  <2>2. IsFiniteSet(Pending \ {c}) /\ Cardinality(Pending \ {c}) = Cardinality(Pending) - 1
    BY <1>3, <2>1, FS_RemoveElement, Zenon
  <2> QED BY <2>1, <2>2, FS_CardinalityType
<1>6. g \in Fiber /\ g + Cardinality(Pending \ {c}) <= MaxFibers
  BY <1>1, <1>5, BoundAssumption DEF IInv, Numbers, Fiber
<1>7. Unborn(g) /\ g > born /\ g # Nobody /\ g \notin 0..born
  BY <1>1, <1>6 DEF IInv, Hands, Nobody
<1>8. /\ Becomes(c, task[c].op, "install", f, g, task[c].freed, task[c].frozen) /\ Detached
  <2>1. task' = [task EXCEPT ![c] = [task[c] EXCEPT !.succ = g, !.at = "install"]]
    BY <1>1, <1>2 DEF Attach, TypeOK
  <2>2. [task[c] EXCEPT !.succ = g, !.at = "install"] \in Task
    BY <1>1, <1>6 DEF Task, Someone, Place
  <2> QED BY <1>1, <2>1, <2>2 DEF Becomes, Same, Detached, Task, TypeOK
<1>9. /\ origin' \in [Fiber -> Someone] /\ origin'[g] = f
      /\ \A x \in Fiber : x # g => origin'[x] = origin[x]
  BY <1>1, <1>2, <1>6 DEF TypeOK, Someone, Task
<1>10. PICK a \in Fiber :
         /\ a = (IF current = Nobody THEN g ELSE current)
         /\ current' = a /\ claim' = [claim EXCEPT ![g] = a]
         /\ group' = [group EXCEPT ![a] = @ \cup {g}] /\ residents' = residents \cup {g}
  <2>1. current \in Fiber \/ current = Nobody
    BY <1>1 DEF TypeOK, Someone
  <2> QED BY <1>2, <1>6, <2>1 DEF AttachFiber
<1> HIDE DEF g, f
<1>11. /\ claim' \in [Fiber -> Someone] /\ group' \in [Fiber -> SUBSET Fiber] /\ residents' \subseteq Fiber
       /\ claim'[g] = a /\ \A x \in Fiber : x # g => claim'[x] = claim[x]
       /\ \A b \in Fiber : group'[b] = IF b = a THEN group[b] \cup {g} ELSE group[b]
  BY <1>1, <1>6, <1>10, ZenonT(60) DEF TypeOK, Someone
<1>12. TypeOK'
  <2>1. known \subseteq 1..g
    BY <1>1 DEF TypeOK, g
  <2> QED BY <1>1, <1>2, <1>4, <1>6, <1>8, <1>9, <1>10, <1>11, <2>1 DEF TypeOK, Detached, Someone
<1>13. Steady(c)
  <2>1. \A x \in Fiber : x <= born => x # g
    BY <1>1 DEF g, Fiber
  <2> QED BY <1>1, <1>2, <1>4, <1>6, <1>7, <1>8, <1>11, <2>1 DEF Steady, Becomes, TypeOK, Fiber, g
<1>14. Routed(c)'
  <2>1. f \in 0..g /\ g \in 0..g /\ f = task[c].fiber
    BY <1>1 DEF Routed, f, g
  <2> QED BY <1>1, <1>2, <1>3, <1>4, <1>7, <1>8, <2>1, CallerAssumption
          DEF Routed, Way, Becomes, Barrier, Creating, Delivery, Before, Operation
<1>15. Owns(c)'
  BY <1>4, <1>7, <1>8 DEF Owns, Becomes, Barrier, Unborn
<1>16. Routes' /\ Barriers'
  BY <1>4, <1>13, <1>14, <1>15, RoutesKeep, BarriersKeep
<1>17. Hands'
  <2>1. ASSUME NEW x \in Fiber, x > born'
        PROVE  Unborn(x)'
    <3>1. x > born /\ x # g /\ Unborn(x)
      BY <1>1, <1>2, <2>1 DEF IInv, Hands, Fiber, g
    <3>2. current' # x
      BY <1>10, <3>1 DEF Unborn
    <3> QED BY <1>4, <1>9, <1>11, <3>1, <3>2 DEF Unborn
  <2>2. task'[c].succ = g /\ \A d \in Caller \ {c} : task'[d].succ = task[d].succ /\ task[d].succ # g
    <3>1. \A d \in Caller : task[d].succ # g
      BY <1>7 DEF IInv, Routes, Routed
    <3> QED BY <1>8, <3>1 DEF Becomes, Same
  <2>3. \A d \in Caller : task'[d].succ \notin known'
    <3>1. \A x \in known : x \in 0..born
      BY <1>1 DEF TypeOK
    <3>2. g \notin known
      BY <1>7, <3>1
    <3> QED BY <1>4, <2>2, <3>2 DEF IInv, Hands
  <2>4. \A d, e \in Caller : task'[d].succ = task'[e].succ /\ task'[d].succ # Nobody => d = e
    BY <2>2 DEF IInv, Hands
  <2>5. ASSUME NEW x \in 1..born', alive'[x]
        PROVE  x \in known' \/ \E d \in Caller : task'[d].succ = x
    <3>1. CASE x = g
      BY <2>2, <3>1
    <3>2. CASE x # g
      <4>1. x \in 1..born
        BY <1>1, <1>2, <3>2 DEF g
      <4>2. x \in known \/ \E d \in Caller : task[d].succ = x
        BY <1>4, <2>5, <4>1 DEF IInv, Hands
      <4>3. x # Nobody
        BY <4>1 DEF Nobody
      <4> QED BY <1>3, <1>4, <2>2, <4>2, <4>3
    <3> QED BY <3>1, <3>2
  <2> QED BY <2>1, <2>3, <2>4, <2>5 DEF Hands
<1>18. Residency'
  <2>1. \A x \in Fiber : x \in residents' <=> claim'[x] # Nobody
    BY <1>6, <1>10, <1>11 DEF IInv, Residency, Fiber, Nobody
  <2>2. \A x, b \in Fiber : x \in group'[b] <=> claim'[x] = b
    <3>1. \A b \in Fiber : g \notin group[b]
      BY <1>6, <1>7 DEF IInv, Residency, Unborn, Fiber, Nobody
    <3> QED BY <1>11, <3>1 DEF IInv, Residency
  <2>3. group'[current'] # {}
    BY <1>10, <1>11
  <2>4. RemovalsStay
    BY <1>3, <1>8 DEF RemovalsStay, Becomes, Same
  <2>5. \A x \in Fiber : Removing(x) => Removing(x)'
    BY <2>4 DEF Removing, RemovalsStay
  <2>6. ASSUME NEW x \in residents'
        PROVE  claim'[x] = current' \/ disposing'[x] \/ Removing(x)'
    <3>1. CASE x = g
      BY <1>10, <1>11, <3>1
    <3>2. CASE x # g
      <4>1. x \in residents /\ x \in Fiber /\ claim'[x] = claim[x] /\ claim[x] # Nobody
        BY <1>1, <1>10, <1>11, <3>2 DEF TypeOK, IInv, Residency
      <4>2. claim[x] = current => claim'[x] = current'
        BY <1>10, <4>1
      <4> QED BY <1>4, <2>5, <4>1, <4>2 DEF IInv, Residency
    <3> QED BY <3>1, <3>2
  <2>7. ASSUME NEW d \in Caller
        PROVE  Removal(d)'
    <3>1. SUFFICES ASSUME task[d].op = "remove" PROVE Removal(d)'
      BY <2>4 DEF Removal, RemovalsStay
    <3>2. Removal(d) /\ task[d].freed \in Fiber /\ task[d].freed \in 1..born
      BY <1>1, <3>1 DEF IInv, Residency, Removal
    <3>3. task[d].freed # a /\ task[d].freed \in 1..born' /\ 1..born \subseteq 1..born'
      BY <1>1, <1>2, <1>7, <1>10, <3>1, <3>2 DEF Removal, g
    <3>4. group'[task[d].freed] = group[task[d].freed]
      BY <1>11, <3>2, <3>3
    <3> QED BY <1>4, <1>10, <2>4, <3>1, <3>2, <3>3, <3>4 DEF Removal, RemovalsStay
  <2> QED BY <2>1, <2>2, <2>3, <2>6, <2>7 DEF Residency
<1>19. Index' /\ Seals'
  <2>1. Index'
    BY <1>4, <1>13, IndexKeep
  <2>2. Seals'
    BY <1>1, <1>4, <1>7, <1>8 DEF Seals, IInv, Becomes, Same, Unborn
  <2> QED BY <2>1, <2>2
<1>20. Eras'
  <2>1. f = Nobody \/ (f \in Fiber /\ complete[f] /\ Sourcing(c) /\ task[c].op = "era")
    BY <1>1, <1>2, <1>3 DEF Owns, Routed, Sourcing, Before, f
  <2>2. \A x \in Fiber : origin[x] = f => f = Nobody
    BY <2>1 DEF IInv, Eras, f
  <2>3. \A x \in Fiber : origin'[x] # Nobody => complete'[origin'[x]]
    BY <1>4, <1>9, <2>1 DEF IInv, Eras
  <2>4. \A x, y \in Fiber : origin'[x] = origin'[y] /\ origin'[x] # Nobody => x = y
    BY <1>9, <2>2 DEF IInv, Eras
  <2>5. ASSUME NEW d \in Caller, Sourcing(d)'
        PROVE  d # c /\ Sourcing(d) /\ Same(d) /\ task[d].fiber \in Fiber /\ task[d].fiber # f
    <3>1. d # c /\ Sourcing(d) /\ Same(d)
      BY <1>8, <2>5 DEF Becomes, Same, Sourcing, Before, Barrier
    <3>2. task[d].fiber \in Fiber /\ task[d].fiber # Nobody
      BY <1>1, <3>1 DEF Sourcing, IInv, Routes, Routed
    <3>3. task[d].fiber # f
      BY <2>1, <3>1, <3>2 DEF IInv, Eras, f
    <3> QED BY <3>1, <3>2, <3>3
  <2>6. \A d \in Caller : Sourcing(d)' =>
         /\ disposing'[task'[d].fiber]
         /\ \A x \in Fiber : origin'[x] # task'[d].fiber
         /\ task'[d].at # "attach" => seal'[task'[d].fiber] = "home"
    BY <1>4, <1>9, <2>5 DEF IInv, Eras, Same
  <2>7. \A d, e \in Caller : Sourcing(d)' /\ Sourcing(e)' /\ task'[d].fiber = task'[e].fiber => d = e
    BY <2>5 DEF IInv, Eras, Same
  <2> QED BY <2>3, <2>4, <2>6, <2>7 DEF Eras
<1>21. Frames'
  BY <1>4, <1>8, FramesKeep
<1>22. Numbers'
  <2>1. Pending' = Pending \ {c}
    BY <1>8 DEF Pending, Becomes, Same, Before, Barrier
  <2>2. Cardinality(Pending)' = Cardinality(Pending \ {c})
    BY <2>1
  <2> QED BY <1>2, <1>6, <2>2 DEF Numbers
<1> QED
  BY <1>12, <1>16, <1>17, <1>18, <1>19, <1>20, <1>21, <1>22 DEF IInv

\* The first apply starts under the slot and a lease on the seal.
LEMMA InitialPassKeeps ==
    ASSUME IInv, NEW c \in Caller, InitialPass(c)
    PROVE  IInv'
<1> DEFINE g == task[c].succ
<1>1. /\ TypeOK /\ Routed(c) /\ Owns(c) /\ c # None /\ task[c] \in Task
      /\ 1..born \subseteq Fiber /\ born \in Nat /\ known \subseteq Fiber /\ Nobody \notin known
      /\ g # Nobody => g \in Fiber /\ g \in 1..born
  BY Facts
<1>2. task[c].at = "initial" /\ slot[g] = None
  BY DEF InitialPass
<1>3. task[c].op \in {"spawn", "era"} /\ task[c].at \in Creating
  BY <1>1, <1>2 DEF Routed, Way, Task, Operation, Barrier, Creating
<1>4. g \in Fiber /\ g \in 1..born /\ g # Nobody /\ provider # g
  BY <1>1, <1>2, <1>3 DEF Routed, Owns
<1>5. UNCHANGED <<born, known, origin, installed, indexed, alive, active, disposing, complete, provider, owed>>
  BY DEF InitialPass, lineVars
<1>6. CASE ~alive[g]
  <2>1. ReleaseResidency(g) /\ NotCreated(c) /\ UNCHANGED <<slot, seal, frames>>
    BY <1>6 DEF InitialPass
  <2> HIDE DEF g
  <2>2. g = task[c].succ
    BY DEF g
  <2> QED BY <1>3, <1>5, <1>6, <2>1, <2>2, DropKeeps
<1>7. CASE alive[g]
  <2>1. /\ slot' = [slot EXCEPT ![g] = c] /\ seal' = [seal EXCEPT ![g] = "leased"]
        /\ Enter(g, task[c].attr) /\ Goto(c, "apply")
        /\ UNCHANGED <<current, group, residents, claim>>
    BY <1>7 DEF InitialPass, registryVars
  <2>2. Goes(c, "apply") /\ Detached
    BY <1>1, <2>1, GotoGoes DEF Place
  <2>3. Frames' /\ frames' \in [Body -> SUBSET Body]
    BY <1>4, <2>1, <2>2, EnterFrames
  <2> HIDE DEF g
  <2>4. TypeOK'
    BY <1>1, <1>4, <1>5, <2>1, <2>2, <2>3 DEF TypeOK, Detached
  <2>5. /\ slot'[g] = c /\ seal'[g] = "leased"
        /\ \A x \in Fiber : x # g => slot'[x] = slot[x] /\ seal'[x] = seal[x]
    BY <1>1, <1>4, <2>1 DEF TypeOK
  <2>6. Steady(c)
    BY <1>1, <1>2, <1>5, <2>1, <2>2, <2>5, CallerAssumption DEF Steady, Goes, Becomes, TypeOK, g
  <2>7. Routed(c)'
    BY <1>1, <1>3, <1>4, <1>5, <2>2, CallerAssumption
       DEF Routed, Way, Goes, Becomes, Barrier, Creating, Delivery, Before, Operation, g
  <2>8. Owns(c)'
    BY <1>4, <1>5, <1>7, <2>2, <2>5 DEF Owns, Goes, Becomes, Barrier, g
  <2>9. Routes' /\ Barriers'
    BY <1>5, <2>6, <2>7, <2>8, RoutesKeep, BarriersKeep
  <2>10. \A x \in Fiber : x > born => Unborn(x)'
    BY <1>1, <1>4, <1>5, <2>1, <2>5 DEF Unborn, IInv, Hands
  <2>11. Hands'
    BY <1>5, <2>2, <2>6, <2>10, HandsKeep DEF Goes, Becomes
  <2>12. Residency'
    BY <1>3, <1>5, <2>1, <2>2, <2>6, ResidencyKeep DEF Goes, Becomes, registryVars
  <2>13. Index'
    BY <1>5, <2>6, IndexKeep
  <2>14. \A x \in known : x # g
    BY DEF IInv, Hands, g
  <2>15. \A d \in Caller : d # c => task'[d].succ # g
    BY <1>4, <2>2 DEF IInv, Hands, g, Goes, Becomes, Same
  <2>16. Seals'
    <3>1. \A x \in Fiber : seal'[x] = "moved" => disposing'[x]
      BY <1>5, <2>5 DEF IInv, Seals
    <3>2. \A x \in known' : seal'[x] # "leased"
      BY <1>1, <1>5, <2>5, <2>14 DEF IInv, Seals
    <3>3. ASSUME NEW d \in Caller, task'[d].succ # Nobody, task'[d].at # "apply"
          PROVE  seal'[task'[d].succ] # "leased"
      <4>1. d # c /\ Same(d)
        BY <2>2, <3>3 DEF Goes, Becomes
      <4>2. task[d].succ \in Fiber
        BY <3>3, <4>1, Facts DEF Same
      <4> QED BY <2>5, <2>15, <3>3, <4>1, <4>2 DEF IInv, Seals, Same
    <3> QED BY <3>1, <3>2, <3>3 DEF Seals
  <2>17. Eras'
    <3>1. \A d \in Caller : Sourcing(d) => task[d].fiber # g
      BY <2>14 DEF Sourcing, IInv, Routes, Routed
    <3> QED BY <1>5, <2>2, <2>5, <2>6, <3>1, ErasKeep DEF Goes, Becomes, Sourcing, Before, Barrier
  <2>18. Numbers'
    BY <1>5, <2>2, NotPending, NumbersKeep DEF Goes, Becomes, Before, Barrier
  <2> QED
    BY <2>3, <2>4, <2>9, <2>11, <2>12, <2>13, <2>16, <2>17, <2>18 DEF IInv
<1> QED BY <1>6, <1>7

\* The apply gives the seal back; a failed one leaves its Fiber terminal, still
\* under the pass's slot.
LEMMA ApplyKeeps ==
    ASSUME IInv, NEW c \in Caller, ApplyOk(c) \/ ApplyFails(c)
    PROVE  IInv'
<1> DEFINE g == task[c].succ
<1>1. /\ TypeOK /\ Routed(c) /\ Owns(c) /\ c # None /\ task[c] \in Task
      /\ 1..born \subseteq Fiber /\ born \in Nat /\ known \subseteq Fiber /\ Nobody \notin known
      /\ g # Nobody => g \in Fiber /\ g \in 1..born
  BY Facts
<1>2. task[c].at = "apply" /\ seal' = [seal EXCEPT ![g] = "home"] /\ Leave(g)
  BY DEF ApplyOk, ApplyFails
<1>3. task[c].op \in {"spawn", "era"}
  BY <1>1, <1>2 DEF Routed, Way, Task, Operation, Barrier
<1>4. g \in Fiber /\ g \in 1..born /\ g # Nobody /\ provider # g /\ slot[g] = c /\ alive[g]
  BY <1>1, <1>2, <1>3 DEF Routed, Owns, Creating
<1>5. UNCHANGED <<born, known, origin, current, group, residents, claim, installed, complete>>
  BY DEF ApplyOk, ApplyFails, lineVars, registryVars
<1>6. PICK at \in {"handoff", "abort"} :
        /\ task' = [Left(g) EXCEPT ![c].at = at]
        /\ at = "handoff" =>
             /\ provider' \in {provider, g} /\ slot' = [slot EXCEPT ![g] = None]
             /\ active' = [active EXCEPT ![g] = TRUE] /\ UNCHANGED <<indexed, alive, disposing>>
             /\ owed' = (owed \/ Shown' # Shown)
        /\ at = "abort" =>
             /\ alive' = [alive EXCEPT ![g] = FALSE] /\ indexed' = indexed \ {g}
             /\ disposing' = [disposing EXCEPT ![g] = TRUE] /\ UNCHANGED <<active, slot, provider, owed>>
  <2>1. CASE ApplyOk(c)
    <3>1. provider' \in {provider, g}
      BY <2>1 DEF ApplyOk
    <3> QED BY <2>1, <3>1 DEF ApplyOk, Drifts
  <2>2. CASE ApplyFails(c)
    BY <2>2 DEF ApplyFails
  <2> QED BY <2>1, <2>2
<1>7. Goes(c, at) /\ Detached
  BY <1>1, <1>6, LeftGoes, ZenonT(60) DEF Place
<1>8. Frames' /\ frames' \in [Body -> SUBSET Body]
  BY <1>2, <1>4, <1>7, LeaveFrames
<1> HIDE DEF g
<1>9. /\ provider' \in {provider, g} /\ (at = "abort" => provider' = provider)
      /\ alive' \in [Fiber -> BOOLEAN] /\ disposing' \in [Fiber -> BOOLEAN]
      /\ active' \in [Fiber -> BOOLEAN] /\ slot' \in [Fiber -> Caller \cup {None}]
      /\ indexed' \subseteq indexed /\ owed' \in BOOLEAN
      /\ seal' \in [Fiber -> {"home", "leased", "moved"}]
  BY <1>1, <1>2, <1>4, <1>6 DEF TypeOK
<1>10. /\ \A x \in Fiber : x # g => /\ slot'[x] = slot[x] /\ seal'[x] = seal[x] /\ alive'[x] = alive[x]
                                    /\ disposing'[x] = disposing[x]
       /\ seal'[g] = "home"
       /\ disposing[g] => disposing'[g]
       /\ at = "abort" => slot'[g] = c /\ ~alive'[g] /\ disposing'[g] /\ g \notin indexed'
       /\ at = "handoff" => alive' = alive
  BY <1>1, <1>2, <1>4, <1>6 DEF TypeOK
<1>11. TypeOK'
  BY <1>1, <1>4, <1>5, <1>7, <1>8, <1>9 DEF TypeOK, Detached, Someone
<1>12. Steady(c)
  <2>1. \A x \in Fiber : (disposing[x] => disposing'[x]) /\ (alive'[x] => alive[x])
    BY <1>4, <1>10
  <2>2. \A x \in Fiber : \A d \in Caller \ {c} : slot[x] = d => slot'[x] = d /\ alive'[x] = alive[x]
    BY <1>4, <1>10
  <2>3. provider' = provider \/ (provider' \in Fiber /\ alive[provider'] /\ provider' = task[c].succ)
    BY <1>4, <1>9 DEF g
  <2> QED BY <1>1, <1>5, <1>7, <2>1, <2>2, <2>3 DEF Steady, Goes, Becomes, TypeOK
<1>13. Routed(c)'
  BY <1>1, <1>3, <1>4, <1>5, <1>7, CallerAssumption
     DEF Routed, Way, Goes, Becomes, Barrier, Creating, Delivery, Before, Operation, g
<1>14. Owns(c)'
  BY <1>4, <1>7, <1>9, <1>10 DEF Owns, Goes, Becomes, Barrier, g
<1>15. Routes' /\ Barriers'
  BY <1>5, <1>12, <1>13, <1>14, RoutesKeep, BarriersKeep
<1>16. ASSUME NEW x \in Fiber, x > born
       PROVE  Unborn(x)'
  <2>1. Unborn(x)
    BY <1>16 DEF IInv, Hands
  <2>2. g <= born /\ g \in Nat /\ x \in Nat
    BY <1>1, <1>4 DEF Fiber
  <2>3. x # g
    BY <1>1, <1>16, <2>2
  <2> QED BY <1>5, <1>9, <1>10, <2>1, <2>3 DEF Unborn
<1>17. Hands'
  BY <1>5, <1>7, <1>12, <1>16, HandsKeep DEF Goes, Becomes
<1>18. Residency'
  BY <1>3, <1>5, <1>7, <1>12, ResidencyKeep DEF Goes, Becomes, registryVars
<1>19. Index'
  <2>1. \A x \in indexed' : alive'[x] = alive[x]
    BY <1>1, <1>9, <1>10 DEF TypeOK
  <2> QED BY <1>9, <1>12, <2>1, IndexKeep
<1>20. Seals'
  <2>1. \A x \in Fiber : seal'[x] = "moved" => disposing'[x]
    BY <1>4, <1>10 DEF IInv, Seals
  <2>2. \A x \in known' : seal'[x] # "leased"
    BY <1>1, <1>4, <1>5, <1>10 DEF IInv, Seals
  <2>3. ASSUME NEW d \in Caller, task'[d].succ # Nobody, task'[d].at # "apply"
        PROVE  seal'[task'[d].succ] # "leased"
    <3>1. CASE d = c
      BY <1>7, <1>10, <3>1 DEF Goes, Becomes, g
    <3>2. CASE d # c
      <4>1. Same(d) /\ task[d].succ \in Fiber
        BY <1>7, <2>3, <3>2, Facts DEF Goes, Becomes, Same
      <4> QED BY <1>10, <2>3, <4>1 DEF IInv, Seals, Same
    <3> QED BY <3>1, <3>2
  <2> QED BY <2>1, <2>2, <2>3 DEF Seals
<1>21. Eras'
  <2>1. \A d \in Caller : Sourcing(d) => task[d].fiber # g
    BY DEF Sourcing, IInv, Routes, Routed, Hands, g
  <2> QED BY <1>5, <1>7, <1>10, <1>12, <2>1, ErasKeep DEF Goes, Becomes, Sourcing, Before, Barrier
<1>22. Numbers'
  BY <1>5, <1>7, NotPending, NumbersKeep DEF Goes, Becomes, Before, Barrier
<1> QED
  BY <1>8, <1>11, <1>15, <1>17, <1>18, <1>19, <1>20, <1>21, <1>22 DEF IInv

LEMMA AbortKeeps ==
    ASSUME IInv, NEW c \in Caller, Abort(c)
    PROVE  IInv'
<1> DEFINE g == task[c].succ
<1>1. TypeOK /\ Routed(c) /\ Owns(c) /\ task[c] \in Task /\ task[c].at = "abort"
  BY Facts DEF Abort
<1>2. task[c].op \in {"spawn", "era"} /\ task[c].at \in Creating
  BY <1>1 DEF Routed, Way, Task, Operation, Barrier, Creating
<1>3. slot[g] = c /\ ~alive[g] /\ disposing[g] /\ provider # g
  BY <1>1 DEF Owns
<1>4. /\ ReleaseResidency(g) /\ NotCreated(c)
      /\ UNCHANGED <<born, known, origin, installed, indexed, alive, active, disposing, seal, frames, provider,
                     owed>>
      /\ slot' = [slot EXCEPT ![g] = None] /\ complete' = [complete EXCEPT ![g] = TRUE]
  BY DEF Abort, lineVars
<1>5. g = task[c].succ
  OBVIOUS
<1> HIDE DEF g
<1> QED BY <1>2, <1>3, <1>4, <1>5, DropKeeps

LEMMA HandoffKeeps ==
    ASSUME IInv, NEW c \in Caller, Handoff(c) \/ Accept(c)
    PROVE  IInv'
<1> DEFINE g == task[c].succ
<1>1. TypeOK /\ Routed(c) /\ Owns(c) /\ task[c] \in Task /\ task[c].at \in {"handoff", "offered"}
  BY Facts DEF Handoff, Accept
<1>2. task[c].op \in {"spawn", "era"} /\ g # Nobody
  BY <1>1 DEF Routed, Way, Task, Operation, Barrier, Creating, Delivery
<1>3. UNCHANGED <<fiberVars, frames, born, origin, provider, owed>>
  BY DEF Handoff, Accept
<1>4. CASE Handoff(c) /\ ~alive[g]
  <2>1. ReleaseResidency(g) /\ NotCreated(c) /\ UNCHANGED known /\ task[c].at \in Creating
    BY <1>4 DEF Handoff, Creating
  <2>2. g = task[c].succ
    OBVIOUS
  <2> HIDE DEF g
  <2> QED BY <1>2, <1>3, <1>4, <2>1, <2>2, DropKeeps DEF fiberVars
<1>5. CASE Handoff(c) /\ alive[g] /\ task[c].op = "spawn"
  BY <1>1, <1>2, <1>3, <1>5, DeliverKeeps DEF Handoff
<1>6. CASE Accept(c)
  BY <1>1, <1>2, <1>3, <1>6, DeliverKeeps DEF Accept
<1>7. CASE Handoff(c) /\ alive[g] /\ task[c].op = "era"
  <2>1. Goto(c, "final") /\ Still /\ UNCHANGED <<frames, owed>> /\ task[c].at = "handoff"
    BY <1>3, <1>7 DEF Handoff, Still, lineVars
  <2>2. Owns(c)'
    BY <1>1, <2>1, GotoGoes DEF Owns, Goes, Becomes, Place, Barrier
  <2>3. /\ "final" \in Place /\ task[c].op \in Operation /\ Way(task[c].op, "final")
        /\ "final" \notin Before /\ "final" \notin Creating \cup Delivery /\ task[c].op # "remove"
    BY <1>7, CallerAssumption DEF Place, Operation, Way, Before, Barrier, Creating, Delivery
  <2> QED BY <2>1, <2>2, <2>3, StillGoes
<1> QED BY <1>2, <1>4, <1>5, <1>6, <1>7

-----------------------------------------------------------------------------
(* The era's own steps, and those of the Fibers *)

\* An era that passes its claim is the only one of its source.
LEMMA ClaimEraKeeps ==
    ASSUME IInv, NEW c \in Caller, ClaimEra(c)
    PROVE  IInv'
<1> DEFINE f == task[c].fiber
<1>1. /\ TypeOK /\ Routed(c) /\ Owns(c) /\ Removal(c) /\ c # None /\ task[c] \in Task
      /\ 1..born \subseteq Fiber /\ born \in Nat /\ known \subseteq Fiber /\ Nobody \notin known
      /\ f # Nobody => f \in Fiber /\ f \in 1..born
  BY Facts
<1>2. task[c].op = "era" /\ task[c].at = "claim" /\ slot[f] = None
  BY DEF ClaimEra, At
<1>3. f \in Fiber /\ f \in 1..born /\ f # Nobody /\ f \in known /\ task[c].succ = Nobody
  BY <1>1, <1>2 DEF Routed, Before
<1>4. UNCHANGED <<born, known, origin, current, group, residents, claim, installed, indexed, alive, active,
                  complete, seal, frames, provider, owed>>
  BY DEF ClaimEra, registryVars, lineVars
<1>5. CASE LosesClaim(f) \/ (provider = f /\ RefusesDependent(c))
  <2>1. End(c) /\ UNCHANGED <<disposing, slot>>
    BY <1>5 DEF ClaimEra
  <2>2. Still
    BY <1>4, <2>1 DEF Still, registryVars, fiberVars, lineVars
  <2> QED BY <1>2, <1>3, <1>4, <2>1, <2>2, StillEnds
<1>6. CASE ~(LosesClaim(f) \/ (provider = f /\ RefusesDependent(c)))
  <2>1. /\ disposing' = [disposing EXCEPT ![f] = TRUE] /\ slot' = [slot EXCEPT ![f] = c]
        /\ task' = [task EXCEPT ![c].edges = (provider = f), ![c].at = "teardown"]
    BY <1>6 DEF ClaimEra
  <2>2. alive[f] /\ ~disposing[f]
    BY <1>6 DEF LosesClaim
  <2>3. Goes(c, "teardown") /\ Detached
    <3>1. task' = [task EXCEPT ![c] = [task[c] EXCEPT !.edges = (provider = f), !.at = "teardown"]]
      BY <1>1, <2>1 DEF TypeOK
    <3>2. [task[c] EXCEPT !.edges = (provider = f), !.at = "teardown"] \in Task
      BY <1>1 DEF Task, Place
    <3> QED BY <1>1, <3>1, <3>2 DEF Goes, Becomes, Same, Detached, Task, TypeOK
  <2> HIDE DEF f
  <2>4. TypeOK'
    BY <1>1, <1>3, <1>4, <2>1, <2>3 DEF TypeOK, Detached
  <2>5. Steady(c)
    BY <1>1, <1>2, <1>3, <1>4, <2>1, <2>3, CallerAssumption DEF Steady, Goes, Becomes, TypeOK, f
  <2>6. Routed(c)'
    BY <1>1, <1>2, <1>3, <1>4, <2>3, CallerAssumption
       DEF Routed, Way, Goes, Becomes, Barrier, Creating, Delivery, Before, Operation, f
  <2>7. Owns(c)'
    BY <1>1, <1>2, <1>3, <2>1, <2>3 DEF Owns, Goes, Becomes, Barrier, TypeOK, f
  <2>8. Routes' /\ Barriers'
    BY <1>4, <2>5, <2>6, <2>7, RoutesKeep, BarriersKeep
  <2>9. \A x \in Fiber : x > born => Unborn(x)'
    BY <1>1, <1>3, <1>4, <2>1 DEF Unborn, IInv, Hands, TypeOK
  <2>10. Hands'
    BY <1>4, <2>3, <2>5, <2>9, HandsKeep DEF Goes, Becomes
  <2>11. Residency'
    BY <1>2, <1>4, <2>3, <2>5, ResidencyKeep DEF Goes, Becomes, registryVars
  <2>12. Index' /\ Seals'
    BY <1>2, <1>4, <2>3, <2>5, IndexKeep, SealsKeep DEF Goes, Becomes
  <2>13. Eras'
    <3>1. \A x \in Fiber : disposing[x] => disposing'[x]
      BY <2>5 DEF Steady
    <3>2. disposing'[f] /\ task'[c].fiber = f
      BY <1>1, <1>3, <2>1, <2>3 DEF TypeOK, Goes, Becomes, f
    <3>3. \A x \in Fiber : origin[x] # f
      <4>1. ~complete[f]
        BY <1>3, <2>2 DEF IInv, Barriers, Ended
      <4> QED BY <1>3, <4>1 DEF IInv, Eras
    <3>4. seal[f] = "home"
      BY <1>1, <1>3, <2>2 DEF IInv, Seals, TypeOK
    <3>5. ASSUME NEW d \in Caller, d # c, Sourcing(d)'
          PROVE  Sourcing(d) /\ Same(d) /\ task[d].fiber # f /\ task[d].fiber \in Fiber
      <4>1. Sourcing(d) /\ Same(d)
        BY <2>3, <3>5 DEF Goes, Becomes, Same, Sourcing
      <4>2. task[d].fiber # f /\ task[d].fiber \in Fiber
        BY <1>1, <2>2, <4>1 DEF IInv, Eras, Sourcing, Routes, Routed
      <4> QED BY <4>1, <4>2
    <3>6. \A d \in Caller : Sourcing(d)' =>
           /\ disposing'[task'[d].fiber]
           /\ \A x \in Fiber : origin'[x] # task'[d].fiber
           /\ task'[d].at # "attach" => seal'[task'[d].fiber] = "home"
      BY <1>4, <3>1, <3>2, <3>3, <3>4, <3>5 DEF IInv, Eras, Same
    <3>7. \A d, e \in Caller : Sourcing(d)' /\ Sourcing(e)' /\ task'[d].fiber = task'[e].fiber => d = e
      BY <3>2, <3>5 DEF IInv, Eras, Same
    <3> QED BY <1>4, <3>6, <3>7 DEF IInv, Eras
  <2>14. Frames'
    BY <1>4, <2>3, FramesKeep
  <2>15. Numbers'
    BY <1>2, <1>4, <2>3, NotPending, NumbersKeep DEF Goes, Becomes, Pending, Before
  <2> QED BY <2>4, <2>8, <2>10, <2>11, <2>12, <2>13, <2>14, <2>15 DEF IInv
<1> QED BY <1>5, <1>6

LEMMA IntoSuccessorKeeps ==
    ASSUME IInv, NEW c \in Caller, IntoSuccessor(c)
    PROVE  IInv'
<1> DEFINE f == task[c].fiber
<1>1. /\ TypeOK /\ Routed(c) /\ Owns(c) /\ Removal(c) /\ c # None /\ task[c] \in Task
      /\ 1..born \subseteq Fiber /\ born \in Nat /\ known \subseteq Fiber /\ Nobody \notin known
      /\ f # Nobody => f \in Fiber /\ f \in 1..born
  BY Facts
<1>2. task[c].at = "successor" /\ seal' = [seal EXCEPT ![f] = "moved"]
  BY DEF IntoSuccessor
<1>3. task[c].op = "era"
  BY <1>1, <1>2 DEF Routed, Way, Task, Operation, Barrier, Creating, Delivery
<1>4. f \in Fiber /\ f \in 1..born /\ f # Nobody /\ task[c].succ = Nobody /\ complete[f]
  BY <1>1, <1>2, <1>3 DEF Routed, Before, Owns
<1>5. UNCHANGED <<born, known, origin, current, group, residents, claim, installed, indexed, alive, active,
                  disposing, complete, slot, frames, provider, owed>>
  BY DEF IntoSuccessor, registryVars, lineVars
<1>6. PICK at \in {"attach", "final"} : Goes(c, at) /\ Detached
  BY <1>1, GotoGoes DEF IntoSuccessor, Place
<1> HIDE DEF f
<1>7. seal'[f] = "moved" /\ \A x \in Fiber : x # f => seal'[x] = seal[x]
  BY <1>1, <1>2, <1>4 DEF TypeOK
<1>8. TypeOK'
  BY <1>1, <1>2, <1>5, <1>6 DEF TypeOK, Detached
<1>9. Steady(c)
  BY <1>1, <1>5, <1>6 DEF Steady, Goes, Becomes, TypeOK
<1>10. Routed(c)'
  BY <1>1, <1>3, <1>4, <1>5, <1>6, CallerAssumption
     DEF Routed, Way, Goes, Becomes, Barrier, Creating, Delivery, Before, Operation, f
<1>11. Owns(c)'
  BY <1>4, <1>5, <1>6 DEF Owns, Goes, Becomes, Barrier, f
<1>12. Routes' /\ Barriers'
  BY <1>5, <1>9, <1>10, <1>11, RoutesKeep, BarriersKeep
<1>13. ASSUME NEW x \in Fiber, x > born
       PROVE  Unborn(x)'
  <2>1. Unborn(x)
    BY <1>13 DEF IInv, Hands
  <2>2. x # f
    BY <1>1, <1>4, <1>13
  <2> QED BY <1>5, <1>7, <2>1, <2>2 DEF Unborn
<1>14. Hands'
  BY <1>5, <1>6, <1>9, <1>13, HandsKeep DEF Goes, Becomes
<1>15. Residency'
  BY <1>3, <1>5, <1>6, <1>9, ResidencyKeep DEF Goes, Becomes, registryVars
<1>16. Index'
  BY <1>5, <1>9, IndexKeep
<1>17. Seals'
  <2>1. disposing[f]
    BY <1>4 DEF IInv, Barriers, Ended
  <2>2. \A x \in Fiber : seal'[x] = "moved" => disposing'[x]
    BY <1>5, <1>7, <2>1 DEF IInv, Seals
  <2>3. \A x \in known' : seal'[x] # "leased"
    BY <1>1, <1>5, <1>7 DEF IInv, Seals
  <2>4. ASSUME NEW d \in Caller, task'[d].succ # Nobody, task'[d].at # "apply"
        PROVE  seal'[task'[d].succ] # "leased"
    <3>1. d # c /\ Same(d)
      BY <1>4, <1>6, <2>4 DEF Goes, Becomes
    <3>2. task[d].succ \in Fiber
      BY <2>4, <3>1, Facts DEF Same
    <3> QED BY <1>7, <2>4, <3>1, <3>2 DEF IInv, Seals, Same
  <2> QED BY <2>2, <2>3, <2>4 DEF Seals
<1>18. Eras'
  <2>1. Sourcing(c)
    BY <1>2, <1>3 DEF Sourcing, Before
  <2>2. \A d \in Caller \ {c} : Sourcing(d) => task[d].fiber # f
    BY <2>1 DEF IInv, Eras, f
  <2>3. \A x \in Fiber : seal'[x] # seal[x] =>
          \A d \in Caller \ {c} : Sourcing(d) => task[d].fiber # x
    BY <1>7, <2>2
  <2>4. Sourcing(c)' => task'[c].at = "attach" /\ task'[c].fiber = task[c].fiber
    BY <1>6 DEF Goes, Becomes, Sourcing, Before, Barrier
  <2> QED BY <1>5, <1>9, <2>1, <2>3, <2>4, ErasKeep
<1>19. Frames' /\ Numbers'
  BY <1>2, <1>3, <1>5, <1>6, FramesKeep, NotPending, NumbersKeep DEF Goes, Becomes, Pending, Before
<1> QED
  BY <1>8, <1>12, <1>14, <1>15, <1>16, <1>17, <1>18, <1>19 DEF IInv

\* Steps of no caller that touch neither Fibers nor tasks but the publication.
LEMMA FiberKeeps ==
    ASSUME IInv, UNCHANGED <<registryVars, fiberVars, lineVars>>, \A d \in Caller : Same(d),
           task' \in [Caller -> Task], owed' \in BOOLEAN, frames' \in [Body -> SUBSET Body], Frames',
           provider' = provider \/ (provider' \in known /\ alive[provider'])
    PROVE  IInv'
<1>1. /\ UNCHANGED <<born, known, origin, current, group, residents, claim, installed, indexed, alive, active,
                     disposing, complete, slot, seal>>
      /\ TypeOK /\ born \in Nat /\ known \subseteq Fiber /\ born \in Fiber
  BY BoundAssumption DEF registryVars, fiberVars, lineVars, IInv, TypeOK, Fiber
<1>2. TypeOK'
  BY <1>1 DEF TypeOK, Someone
<1>3. None \notin Caller
  BY CallerAssumption
<1>4. Steady(None)
  BY <1>1, <1>3 DEF Steady, Fiber
<1>5. Routes' /\ Barriers'
  BY <1>1, <1>3, <1>4, RoutesKeep, BarriersKeep
<1>6. ASSUME NEW x \in Fiber, x > born
      PROVE  Unborn(x)'
  <2>1. Unborn(x)
    BY <1>6 DEF IInv, Hands
  <2>2. x \notin known
    BY <1>1, <1>6 DEF TypeOK
  <2> QED BY <1>1, <2>1, <2>2 DEF Unborn
<1>7. Hands'
  BY <1>1, <1>3, <1>4, <1>6, HandsKeep
<1>8. Residency'
  BY <1>1, <1>3, <1>4, ResidencyKeep
<1>9. Index' /\ Seals'
  BY <1>1, <1>3, <1>4, IndexKeep, SealsKeep
<1>10. Eras'
  BY <1>1, <1>3, <1>4, ErasKeep
<1>11. Numbers'
  BY <1>1, <1>3, NotPending, NumbersKeep
<1> QED BY <1>2, <1>5, <1>7, <1>8, <1>9, <1>10, <1>11 DEF IInv

LEMMA ProvideKeeps ==
    ASSUME IInv, NEW f \in Fiber, Provide(f)
    PROVE  IInv'
<1>1. /\ UNCHANGED <<registryVars, fiberVars, lineVars, frames, task>> /\ owed' \in BOOLEAN
      /\ provider' = f /\ f \in known /\ alive[f]
  BY DEF Provide, Drifts, IInv, TypeOK
<1>2. Frames' /\ task' \in [Caller -> Task] /\ frames' \in [Body -> SUBSET Body]
  BY <1>1 DEF IInv, Frames, TypeOK
<1> QED BY <1>1, <1>2, FiberKeeps DEF Same

LEMMA DependentKeeps ==
    ASSUME IInv, DependentStarts \/ DependentSettles
    PROVE  IInv'
<1>1. /\ UNCHANGED <<registryVars, fiberVars, lineVars, provider>> /\ owed' \in BOOLEAN /\ TypeOK
      /\ Dependent \in Body
  BY DEF DependentStarts, DependentSettles, IInv, TypeOK, Body
<1>2. CASE DependentStarts
  <2>1. UNCHANGED task /\ frames' = [frames EXCEPT ![Dependent] = {Dependent}]
    BY <1>2 DEF DependentStarts
  <2>2. frames' \in [Body -> SUBSET Body] /\ task' \in [Caller -> Task] /\ frames'[Dependent] = {Dependent}
    BY <1>1, <2>1 DEF TypeOK
  <2>3. Frames'
    BY <2>2 DEF Frames
  <2> QED BY <1>1, <2>1, <2>2, <2>3, FiberKeeps DEF Same
<1>3. CASE DependentSettles
  <2>1. task' = Left(Dependent) /\ Leave(Dependent)
    BY <1>3 DEF DependentSettles
  <2>2. \A d \in Caller : Same(d) /\ task'[d] \in Task /\ Dependent \notin task'[d].attr
    BY <1>1, <2>1, LeftKeeps DEF Same
  <2>3. task' \in [Caller -> Task]
    BY <2>1, <2>2 DEF Left
  <2>4. /\ frames' \in [Body -> SUBSET Body] /\ frames'[Dependent] = {}
        /\ \A b \in Body : Dependent \notin frames'[b]
    BY <1>1, <2>1 DEF Leave, TypeOK
  <2>5. Frames'
    BY <2>2, <2>4 DEF Frames
  <2> QED BY <1>1, <2>2, <2>3, <2>4, <2>5, FiberKeeps
<1> QED BY <1>2, <1>3

-----------------------------------------------------------------------------
(* The theorems *)

LEMMA InitIInv == Init => IInv
<1> SUFFICES ASSUME Init PROVE IInv
  OBVIOUS
<1>1. 1 \in Fiber /\ Nobody \notin Fiber /\ 1..1 = {1}
  BY BoundAssumption DEF Fiber, Nobody
<1>2. \A c \in Caller : task[c] = Resting
  BY DEF Init
<1>3. TypeOK
  <2>1. task \in [Caller -> Task]
    BY RestingType DEF Init
  <2> QED BY <1>1, <2>1 DEF Init, TypeOK, Someone, Nobody
<1>4. Routes
  BY <1>1, <1>2, CallerAssumption
     DEF Init, Routes, Routed, Way, Resting, Operation, Nobody, Creating, Delivery, Barrier, Before
<1>5. Hands
  <2>1. ASSUME NEW f \in Fiber, f > born
        PROVE  Unborn(f)
    BY <1>1, <2>1 DEF Init, Unborn, Nobody, Fiber
  <2>2. ASSUME NEW f \in 1..born
        PROVE  f \in known
    BY <2>2 DEF Init
  <2>3. \A c \in Caller : task[c].succ = Nobody
    BY <1>2 DEF Resting
  <2> QED BY <2>1, <2>2, <2>3 DEF Init, Hands, Nobody
<1>6. Barriers
  BY <1>1, <1>2 DEF Init, Barriers, Owns, Ended, Resting, Barrier
<1>7. Residency
  <2>1. \A c \in Caller : Removal(c)
    BY <1>2, CallerAssumption DEF Removal, Resting, Operation
  <2>2. /\ claim \in [Fiber -> Someone] /\ group \in [Fiber -> SUBSET Fiber]
        /\ \A f \in Fiber : claim[f] = (IF f = 1 THEN 1 ELSE Nobody) /\ group[f] = (IF f = 1 THEN {1} ELSE {})
        /\ residents = {1} /\ current = 1
    BY <1>3 DEF Init, TypeOK
  <2> QED BY <1>1, <2>1, <2>2 DEF Residency, Nobody
<1>8. Index /\ Eras /\ Seals
  BY <1>1, <1>2, CallerAssumption DEF Init, Index, Eras, Seals, Sourcing, Resting, Operation, Nobody
<1>9. Frames
  BY <1>2 DEF Init, Frames, Resting, Body
<1>10. Numbers
  <2>1. Pending = {}
    BY <1>2, CallerAssumption DEF Pending, Resting, Operation
  <2>2. Cardinality(Pending) = 0
    BY <2>1, FS_EmptySet
  <2> QED BY <2>2, BoundAssumption DEF Init, Numbers
<1> QED BY <1>3, <1>4, <1>5, <1>6, <1>7, <1>8, <1>9, <1>10 DEF IInv

LEMMA NextIInv == IInv /\ [Next]_vars => IInv'
<1> SUFFICES ASSUME IInv, [Next]_vars PROVE IInv'
  OBVIOUS
<1>1. ASSUME NEW c \in Caller, Calls(c)
      PROVE  IInv'
  BY <1>1, StartKeeps, RemovePluginsKeeps DEF Calls, StartStep
<1>2. ASSUME NEW c \in Caller, Step(c)
      PROVE  IInv'
  <2>1. CASE \/ ClaimDispose(c) \/ Join(c) \/ Teardown(c) \/ Drained(c) \/ Unlink(c) \/ PublishComplete(c)
             \/ RemoveNext(c)
    BY <2>1, ClaimDisposeKeeps, JoinKeeps, TeardownKeeps, DrainedKeeps, UnlinkKeeps, PublishCompleteKeeps,
       RemoveNextKeeps
  <2>2. CASE \/ Attach(c) \/ Install(c) \/ Register(c) \/ InitialPass(c) \/ ApplyOk(c) \/ ApplyFails(c)
             \/ Abort(c) \/ Handoff(c)
    BY <2>2, AttachKeeps, InstallKeeps, InitialPassKeeps, ApplyKeeps, AbortKeeps, HandoffKeeps
  <2>3. CASE \/ ClaimEra(c) \/ ConvergeEntry(c) \/ IntoSuccessor(c) \/ ConvergeFinal(c)
             \/ Offer(c) \/ Accept(c) \/ Undelivered(c) \/ ConvergeLast(c)
    BY <2>3, ClaimEraKeeps, ConvergeKeeps, IntoSuccessorKeeps, HandoffKeeps, UndeliveredKeeps
       DEF ConvergeStep
  <2> QED BY <1>2, <2>1, <2>2, <2>3 DEF Step
<1>3. CASE UNCHANGED vars
  <2>1. /\ UNCHANGED <<registryVars, fiberVars, lineVars, provider, frames, task, owed>>
    BY <1>3 DEF vars
  <2>2. Frames' /\ task' \in [Caller -> Task] /\ frames' \in [Body -> SUBSET Body] /\ owed' \in BOOLEAN
    BY <2>1 DEF IInv, Frames, TypeOK
  <2> QED BY <2>1, <2>2, FiberKeeps DEF Same
<1>4. CASE Next
  BY <1>1, <1>2, <1>4, CancelKeeps, ProvideKeeps, DependentKeeps DEF Next
<1> QED BY <1>3, <1>4

THEOREM EraInvariant == Spec => []IInv
BY InitIInv, NextIInv, PTL DEF Spec

\* A successor is attached only behind its source's terminal barrier and the
\* withdrawal of its publication, a source has one successor at most, and an
\* owner finds the Plugin in the seal it claimed (era.rs, spawn_owner).
THEOREM ErasFollow == Spec => []EraBarrier
<1>1. IInv => EraBarrier
  <2> SUFFICES ASSUME IInv PROVE EraBarrier
    OBVIOUS
  <2>1. 1..born \subseteq Fiber /\ residents \subseteq Fiber /\ origin \in [Fiber -> Someone]
    BY BoundAssumption DEF IInv, TypeOK, Fiber
  <2>2. ASSUME NEW f \in 1..born, origin[f] # Nobody
        PROVE  /\ complete[origin[f]] /\ origin[f] \notin residents /\ provider # origin[f]
               /\ \A g \in 1..born \ {f} : origin[g] # origin[f]
    <3>1. f \in Fiber /\ origin[f] \in Fiber /\ complete[origin[f]]
      BY <2>1, <2>2 DEF IInv, Eras, Someone
    <3>2. claim[origin[f]] = Nobody /\ provider # origin[f]
      BY <3>1 DEF IInv, Barriers, Ended
    <3>3. origin[f] \notin residents
      BY <3>1, <3>2 DEF IInv, Residency
    <3>4. \A g \in 1..born \ {f} : origin[g] # origin[f]
      BY <2>1, <2>2, <3>1 DEF IInv, Eras
    <3> QED BY <3>1, <3>2, <3>3, <3>4
  <2>3. ASSUME NEW c \in Caller, task[c].at = "successor"
        PROVE  seal[task[c].fiber] = "home"
    <3>1. task[c].op = "era"
      BY <2>3, Facts DEF Routed, Way, Task, Operation, Barrier, Creating, Delivery
    <3> QED BY <2>3, <3>1 DEF IInv, Eras, Sourcing, Before
  <2> QED BY <2>2, <2>3 DEF EraBarrier
<1> QED BY <1>1, EraInvariant, PTL

\* The Registry loses nobody: who is resident is in the mapped allocation, or
\* its disposal has begun or is ahead of a removal (registry.rs).
THEOREM RegistryIsExact == Spec => []ResidencyIsExact
<1>1. IInv => ResidencyIsExact
  <2> SUFFICES ASSUME IInv PROVE ResidencyIsExact
    OBVIOUS
  <2>1. ASSUME NEW f \in residents
        PROVE  f \in group[claim[f]] /\ ~complete[f]
    <3>1. f \in Fiber /\ claim[f] # Nobody /\ claim[f] \in Fiber
      BY DEF IInv, TypeOK, Residency, Someone
    <3> QED BY <3>1 DEF IInv, Residency, Barriers, Ended
  <2>2. ASSUME NEW c \in Caller, At(c, "remove", "next"), task[c].frozen = {}
        PROVE  group[task[c].freed] = {}
    <3>1. /\ Removal(c) /\ task[c].op = "remove" /\ task[c].at = "next" /\ 1..born \subseteq Fiber
          /\ task[c].fiber # Nobody => task[c].fiber \in Fiber
      BY <2>2, Facts DEF At
    <3>2. /\ task[c].freed \in Fiber /\ group[task[c].freed] \subseteq {task[c].fiber}
          /\ task[c].fiber = Nobody \/ complete[task[c].fiber]
      BY <2>2, <3>1 DEF Removal
    <3>3. task[c].fiber \notin group[task[c].freed]
      <4>1. CASE task[c].fiber = Nobody
        BY <3>2, <4>1 DEF IInv, TypeOK, Fiber, Nobody
      <4>2. CASE task[c].fiber # Nobody
        <5>1. claim[task[c].fiber] = Nobody /\ Nobody \notin Fiber
          BY <3>1, <3>2, <4>2 DEF IInv, Barriers, Ended, Fiber, Nobody
        <5> QED BY <3>1, <3>2, <4>2, <5>1 DEF IInv, Residency
      <4> QED BY <4>1, <4>2
    <3> QED BY <3>2, <3>3
  <2> QED BY <2>1, <2>2 DEF IInv, Residency, Index, ResidencyIsExact
<1> QED BY <1>1, EraInvariant, PTL

\* A live Fiber was delivered, or the operation that made it has it still.
THEOREM NobodyOrphaned == Spec => []NobodyIsOrphaned
<1>1. IInv => NobodyIsOrphaned
  BY DEF IInv, Hands, NobodyIsOrphaned
<1> QED BY <1>1, EraInvariant, PTL

\* An operation leaves a convergence barrier over its edges when Dependent has
\* settled, or from inside the pass that Dependent is running (era.rs, converge).
THEOREM ErasConverge == Spec => BarriersConverge
<1>1. IInv /\ [Next]_vars =>
        [\A c \in Caller :
           task[c].at \in {"converge", "final", "last"} /\ task[c].edges /\ task'[c].at # task[c].at
             => Quiet \/ Running(Dependent)]_vars
  <2> SUFFICES ASSUME IInv, Next, NEW c \in Caller,
                      task[c].at \in {"converge", "final", "last"}, task[c].edges, task'[c].at # task[c].at
               PROVE  Quiet \/ Running(Dependent)
    OBVIOUS
  <2>1. TypeOK /\ task[c] \in Task /\ task \in [Caller -> Task]
    BY DEF IInv, TypeOK
  <2>2. RefusesDependent(c) => Running(Dependent)
    BY DEF RefusesDependent, Running, IInv, Frames
  <2>3. ASSUME NEW d \in Caller, Calls(d) \/ Step(d) \/ Cancel(d), d # c
        PROVE  task'[c].at = task[c].at
    <3>1. ASSUME NEW b, NEW at \in Place, task' = [Left(b) EXCEPT ![d].at = at]
          PROVE  task'[c].at = task[c].at
      <4>1. Goes(d, at)
        BY <2>1, <3>1, LeftGoes, Zenon
      <4> QED BY <2>3, <4>1 DEF Goes, Becomes, Same
    <3>2. "unlink" \in Place /\ "handoff" \in Place /\ "abort" \in Place
      BY DEF Place
    <3>3. CASE Drained(d) \/ ApplyOk(d) \/ ApplyFails(d)
      BY <3>1, <3>2, <3>3 DEF Drained, ApplyOk, ApplyFails
    <3>4. CASE Calls(d)
      BY <2>1, <2>3, <3>4 DEF Calls, Dispose, RemovePlugins, Spawn, EraSwap
    <3>5. CASE Cancel(d)
      BY <2>1, <2>3, <3>5 DEF Cancel, Abandoned, End
    <3>6. CASE \/ ClaimDispose(d) \/ Join(d) \/ Teardown(d) \/ Unlink(d) \/ PublishComplete(d)
      <4>1. AfterBarrier(d) /\ task[d].at \in {"claim", "join", "publish"} => task'[c].at = task[c].at
        <5>1. task[d].at \in {"claim", "join", "publish"} => task[d].op \in {"dispose", "remove", "era", "cleanup"}
          BY Facts, CallerAssumption DEF Task, Operation, Routed, Way, Creating
        <5> QED BY <2>1, <2>3, <5>1 DEF AfterBarrier, End, Goto
      <4> QED BY <2>1, <2>3, <3>6, <4>1 DEF ClaimDispose, Join, Teardown, Unlink, PublishComplete, Goto
    <3>7. CASE \/ RemoveNext(d) \/ Attach(d) \/ Install(d) \/ Register(d)
               \/ InitialPass(d) \/ Abort(d) \/ Handoff(d)
      BY <2>1, <2>3, <3>7 DEF RemoveNext, Attach, Install, Register, InitialPass, Abort, Handoff, NotCreated, End, Goto
    <3>8. CASE \/ ClaimEra(d) \/ ConvergeEntry(d) \/ IntoSuccessor(d) \/ ConvergeFinal(d)
               \/ Offer(d) \/ Accept(d) \/ Undelivered(d) \/ ConvergeLast(d)
      BY <2>1, <2>3, <3>8 DEF ClaimEra, ConvergeEntry, IntoSuccessor, ConvergeFinal, Offer, Accept, Undelivered,
         ConvergeLast, End, Goto
    <3> QED BY <2>3, <3>3, <3>4, <3>5, <3>6, <3>7, <3>8 DEF Step
  <2>4. CASE Calls(c) \/ Step(c) \/ Cancel(c)
    <3>1. ~Calls(c)
      BY DEF Calls, Dispose, RemovePlugins, Spawn, EraSwap, Called
    <3>2. ~Cancel(c)
      <4>1. SUFFICES ASSUME Abandoned(c) PROVE FALSE
        BY DEF Cancel
      <4>2. task'[c] = [task[c] EXCEPT !.waits = FALSE, !.at = IF @ = "offered" THEN "undelivered" ELSE @]
        BY <2>1, <4>1 DEF Abandoned
      <4> QED BY <2>1, <4>2 DEF Task
    <3>3. ConvergeEntry(c) \/ ConvergeFinal(c) \/ ConvergeLast(c)
      BY <2>4, <3>1, <3>2 DEF Step, ClaimDispose, Join, Teardown, Drained, Unlink, PublishComplete, RemoveNext, Attach,
         Install, Register, InitialPass, ApplyOk, ApplyFails, Abort, Handoff, ClaimEra, At, IntoSuccessor, Offer, Accept,
         Undelivered
    <3> QED BY <2>2, <3>3 DEF ConvergeEntry, ConvergeFinal, ConvergeLast, Converged
  <2>5. CASE DependentSettles
    <3>1. task'[c].at = task[c].at
      BY <2>1, <2>5, LeftKeeps DEF DependentSettles
    <3> QED BY <3>1
  <2>6. CASE DependentStarts \/ \E f \in Fiber : Provide(f)
    BY <2>6 DEF DependentStarts, Provide
  <2> QED BY <2>3, <2>4, <2>5, <2>6 DEF Next
<1> QED BY <1>1, EraInvariant, PTL DEF Spec, BarriersConverge
=============================================================================
