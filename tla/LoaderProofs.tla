---------------------------- MODULE LoaderProofs ----------------------------
(***************************************************************************)
(* Proofs about Loader, for any plan, rows, labels and number of loads:    *)
(* the traversal is the depth-first plan order and the outcomes are those  *)
(* of the plan, realms meet exactly by label and load, and every Fiber has *)
(* one owner.                                                              *)
(***************************************************************************)
EXTENDS Loader, SelectionProofs, SequenceTheorems, FiniteSetTheorems

-----------------------------------------------------------------------------
(* The inductive invariant *)

Nodes == 1..Len(nodes)
Node  == [parent : Nat, row : Row]

\* A plan is a forest whose parents come first.
Tree == nodes \in Seq(Node) /\ \A n \in Nodes : nodes[n].parent \in 0..(n - 1)

PlanOK ==
    /\ Tree /\ Len(nodes) <= MaxEntries /\ frozen \in BOOLEAN
    /\ \A n \in Nodes : Valid(nodes[n].row)

\* Everything once, in depth-first order.
IsPlanOrder(o) ==
    /\ o \in Seq(Nodes) /\ Len(o) = Len(nodes)
    /\ \A n \in Nodes : \E i \in 1..Len(o) : o[i] = n
    /\ \A i, j \in 1..Len(o) : i < j => o[i] # o[j] /\ Precedes(o[i], o[j])

Realm == [by : SUBSET Load, nth : Nat]
Kind  == {"pruned", "group", "disabled", "failed", "spawned"}
Why   == {"none", "Spawn"} \cup {ResolveEntry(row) : row \in Row \ {EntryGroup}}
Line  == [id : Nat, kind : Kind, by : Nat, why : Why]
Stage == {"idle", "entry", "spawn", "delivered", "rollback", "ended"}
Fate  == {"none", "creating", "live", "abandoned", "removed", "disposed"}

TypeOK ==
    /\ at \in [Load -> Stage] /\ order \in [Load -> Seq(Nat)]
    /\ off \in [Load -> [Entry -> Nat]] /\ shared \in [Load -> [Label -> Realm]]
    /\ rows \in [Load -> Seq(Line)] /\ fiber \in [Load -> [Entry -> Fate]]
    /\ realm \in [Load -> [Entry -> [Service -> Realm]]] /\ realms \in [Load -> Nat]

\* A load that has not started has nothing; one that has runs a frozen plan.
Started(e) ==
    IF at[e] = "idle"
    THEN /\ rows[e] = <<>> /\ \A n \in Entry : fiber[e][n] = "none" /\ off[e][n] = None
    ELSE frozen /\ IsPlanOrder(order[e]) /\ Len(rows[e]) <= Len(nodes)

\* The outcomes so far are those of the first entries of the order.
Faithful(row) ==
    /\ <<row.kind, row.why>> \in Expected(row.id)
    /\ row.kind = "pruned" => row.by \in DisabledAncestors(row.id) /\ DisabledAncestors(row.by) = {}

Rows(e) ==
    \A i \in 1..Len(rows[e]) : rows[e][i].id = order[e][i] /\ Faithful(rows[e][i])

\* What a visited entry passes on: the topmost disabled of it and its ancestors.
Passes(n, by) ==
    IF by = None THEN DisabledAncestors(n) = {} /\ ~IsDisabled(n)
    ELSE by \in DisabledAncestors(n) \cup {n} /\ IsDisabled(by) /\ DisabledAncestors(by) = {}

Pruning(e) ==
    at[e] \in {"entry", "spawn"} =>
        \A i \in 1..Len(order[e]) :
           IF i <= Len(rows[e]) THEN Passes(order[e][i], off[e][order[e][i]])
           ELSE off[e][order[e][i]] = None

\* An entry that gets to its spawn.
Runs(n) ==
    /\ DisabledAncestors(n) = {} /\ ~nodes[n].row.group /\ ~IsDisabled(n)
    /\ ResolveEntry(nodes[n].row) = "none"

Progress(e) ==
    /\ at[e] = "spawn" => More(e) /\ Runs(Current(e)) /\ fiber[e][Current(e)] = "creating"
    /\ at[e] = "delivered" => Len(rows[e]) = Len(nodes)
    /\ at[e] = "ended" => rows[e] = <<>>

Fibers(e) ==
    \A n \in Entry :
       /\ fiber[e][n] = "live" =>
            \E i \in 1..Len(rows[e]) : rows[e][i].id = n /\ rows[e][i].kind = "spawned"
       /\ fiber[e][n] = "creating" => at[e] = "spawn" /\ n = Current(e)
       /\ fiber[e][n] = "disposed" =>
            /\ at[e] \in {"rollback", "ended"}
            /\ \E j \in 1..Len(order[e]) : j > Len(rows[e]) /\ order[e][j] = n

\* Realms are numbered by load; labels have realms of their own.
Mine(e, r)     == r.by = {e} /\ r.nth \in 1..realms[e]
Standing(e, n) == fiber[e][n] \in {"creating", "live"}

Labels(e) ==
    \A l \in Label :
       shared[e][l] # Default =>
          Mine(e, shared[e][l]) /\ \A k \in Label : shared[e][k] = shared[e][l] => k = l

Placement(e, n, s) ==
    \/ PolicyOf(n, s) = {} /\ realm[e][n][s] = Default
    \/ \E l \in Label : /\ PolicyOf(n, s) = {l}
                        /\ realm[e][n][s] = shared[e][l] /\ shared[e][l] # Default
    \/ /\ PolicyOf(n, s) = {Private} /\ Mine(e, realm[e][n][s])
       /\ \A l \in Label : shared[e][l] # realm[e][n][s]
       /\ \A m \in Entry, t \in Service :
            Standing(e, m) /\ realm[e][m][t] = realm[e][n][s] => m = n /\ t = s

Realms(e) == Labels(e) /\ \A n \in Entry, s \in Service : Standing(e, n) => Placement(e, n, s)

LoadOK(e) == Started(e) /\ Rows(e) /\ Pruning(e) /\ Progress(e) /\ Fibers(e)

IInv == PlanOK /\ TypeOK /\ \A e \in Load : LoadOK(e) /\ Realms(e)

-----------------------------------------------------------------------------
(* Ancestry *)

\* A node's ancestors come before it.
LEMMA AncestorsBelow ==
    ASSUME Tree, NEW n \in Nodes
    PROVE  Ancestors(n) \subseteq 1..(n - 1)
<1> DEFINE S == 1..(n - 1)
<1>1. DOMAIN nodes = Nodes /\ Len(nodes) \in Nat /\ n \in Nat
  BY DEF Tree, Nodes
<1>2. S \in SUBSET DOMAIN nodes
  BY <1>1 DEF Nodes
<1>3. ASSUME NEW x \in S \cup {n}
      PROVE  nodes[x].parent \in S \cup {None}
  <2>1. x \in Nodes /\ x - 1 <= n - 1 /\ x \in Nat
    BY <1>1 DEF Nodes
  <2>2. nodes[x].parent \in 0..(x - 1)
    BY <2>1 DEF Tree
  <2> QED BY <1>1, <2>1, <2>2 DEF None
<1> QED BY <1>2, <1>3 DEF Ancestors

LEMMA ParentIsNode ==
    ASSUME Tree, NEW n \in Nodes
    PROVE  nodes[n].parent = None \/ (nodes[n].parent \in Nodes /\ nodes[n].parent < n)
BY DEF Tree, Nodes, None

\* The ancestors of an ancestor are ancestors.
LEMMA AncestorsOfAncestors ==
    ASSUME NEW n, NEW a \in Ancestors(n)
    PROVE  Ancestors(a) \subseteq Ancestors(n)
BY DEF Ancestors

\* The ancestors are the parent and its ancestors.
LEMMA AncestorsAre ==
    ASSUME Tree, NEW n \in Nodes
    PROVE  Ancestors(n) = IF nodes[n].parent = None THEN {}
                          ELSE {nodes[n].parent} \cup Ancestors(nodes[n].parent)
<1> DEFINE p == nodes[n].parent
<1>0. DOMAIN nodes = Nodes
  BY DEF Tree, Nodes
<1>1. CASE p = None
  <2>1. {} \in SUBSET DOMAIN nodes /\ \A x \in {} \cup {n} : nodes[x].parent \in {} \cup {None}
    BY <1>1
  <2>2. \A a \in Ancestors(n) : a \in {}
    BY <2>1 DEF Ancestors
  <2> QED BY <1>1, <2>2
<1>2. CASE p # None
  <2>1. p \in Nodes
    BY <1>2, ParentIsNode
  <2>2. p \in Ancestors(n)
    BY <1>0, <1>2, <2>1 DEF Ancestors
  <2>3. Ancestors(p) \subseteq Ancestors(n)
    BY <2>2, AncestorsOfAncestors
  <2>4. Ancestors(n) \subseteq {p} \cup Ancestors(p)
    <3> DEFINE S == {p} \cup Ancestors(p)
    <3>1. S \in SUBSET DOMAIN nodes
      BY <1>0, <2>1 DEF Ancestors
    <3>2. ASSUME NEW x \in S \cup {n}
          PROVE  nodes[x].parent \in S \cup {None}
      <4>1. CASE x = n
        BY <4>1
      <4>2. CASE x \in S
        <5> SUFFICES ASSUME nodes[x].parent # None
                     PROVE  nodes[x].parent \in Ancestors(p)
          OBVIOUS
        <5>1. x \in Nodes
          BY <1>0, <3>1, <4>2
        <5>2. nodes[x].parent \in DOMAIN nodes
          BY <1>0, <5>1, ParentIsNode
        <5>3. nodes[x].parent \in Ancestors(x)
          BY <5>2 DEF Ancestors
        <5>4. x = p \/ Ancestors(x) \subseteq Ancestors(p)
          BY <4>2, AncestorsOfAncestors
        <5> QED BY <5>3, <5>4
      <4> QED BY <4>1, <4>2
    <3> QED BY <3>1, <3>2 DEF Ancestors
  <2> QED BY <1>2, <2>2, <2>3, <2>4
<1> QED BY <1>1, <1>2

LEMMA ChildDescends ==
    ASSUME Tree, NEW n \in Nodes, NEW c \in Nodes, nodes[c].parent = n
    PROVE  n \in Ancestors(c) /\ Ancestors(c) = {n} \cup Ancestors(n)
<1>1. n # None
  BY DEF Nodes, None
<1> QED BY <1>1, AncestorsAre

\* What comes before an entry comes before its children.
LEMMA PrecedesChild ==
    ASSUME Tree, NEW n \in Nodes, NEW c \in Nodes, nodes[c].parent = n, NEW a, Precedes(a, n)
    PROVE  Precedes(a, c)
<1>1. n \in Ancestors(c) /\ Ancestors(c) = {n} \cup Ancestors(n)
  BY ChildDescends
<1> QED BY <1>1 DEF Precedes

\* What an entry precedes its children precede, unless it descends from it.
LEMMA ChildPrecedes ==
    ASSUME Tree, NEW n \in Nodes, NEW c \in Nodes, nodes[c].parent = n,
           NEW b, Precedes(n, b), n \notin Ancestors(b)
    PROVE  Precedes(c, b)
<1>1. Ancestors(c) = {n} \cup Ancestors(n)
  BY ChildDescends
<1> QED BY <1>1 DEF Precedes

LEMMA SiblingsPrecede ==
    ASSUME NEW a, NEW b, nodes[a].parent = nodes[b].parent, a < b
    PROVE  Precedes(a, b)
BY DEF Precedes

-----------------------------------------------------------------------------
(* The traversal *)

LEMMA ChildrenAre ==
    ASSUME Tree, NEW p
    PROVE  /\ Children(p) \in Seq(Nodes)
           /\ \A i \in 1..Len(Children(p)) : nodes[Children(p)[i]].parent = p
           /\ \A n \in Nodes : nodes[n].parent = p => \E i \in 1..Len(Children(p)) : Children(p)[i] = n
           /\ \A i, j \in 1..Len(Children(p)) : i < j => Children(p)[i] < Children(p)[j]
<1> DEFINE all  == [n \in 1..Len(nodes) |-> n]
           kids == {n \in DOMAIN nodes : nodes[n].parent = p}
<1>0. Len(nodes) \in Nat /\ DOMAIN nodes = Nodes
  BY DEF Tree, Nodes
<1>1. PICK s, T : /\ s = all /\ T = kids /\ s \in Seq(Nodes) /\ Len(s) = Len(nodes)
                  /\ \A n \in 1..Len(s) : s[n] = n
  <2>1. all \in Seq(Nodes) /\ Len(all) = Len(nodes) /\ \A n \in 1..Len(nodes) : all[n] = n
    BY <1>0 DEF Nodes
  <2> HIDE DEF all, kids
  <2> QED BY <2>1
<1>2. PICK c : c = Only(s, T)
  OBVIOUS
<1>3. /\ c \in Seq(Nodes) /\ Range(c) = Range(s) \cap T
      /\ \A i, j \in 1..Len(c) : i < j => \E m, n \in 1..Len(s) : m < n /\ s[m] = c[i] /\ s[n] = c[j]
  <2>1. PICK q \in Seq(Nodes) : q = s
    BY <1>1
  <2>2. /\ Only(q, T) \in Seq(Nodes) /\ Range(Only(q, T)) = Range(q) \cap T
        /\ \A i, j \in 1..Len(Only(q, T)) : i < j =>
             \E m, n \in 1..Len(q) : m < n /\ q[m] = Only(q, T)[i] /\ q[n] = Only(q, T)[j]
    BY OnlyKeeps
  <2> QED BY <1>2, <2>1, <2>2
<1>4. Range(s) = Nodes
  <2>1. DOMAIN s = Nodes /\ \A n \in Nodes : s[n] = n
    BY <1>0, <1>1 DEF Nodes
  <2> QED BY <2>1 DEF Range
<1>5. Range(c) = T
  BY <1>1, <1>3, <1>4, SMTT(40)
<1>6. DOMAIN c = 1..Len(c)
  BY <1>3
<1>7. \A i \in 1..Len(c) : nodes[c[i]].parent = p
  BY <1>0, <1>1, <1>5, <1>6 DEF Range
<1>8. \A n \in Nodes : nodes[n].parent = p => \E i \in 1..Len(c) : c[i] = n
  BY <1>0, <1>1, <1>5, <1>6 DEF Range
<1>9. \A i, j \in 1..Len(c) : i < j => c[i] < c[j]
  BY <1>1, <1>3
<1>10. Children(p) = c
  BY <1>1, <1>2 DEF Children
<1> QED BY <1>3, <1>7, <1>8, <1>9, <1>10

\* The children go on the stack, the first of them on top.
LEMMA PushIs ==
    ASSUME Tree, NEW p, NEW s \in Seq(Nodes)
    PROVE  LET r == PushReversed(p, s)
           IN  /\ r \in Seq(Nodes) /\ Len(r) \in Nat /\ Len(s) \in Nat /\ Len(s) <= Len(r)
               /\ \A i \in 1..Len(s) : r[i] = s[i]
               /\ \A i \in (Len(s) + 1)..Len(r) : nodes[r[i]].parent = p
               /\ \A n \in Nodes : nodes[n].parent = p => \E i \in (Len(s) + 1)..Len(r) : r[i] = n
               /\ \A i, j \in (Len(s) + 1)..Len(r) : i < j => r[j] < r[i]
<1>1. PICK c \in Seq(Nodes) :
        /\ c = Children(p)
        /\ \A i \in 1..Len(c) : nodes[c[i]].parent = p
        /\ \A n \in Nodes : nodes[n].parent = p => \E i \in 1..Len(c) : c[i] = n
        /\ \A i, j \in 1..Len(c) : i < j => c[i] < c[j]
  BY ChildrenAre
<1>2. PICK d \in Seq(Nodes) : /\ d = Reverse(c) /\ Len(d) = Len(c)
                              /\ \A i \in 1..Len(c) : d[i] = c[(Len(c) - i) + 1]
  <2> DEFINE r == [i \in 1..Len(c) |-> c[(Len(c) - i) + 1]]
  <2>1. \A i \in 1..Len(c) : (Len(c) - i) + 1 \in 1..Len(c) /\ c[(Len(c) - i) + 1] \in Nodes
    OBVIOUS
  <2>2. r \in Seq(Nodes) /\ Len(r) = Len(c)
    BY <2>1
  <2>3. Reverse(c) = r
    BY DEF Reverse
  <2> QED BY <2>2, <2>3
<1>3. PICK r \in Seq(Nodes) :
        /\ r = s \o d /\ Len(r) = Len(s) + Len(c)
        /\ \A i \in 1..Len(s) : r[i] = s[i]
        /\ \A i \in (Len(s) + 1)..Len(r) : r[i] = d[i - Len(s)]
  <2>1. PICK r : r = s \o d
    OBVIOUS
  <2>2. /\ r \in Seq(Nodes) /\ Len(r) = Len(s) + Len(d)
        /\ \A i \in 1..(Len(s) + Len(d)) : r[i] = IF i <= Len(s) THEN s[i] ELSE d[i - Len(s)]
    BY <2>1, ConcatProperties
  <2>3. Len(s) \in Nat /\ Len(d) \in Nat
    OBVIOUS
  <2>4. Len(r) = Len(s) + Len(c) /\ Len(d) = Len(c)
    BY <1>2, <2>2
  <2>5. \A i \in 1..Len(s) : r[i] = s[i]
    BY <2>2, <2>3
  <2>6. \A i \in (Len(s) + 1)..Len(r) : r[i] = d[i - Len(s)]
    BY <2>2, <2>3
  <2> QED BY <2>1, <2>2, <2>4, <2>5, <2>6
<1>4. PushReversed(p, s) = r
  BY <1>1, <1>2, <1>3 DEF PushReversed
<1>5. Len(s) \in Nat /\ Len(c) \in Nat /\ Len(r) \in Nat
  OBVIOUS
<1>6. \A i \in (Len(s) + 1)..Len(r) :
        /\ (Len(c) - (i - Len(s))) + 1 \in 1..Len(c)
        /\ r[i] = c[(Len(c) - (i - Len(s))) + 1]
  <2> TAKE i \in (Len(s) + 1)..Len(r)
  <2>1. i - Len(s) \in 1..Len(c) /\ (Len(c) - (i - Len(s))) + 1 \in 1..Len(c)
    BY <1>3, <1>5
  <2> QED BY <1>2, <1>3, <2>1
<1>7. \A i \in (Len(s) + 1)..Len(r) : nodes[r[i]].parent = p
  BY <1>1, <1>6
<1>8. ASSUME NEW n \in Nodes, nodes[n].parent = p
      PROVE  \E i \in (Len(s) + 1)..Len(r) : r[i] = n
  <2>1. PICK k \in 1..Len(c) : c[k] = n
    BY <1>1, <1>8
  <2> DEFINE i == Len(s) + (Len(c) - k) + 1
  <2>2. i \in (Len(s) + 1)..Len(r) /\ (Len(c) - (i - Len(s))) + 1 = k
    BY <1>3, <1>5
  <2> QED BY <1>6, <2>1, <2>2
<1>9. ASSUME NEW i \in (Len(s) + 1)..Len(r), NEW j \in (Len(s) + 1)..Len(r), i < j
      PROVE  r[j] < r[i]
  <2> DEFINE a == (Len(c) - (j - Len(s))) + 1
             b == (Len(c) - (i - Len(s))) + 1
  <2>1. a \in 1..Len(c) /\ b \in 1..Len(c) /\ r[j] = c[a] /\ r[i] = c[b]
    BY <1>6
  <2>2. a < b
    BY <1>5, <1>9
  <2> HIDE DEF a, b
  <2> QED BY <1>1, <2>1, <2>2
<1>10. Len(s) <= Len(r)
  BY <1>3, <1>5
<1> QED BY <1>3, <1>4, <1>5, <1>7, <1>8, <1>9, <1>10

\* What has been visited and what is on the stack: each node at most once, with
\* its parent visited, with its siblings; and the order so far.
Visited(o, s) ==
    /\ o \in Seq(Nodes) /\ s \in Seq(Nodes)
    /\ \A i, j \in 1..Len(o) : i < j => o[i] # o[j] /\ Precedes(o[i], o[j])
    /\ \A i, j \in 1..Len(s) : i < j => s[i] # s[j] /\ Precedes(s[j], s[i])
    /\ \A i \in 1..Len(o), j \in 1..Len(s) : o[i] # s[j] /\ Precedes(o[i], s[j])
    /\ \A i \in 1..Len(o) : nodes[o[i]].parent \in Range(o) \cup {None}
    /\ \A i \in 1..Len(s) : nodes[s[i]].parent \in Range(o) \cup {None}
    /\ \A n \in Nodes : nodes[n].parent \in Range(o) \cup {None} =>
         n \in Range(o) \cup Range(s)

LEMMA RangeOf ==
    ASSUME NEW S, NEW s \in Seq(S)
    PROVE  Range(s) = {s[i] : i \in 1..Len(s)} /\ Range(s) \subseteq S
BY DEF Range

LEMMA TraversalStarts ==
    ASSUME Tree
    PROVE  Visited(<<>>, PushReversed(None, <<>>))
<1>0. PICK z \in Seq(Nodes) : z = <<>> /\ Len(z) = 0
  <2>1. <<>> \in Seq(Nodes) /\ Len(<<>>) = 0
    OBVIOUS
  <2> QED BY <2>1
<1> DEFINE r == PushReversed(None, z)
<1>a. /\ r \in Seq(Nodes) /\ Len(r) \in Nat
      /\ \A i \in (Len(z) + 1)..Len(r) : nodes[r[i]].parent = None
      /\ \A n \in Nodes : nodes[n].parent = None => \E i \in (Len(z) + 1)..Len(r) : r[i] = n
      /\ \A i, j \in (Len(z) + 1)..Len(r) : i < j => r[j] < r[i]
  BY PushIs
<1> HIDE DEF r
<1>b. Len(z) + 1 = 1
  BY <1>0
<1>1. /\ r \in Seq(Nodes) /\ Len(r) \in Nat
      /\ \A i \in 1..Len(r) : nodes[r[i]].parent = None
      /\ \A n \in Nodes : nodes[n].parent = None => \E i \in 1..Len(r) : r[i] = n
      /\ \A i, j \in 1..Len(r) : i < j => r[j] < r[i]
  BY <1>a, <1>b
<1>2. Range(z) = {}
  BY <1>0 DEF Range
<1>3. Range(r) = {r[i] : i \in 1..Len(r)}
  BY <1>1, RangeOf
<1>4. ASSUME NEW i \in 1..Len(r), NEW j \in 1..Len(r), i < j
      PROVE  r[i] # r[j] /\ Precedes(r[j], r[i])
  <2>1. r[j] < r[i] /\ nodes[r[j]].parent = nodes[r[i]].parent /\ r[i] \in Nat /\ r[j] \in Nat
    BY <1>1, <1>4 DEF Nodes
  <2> QED BY <2>1, SiblingsPrecede
<1>5. \A n \in Nodes : nodes[n].parent \in {} \cup {None} => n \in Range(r)
  BY <1>1, <1>3
<1> QED BY <1>0, <1>1, <1>2, <1>4, <1>5 DEF Visited, r

LEMMA AncestorsVisited ==
    ASSUME Tree, NEW o, NEW s, Visited(o, s), NEW x \in Nodes,
           nodes[x].parent \in Range(o) \cup {None}
    PROVE  Ancestors(x) \subseteq Range(o)
<1>1. o \in Seq(Nodes) /\ \A i \in 1..Len(o) : nodes[o[i]].parent \in Range(o) \cup {None}
  BY DEF Visited
<1>2. Range(o) = {o[i] : i \in 1..Len(o)} /\ Range(o) \subseteq Nodes
  BY <1>1, RangeOf
<1>3. DOMAIN nodes = Nodes
  BY DEF Tree, Nodes
<1> DEFINE S == Range(o)
<1>4. \A y \in S \cup {x} : nodes[y].parent \in S \cup {None}
  BY <1>1, <1>2
<1>5. S \in SUBSET DOMAIN nodes
  BY <1>2, <1>3
<1> HIDE DEF S
<1>6. Ancestors(x) \subseteq S
  BY <1>4, <1>5 DEF Ancestors
<1> QED BY <1>6 DEF S

LEMMA FrontIs ==
    ASSUME NEW S, NEW s \in Seq(S), s # <<>>
    PROVE  /\ Front(s) \in Seq(S) /\ Len(Front(s)) = Len(s) - 1
           /\ \A i \in 1..(Len(s) - 1) : Front(s)[i] = s[i]
<1>1. Len(s) \in Nat /\ Len(s) # 0
  OBVIOUS
<1>2. /\ SubSeq(s, 1, Len(s) - 1) \in Seq(S)
      /\ Len(SubSeq(s, 1, Len(s) - 1)) = Len(s) - 1
      /\ \A i \in 1..(Len(s) - 1) : SubSeq(s, 1, Len(s) - 1)[i] = s[i]
  <2> DEFINE m == Len(s) - 1
             f == SubSeq(s, 1, m)
  <2>1. m \in Int /\ 1 \in Int /\ \A i \in 1..m : s[i] \in S
    BY <1>1
  <2>2. /\ f \in Seq(S) /\ Len(f) = IF 1 <= m THEN m - 1 + 1 ELSE 0
        /\ \A i \in 1..(m - 1 + 1) : f[i] = s[1 + i - 1]
    BY <2>1, SubSeqProperties
  <2>0. m \in Nat
    BY <1>1
  <2> HIDE DEF m
  <2>3. m - 1 + 1 = m /\ (1 <= m \/ m = 0) /\ (m = 0 => ~(1 <= m))
    BY <2>0
  <2>4. \A i \in 1..m : 1 + i - 1 = i
    BY <2>3
  <2>5. Len(f) = m
    BY <2>2, <2>3
  <2> QED BY <2>2, <2>3, <2>4, <2>5 DEF m
<1> QED BY <1>2 DEF Front

\* One turn of the loop: the top of the stack is visited, its children pushed.
LEMMA TraversalStep ==
    ASSUME Tree, NEW o, NEW s, Visited(o, s), s # <<>>
    PROVE  Visited(Append(o, Last(s)), PushReversed(Last(s), Front(s)))
<1>1. /\ o \in Seq(Nodes) /\ s \in Seq(Nodes) /\ Len(o) \in Nat /\ Len(s) \in Nat /\ Len(s) # 0
      /\ Len(s) \in 1..Len(s)
  BY DEF Visited
<1>2. PICK n \in Nodes : n = Last(s) /\ n = s[Len(s)]
  BY <1>1 DEF Last
<1>3. PICK f \in Seq(Nodes) : f = Front(s) /\ Len(f) = Len(s) - 1 /\ \A i \in 1..Len(f) : f[i] = s[i]
  <2>1. /\ Front(s) \in Seq(Nodes) /\ Len(Front(s)) = Len(s) - 1
        /\ \A i \in 1..(Len(s) - 1) : Front(s)[i] = s[i]
    BY <1>1, FrontIs
  <2> QED BY <2>1
<1>4. PICK p \in Seq(Nodes) : /\ p = Append(o, n) /\ Len(p) = Len(o) + 1 /\ p[Len(p)] = n
                              /\ \A i \in 1..Len(o) : p[i] = o[i]
  <2>1. /\ Append(o, n) \in Seq(Nodes) /\ Len(Append(o, n)) = Len(o) + 1 /\ Append(o, n)[Len(o) + 1] = n
        /\ \A i \in 1..Len(o) : Append(o, n)[i] = o[i]
    BY <1>1
  <2> QED BY <2>1
<1>5. PICK r \in Seq(Nodes) :
        /\ r = PushReversed(n, f) /\ Len(r) \in Nat /\ Len(f) \in Nat /\ Len(f) <= Len(r)
        /\ \A i \in 1..Len(f) : r[i] = f[i]
        /\ \A i \in (Len(f) + 1)..Len(r) : nodes[r[i]].parent = n
        /\ \A c \in Nodes : nodes[c].parent = n => \E i \in (Len(f) + 1)..Len(r) : r[i] = c
        /\ \A i, j \in (Len(f) + 1)..Len(r) : i < j => r[j] < r[i]
  BY PushIs
<1>6. /\ Range(o) = {o[i] : i \in 1..Len(o)} /\ Range(s) = {s[i] : i \in 1..Len(s)}
      /\ Range(p) = {p[i] : i \in 1..Len(p)} /\ Range(r) = {r[i] : i \in 1..Len(r)}
  <2>1. Range(o) = {o[i] : i \in 1..Len(o)}
    BY <1>1, RangeOf
  <2>2. Range(s) = {s[i] : i \in 1..Len(s)}
    BY <1>1, RangeOf
  <2>3. Range(p) = {p[i] : i \in 1..Len(p)}
    BY RangeOf
  <2>4. Range(r) = {r[i] : i \in 1..Len(r)}
    BY RangeOf
  <2> QED BY <2>1, <2>2, <2>3, <2>4
<1>7. \A i \in 1..Len(p) : (i \in 1..Len(o) /\ p[i] = o[i]) \/ (i = Len(p) /\ p[i] = n)
  <2> TAKE i \in 1..Len(p)
  <2>1. i \in 1..Len(o) \/ i = Len(p)
    BY <1>1, <1>4
  <2> QED BY <1>4, <2>1
<1>8. \A i \in 1..Len(r) : \/ (i \in 1..Len(f) /\ i \in 1..Len(s) /\ i < Len(s) /\ r[i] = s[i])
                           \/ (i \in (Len(f) + 1)..Len(r) /\ nodes[r[i]].parent = n)
  <2> TAKE i \in 1..Len(r)
  <2>1. \/ (i \in 1..Len(f) /\ i \in 1..Len(s) /\ i < Len(s))
        \/ i \in (Len(f) + 1)..Len(r)
    BY <1>1, <1>3, <1>5
  <2> QED BY <1>3, <1>5, <2>1
<1>9. Range(p) = Range(o) \cup {n}
  <2>1. Len(p) \in 1..Len(p) /\ \A i \in 1..Len(o) : i \in 1..Len(p)
    BY <1>1, <1>4
  <2> QED BY <1>4, <1>6, <1>7, <2>1
<1>10. n \notin Range(o) /\ n # None /\ \A i \in 1..Len(o) : o[i] # n /\ Precedes(o[i], n)
  <2>1. \A i \in 1..Len(o) : o[i] # n /\ Precedes(o[i], n)
    BY <1>1, <1>2 DEF Visited
  <2> QED BY <1>6, <2>1 DEF Nodes, None
<1>11. \A i \in 1..Len(s) : i < Len(s) => s[i] # n /\ Precedes(n, s[i])
  BY <1>1, <1>2 DEF Visited
<1>12. \A c \in Nodes : nodes[c].parent = n =>
         /\ \A i \in 1..Len(o) : o[i] # c /\ Precedes(o[i], c)
         /\ \A i \in 1..Len(s) : s[i] # c
         /\ \A i \in 1..Len(s) : i < Len(s) => Precedes(c, s[i])
         /\ c # n /\ Precedes(n, c)
  <2> SUFFICES ASSUME NEW c \in Nodes, nodes[c].parent = n
               PROVE  /\ \A i \in 1..Len(o) : o[i] # c /\ Precedes(o[i], c)
                      /\ \A i \in 1..Len(s) : s[i] # c
                      /\ \A i \in 1..Len(s) : i < Len(s) => Precedes(c, s[i])
                      /\ c # n /\ Precedes(n, c)
    OBVIOUS
  <2>1. \A i \in 1..Len(o) : o[i] # c
    BY <1>10 DEF Visited
  <2>2. \A i \in 1..Len(s) : s[i] # c
    BY <1>10 DEF Visited
  <2>3. \A i \in 1..Len(o) : Precedes(o[i], c)
    BY <1>10, PrecedesChild
  <2>4. ASSUME NEW i \in 1..Len(s), i < Len(s)
        PROVE  Precedes(c, s[i])
    <3>1. s[i] \in Nodes /\ nodes[s[i]].parent \in Range(o) \cup {None}
      BY <1>1, <2>4 DEF Visited
    <3>2. n \notin Ancestors(s[i])
      BY <1>10, <3>1, AncestorsVisited
    <3> QED BY <1>11, <2>4, <3>2, ChildPrecedes
  <2>5. c # n
    BY <1>2, <2>2, <1>1
  <2>6. Precedes(n, c)
    BY ChildDescends DEF Precedes
  <2> QED BY <2>1, <2>2, <2>3, <2>4, <2>5, <2>6
<1>13. ASSUME NEW i \in 1..Len(p), NEW j \in 1..Len(p), i < j
       PROVE  p[i] # p[j] /\ Precedes(p[i], p[j])
  <2>1. i \in 1..Len(o) /\ p[i] = o[i]
    BY <1>7, <1>13, <1>4, <1>1
  <2>2. CASE j \in 1..Len(o) /\ p[j] = o[j]
    BY <1>13, <2>1, <2>2 DEF Visited
  <2>3. CASE p[j] = n
    BY <1>10, <2>1, <2>3
  <2> QED BY <1>7, <2>2, <2>3
<1>14. ASSUME NEW i \in 1..Len(r), NEW j \in 1..Len(r), i < j
       PROVE  r[i] # r[j] /\ Precedes(r[j], r[i])
  <2>0. r[i] \in Nodes /\ r[j] \in Nodes /\ r[i] \in Nat /\ r[j] \in Nat
    BY <1>5, <1>14 DEF Nodes
  <2>1. CASE i \in (Len(f) + 1)..Len(r)
    <3>1. j \in (Len(f) + 1)..Len(r)
      BY <1>5, <1>14, <2>1
    <3>2. r[j] < r[i] /\ nodes[r[i]].parent = n /\ nodes[r[j]].parent = n
      BY <1>5, <1>14, <2>1, <3>1
    <3> QED BY <2>0, <3>2, SiblingsPrecede
  <2>2. CASE i \in 1..Len(s) /\ i < Len(s) /\ r[i] = s[i]
    <3>1. CASE j \in 1..Len(s) /\ r[j] = s[j]
      BY <1>14, <2>2, <3>1 DEF Visited
    <3>2. CASE nodes[r[j]].parent = n
      BY <1>12, <2>0, <2>2, <3>2
    <3> QED BY <1>8, <3>1, <3>2
  <2> QED BY <1>8, <2>1, <2>2
<1>15. ASSUME NEW i \in 1..Len(p), NEW j \in 1..Len(r)
       PROVE  p[i] # r[j] /\ Precedes(p[i], r[j])
  <2>0. r[j] \in Nodes
    BY <1>5
  <2>1. CASE j \in 1..Len(s) /\ j < Len(s) /\ r[j] = s[j]
    <3>1. CASE i \in 1..Len(o) /\ p[i] = o[i]
      BY <2>1, <3>1 DEF Visited
    <3>2. CASE p[i] = n
      BY <1>11, <2>1, <3>2
    <3> QED BY <1>7, <3>1, <3>2
  <2>2. CASE nodes[r[j]].parent = n
    <3>1. CASE i \in 1..Len(o) /\ p[i] = o[i]
      BY <1>12, <2>0, <2>2, <3>1
    <3>2. CASE p[i] = n
      BY <1>12, <2>0, <2>2, <3>2
    <3> QED BY <1>7, <3>1, <3>2
  <2> QED BY <1>8, <2>1, <2>2
<1>16. \A i \in 1..Len(p) : nodes[p[i]].parent \in Range(p) \cup {None}
  <2>1. nodes[n].parent \in Range(o) \cup {None}
    BY <1>1, <1>2 DEF Visited
  <2>2. \A i \in 1..Len(o) : nodes[o[i]].parent \in Range(o) \cup {None}
    BY DEF Visited
  <2> QED BY <1>7, <1>9, <2>1, <2>2
<1>17. \A i \in 1..Len(r) : nodes[r[i]].parent \in Range(p) \cup {None}
  <2>1. \A i \in 1..Len(s) : nodes[s[i]].parent \in Range(o) \cup {None}
    BY DEF Visited
  <2> QED BY <1>8, <1>9, <2>1
<1>18. ASSUME NEW c \in Nodes, nodes[c].parent \in Range(p) \cup {None}
       PROVE  c \in Range(p) \cup Range(r)
  <2>1. CASE nodes[c].parent = n
    <3>1. PICK i \in (Len(f) + 1)..Len(r) : r[i] = c
      BY <1>5, <2>1
    <3>2. i \in 1..Len(r)
      BY <1>5
    <3> QED BY <1>6, <3>1, <3>2
  <2>2. CASE nodes[c].parent \in Range(o) \cup {None}
    <3>1. c \in Range(o) \cup Range(s)
      BY <2>2 DEF Visited
    <3>2. CASE c \in Range(s) /\ c # n
      <4>1. PICK i \in 1..Len(s) : s[i] = c
        BY <1>6, <3>2
      <4>2. i \in 1..Len(f) /\ i \in 1..Len(r)
        BY <1>1, <1>2, <1>3, <1>5, <3>2, <4>1
      <4>3. r[i] = c
        BY <1>3, <1>5, <4>1, <4>2
      <4> QED BY <1>6, <4>2, <4>3
    <3> QED BY <1>9, <3>1, <3>2
  <2> QED BY <1>9, <1>18, <2>1, <2>2
<1>19. Visited(p, r)
  BY <1>4, <1>5, <1>13, <1>14, <1>15, <1>16, <1>17, <1>18 DEF Visited
<1> QED BY <1>2, <1>3, <1>4, <1>5, <1>19

\* Numbers up to a do not fit injectively below a smaller number.
LEMMA NoMoreThan ==
    ASSUME NEW a \in Nat, NEW b \in Nat, NEW f \in [1..a -> 1..b],
           \A i, j \in 1..a : f[i] = f[j] => i = j
    PROVE  a <= b
<1> SUFFICES ASSUME b < a PROVE FALSE
  OBVIOUS
<1>1. IsFiniteSet(1..a) /\ IsFiniteSet(1..b)
  BY FS_Interval
<1>2. Cardinality(1..a) = IF 1 > a THEN 0 ELSE a - 1 + 1
  BY FS_Interval
<1>3. Cardinality(1..b) = IF 1 > b THEN 0 ELSE b - 1 + 1
  BY FS_Interval
<1>4. Cardinality(1..b) < Cardinality(1..a)
  <2>1. Cardinality(1..a) = a
    BY <1>2
  <2>2. Cardinality(1..b) = b
    BY <1>3
  <2> QED BY <2>1, <2>2
<1>5. \E x, y \in 1..a : x # y /\ f[x] = f[y]
  BY <1>1, <1>4, FS_PigeonHole
<1> QED BY <1>5

LEMMA VisitedFits ==
    ASSUME Tree, NEW o, NEW s, Visited(o, s)
    PROVE  Len(o) \in Nat /\ Len(o) <= Len(nodes)
<1>1. o \in Seq(Nodes) /\ Len(o) \in Nat /\ Len(nodes) \in Nat
  BY DEF Visited, Tree
<1>2. o \in [1..Len(o) -> 1..Len(nodes)]
  BY <1>1 DEF Nodes
<1>3. \A i, j \in 1..Len(o) : o[i] = o[j] => i = j
  <2>1. \A i, j \in 1..Len(o) : i < j => o[i] # o[j]
    BY DEF Visited
  <2>2. \A i, j \in 1..Len(o) : i < j \/ j < i \/ i = j
    BY <1>1
  <2> QED BY <2>1, <2>2
<1> QED BY <1>1, <1>2, <1>3, NoMoreThan

\* With nothing on the stack everything has been visited.
LEMMA AllVisited ==
    ASSUME Tree, NEW o, Visited(o, <<>>)
    PROVE  /\ \A n \in Nodes : \E i \in 1..Len(o) : o[i] = n
           /\ Len(nodes) <= Len(o)
<1>0. o \in Seq(Nodes) /\ Len(o) \in Nat /\ Len(nodes) \in Nat
  BY DEF Visited, Tree
<1>1. Range(o) = {o[i] : i \in 1..Len(o)}
  BY <1>0, RangeOf
<1> DEFINE Missed == {n \in Nodes : n \notin Range(o)}
<1>2. Missed = {}
  <2> SUFFICES ASSUME Missed # {} PROVE FALSE
    OBVIOUS
  <2>1. Missed \subseteq Nat
    BY DEF Nodes
  <2>2. PICK n \in Missed : \A m \in Missed : n <= m
    BY <2>1, LeastNumber
  <2>3. n \in Nodes /\ (nodes[n].parent = None \/ (nodes[n].parent \in Nodes /\ nodes[n].parent < n))
    BY ParentIsNode
  <2>4. nodes[n].parent \in Range(o) \cup {None}
    BY <2>2, <2>3 DEF Nodes
  <2>5. n \in Range(o) \cup Range(<<>>)
    BY <2>3, <2>4 DEF Visited
  <2>6. Range(<<>>) = {}
    BY DEF Range
  <2> QED BY <2>5, <2>6
<1>3. \A n \in Nodes : \E i \in 1..Len(o) : o[i] = n
  BY <1>1, <1>2
<1> DEFINE g == [n \in 1..Len(nodes) |-> CHOOSE i \in 1..Len(o) : o[i] = n]
<1>4. \A n \in 1..Len(nodes) : g[n] \in 1..Len(o) /\ o[g[n]] = n
  BY <1>3 DEF Nodes
<1>5. g \in [1..Len(nodes) -> 1..Len(o)]
  BY <1>4
<1>6. \A m, n \in 1..Len(nodes) : g[m] = g[n] => m = n
  BY <1>4
<1> HIDE DEF g
<1>7. Len(nodes) <= Len(o)
  BY <1>0, <1>5, <1>6, NoMoreThan
<1> QED BY <1>3, <1>7

\* The recursive function of ExecutionOrder is defined.
Turn(x) == LET n == Last(x.stack)
           IN  [order |-> Append(x.order, n), stack |-> PushReversed(n, Front(x.stack))]

LEMMA RunExists ==
    ASSUME NEW N \in Nat, NEW begin
    PROVE  \E f : f = [k \in 0..N |-> IF k = 0 THEN begin ELSE Turn(f[k - 1])]
<1> DEFINE Body(f, k) == IF k = 0 THEN begin ELSE Turn(f[k - 1])
           Defined(n) == \E f : f = [k \in 0..n |-> Body(f, k)]
           Undefined == {n \in Nat : ~Defined(n)}
<1>1. Defined(0)
  <2> DEFINE f == [k \in 0..0 |-> begin]
  <2>1. \A k \in 0..0 : k = 0
    OBVIOUS
  <2>2. f = [k \in 0..0 |-> Body(f, k)]
    BY <2>1
  <2> QED BY <2>2
<1>2. ASSUME NEW n \in Nat, Defined(n)
      PROVE  Defined(n + 1)
  <2>1. PICK f : f = [k \in 0..n |-> Body(f, k)]
    BY <1>2
  <2> DEFINE g == [k \in 0..(n + 1) |-> IF k = n + 1 THEN Turn(f[n]) ELSE f[k]]
  <2>2. ASSUME NEW k \in 0..(n + 1)
        PROVE  g[k] = Body(g, k)
    <3>1. CASE k = n + 1
      <4>1. g[k] = Turn(f[n]) /\ k # 0 /\ k - 1 = n /\ n \in 0..(n + 1) /\ n # n + 1
        BY <3>1
      <4>2. g[k - 1] = f[n]
        BY <4>1
      <4> QED BY <3>1, <4>1, <4>2
    <3>2. CASE k # n + 1
      <4>0. \A j \in 0..n : f[j] = Body(f, j)
        BY <2>1, Zenon
      <4>1. k \in 0..n /\ g[k] = f[k] /\ f[k] = Body(f, k)
        BY <3>2, <4>0
      <4>2. k # 0 => k - 1 \in 0..(n + 1) /\ k - 1 # n + 1
        BY <4>1
      <4>3. k # 0 => g[k - 1] = f[k - 1]
        BY <4>2
      <4> QED BY <4>1, <4>3
    <3> QED BY <3>1, <3>2
  <2>3. g = [k \in 0..(n + 1) |-> g[k]]
    OBVIOUS
  <2> HIDE DEF g
  <2>4. g = [k \in 0..(n + 1) |-> Body(g, k)]
    BY <2>2, <2>3, Zenon
  <2> QED BY <2>4
<1> HIDE DEF Defined
<1>3. Undefined = {}
  <2> SUFFICES ASSUME Undefined # {} PROVE FALSE
    OBVIOUS
  <2>1. PICK n \in Undefined : \A m \in Undefined : n <= m
    BY LeastNumber
  <2>2. n \in Nat /\ n # 0
    BY <1>1
  <2>3. n - 1 \in Nat /\ (n - 1) + 1 = n /\ n - 1 \notin Undefined
    BY <2>1, <2>2
  <2> QED BY <1>2, <2>3
<1>4. Defined(N)
  BY <1>3
<1> QED BY <1>4 DEF Defined

\* execution_order is the depth-first plan order of every plan.
LEMMA ExecutionOrderIs ==
    ASSUME Tree
    PROVE  IsPlanOrder(ExecutionOrder)
<1> DEFINE N == Len(nodes)
           begin == [order |-> <<>>, stack |-> PushReversed(None, <<>>)]
           Body(f, k) == IF k = 0 THEN begin ELSE Turn(f[k - 1])
<1>0. N \in Nat
  BY DEF Tree
<1>1. PICK run : run = [k \in 0..N |-> Body(run, k)] /\ ExecutionOrder = run[N].order
  <2> DEFINE f == CHOOSE f : f = [k \in 0..N |-> Body(f, k)]
  <2>0. \E g : g = [k \in 0..N |-> Body(g, k)]
    BY <1>0, RunExists, ZenonT(60)
  <2>1. f = [k \in 0..N |-> Body(f, k)]
    BY <2>0, Zenon
  <2>2. ExecutionOrder = f[N].order
    BY Zenon DEF ExecutionOrder, Turn
  <2> QED BY <2>1, <2>2, Zenon
<1>2. \A k \in 0..N : run[k] = Body(run, k)
  BY <1>1, Zenon
<1> DEFINE Good(k) == Visited(run[k].order, run[k].stack) /\ Len(run[k].order) = k
           Bad == {k \in 0..N : ~Good(k)}
<1>3. Good(0)
  <2>1. run[0] = begin
    BY <1>0, <1>2
  <2>2. run[0].order = <<>> /\ run[0].stack = PushReversed(None, <<>>)
    BY <2>1
  <2> QED BY <2>2, TraversalStarts
<1>4. ASSUME NEW k \in 0..N, k # N, Good(k)
      PROVE  Good(k + 1)
  <2>1. k + 1 \in 0..N /\ k + 1 # 0 /\ (k + 1) - 1 = k /\ k \in Nat /\ ~(N <= k)
    BY <1>0, <1>4
  <2>2. run[k + 1] = Turn(run[k])
    BY <1>2, <2>1
  <2>3. PICK o, s : o = run[k].order /\ s = run[k].stack
    OBVIOUS
  <2>4. Visited(o, s) /\ Len(o) = k
    BY <1>4, <2>3
  <2>5. s # <<>>
    BY <2>1, <2>4, AllVisited
  <2>6. Visited(Append(o, Last(s)), PushReversed(Last(s), Front(s)))
    BY <2>4, <2>5, TraversalStep
  <2>7. run[k + 1].order = Append(o, Last(s)) /\ run[k + 1].stack = PushReversed(Last(s), Front(s))
    BY <2>2, <2>3 DEF Turn
  <2>8. Len(Append(o, Last(s))) = k + 1
    <3>1. o \in Seq(Nodes)
      BY <2>4 DEF Visited
    <3> QED BY <2>4, <3>1
  <2> QED BY <2>6, <2>7, <2>8
<1> HIDE DEF Good
<1>5. Bad = {}
  <2> SUFFICES ASSUME Bad # {} PROVE FALSE
    OBVIOUS
  <2>1. Bad \subseteq Nat
    BY <1>0
  <2>2. PICK k \in Bad : \A m \in Bad : k <= m
    BY <2>1, LeastNumber
  <2>3. k \in 0..N /\ k # 0 /\ k \in Nat
    BY <1>0, <1>3
  <2>4. k - 1 \in 0..N /\ k - 1 # N /\ (k - 1) + 1 = k /\ ~(k <= k - 1)
    BY <1>0, <2>3
  <2> QED BY <1>4, <2>2, <2>4
<1>6. PICK o, s : o = ExecutionOrder /\ s = run[N].stack /\ Visited(o, s) /\ Len(o) = N
  <2>1. Good(N)
    BY <1>0, <1>5
  <2> QED BY <1>1, <2>1 DEF Good
<1>7. s = <<>>
  <2> SUFFICES ASSUME s # <<>> PROVE FALSE
    OBVIOUS
  <2>1. Visited(Append(o, Last(s)), PushReversed(Last(s), Front(s)))
    BY <1>6, TraversalStep
  <2>2. Len(Append(o, Last(s))) = N + 1
    <3>1. o \in Seq(Nodes)
      BY <1>6 DEF Visited
    <3> QED BY <1>6, <3>1
  <2>3. Len(Append(o, Last(s))) <= N
    BY <2>1, VisitedFits
  <2> QED BY <1>0, <2>2, <2>3
<1>8. \A n \in Nodes : \E i \in 1..Len(o) : o[i] = n
  BY <1>6, <1>7, AllVisited
<1>9. o \in Seq(Nodes) /\ \A i, j \in 1..Len(o) : i < j => o[i] # o[j] /\ Precedes(o[i], o[j])
  BY <1>6 DEF Visited
<1> QED BY <1>6, <1>8, <1>9 DEF IsPlanOrder

-----------------------------------------------------------------------------
(* The realms of a placement *)

\* The rows of a valid entry name Services once each.
Rowed(iso) ==
    /\ iso \in Seq(IsolateEntry)
    /\ \A i, j \in 1..Len(iso) : iso[i].service = iso[j].service => i = j

\* After i rows: labels have realms of their own, those of earlier placements
\* kept; rows have their label's realm, or a fresh one nobody else has.
LabelsOK(e, table, next) ==
    /\ realms[e] <= next
    /\ \A l \in Label : table[l] # Default =>
         /\ table[l].by = {e} /\ table[l].nth \in 1..next
         /\ \A k \in Label : table[k] = table[l] => k = l
    /\ \A l \in Label : IF shared[e][l] # Default THEN table[l] = shared[e][l]
                        ELSE table[l] = Default \/ table[l].nth > realms[e]

RowsOK(e, iso, i, table, map, next) ==
    /\ \A s \in Service : map[s] # Default => map[s].by = {e} /\ map[s].nth \in 1..next
    /\ \A s \in Service : (\A j \in 1..i : iso[j].service # s) => map[s] = Default
    /\ \A j \in 1..i : iso[j].policy # Private =>
         map[iso[j].service] = table[iso[j].policy] /\ table[iso[j].policy] # Default
    /\ \A j \in 1..i : iso[j].policy = Private =>
         /\ map[iso[j].service].by = {e} /\ map[iso[j].service].nth > realms[e]
         /\ \A l \in Label : table[l] # map[iso[j].service]
         /\ \A t \in Service : map[t] = map[iso[j].service] => t = iso[j].service

PlaceOK(e, iso, i, x) ==
    /\ x \in [table : [Label -> Realm], next : Nat, map : [Service -> Realm]]
    /\ LabelsOK(e, x.table, x.next) /\ RowsOK(e, iso, i, x.table, x.map, x.next)

LEMMA FreshRealm ==
    ASSUME NEW e \in Load, NEW n \in Nat
    PROVE  /\ NewRealm(e, n) \in Realm /\ Default \in Realm /\ NewRealm(e, n) # Default
           /\ NewRealm(e, n).by = {e} /\ NewRealm(e, n).nth = n
           /\ Default.by = {}
BY DEF NewRealm, Default, Realm

LEMMA PlacingStarts ==
    ASSUME NEW e \in Load, TypeOK, Labels(e), NEW iso
    PROVE  PlaceOK(e, iso, 0, [table |-> [l \in Label |-> SharedOf(e, l)], next |-> realms[e],
                               map |-> [s \in Service |-> Default]])
<1> DEFINE x == [table |-> [l \in Label |-> SharedOf(e, l)], next |-> realms[e],
                 map |-> [s \in Service |-> Default]]
<1>1. realms[e] \in Nat /\ \A l \in Label : shared[e][l] \in Realm
  BY DEF TypeOK
<1>2. /\ x.next = realms[e] /\ \A l \in Label : x.table[l] = shared[e][l]
      /\ \A s \in Service : x.map[s] = Default
  BY DEF SharedOf
<1>3. x \in [table : [Label -> Realm], next : Nat, map : [Service -> Realm]]
  <2>1. Default \in Realm
    BY DEF Default, Realm
  <2>2. [l \in Label |-> SharedOf(e, l)] \in [Label -> Realm]
    BY <1>1 DEF SharedOf
  <2>3. [s \in Service |-> Default] \in [Service -> Realm]
    BY <2>1
  <2> QED BY <1>1, <2>2, <2>3
<1> HIDE DEF x
<1>4. \A j \in 1..0 : FALSE
  OBVIOUS
<1>5. \A l \in Label : x.table[l] # Default =>
         /\ x.table[l].by = {e} /\ x.table[l].nth \in 1..x.next
         /\ \A k \in Label : x.table[k] = x.table[l] => k = l
  BY <1>2 DEF Labels, Mine
<1>6. PlaceOK(e, iso, 0, x)
  BY <1>1, <1>2, <1>3, <1>4, <1>5 DEF PlaceOK, LabelsOK, RowsOK
<1> QED BY <1>6 DEF x

LEMMA PlacingStep ==
    ASSUME NEW e \in Load, TypeOK, NEW iso, Rowed(iso), NEW i \in Nat, i + 1 \in 1..Len(iso),
           NEW x, PlaceOK(e, iso, i, x)
    PROVE  PlaceOK(e, iso, i + 1, PlaceRow(e, x, iso[i + 1]))
<1> DEFINE y == PlaceRow(e, x, iso[i + 1])
<1>1. PICK s, p : s = iso[i + 1].service /\ p = iso[i + 1].policy
  OBVIOUS
<1>2. PICK f : f = NewRealm(e, x.next + 1)
  OBVIOUS
<1>3. /\ s \in Service /\ p \in Label \cup {Private}
  <2>1. iso[i + 1] \in IsolateEntry
    BY DEF Rowed
  <2> QED BY <1>1, <2>1 DEF IsolateEntry
<1>4. x.next \in Nat /\ realms[e] \in Nat /\ realms[e] <= x.next
  BY DEF PlaceOK, LabelsOK, RowsOK, TypeOK
<1>5. /\ f \in Realm /\ f # Default /\ f.by = {e} /\ f.nth = x.next + 1 /\ Default \in Realm
      /\ Default.by = {} /\ f.nth > x.next /\ f.nth > realms[e]
  BY <1>2, <1>4, FreshRealm
<1>6. /\ \A l \in Label : x.table[l] # f
      /\ \A t \in Service : x.map[t] # f
  BY <1>4, <1>5 DEF PlaceOK, LabelsOK, RowsOK
<1>7. /\ \A j \in 1..i : j \in 1..Len(iso) /\ j # i + 1 /\ j \in 1..(i + 1)
      /\ \A j \in 1..(i + 1) : j \in 1..i \/ j = i + 1
      /\ i + 1 \in 1..(i + 1)
  <2>1. Len(iso) \in Nat /\ i + 1 <= Len(iso)
    BY DEF Rowed
  <2> QED BY <2>1
<1>8. \A j \in 1..i : iso[j].service # s
  BY <1>1, <1>7 DEF Rowed
<1>9. \A j \in 1..i : iso[j] \in IsolateEntry
  BY <1>7 DEF Rowed
<1>10. \A j \in 1..i : iso[j].service \in Service /\ iso[j].policy \in Label \cup {Private}
  BY <1>9 DEF IsolateEntry
<1>11. x.map[s] = Default
  BY <1>3, <1>8 DEF PlaceOK, LabelsOK, RowsOK
<1>12. x \in [table : [Label -> Realm], next : Nat, map : [Service -> Realm]]
  BY DEF PlaceOK, LabelsOK, RowsOK
<1>13. PICK m, t, n : /\ m = y.map /\ t = y.table /\ n = y.next
                      /\ y \in [table : [Label -> Realm], next : Nat, map : [Service -> Realm]]
                      /\ \A u \in Service : u # s => m[u] = x.map[u]
                      /\ x.next <= n /\ n \in Nat
                      /\ \/ /\ p = Private /\ m[s] = f /\ n = x.next + 1 /\ t = x.table
                         \/ /\ p \in Label /\ x.table[p] = Default /\ m[s] = f /\ n = x.next + 1
                            /\ t[p] = f /\ \A l \in Label : l # p => t[l] = x.table[l]
                         \/ /\ p \in Label /\ x.table[p] # Default /\ m[s] = x.table[p]
                            /\ n = x.next /\ t = x.table
  <2>1. CASE p = Private
    <3>1. y = [x EXCEPT !.next = @ + 1, !.map[s] = f]
      BY <1>1, <1>2, <2>1 DEF PlaceRow
    <3>2. /\ y.map = [x.map EXCEPT ![s] = f] /\ y.table = x.table /\ y.next = x.next + 1
          /\ y = [table |-> y.table, next |-> y.next, map |-> y.map]
      BY <1>12, <3>1
    <3> HIDE DEF y
    <3>3. y.map \in [Service -> Realm] /\ y.table \in [Label -> Realm] /\ y.next \in Nat
      BY <1>3, <1>4, <1>5, <1>12, <3>2
    <3>4. y \in [table : [Label -> Realm], next : Nat, map : [Service -> Realm]]
      BY <3>2, <3>3
    <3> QED BY <1>3, <1>4, <1>12, <2>1, <3>2, <3>3, <3>4
  <2>2. CASE p \in Label /\ x.table[p] = Default
    <3>1. y = [x EXCEPT !.next = @ + 1, !.map[s] = f, !.table[p] = f]
      BY <1>1, <1>2, <2>2, PolicyAssumption DEF PlaceRow
    <3>2. /\ y.map = [x.map EXCEPT ![s] = f] /\ y.table = [x.table EXCEPT ![p] = f] /\ y.next = x.next + 1
          /\ y = [table |-> y.table, next |-> y.next, map |-> y.map]
      BY <1>12, <3>1
    <3> HIDE DEF y
    <3>a. x.map \in [Service -> Realm] /\ x.table \in [Label -> Realm]
      BY <1>12
    <3>b. y.map \in [Service -> Realm]
      BY <1>5, <3>2, <3>a
    <3>c. y.table \in [Label -> Realm]
      BY <1>5, <3>2, <3>a
    <3>3. y.map \in [Service -> Realm] /\ y.table \in [Label -> Realm] /\ y.next \in Nat
      BY <1>4, <3>2, <3>b, <3>c
    <3>4. y \in [table : [Label -> Realm], next : Nat, map : [Service -> Realm]]
      BY <3>2, <3>3
    <3> QED BY <1>3, <1>4, <1>12, <2>2, <3>2, <3>3, <3>4
  <2>3. CASE p \in Label /\ x.table[p] # Default
    <3>1. y = [x EXCEPT !.map[s] = x.table[p]]
      BY <1>1, <2>3, PolicyAssumption DEF PlaceRow
    <3>2. /\ y.map = [x.map EXCEPT ![s] = x.table[p]] /\ y.table = x.table /\ y.next = x.next
          /\ y = [table |-> y.table, next |-> y.next, map |-> y.map]
      BY <1>12, <3>1
    <3> HIDE DEF y
    <3>3. y.map \in [Service -> Realm] /\ y.table \in [Label -> Realm] /\ y.next \in Nat
      BY <1>3, <1>4, <1>5, <1>12, <2>3, <3>2
    <3>4. y \in [table : [Label -> Realm], next : Nat, map : [Service -> Realm]]
      BY <3>2, <3>3
    <3> QED BY <1>3, <1>4, <1>12, <2>3, <3>2, <3>3, <3>4
  <2> QED BY <1>3, <2>1, <2>2, <2>3
<1> HIDE DEF y
<1>14. realms[e] <= n
  BY <1>4, <1>13
<1>15. \A l \in Label : t[l] = x.table[l] \/ (t[l] = f /\ x.table[l] = Default /\ l = p /\ m[s] = f /\ n = x.next + 1)
  BY <1>13
<1>16. \A l \in Label : t[l] # Default =>
         /\ t[l].by = {e} /\ t[l].nth \in 1..n
         /\ \A k \in Label : t[k] = t[l] => k = l
  <2> SUFFICES ASSUME NEW l \in Label, t[l] # Default
               PROVE  /\ t[l].by = {e} /\ t[l].nth \in 1..n
                      /\ \A k \in Label : t[k] = t[l] => k = l
    OBVIOUS
  <2>1. CASE t[l] = x.table[l]
    <3>1. x.table[l].by = {e} /\ x.table[l].nth \in 1..x.next /\ \A k \in Label : x.table[k] = x.table[l] => k = l
      BY <2>1 DEF PlaceOK, LabelsOK, RowsOK
    <3>2. t[l].nth \in 1..n
      BY <1>4, <1>13, <2>1, <3>1
    <3>3. \A k \in Label : t[k] = t[l] => k = l
      BY <1>6, <1>15, <2>1, <3>1
    <3> QED BY <2>1, <3>1, <3>2, <3>3
  <2>2. CASE t[l] = f /\ l = p /\ n = x.next + 1
    <3>1. t[l].nth \in 1..n
      BY <1>4, <1>5, <2>2
    <3> QED BY <1>5, <1>6, <1>15, <2>2, <3>1
  <2> QED BY <1>15, <2>1, <2>2
<1>17. \A l \in Label : IF shared[e][l] # Default THEN t[l] = shared[e][l]
                        ELSE t[l] = Default \/ t[l].nth > realms[e]
  <2>1. \A l \in Label : IF shared[e][l] # Default THEN x.table[l] = shared[e][l]
                         ELSE x.table[l] = Default \/ x.table[l].nth > realms[e]
    BY DEF PlaceOK, LabelsOK, RowsOK
  <2> QED BY <1>5, <1>15, <2>1
<1>18. \A u \in Service : m[u] # Default => m[u].by = {e} /\ m[u].nth \in 1..n
  <2> SUFFICES ASSUME NEW u \in Service, m[u] # Default
               PROVE  m[u].by = {e} /\ m[u].nth \in 1..n
    OBVIOUS
  <2>1. CASE u # s
    <3>1. m[u] = x.map[u] /\ x.map[u].by = {e} /\ x.map[u].nth \in 1..x.next
      BY <1>13, <2>1 DEF PlaceOK, LabelsOK, RowsOK
    <3> QED BY <1>4, <1>13, <3>1
  <2>2. CASE u = s /\ m[s] = f /\ n = x.next + 1
    BY <1>4, <1>5, <2>2
  <2>3. CASE u = s /\ p \in Label /\ x.table[p] # Default /\ m[s] = x.table[p]
    <3>1. x.table[p].by = {e} /\ x.table[p].nth \in 1..x.next
      BY <2>3 DEF PlaceOK, LabelsOK, RowsOK
    <3> QED BY <1>4, <1>13, <2>3, <3>1
  <2> QED BY <1>13, <2>1, <2>2, <2>3
<1>19. \A u \in Service : (\A j \in 1..(i + 1) : iso[j].service # u) => m[u] = Default
  <2> SUFFICES ASSUME NEW u \in Service, \A j \in 1..(i + 1) : iso[j].service # u
               PROVE  m[u] = Default
    OBVIOUS
  <2>1. u # s /\ \A j \in 1..i : iso[j].service # u
    BY <1>1, <1>7
  <2> QED BY <1>13, <2>1 DEF PlaceOK, LabelsOK, RowsOK
<1>20. \A j \in 1..(i + 1) : iso[j].policy # Private =>
         m[iso[j].service] = t[iso[j].policy] /\ t[iso[j].policy] # Default
  <2> SUFFICES ASSUME NEW j \in 1..(i + 1), iso[j].policy # Private
               PROVE  m[iso[j].service] = t[iso[j].policy] /\ t[iso[j].policy] # Default
    OBVIOUS
  <2>1. CASE j \in 1..i
    <3>1. x.map[iso[j].service] = x.table[iso[j].policy] /\ x.table[iso[j].policy] # Default
      BY <2>1 DEF PlaceOK, LabelsOK, RowsOK
    <3>2. m[iso[j].service] = x.map[iso[j].service]
      BY <1>8, <1>10, <1>13, <2>1
    <3> QED BY <1>10, <1>15, <2>1, <3>1, <3>2
  <2>2. CASE j = i + 1
    BY <1>1, <1>5, <1>13, <2>2
  <2> QED BY <1>7, <2>1, <2>2
<1>21. \A j \in 1..(i + 1) : iso[j].policy = Private =>
         /\ m[iso[j].service].by = {e} /\ m[iso[j].service].nth > realms[e]
         /\ \A l \in Label : t[l] # m[iso[j].service]
         /\ \A u \in Service : m[u] = m[iso[j].service] => u = iso[j].service
  <2> SUFFICES ASSUME NEW j \in 1..(i + 1), iso[j].policy = Private
               PROVE  /\ m[iso[j].service].by = {e} /\ m[iso[j].service].nth > realms[e]
                      /\ \A l \in Label : t[l] # m[iso[j].service]
                      /\ \A u \in Service : m[u] = m[iso[j].service] => u = iso[j].service
    OBVIOUS
  <2>1. CASE j \in 1..i
    <3>0. PICK v \in Service : v = iso[j].service /\ v # s
      BY <1>8, <1>10, <2>1
    <3>1. /\ x.map[v].by = {e} /\ x.map[v].nth > realms[e]
          /\ \A l \in Label : x.table[l] # x.map[v]
          /\ \A u \in Service : x.map[u] = x.map[v] => u = v
      BY <2>1, <3>0 DEF PlaceOK, LabelsOK, RowsOK
    <3>2. m[v] = x.map[v] /\ m[v] # f
      BY <1>6, <1>13, <3>0
    <3>3. \A l \in Label : t[l] # m[v]
      BY <1>15, <3>1, <3>2
    <3>4. m[s] # m[v]
      BY <1>13, <3>1, <3>2
    <3>5. \A u \in Service : m[u] = m[v] => u = v
      BY <1>13, <3>1, <3>2, <3>4
    <3> QED BY <3>0, <3>1, <3>2, <3>3, <3>5
  <2>2. CASE j = i + 1
    <3>1. m[s] = f /\ t = x.table
      BY <1>1, <1>13, <2>2, PolicyAssumption
    <3>2. \A u \in Service : m[u] = m[s] => u = s
      BY <1>6, <1>13, <3>1
    <3>3. \A l \in Label : t[l] # m[s]
      BY <1>6, <3>1
    <3>4. iso[j].service = s
      BY <1>1, <2>2
    <3> QED BY <1>5, <3>1, <3>2, <3>3, <3>4
  <2> QED BY <1>7, <2>1, <2>2
<1>22. /\ m = y.map /\ t = y.table /\ n = y.next
       /\ y \in [table : [Label -> Realm], next : Nat, map : [Service -> Realm]]
  BY <1>13
<1>23. LabelsOK(e, t, n)
  BY <1>14, <1>16, <1>17 DEF LabelsOK
<1>24. RowsOK(e, iso, i + 1, t, m, n)
  BY <1>18, <1>19, <1>20, <1>21 DEF RowsOK
<1>25. PlaceOK(e, iso, i + 1, y)
  BY <1>22, <1>23, <1>24 DEF PlaceOK
<1> QED BY <1>25 DEF y

Begin(e) == [table |-> [l \in Label |-> SharedOf(e, l)], next |-> realms[e],
             map |-> [s \in Service |-> Default]]

\* The recursive function of Placed is defined.
LEMMA PlacedUnfolds ==
    ASSUME NEW e, NEW iso, Len(iso) \in Nat
    PROVE  \E f : /\ f = [i \in 0..Len(iso) |->
                             IF i = 0 THEN Begin(e) ELSE PlaceRow(e, f[i - 1], iso[i])]
                  /\ Placed(e, iso) = f[Len(iso)]
<1> DEFINE begin == Begin(e)
           Body(f, i) == IF i = 0 THEN begin ELSE PlaceRow(e, f[i - 1], iso[i])
           Defined(n) == \E f : f = [i \in 0..n |-> Body(f, i)]
           Undefined == {n \in Nat : ~Defined(n)}
<1>1. Defined(0)
  <2> DEFINE f == [i \in 0..0 |-> begin]
  <2>1. \A i \in 0..0 : i = 0
    OBVIOUS
  <2>2. f = [i \in 0..0 |-> Body(f, i)]
    BY <2>1
  <2> QED BY <2>2
<1>2. ASSUME NEW n \in Nat, Defined(n)
      PROVE  Defined(n + 1)
  <2>1. PICK f : f = [i \in 0..n |-> Body(f, i)]
    BY <1>2
  <2> DEFINE last == PlaceRow(e, f[n], iso[n + 1])
             g == [i \in 0..(n + 1) |-> IF i = n + 1 THEN last ELSE f[i]]
  <2>2. ASSUME NEW i \in 0..(n + 1)
        PROVE  g[i] = Body(g, i)
    <3>1. CASE i = n + 1
      <4>1. g[i] = last /\ i # 0 /\ i - 1 = n /\ n \in 0..(n + 1) /\ n # n + 1
        BY <3>1
      <4>2. g[i - 1] = f[n]
        BY <4>1
      <4> QED BY <3>1, <4>1, <4>2
    <3>2. CASE i # n + 1
      <4>0. \A j \in 0..n : f[j] = Body(f, j)
        BY <2>1, Zenon
      <4>1. i \in 0..n /\ g[i] = f[i] /\ f[i] = Body(f, i)
        BY <3>2, <4>0
      <4>2. i # 0 => i - 1 \in 0..(n + 1) /\ i - 1 # n + 1
        BY <4>1
      <4>3. i # 0 => g[i - 1] = f[i - 1]
        BY <4>2
      <4> QED BY <4>1, <4>3
    <3> QED BY <3>1, <3>2
  <2>3. g = [i \in 0..(n + 1) |-> g[i]]
    OBVIOUS
  <2> HIDE DEF g
  <2>4. g = [i \in 0..(n + 1) |-> Body(g, i)]
    BY <2>2, <2>3, Zenon
  <2> QED BY <2>4
<1> HIDE DEF Defined
<1>3. Undefined = {}
  <2> SUFFICES ASSUME Undefined # {} PROVE FALSE
    OBVIOUS
  <2>1. PICK n \in Undefined : \A m \in Undefined : n <= m
    BY LeastNumber
  <2>2. n \in Nat /\ n # 0
    BY <1>1
  <2>3. n - 1 \in Nat /\ (n - 1) + 1 = n /\ n - 1 \notin Undefined
    BY <2>1, <2>2
  <2> QED BY <1>2, <2>3
<1>4. Defined(Len(iso))
  BY <1>3
<1> DEFINE f == CHOOSE f : f = [i \in 0..Len(iso) |-> Body(f, i)]
<1>5. f = [i \in 0..Len(iso) |-> Body(f, i)]
  BY <1>4, Zenon DEF Defined
<1>6. Placed(e, iso) = f[Len(iso)]
  BY Zenon DEF Placed, Begin
<1> QED BY <1>5, <1>6, Zenon

LEMMA PlacedIs ==
    ASSUME NEW e \in Load, TypeOK, Labels(e), NEW iso, Rowed(iso)
    PROVE  PlaceOK(e, iso, Len(iso), Placed(e, iso))
<1> DEFINE N == Len(iso)
           Body(f, i) == IF i = 0 THEN Begin(e) ELSE PlaceRow(e, f[i - 1], iso[i])
<1>0. N \in Nat
  BY DEF Rowed
<1>1. PICK env : env = [i \in 0..N |-> Body(env, i)] /\ Placed(e, iso) = env[N]
  BY <1>0, PlacedUnfolds
<1>2. \A i \in 0..N : env[i] = Body(env, i)
  BY <1>1, Zenon
<1> DEFINE Good(i) == PlaceOK(e, iso, i, env[i])
           Bad == {i \in 0..N : ~Good(i)}
<1>3. Good(0)
  <2>1. env[0] = Begin(e)
    BY <1>0, <1>2
  <2> QED BY <2>1, PlacingStarts DEF Begin
<1>4. ASSUME NEW i \in 0..N, i # N, Good(i)
      PROVE  Good(i + 1)
  <2>1. i + 1 \in 0..N /\ i + 1 # 0 /\ (i + 1) - 1 = i /\ i \in Nat /\ i + 1 \in 1..N
    BY <1>0, <1>4
  <2>2. env[i + 1] = PlaceRow(e, env[i], iso[i + 1])
    BY <1>2, <2>1
  <2> QED BY <1>4, <2>1, <2>2, PlacingStep
<1> HIDE DEF Good
<1>5. Bad = {}
  <2> SUFFICES ASSUME Bad # {} PROVE FALSE
    OBVIOUS
  <2>1. Bad \subseteq Nat
    BY <1>0
  <2>2. PICK i \in Bad : \A m \in Bad : i <= m
    BY <2>1, LeastNumber
  <2>3. i \in 0..N /\ i # 0 /\ i \in Nat
    BY <1>0, <1>3
  <2>4. i - 1 \in 0..N /\ i - 1 # N /\ (i - 1) + 1 = i /\ ~(i <= i - 1)
    BY <1>0, <2>3
  <2> QED BY <1>4, <2>2, <2>4
<1>6. Good(N)
  BY <1>0, <1>5
<1> QED BY <1>1, <1>6 DEF Good

\* Ancestors are in line: of two, one descends from the other.
LEMMA InLine ==
    ASSUME Tree
    PROVE  \A n \in Nodes : \A x, y \in Ancestors(n) \cup {n} :
             x = y \/ x \in Ancestors(y) \/ y \in Ancestors(x)
<1> DEFINE Good(n) == \A x, y \in Ancestors(n) \cup {n} :
                        x = y \/ x \in Ancestors(y) \/ y \in Ancestors(x)
           Bad == {n \in Nodes : ~Good(n)}
<1>1. ASSUME NEW n \in Nodes, \A m \in Nodes : m < n => Good(m)
      PROVE  Good(n)
  <2>1. CASE nodes[n].parent = None
    BY <2>1, AncestorsAre
  <2>2. CASE nodes[n].parent # None
    <3>1. PICK p \in Nodes : p = nodes[n].parent /\ p < n
      BY <2>2, ParentIsNode
    <3>2. Ancestors(n) = {p} \cup Ancestors(p)
      BY <2>2, <3>1, AncestorsAre
    <3>3. Good(p)
      BY <1>1, <3>1
    <3> HIDE DEF Good
    <3>4. \A x, y \in Ancestors(n) : x = y \/ x \in Ancestors(y) \/ y \in Ancestors(x)
      BY <3>2, <3>3 DEF Good
    <3> QED BY <3>4 DEF Good
  <2> QED BY <2>1, <2>2
<1> HIDE DEF Good
<1>2. Bad = {}
  <2> SUFFICES ASSUME Bad # {} PROVE FALSE
    OBVIOUS
  <2>1. Bad \subseteq Nat
    BY DEF Nodes
  <2>2. PICK n \in Bad : \A m \in Bad : n <= m
    BY <2>1, LeastNumber
  <2>3. \A m \in Nodes : m < n => Good(m)
    BY <2>2 DEF Nodes
  <2> QED BY <1>1, <2>3
<1> QED BY <1>2 DEF Good

\* No two in line have the same parent.
LEMMA OneChildInLine ==
    ASSUME Tree, NEW x \in Nodes, NEW y \in Ancestors(x), y \in Nodes
    PROVE  nodes[x].parent # nodes[y].parent
<1> SUFFICES ASSUME nodes[x].parent = nodes[y].parent PROVE FALSE
  OBVIOUS
<1>1. nodes[x].parent # None
  BY AncestorsAre
<1>2. PICK p \in Nodes : p = nodes[x].parent
  BY <1>1, ParentIsNode
<1>3. Ancestors(x) = {p} \cup Ancestors(p)
  BY <1>1, <1>2, AncestorsAre
<1>4. y <= p
  <2>1. Ancestors(p) \subseteq 1..(p - 1)
    BY AncestorsBelow
  <2> QED BY <1>3, <2>1 DEF Nodes
<1>5. p < y
  BY <1>1, <1>2, ParentIsNode
<1> QED BY <1>2, <1>4, <1>5 DEF Nodes

\* An entry does not come before its ancestors.
LEMMA NotBeforeAncestors ==
    ASSUME Tree, NEW n \in Nodes, NEW p \in Ancestors(n)
    PROVE  p \in Nodes /\ ~Precedes(n, p)
<1>1. p \in Nodes /\ p < n /\ n \in Nat
  <2>1. Ancestors(n) \subseteq 1..(n - 1) /\ n \in Nat /\ Len(nodes) \in Nat /\ n <= Len(nodes)
    BY AncestorsBelow DEF Nodes, Tree
  <2> QED BY <2>1 DEF Nodes
<1>2. n \notin Ancestors(p)
  <2>1. Ancestors(p) \subseteq 1..(p - 1) /\ p \in Nat
    BY <1>1, AncestorsBelow DEF Nodes
  <2> QED BY <1>1, <2>1
<1>3. ASSUME NEW x \in Ancestors(n) \cup {n}, NEW y \in Ancestors(p) \cup {p},
             nodes[x].parent = nodes[y].parent, x < y
      PROVE  FALSE
  <2>1. Ancestors(p) \subseteq Ancestors(n)
    BY AncestorsOfAncestors
  <2>2. x \in Nodes /\ y \in Nodes
    <3>1. Ancestors(n) \subseteq Nodes
      BY AncestorsBelow DEF Nodes, Tree, Ancestors
    <3> QED BY <2>1, <3>1
  <2>3. x = y \/ x \in Ancestors(y) \/ y \in Ancestors(x)
    BY <2>1, InLine
  <2> QED BY <1>3, <2>2, <2>3, OneChildInLine DEF Nodes
<1> QED BY <1>1, <1>2, <1>3 DEF Precedes

-----------------------------------------------------------------------------
(* What a step leaves alone *)

LEMMA PlanKept ==
    ASSUME UNCHANGED planVars
    PROVE  /\ PlanOK' = PlanOK /\ Tree' = Tree /\ Nodes' = Nodes
           /\ \A o : IsPlanOrder(o)' = IsPlanOrder(o)
           /\ \A n : Ancestors(n)' = Ancestors(n) /\ IsDisabled(n)' = IsDisabled(n)
           /\ \A n : DisabledAncestors(n)' = DisabledAncestors(n) /\ Expected(n)' = Expected(n)
           /\ \A n : Runs(n)' = Runs(n)
           /\ \A n, by : Passes(n, by)' = Passes(n, by)
           /\ \A row : Faithful(row)' = Faithful(row)
           /\ \A n, s : PolicyOf(n, s)' = PolicyOf(n, s)
<1>1. nodes' = nodes /\ frozen' = frozen
  BY DEF planVars
<1>2. Nodes' = Nodes /\ Tree' = Tree
  BY <1>1 DEF Nodes, Tree
<1>3. PlanOK' = PlanOK
  BY <1>1, <1>2 DEF PlanOK
<1>4. \A n : Ancestors(n)' = Ancestors(n)
  BY <1>1 DEF Ancestors
<1>5. \A n : IsDisabled(n)' = IsDisabled(n)
  BY <1>1 DEF IsDisabled
<1>6. \A a, b : Precedes(a, b)' = Precedes(a, b)
  BY <1>1, <1>4 DEF Precedes
<1>7. \A o : IsPlanOrder(o)' = IsPlanOrder(o)
  BY <1>1, <1>2, <1>6 DEF IsPlanOrder
<1>8. \A n : DisabledAncestors(n)' = DisabledAncestors(n)
  BY <1>4, <1>5 DEF DisabledAncestors
<1>9. \A n : Expected(n)' = Expected(n)
  BY <1>1, <1>5, <1>8 DEF Expected
<1>10. \A n : Runs(n)' = Runs(n)
  BY <1>1, <1>5, <1>8 DEF Runs
<1>11. \A n, by : Passes(n, by)' = Passes(n, by)
  BY <1>5, <1>8 DEF Passes
<1>12. \A row : Faithful(row)' = Faithful(row)
  BY <1>8, <1>9 DEF Faithful
<1>13. \A n, s : PolicyOf(n, s)' = PolicyOf(n, s)
  BY <1>1 DEF PolicyOf
<1> QED BY <1>2, <1>3, <1>4, <1>5, <1>7, <1>8, <1>9, <1>10, <1>11, <1>12, <1>13

\* Other loads are as they were.
LEMMA OtherLoad ==
    ASSUME UNCHANGED planVars, NEW e \in Load,
           at'[e] = at[e], order'[e] = order[e], off'[e] = off[e], rows'[e] = rows[e],
           fiber'[e] = fiber[e], LoadOK(e)
    PROVE  LoadOK(e)'
<1>0. nodes' = nodes /\ frozen' = frozen
  BY DEF planVars
<1>1. More(e)' = More(e) /\ Current(e)' = Current(e)
  BY <1>0 DEF More, Current
<1>2. Started(e)'
  BY <1>0, PlanKept DEF LoadOK, Started
<1>3. Rows(e)'
  BY PlanKept DEF LoadOK, Rows
<1>4. Pruning(e)'
  BY PlanKept DEF LoadOK, Pruning
<1>5. Progress(e)'
  BY <1>0, <1>1, PlanKept DEF LoadOK, Progress
<1>6. Fibers(e)'
  BY <1>1 DEF LoadOK, Fibers
<1> QED BY <1>2, <1>3, <1>4, <1>5, <1>6 DEF LoadOK

\* Without a placement realms stay what they are.
LEMMA SameRealms ==
    ASSUME UNCHANGED planVars, NEW e \in Load,
           shared'[e] = shared[e], realm'[e] = realm[e], realms'[e] = realms[e],
           \A n \in Entry : Standing(e, n)' => Standing(e, n), Realms(e)
    PROVE  Realms(e)'
<1>1. \A r : Mine(e, r)' = Mine(e, r)
  BY DEF Mine
<1>2. Labels(e)'
  BY <1>1 DEF Realms, Labels
<1>3. ASSUME NEW n \in Entry, NEW s \in Service, Standing(e, n)'
      PROVE  Placement(e, n, s)'
  <2>1. Placement(e, n, s) /\ PolicyOf(n, s)' = PolicyOf(n, s)
    BY <1>3, PlanKept DEF Realms
  <2> QED BY <1>1, <2>1 DEF Placement
<1> QED BY <1>2, <1>3 DEF Realms

\* An order's entries are its plan's, and a load's rows are of them.
LEMMA LoadFacts ==
    ASSUME IInv, NEW e \in Load, at[e] # "idle"
    PROVE  /\ frozen /\ IsPlanOrder(order[e]) /\ order[e] \in Seq(Nodes) /\ Len(order[e]) = Len(nodes)
           /\ Len(nodes) \in Nat /\ Len(rows[e]) \in Nat /\ rows[e] \in Seq(Line)
           /\ Len(rows[e]) <= Len(nodes) /\ Nodes \subseteq Entry
<1>1. Started(e) /\ PlanOK /\ TypeOK
  BY DEF IInv, LoadOK
<1>2. frozen /\ IsPlanOrder(order[e]) /\ Len(rows[e]) <= Len(nodes)
  BY <1>1 DEF Started
<1>3. Len(nodes) \in Nat /\ Len(nodes) <= MaxEntries
  BY <1>1 DEF PlanOK, Tree
<1>4. rows[e] \in Seq(Line)
  BY <1>1 DEF TypeOK
<1>5. Nodes \subseteq Entry
  BY <1>3, EntriesAssumption DEF Nodes, Entry
<1> QED BY <1>2, <1>3, <1>4, <1>5 DEF IsPlanOrder

LEMMA CurrentFacts ==
    ASSUME IInv, NEW e \in Load, at[e] \in {"entry", "spawn"}, More(e)
    PROVE  /\ Current(e) \in Nodes /\ Current(e) \in Entry
           /\ Len(rows[e]) + 1 \in 1..Len(order[e])
           /\ order[e][Len(rows[e]) + 1] = Current(e)
           /\ off[e][Current(e)] = None
<1>1. at[e] # "idle"
  OBVIOUS
<1>2. /\ order[e] \in Seq(Nodes) /\ Len(order[e]) = Len(nodes) /\ Len(nodes) \in Nat
      /\ Len(rows[e]) \in Nat /\ Nodes \subseteq Entry
  BY <1>1, LoadFacts
<1>3. Len(rows[e]) + 1 \in 1..Len(order[e]) /\ ~(Len(rows[e]) + 1 <= Len(rows[e]))
  BY <1>2 DEF More
<1>4. off[e][order[e][Len(rows[e]) + 1]] = None
  BY <1>3 DEF IInv, LoadOK, Pruning
<1> QED BY <1>2, <1>3, <1>4 DEF Current

\* The parent of the current entry has had its turn, and has passed on what the
\* entry inherits.
LEMMA InheritedIs ==
    ASSUME IInv, NEW e \in Load, at[e] \in {"entry", "spawn"}, More(e)
    PROVE  IF Inherited(e) = None THEN DisabledAncestors(Current(e)) = {}
           ELSE /\ Inherited(e) \in DisabledAncestors(Current(e)) /\ Inherited(e) \in Nat
                /\ IsDisabled(Inherited(e)) /\ DisabledAncestors(Inherited(e)) = {}
<1> DEFINE o == order[e]
           k == Len(rows[e]) + 1
<1>1. /\ IsPlanOrder(o) /\ o \in Seq(Nodes) /\ Len(o) = Len(nodes) /\ Len(nodes) \in Nat
      /\ Len(rows[e]) \in Nat
  BY LoadFacts
<1>2. PICK n \in Nodes : n = Current(e) /\ o[k] = n /\ k \in 1..Len(o)
  BY CurrentFacts
<1>3. Tree
  BY DEF IInv, PlanOK
<1>4. CASE nodes[n].parent = None
  <2>1. Ancestors(n) = {}
    BY <1>3, <1>4, AncestorsAre
  <2> QED BY <1>2, <1>4, <2>1 DEF Inherited, DisabledAncestors
<1>5. CASE nodes[n].parent # None
  <2>1. PICK p \in Nodes : p = nodes[n].parent
    BY <1>3, <1>5, ParentIsNode
  <2>2. Ancestors(n) = {p} \cup Ancestors(p)
    BY <1>3, <1>5, <2>1, AncestorsAre
  <2>3. PICK j \in 1..Len(o) : o[j] = p
    BY <1>1 DEF IsPlanOrder
  <2>4. j < k
    <3>1. ~Precedes(n, p) /\ n # p
      <4>1. ~Precedes(n, p)
        BY <1>3, <2>2, NotBeforeAncestors
      <4>2. p < n
        BY <1>3, <2>1, <1>5, ParentIsNode
      <4> QED BY <4>1, <4>2 DEF Nodes
    <3>2. ~(k < j) /\ k # j
      BY <1>1, <1>2, <2>3, <3>1, ZenonT(60) DEF IsPlanOrder
    <3> QED BY <1>1, <3>2
  <2>5. Passes(p, off[e][p])
    <3>1. j <= Len(rows[e])
      BY <1>1, <2>4
    <3> QED BY <2>3, <3>1 DEF IInv, LoadOK, Pruning
  <2>6. Inherited(e) = off[e][p]
    BY <1>2, <1>5, <2>1 DEF Inherited
  <2>7. CASE off[e][p] = None
    <3>1. DisabledAncestors(p) = {} /\ ~IsDisabled(p)
      BY <2>5, <2>7 DEF Passes
    <3> QED BY <1>2, <2>2, <2>6, <2>7, <3>1 DEF DisabledAncestors
  <2>8. CASE off[e][p] # None
    <3>1. PICK by : /\ by = off[e][p] /\ by \in DisabledAncestors(p) \cup {p} /\ IsDisabled(by)
                    /\ DisabledAncestors(by) = {}
      BY <2>5, <2>8 DEF Passes
    <3>2. by \in DisabledAncestors(n)
      BY <2>2, <3>1 DEF DisabledAncestors
    <3>3. by \in Nat
      BY <1>3, <3>2 DEF DisabledAncestors, Ancestors, Tree
    <3> QED BY <1>2, <2>6, <2>8, <3>1, <3>2, <3>3
  <2> QED BY <2>7, <2>8
<1> QED BY <1>4, <1>5

-----------------------------------------------------------------------------
(* Steps *)

\* A step of one load.
LEMMA ByLoad ==
    ASSUME IInv, UNCHANGED planVars, NEW e \in Load, TypeOK', LoadOK(e)', Realms(e)',
           \A g \in Load \ {e} :
              /\ at'[g] = at[g] /\ order'[g] = order[g] /\ off'[g] = off[g] /\ rows'[g] = rows[g]
              /\ fiber'[g] = fiber[g]
              /\ shared'[g] = shared[g] /\ realm'[g] = realm[g] /\ realms'[g] = realms[g]
    PROVE  IInv'
<1>1. PlanOK'
  BY PlanKept DEF IInv
<1>2. ASSUME NEW g \in Load, g # e
      PROVE  LoadOK(g)' /\ Realms(g)'
  <2>1. /\ at'[g] = at[g] /\ order'[g] = order[g] /\ off'[g] = off[g] /\ rows'[g] = rows[g]
        /\ fiber'[g] = fiber[g]
        /\ shared'[g] = shared[g] /\ realm'[g] = realm[g] /\ realms'[g] = realms[g]
    BY <1>2
  <2>2. LoadOK(g) /\ Realms(g)
    BY DEF IInv
  <2>3. LoadOK(g)'
    BY <2>1, <2>2, OtherLoad
  <2>4. \A n \in Entry : Standing(g, n)' => Standing(g, n)
    BY <2>1 DEF Standing
  <2> QED BY <2>1, <2>2, <2>3, <2>4, SameRealms
<1> QED BY <1>1, <1>2 DEF IInv

\* A row is pushed for the current entry.
LEMMA RowPushed ==
    ASSUME IInv, UNCHANGED <<planVars, order>>, NEW e \in Load, at[e] \in {"entry", "spawn"}, More(e),
           NEW row \in Line, row.id = Current(e), Faithful(row),
           rows' = [rows EXCEPT ![e] = Append(@, row)]
    PROVE  /\ rows' \in [Load -> Seq(Line)] /\ \A g \in Load \ {e} : rows'[g] = rows[g]
           /\ Len(rows'[e]) = Len(rows[e]) + 1 /\ Len(rows'[e]) <= Len(nodes)
           /\ \A i \in 1..Len(rows[e]) : rows'[e][i] = rows[e][i]
           /\ rows'[e][Len(rows[e]) + 1] = row
           /\ Rows(e)'
<1>0. rows \in [Load -> Seq(Line)] /\ Rows(e)
  BY DEF IInv, TypeOK, LoadOK
<1>1. PICK r \in Seq(Line) : r = rows[e] /\ Len(r) \in Nat
  BY <1>0
<1>2. PICK q \in Seq(Line) : /\ q = Append(r, row) /\ Len(q) = Len(r) + 1 /\ q[Len(r) + 1] = row
                             /\ \A i \in 1..Len(r) : q[i] = r[i]
  <2>1. /\ Append(r, row) \in Seq(Line) /\ Len(Append(r, row)) = Len(r) + 1
        /\ Append(r, row)[Len(r) + 1] = row /\ \A i \in 1..Len(r) : Append(r, row)[i] = r[i]
    OBVIOUS
  <2> QED BY <2>1
<1>3. rows'[e] = q /\ rows' \in [Load -> Seq(Line)] /\ \A g \in Load \ {e} : rows'[g] = rows[g]
  BY <1>0, <1>1, <1>2
<1>4. Len(nodes) \in Nat /\ Len(q) <= Len(nodes)
  <2>1. Len(nodes) \in Nat
    BY LoadFacts
  <2> QED BY <1>1, <1>2, <2>1 DEF More
<1>5. order'[e] = order[e] /\ order[e][Len(r) + 1] = Current(e)
  BY <1>1, CurrentFacts
<1>6. Rows(e)'
  <2> SUFFICES ASSUME NEW i \in 1..Len(q)
               PROVE  q[i].id = order[e][i] /\ Faithful(q[i])'
    BY <1>3, <1>5 DEF Rows
  <2>1. CASE i \in 1..Len(r)
    BY <1>0, <1>1, <1>2, <2>1, PlanKept DEF Rows
  <2>2. CASE i = Len(r) + 1
    BY <1>2, <1>5, <2>2, PlanKept
  <2>3. i \in 1..Len(r) \/ i = Len(r) + 1
    BY <1>1, <1>2
  <2> QED BY <2>1, <2>2, <2>3
<1> QED BY <1>1, <1>2, <1>3, <1>4, <1>6

\* A visited entry that spawns nothing.
LEMMA EntryPushed ==
    ASSUME IInv, UNCHANGED <<planVars, at, order, shared, fiber, realm, realms>>,
           NEW e \in Load, at[e] = "entry", More(e),
           NEW row \in Line, row.id = Current(e), Faithful(row),
           rows' = [rows EXCEPT ![e] = Append(@, row)],
           NEW by \in Nat, Passes(Current(e), by),
           off' = [off EXCEPT ![e][Current(e)] = by]
    PROVE  IInv'
<1>1. /\ Current(e) \in Nodes /\ Current(e) \in Entry /\ Len(rows[e]) + 1 \in 1..Len(order[e])
      /\ order[e][Len(rows[e]) + 1] = Current(e)
  BY CurrentFacts
<1>2. /\ IsPlanOrder(order[e]) /\ frozen /\ Len(rows[e]) \in Nat /\ Len(order[e]) = Len(nodes)
      /\ order[e] \in Seq(Nodes) /\ Nodes \subseteq Entry /\ Len(order[e]) \in Nat
  BY LoadFacts
<1>3. /\ rows' \in [Load -> Seq(Line)] /\ \A g \in Load \ {e} : rows'[g] = rows[g]
      /\ Len(rows'[e]) = Len(rows[e]) + 1 /\ Len(rows'[e]) <= Len(nodes)
      /\ \A i \in 1..Len(rows[e]) : rows'[e][i] = rows[e][i]
      /\ rows'[e][Len(rows[e]) + 1] = row
      /\ Rows(e)'
  BY RowPushed
<1>4. TypeOK /\ LoadOK(e) /\ Realms(e)
  BY DEF IInv
<1>5. /\ off' \in [Load -> [Entry -> Nat]] /\ \A g \in Load \ {e} : off'[g] = off[g]
      /\ off'[e][Current(e)] = by /\ \A n \in Entry : n # Current(e) => off'[e][n] = off[e][n]
  BY <1>1, <1>4 DEF TypeOK
<1>6. TypeOK'
  BY <1>3, <1>4, <1>5 DEF TypeOK
<1>7. Started(e)'
  BY <1>2, <1>3, PlanKept DEF Started, planVars
<1>8. Pruning(e)'
  <2> SUFFICES ASSUME NEW i \in 1..Len(order[e])
               PROVE  IF i <= Len(rows[e]) + 1 THEN Passes(order[e][i], off'[e][order[e][i]])
                      ELSE off'[e][order[e][i]] = None
    BY <1>3, PlanKept DEF Pruning
  <2>1. IF i <= Len(rows[e]) THEN Passes(order[e][i], off[e][order[e][i]])
        ELSE off[e][order[e][i]] = None
    BY <1>4 DEF LoadOK, Pruning
  <2>2. CASE i = Len(rows[e]) + 1
    BY <1>1, <1>2, <1>5, <2>2
  <2>3. CASE i # Len(rows[e]) + 1
    <3>1. order[e][i] # Current(e) /\ order[e][i] \in Entry
      <4>1. i < Len(rows[e]) + 1 \/ Len(rows[e]) + 1 < i
        BY <1>2, <2>3
      <4>2. \A a, b \in 1..Len(order[e]) : a < b => order[e][a] # order[e][b]
        BY <1>2 DEF IsPlanOrder
      <4>3. order[e][i] \in Nodes
        BY <1>2
      <4>4. order[e][i] # order[e][Len(rows[e]) + 1]
        BY <1>1, <4>1, <4>2
      <4> QED BY <1>1, <1>2, <4>3, <4>4
    <3>2. off'[e][order[e][i]] = off[e][order[e][i]]
      BY <1>5, <3>1
    <3>3. i <= Len(rows[e]) + 1 <=> i <= Len(rows[e])
      BY <1>2, <2>3
    <3> QED BY <2>1, <3>2, <3>3
  <2> QED BY <2>2, <2>3
<1>9. Progress(e)'
  BY DEF Progress
<1>10. Fibers(e)'
  <2>1. Fibers(e)
    BY <1>4 DEF LoadOK
  <2>2. ASSUME NEW n \in Entry, fiber[e][n] = "live"
        PROVE  \E i \in 1..Len(rows'[e]) : rows'[e][i].id = n /\ rows'[e][i].kind = "spawned"
    <3>1. PICK i \in 1..Len(rows[e]) : rows[e][i].id = n /\ rows[e][i].kind = "spawned"
      BY <2>1, <2>2 DEF Fibers
    <3>2. i \in 1..Len(rows'[e]) /\ rows'[e][i] = rows[e][i]
      BY <1>2, <1>3
    <3> QED BY <3>1, <3>2
  <2>3. \A n \in Entry : fiber[e][n] # "creating" /\ fiber[e][n] # "disposed"
    BY <2>1 DEF Fibers
  <2> QED BY <2>2, <2>3 DEF Fibers
<1>11. LoadOK(e)'
  BY <1>3, <1>7, <1>8, <1>9, <1>10 DEF LoadOK
<1>12. Realms(e)'
  <2>1. \A n \in Entry : Standing(e, n)' => Standing(e, n)
    BY DEF Standing
  <2> QED BY <1>4, <2>1, SameRealms
<1> QED BY <1>3, <1>5, <1>6, <1>11, <1>12, ByLoad

LEMMA CurrentRow ==
    ASSUME IInv, NEW e \in Load, at[e] \in {"entry", "spawn"}, More(e)
    PROVE  nodes[Current(e)].row \in Row /\ Valid(nodes[Current(e)].row)
<1>1. PICK n \in Nodes : n = Current(e)
  BY CurrentFacts
<1>2. nodes \in Seq(Node) /\ Valid(nodes[n].row)
  BY DEF IInv, PlanOK, Tree
<1>3. nodes[n] \in Node
  BY <1>2 DEF Nodes
<1> QED BY <1>1, <1>2, <1>3 DEF Node

LEMMA PruneStep ==
    ASSUME IInv, NEW e \in Load, Prune(e)
    PROVE  IInv'
<1> DEFINE row == Outcome(Current(e), "pruned", Inherited(e), "none")
<1>1. at[e] = "entry" /\ More(e) /\ Inherited(e) # None
  BY DEF Prune
<1>2. /\ Inherited(e) \in DisabledAncestors(Current(e)) /\ Inherited(e) \in Nat
      /\ IsDisabled(Inherited(e)) /\ DisabledAncestors(Inherited(e)) = {}
  BY <1>1, InheritedIs
<1>3. Current(e) \in Nat
  BY <1>1, CurrentFacts DEF Nodes
<1>4. row \in Line
  BY <1>2, <1>3 DEF Outcome, Line, Kind, Why
<1>5. /\ row.id = Current(e) /\ row.kind = "pruned" /\ row.by = Inherited(e) /\ row.why = "none"
  BY DEF Outcome
<1>6. Faithful(row)
  BY <1>2, <1>5 DEF Faithful, Expected
<1>7. Passes(Current(e), Inherited(e))
  BY <1>1, <1>2 DEF Passes
<1>8. /\ rows' = [rows EXCEPT ![e] = Append(@, row)]
      /\ off' = [off EXCEPT ![e][Current(e)] = Inherited(e)]
      /\ UNCHANGED <<planVars, at, order, shared, fiber, realm, realms>>
  BY DEF Prune, PushRow
<1> HIDE DEF row
<1> QED BY <1>1, <1>2, <1>4, <1>5, <1>6, <1>7, <1>8, EntryPushed

LEMMA UndisabledIs ==
    ASSUME IInv, NEW e \in Load, Reached(e)
    PROVE  /\ at[e] = "entry" /\ More(e) /\ DisabledAncestors(Current(e)) = {}
           /\ Current(e) \in Nat /\ Current(e) # None
           /\ off = [off EXCEPT ![e][Current(e)] = None]
<1>1. at[e] = "entry" /\ More(e) /\ Inherited(e) = None
  BY DEF Reached
<1>2. DisabledAncestors(Current(e)) = {}
  BY <1>1, InheritedIs
<1>3. Current(e) \in Nodes /\ Current(e) \in Entry /\ off[e][Current(e)] = None
  BY <1>1, CurrentFacts
<1>4. off \in [Load -> [Entry -> Nat]]
  BY DEF IInv, TypeOK
<1>5. off = [off EXCEPT ![e][Current(e)] = None]
  BY <1>3, <1>4
<1> QED BY <1>1, <1>2, <1>3, <1>5 DEF Nodes, None

LEMMA GroupStep ==
    ASSUME IInv, NEW e \in Load, Group(e)
    PROVE  IInv'
<1> DEFINE row == Outcome(Current(e), "group", None, "none")
<1>1. Reached(e) /\ nodes[Current(e)].row.group
  BY DEF Group
<1>2. /\ at[e] = "entry" /\ More(e) /\ DisabledAncestors(Current(e)) = {} /\ Current(e) \in Nat
      /\ off = [off EXCEPT ![e][Current(e)] = None]
  BY <1>1, UndisabledIs
<1>3. row \in Line
  BY <1>2 DEF Outcome, Line, Kind, Why, None
<1>4. /\ row.id = Current(e) /\ row.kind = "group" /\ row.why = "none"
  BY DEF Outcome
<1>5. Faithful(row)
  BY <1>1, <1>2, <1>4 DEF Faithful, Expected
<1>6. Passes(Current(e), None)
  BY <1>1, <1>2 DEF Passes, IsDisabled
<1>7. /\ rows' = [rows EXCEPT ![e] = Append(@, row)]
      /\ off' = [off EXCEPT ![e][Current(e)] = None]
      /\ UNCHANGED <<planVars, at, order, shared, fiber, realm, realms>>
  BY <1>2 DEF Group, PushRow
<1>8. None \in Nat
  BY DEF None
<1> HIDE DEF row
<1> QED BY <1>2, <1>3, <1>4, <1>5, <1>6, <1>7, <1>8, EntryPushed

LEMMA DisabledStep ==
    ASSUME IInv, NEW e \in Load, Disabled(e)
    PROVE  IInv'
<1> DEFINE row == Outcome(Current(e), "disabled", None, "none")
<1>1. Reached(e) /\ IsDisabled(Current(e)) /\ ~nodes[Current(e)].row.group
  BY DEF Disabled, IsDisabled
<1>2. /\ at[e] = "entry" /\ More(e) /\ DisabledAncestors(Current(e)) = {} /\ Current(e) \in Nat
      /\ Current(e) # None
  BY <1>1, UndisabledIs
<1>3. row \in Line
  BY <1>2 DEF Outcome, Line, Kind, Why, None
<1>4. /\ row.id = Current(e) /\ row.kind = "disabled" /\ row.why = "none"
  BY DEF Outcome
<1>5. Faithful(row)
  BY <1>1, <1>2, <1>4 DEF Faithful, Expected
<1>6. Passes(Current(e), Current(e))
  BY <1>1, <1>2 DEF Passes
<1>7. /\ rows' = [rows EXCEPT ![e] = Append(@, row)]
      /\ off' = [off EXCEPT ![e][Current(e)] = Current(e)]
      /\ UNCHANGED <<planVars, at, order, shared, fiber, realm, realms>>
  BY DEF Disabled, PushRow
<1> HIDE DEF row
<1> QED BY <1>2, <1>3, <1>4, <1>5, <1>6, <1>7, EntryPushed

LEMMA UnresolvedStep ==
    ASSUME IInv, NEW e \in Load, Unresolved(e)
    PROVE  IInv'
<1> DEFINE why == ResolveEntry(nodes[Current(e)].row)
           row == Outcome(Current(e), "failed", None, why)
<1>1. Reached(e) /\ ~IsDisabled(Current(e)) /\ ~nodes[Current(e)].row.group /\ why # "none"
  BY DEF Unresolved, Enabled, IsDisabled
<1>2. /\ at[e] = "entry" /\ More(e) /\ DisabledAncestors(Current(e)) = {} /\ Current(e) \in Nat
      /\ off = [off EXCEPT ![e][Current(e)] = None]
  BY <1>1, UndisabledIs
<1>3. why \in Why
  <2>1. nodes[Current(e)].row \in Row
    BY <1>2, CurrentRow
  <2>2. nodes[Current(e)].row # EntryGroup
    BY <1>1 DEF EntryGroup
  <2> QED BY <2>1, <2>2 DEF Why
<1> HIDE DEF why
<1>4. row \in Line
  BY <1>2, <1>3 DEF Outcome, Line, Kind, None
<1>5. /\ row.id = Current(e) /\ row.kind = "failed" /\ row.why = why
  BY DEF Outcome
<1>6. Faithful(row)
  <2>1. Expected(Current(e)) = {<<"failed", why>>}
    BY <1>1, <1>2 DEF Expected, why
  <2> QED BY <1>5, <2>1 DEF Faithful
<1>7. Passes(Current(e), None)
  BY <1>1, <1>2 DEF Passes
<1>8. /\ rows' = [rows EXCEPT ![e] = Append(@, row)]
      /\ off' = [off EXCEPT ![e][Current(e)] = None]
      /\ UNCHANGED <<planVars, at, order, shared, fiber, realm, realms>>
  BY <1>2 DEF Unresolved, PushRow, why
<1>9. None \in Nat
  BY DEF None
<1> HIDE DEF row
<1> QED BY <1>2, <1>4, <1>5, <1>6, <1>7, <1>8, <1>9, EntryPushed

\* Steps that push no row, for loads whose plan is what it was.
LEMMA NoRowPushed ==
    ASSUME IInv, UNCHANGED <<planVars, off, rows, shared, realm, realms>>, NEW e \in Load,
           at' \in [Load -> Stage], order' \in [Load -> Seq(Nat)], fiber' \in [Load -> [Entry -> Fate]],
           at'[e] = at[e] \/ at'[e] \notin {"entry", "spawn"},
           at[e] # "idle", at'[e] # "idle", order' = order,
           Progress(e)', Fibers(e)',
           \A n \in Entry : Standing(e, n)' => Standing(e, n),
           \A g \in Load \ {e} : at'[g] = at[g] /\ fiber'[g] = fiber[g]
    PROVE  IInv'
<1>1. TypeOK /\ LoadOK(e) /\ Realms(e)
  BY DEF IInv
<1>2. TypeOK'
  BY <1>1 DEF TypeOK
<1>3. Started(e)'
  <2>1. nodes' = nodes /\ frozen' = frozen
    BY DEF planVars
  <2> QED BY <1>1, <2>1, PlanKept DEF LoadOK, Started
<1>4. Rows(e)'
  BY <1>1, PlanKept DEF LoadOK, Rows
<1>5. Pruning(e)'
  BY <1>1, PlanKept DEF LoadOK, Pruning
<1>6. LoadOK(e)'
  BY <1>3, <1>4, <1>5 DEF LoadOK
<1>7. Realms(e)'
  BY <1>1, SameRealms
<1> QED BY <1>2, <1>6, <1>7, ByLoad

LEMMA DeliverStep ==
    ASSUME IInv, NEW e \in Load, Deliver(e)
    PROVE  IInv'
<1>1. /\ at[e] = "entry" /\ ~More(e) /\ at' = [at EXCEPT ![e] = "delivered"]
      /\ UNCHANGED <<planVars, order, off, shared, rows, fiber, realm, realms>>
  BY DEF Deliver
<1>2. TypeOK /\ Fibers(e)
  BY DEF IInv, LoadOK
<1>3. at' \in [Load -> Stage] /\ at'[e] = "delivered" /\ \A g \in Load \ {e} : at'[g] = at[g]
  BY <1>1, <1>2 DEF TypeOK, Stage
<1>4. Progress(e)'
  <2>1. Len(rows[e]) = Len(nodes)
    BY <1>1, LoadFacts DEF More
  <2>2. nodes' = nodes
    BY DEF Deliver, planVars
  <2> QED BY <1>1, <1>3, <2>1, <2>2 DEF Progress
<1>5. Fibers(e)'
  BY <1>1, <1>2, <1>3 DEF Fibers
<1>6. \A n \in Entry : Standing(e, n)' => Standing(e, n)
  BY <1>1 DEF Standing
<1>7. order' \in [Load -> Seq(Nat)] /\ fiber' \in [Load -> [Entry -> Fate]]
  BY <1>1, <1>2 DEF TypeOK
<1> QED BY <1>1, <1>3, <1>4, <1>5, <1>6, <1>7, NoRowPushed

LEMMA AbandonStep ==
    ASSUME IInv, NEW e \in Load, Abandon(e)
    PROVE  IInv'
<1>1. /\ at[e] = "spawn" /\ at' = [at EXCEPT ![e] = "rollback"]
      /\ fiber' = [fiber EXCEPT ![e][Current(e)] = "abandoned"]
      /\ UNCHANGED <<planVars, order, off, shared, rows, realm, realms>>
  BY DEF Abandon, Rollback
<1>2. TypeOK /\ Fibers(e) /\ Progress(e)
  BY DEF IInv, LoadOK
<1>3. at' \in [Load -> Stage] /\ at'[e] = "rollback" /\ \A g \in Load \ {e} : at'[g] = at[g]
  BY <1>1, <1>2 DEF TypeOK, Stage
<1>4. Current(e) \in Entry
  BY <1>1, <1>2, CurrentFacts DEF Progress
<1>5. /\ fiber' \in [Load -> [Entry -> Fate]] /\ \A g \in Load \ {e} : fiber'[g] = fiber[g]
      /\ fiber'[e][Current(e)] = "abandoned"
      /\ \A n \in Entry : n # Current(e) => fiber'[e][n] = fiber[e][n]
  BY <1>1, <1>2, <1>4 DEF TypeOK, Fate
<1>6. Progress(e)'
  BY <1>3 DEF Progress
<1>7. \A n \in Entry : fiber'[e][n] # "creating"
  BY <1>2, <1>5 DEF Fibers
<1>8. Fibers(e)'
  BY <1>1, <1>2, <1>3, <1>5, <1>7 DEF Fibers
<1>9. \A n \in Entry : Standing(e, n)' => Standing(e, n)
  BY <1>5 DEF Standing
<1>10. order' \in [Load -> Seq(Nat)]
  BY <1>1, <1>2 DEF TypeOK
<1> QED BY <1>1, <1>3, <1>5, <1>6, <1>8, <1>9, <1>10, NoRowPushed

\* Fibers that others remove, or core tears down.
LEMMA FiberGone ==
    ASSUME IInv, NEW e \in Load, NEW n \in Entry, NEW fate \in {"none", "removed"},
           fiber[e][n] \in {"abandoned", "live"}, fiber' = [fiber EXCEPT ![e][n] = fate],
           UNCHANGED <<planVars, at, order, off, shared, rows, realm, realms>>
    PROVE  IInv'
<1>1. TypeOK /\ Fibers(e) /\ Progress(e) /\ Started(e)
  BY DEF IInv, LoadOK
<1>2. /\ fiber' \in [Load -> [Entry -> Fate]] /\ \A g \in Load \ {e} : fiber'[g] = fiber[g]
      /\ fiber'[e][n] = fate
      /\ \A m \in Entry : m # n => fiber'[e][m] = fiber[e][m]
  BY <1>1 DEF TypeOK, Fate
<1>3. at[e] # "idle"
  BY <1>1 DEF Started
<1>4. Current(e)' = Current(e) /\ More(e)' = More(e)
  BY DEF Current, More, planVars
<1>5. Progress(e)'
  <2>1. at[e] = "spawn" => fiber'[e][Current(e)] = "creating"
    <3> SUFFICES ASSUME at[e] = "spawn" PROVE fiber'[e][Current(e)] = "creating"
      OBVIOUS
    <3>1. fiber[e][Current(e)] = "creating" /\ More(e)
      BY <1>1 DEF Progress
    <3>2. Current(e) \in Entry
      BY <3>1, CurrentFacts
    <3> QED BY <1>2, <3>1, <3>2
  <2> QED BY <1>1, <1>4, <2>1, PlanKept DEF Progress, planVars
<1>6. Fibers(e)'
  BY <1>1, <1>2, <1>4 DEF Fibers
<1>7. \A m \in Entry : Standing(e, m)' => Standing(e, m)
  BY <1>2 DEF Standing
<1>8. at' \in [Load -> Stage] /\ order' \in [Load -> Seq(Nat)]
  BY <1>1 DEF TypeOK
<1> QED BY <1>2, <1>3, <1>5, <1>6, <1>7, <1>8, NoRowPushed

LEMMA StartStep ==
    ASSUME IInv, NEW e \in Load, Start(e)
    PROVE  IInv'
<1>1. /\ frozen /\ at[e] = "idle" /\ at' = [at EXCEPT ![e] = "entry"]
      /\ order' = [order EXCEPT ![e] = ExecutionOrder]
      /\ UNCHANGED <<planVars, off, shared, rows, fiber, realm, realms>>
  BY DEF Start
<1>2. TypeOK /\ LoadOK(e) /\ Realms(e) /\ PlanOK
  BY DEF IInv
<1>3. PICK o : o = ExecutionOrder /\ IsPlanOrder(o)
  BY <1>2, ExecutionOrderIs DEF PlanOK
<1>4. o \in Seq(Nodes) /\ Len(o) = Len(nodes) /\ o \in Seq(Nat) /\ Len(nodes) \in Nat
  <2>1. o \in Seq(Nodes) /\ Len(o) = Len(nodes) /\ Nodes \subseteq Nat /\ Len(nodes) \in Nat
    BY <1>2, <1>3 DEF IsPlanOrder, Nodes, PlanOK, Tree
  <2>3. o \in Seq(Nat)
    BY <2>1, SeqMonotonic
  <2> QED BY <2>1, <2>3
<1>5. /\ at' \in [Load -> Stage] /\ at'[e] = "entry" /\ order' \in [Load -> Seq(Nat)] /\ order'[e] = o
      /\ \A g \in Load \ {e} : at'[g] = at[g] /\ order'[g] = order[g]
  BY <1>1, <1>2, <1>3, <1>4 DEF TypeOK, Stage
<1>6. TypeOK'
  BY <1>1, <1>2, <1>5 DEF TypeOK
<1>7. rows[e] = <<>> /\ (\A n \in Entry : fiber[e][n] = "none" /\ off[e][n] = None) /\ Len(rows[e]) = 0
  BY <1>1, <1>2 DEF LoadOK, Started
<1>8. nodes' = nodes /\ frozen' = frozen /\ Nodes \subseteq Entry
  BY <1>1, <1>2, <1>4, EntriesAssumption DEF planVars, PlanOK, Nodes, Entry
<1>9. Started(e)'
  BY <1>1, <1>3, <1>4, <1>5, <1>7, <1>8, PlanKept DEF Started
<1>10. Rows(e)'
  BY <1>1, <1>7 DEF Rows
<1>11. Pruning(e)'
  <2> SUFFICES ASSUME NEW i \in 1..Len(o)
               PROVE  ~(i <= 0) /\ off[e][o[i]] = None
    BY <1>1, <1>5, <1>7 DEF Pruning
  <2>1. o[i] \in Entry
    BY <1>4, <1>8
  <2> QED BY <1>4, <1>7, <2>1
<1>12. Progress(e)'
  BY <1>5 DEF Progress
<1>13. Fibers(e)'
  BY <1>1, <1>7 DEF Fibers
<1>14. LoadOK(e)'
  BY <1>9, <1>10, <1>11, <1>12, <1>13 DEF LoadOK
<1>15. Realms(e)'
  <2>1. \A n \in Entry : Standing(e, n)' => Standing(e, n)
    BY <1>1 DEF Standing
  <2> QED BY <1>1, <1>2, <2>1, SameRealms
<1> QED BY <1>1, <1>5, <1>6, <1>14, <1>15, ByLoad

\* A placed entry's realms, by the policies of its rows.
LEMMA PlacedByPolicy ==
    ASSUME IInv, NEW e \in Load, NEW n \in Nodes, ~nodes[n].row.group,
           NEW x, x = Placed(e, nodes[n].row.isolate)
    PROVE  /\ x \in [table : [Label -> Realm], next : Nat, map : [Service -> Realm]]
           /\ LabelsOK(e, x.table, x.next)
           /\ \A s \in Service :
                \/ PolicyOf(n, s) = {} /\ x.map[s] = Default
                \/ \E l \in Label : /\ PolicyOf(n, s) = {l}
                                    /\ x.map[s] = x.table[l] /\ x.table[l] # Default
                \/ /\ PolicyOf(n, s) = {Private}
                   /\ x.map[s].by = {e} /\ x.map[s].nth > realms[e] /\ x.map[s].nth \in 1..x.next
                   /\ \A l \in Label : x.table[l] # x.map[s]
                   /\ \A t \in Service : x.map[t] = x.map[s] => t = s
<1> DEFINE iso == nodes[n].row.isolate
<1>0. TypeOK /\ Labels(e)
  BY DEF IInv, Realms
<1>1. Rowed(iso)
  <2>1. nodes[n].row \in Row /\ Valid(nodes[n].row)
    <3>1. nodes \in Seq(Node) /\ Valid(nodes[n].row)
      BY DEF IInv, PlanOK, Tree
    <3>2. nodes[n] \in Node
      BY <3>1 DEF Nodes
    <3> QED BY <3>1, <3>2 DEF Node
  <2>2. nodes[n].row \in PluginEntry
    BY <2>1, RowAssumption DEF EntryGroup
  <2>3. iso \in Seq(IsolateEntry)
    BY <2>2 DEF PluginEntry
  <2>4. IsInjective([i \in DOMAIN iso |-> iso[i].service])
    BY <2>1 DEF Valid
  <2>5. \A i, j \in DOMAIN iso : iso[i].service = iso[j].service => i = j
    BY <2>4 DEF IsInjective
  <2> HIDE DEF iso
  <2> QED BY <2>3, <2>5 DEF Rowed
<1>2. PICK q \in Seq(IsolateEntry) : q = iso /\ Rowed(q)
  BY <1>1 DEF Rowed
<1>3. PlaceOK(e, q, Len(q), x)
  BY <1>0, <1>2, PlacedIs
<1>4. \A s : PolicyOf(n, s) = {q[i].policy : i \in {j \in 1..Len(q) : q[j].service = s}}
  BY <1>2 DEF PolicyOf
<1> HIDE DEF iso
<1>5. RowsOK(e, q, Len(q), x.table, x.map, x.next)
  BY <1>3 DEF PlaceOK
<1>6. ASSUME NEW s \in Service
      PROVE  \/ PolicyOf(n, s) = {} /\ x.map[s] = Default
             \/ \E l \in Label : /\ PolicyOf(n, s) = {l}
                                 /\ x.map[s] = x.table[l] /\ x.table[l] # Default
             \/ /\ PolicyOf(n, s) = {Private}
                /\ x.map[s].by = {e} /\ x.map[s].nth > realms[e] /\ x.map[s].nth \in 1..x.next
                /\ \A l \in Label : x.table[l] # x.map[s]
                /\ \A t \in Service : x.map[t] = x.map[s] => t = s
  <2>1. CASE \A j \in 1..Len(q) : q[j].service # s
    <3>1. PolicyOf(n, s) = {}
      BY <1>4, <2>1
    <3> QED BY <1>5, <2>1, <3>1 DEF RowsOK
  <2>2. ASSUME NEW j \in 1..Len(q), q[j].service = s
        PROVE  \/ \E l \in Label : /\ PolicyOf(n, s) = {l}
                                   /\ x.map[s] = x.table[l] /\ x.table[l] # Default
               \/ /\ PolicyOf(n, s) = {Private}
                  /\ x.map[s].by = {e} /\ x.map[s].nth > realms[e] /\ x.map[s].nth \in 1..x.next
                  /\ \A l \in Label : x.table[l] # x.map[s]
                  /\ \A t \in Service : x.map[t] = x.map[s] => t = s
    <3>1. PICK p : p = q[j].policy /\ p \in Label \cup {Private}
      <4>1. q[j] \in IsolateEntry
        OBVIOUS
      <4> QED BY <4>1 DEF IsolateEntry
    <3>2. PolicyOf(n, s) = {p}
      <4>1. {i \in 1..Len(q) : q[i].service = s} = {j}
        BY <1>2, <2>2 DEF Rowed
      <4> QED BY <1>4, <3>1, <4>1
    <3>3. CASE p # Private
      BY <1>5, <2>2, <3>1, <3>2, <3>3 DEF RowsOK
    <3>4. CASE p = Private
      <4>1. /\ x.map[s].by = {e} /\ x.map[s].nth > realms[e]
            /\ \A l \in Label : x.table[l] # x.map[s]
            /\ \A t \in Service : x.map[t] = x.map[s] => t = s
        BY <1>5, <2>2, <3>1, <3>4 DEF RowsOK
      <4>2. x.map[s] # Default
        <5>1. Default.by = {} /\ e \in {e}
          BY DEF Default
        <5> QED BY <4>1, <5>1
      <4>3. x.map[s].nth \in 1..x.next
        BY <1>5, <4>2 DEF RowsOK
      <4> QED BY <3>2, <3>4, <4>1, <4>3
    <3> QED BY <3>3, <3>4
  <2> QED BY <2>1, <2>2
<1> QED BY <1>3, <1>6 DEF PlaceOK

\* Placements so far are Default, a label's realm, or numbered so far.
LEMMA PlacementIsOld ==
    ASSUME IInv, NEW e \in Load, NEW m \in Entry, Standing(e, m), NEW s \in Service
    PROVE  \/ realm[e][m][s] = Default
           \/ \E l \in Label : realm[e][m][s] = shared[e][l] /\ shared[e][l] # Default
           \/ PolicyOf(m, s) = {Private} /\ realm[e][m][s].nth <= realms[e]
<1>1. Placement(e, m, s)
  BY DEF IInv, Realms
<1>2. realms[e] \in Nat
  BY DEF IInv, TypeOK
<1> QED BY <1>1, <1>2 DEF Placement, Mine

LEMMA PlaceRealms ==
    ASSUME IInv, NEW e \in Load, Place(e)
    PROVE  /\ shared' \in [Load -> [Label -> Realm]] /\ realms' \in [Load -> Nat]
           /\ realm' \in [Load -> [Entry -> [Service -> Realm]]]
           /\ \A g \in Load \ {e} : /\ shared'[g] = shared[g] /\ realms'[g] = realms[g]
                                    /\ realm'[g] = realm[g]
           /\ Realms(e)'
<1>1. Enabled(e) /\ UNCHANGED planVars
  BY DEF Place
<1>2. PICK n \in Nodes : n = Current(e) /\ n \in Entry /\ ~nodes[n].row.group
  BY <1>1, CurrentFacts DEF Enabled, Reached
<1>3. PICK x : x = Placed(e, nodes[n].row.isolate)
  OBVIOUS
<1>4. /\ shared' = [shared EXCEPT ![e] = x.table] /\ realms' = [realms EXCEPT ![e] = x.next]
      /\ realm' = [realm EXCEPT ![e][n] = x.map] /\ fiber' = [fiber EXCEPT ![e][n] = "creating"]
  BY <1>2, <1>3 DEF Place
<1>5. /\ x \in [table : [Label -> Realm], next : Nat, map : [Service -> Realm]]
      /\ LabelsOK(e, x.table, x.next)
      /\ \A s \in Service :
           \/ PolicyOf(n, s) = {} /\ x.map[s] = Default
           \/ \E l \in Label : /\ PolicyOf(n, s) = {l}
                               /\ x.map[s] = x.table[l] /\ x.table[l] # Default
           \/ /\ PolicyOf(n, s) = {Private}
              /\ x.map[s].by = {e} /\ x.map[s].nth > realms[e] /\ x.map[s].nth \in 1..x.next
              /\ \A l \in Label : x.table[l] # x.map[s]
              /\ \A t \in Service : x.map[t] = x.map[s] => t = s
  <2>1. n \in Nodes /\ ~nodes[n].row.group
    BY <1>2
  <2>2. x = Placed(e, nodes[n].row.isolate)
    BY <1>3
  <2> QED BY <2>1, <2>2, PlacedByPolicy, SMTT(60)
<1>6. TypeOK /\ Realms(e)
  BY DEF IInv
<1>7. x.table \in [Label -> Realm] /\ x.next \in Nat /\ x.map \in [Service -> Realm]
  BY <1>5
<1>8. /\ shared' \in [Load -> [Label -> Realm]] /\ realms' \in [Load -> Nat]
      /\ realm' \in [Load -> [Entry -> [Service -> Realm]]]
      /\ shared'[e] = x.table /\ realms'[e] = x.next /\ realm'[e][n] = x.map
      /\ \A m \in Entry : m # n => realm'[e][m] = realm[e][m]
      /\ \A g \in Load \ {e} : /\ shared'[g] = shared[g] /\ realms'[g] = realms[g]
                               /\ realm'[g] = realm[g]
  <2>1. shared \in [Load -> [Label -> Realm]] /\ realms \in [Load -> Nat] /\ realm \in [Load -> [Entry -> [Service -> Realm]]]
    BY <1>6 DEF TypeOK
  <2>2. /\ shared' \in [Load -> [Label -> Realm]] /\ shared'[e] = x.table
        /\ \A g \in Load \ {e} : shared'[g] = shared[g]
    BY <1>4, <1>7, <2>1
  <2>3. /\ realms' \in [Load -> Nat] /\ realms'[e] = x.next
        /\ \A g \in Load \ {e} : realms'[g] = realms[g]
    BY <1>4, <1>7, <2>1
  <2>4. /\ realm' \in [Load -> [Entry -> [Service -> Realm]]] /\ realm'[e][n] = x.map
        /\ \A m \in Entry : m # n => realm'[e][m] = realm[e][m]
        /\ \A g \in Load \ {e} : realm'[g] = realm[g]
    BY <1>2, <1>4, <1>7, <2>1
  <2> QED BY <2>2, <2>3, <2>4
<1>9. realms[e] \in Nat /\ realms[e] <= x.next /\ x.next \in Nat
  BY <1>5, <1>6, <1>7 DEF LabelsOK, TypeOK
<1>10. \A m \in Entry : Standing(e, m)' => m = n \/ Standing(e, m)
  BY <1>2, <1>4, <1>6 DEF Standing, TypeOK
<1>a. ASSUME Standing(e, n)
      PROVE  FALSE
  <2>1. Fibers(e) /\ at[e] = "entry"
    BY <1>1 DEF IInv, LoadOK, Enabled, Reached
  <2>2. fiber[e][n] = "live" \/ fiber[e][n] = "creating"
    BY <1>a DEF Standing
  <2>3. fiber[e][n] = "live"
    BY <1>2, <2>1, <2>2 DEF Fibers
  <2>4. PICK i \in 1..Len(rows[e]) : rows[e][i].id = n
    BY <1>2, <2>1, <2>3 DEF Fibers
  <2>5. order[e][i] = n
    BY <2>4 DEF IInv, LoadOK, Rows
  <2>6. /\ Len(rows[e]) + 1 \in 1..Len(order[e]) /\ order[e][Len(rows[e]) + 1] = n
        /\ IsPlanOrder(order[e]) /\ Len(rows[e]) \in Nat
    BY <1>1, <1>2, CurrentFacts, LoadFacts DEF Enabled, Reached
  <2>7. i \in 1..Len(order[e]) /\ i < Len(rows[e]) + 1
    BY <2>6, LoadFacts, <2>1
  <2> QED BY <2>5, <2>6, <2>7 DEF IsPlanOrder
<1>11. Labels(e)'
  <2> SUFFICES ASSUME NEW l \in Label, x.table[l] # Default
               PROVE  /\ x.table[l].by = {e} /\ x.table[l].nth \in 1..x.next
                      /\ \A k \in Label : x.table[k] = x.table[l] => k = l
    BY <1>8 DEF Labels, Mine
  <2> QED BY <1>5 DEF LabelsOK
<1>12. \A l \in Label : shared[e][l] # Default => x.table[l] = shared[e][l]
  BY <1>5 DEF LabelsOK
<1>13. \A l \in Label : shared[e][l] = Default => x.table[l] = Default \/ x.table[l].nth > realms[e]
  BY <1>5 DEF LabelsOK
\* The new realms are not those of earlier placements.
<1>14. ASSUME NEW m \in Entry, Standing(e, m), NEW t \in Service, NEW s \in Service,
              PolicyOf(n, s) = {Private}
       PROVE  realm[e][m][t] # x.map[s]
  <2>1. /\ x.map[s].by = {e} /\ x.map[s].nth > realms[e] /\ x.map[s].nth \in 1..x.next
        /\ \A l \in Label : x.table[l] # x.map[s]
    BY <1>5, <1>14, PolicyAssumption
  <2>2. x.map[s] # Default /\ ~(x.map[s].nth <= realms[e])
    BY <1>9, <2>1 DEF Default
  <2> QED BY <1>12, <1>14, <2>1, <2>2, PlacementIsOld
\* The realms of earlier Private rows are not given again.
<1>15. ASSUME NEW m \in Entry, Standing(e, m), NEW t \in Service, PolicyOf(m, t) = {Private}
       PROVE  /\ Mine(e, realm[e][m][t]) /\ Mine(e, realm[e][m][t])'
              /\ \A l \in Label : x.table[l] # realm[e][m][t]
              /\ \A s \in Service : x.map[s] # realm[e][m][t]
              /\ \A k \in Entry, s \in Service :
                   Standing(e, k) /\ realm[e][k][s] = realm[e][m][t] => k = m /\ s = t
  <2>1. Placement(e, m, t)
    BY <1>6, <1>15 DEF Realms
  <2>2. /\ Mine(e, realm[e][m][t]) /\ \A l \in Label : shared[e][l] # realm[e][m][t]
        /\ \A k \in Entry, s \in Service :
             Standing(e, k) /\ realm[e][k][s] = realm[e][m][t] => k = m /\ s = t
    BY <1>15, <2>1, PolicyAssumption DEF Placement
  <2>3. realm[e][m][t].by = {e} /\ realm[e][m][t].nth \in 1..realms[e]
    BY <2>2 DEF Mine
  <2>4. realm[e][m][t].nth \in 1..x.next /\ ~(realm[e][m][t].nth > realms[e])
    BY <1>9, <2>3
  <2>5. realm[e][m][t] # Default
    BY <2>3 DEF Default
  <2>6. \A l \in Label : x.table[l] # realm[e][m][t]
    BY <1>12, <1>13, <2>2, <2>4, <2>5
  <2>7. \A s \in Service : x.map[s] # realm[e][m][t]
    BY <1>5, <2>4, <2>5, <2>6
  <2>8. m # n => realm'[e][m][t] = realm[e][m][t]
    BY <1>8
  <2>9. m # n
    BY <1>15, <1>a
  <2>10. Mine(e, realm[e][m][t])'
    BY <1>8, <2>3, <2>4, <2>8, <2>9 DEF Mine
  <2> QED BY <2>2, <2>6, <2>7, <2>10
<1>16. ASSUME NEW m \in Entry, NEW s \in Service, Standing(e, m)'
       PROVE  Placement(e, m, s)'
  <2>0. PolicyOf(m, s)' = PolicyOf(m, s)
    BY <1>1, PlanKept
  <2>1. CASE m = n
    <3>1. CASE PolicyOf(n, s) = {} /\ x.map[s] = Default
      BY <1>8, <2>0, <2>1, <3>1 DEF Placement
    <3>2. CASE \E l \in Label : /\ PolicyOf(n, s) = {l}
                                /\ x.map[s] = x.table[l] /\ x.table[l] # Default
      BY <1>8, <2>0, <2>1, <3>2 DEF Placement
    <3>3. CASE /\ PolicyOf(n, s) = {Private}
               /\ x.map[s].by = {e} /\ x.map[s].nth > realms[e] /\ x.map[s].nth \in 1..x.next
               /\ \A l \in Label : x.table[l] # x.map[s]
               /\ \A t \in Service : x.map[t] = x.map[s] => t = s
      <4>1. \A k \in Entry, t \in Service :
              Standing(e, k)' /\ realm'[e][k][t] = x.map[s] => k = n /\ t = s
        <5> SUFFICES ASSUME NEW k \in Entry, NEW t \in Service,
                            Standing(e, k)', realm'[e][k][t] = x.map[s]
                     PROVE  k = n /\ t = s
          OBVIOUS
        <5>1. CASE k = n
          BY <1>8, <3>3, <5>1
        <5>2. CASE k # n
          <6>1. realm[e][k][t] = x.map[s] /\ Standing(e, k)
            BY <1>8, <1>10, <5>2
          <6> QED BY <1>14, <3>3, <6>1
        <5> QED BY <5>1, <5>2
      <4>2. Mine(e, x.map[s])'
        BY <1>8, <3>3 DEF Mine
      <4>3. realm'[e][n][s] = x.map[s] /\ shared'[e] = x.table
        BY <1>8
      <4> QED BY <2>0, <2>1, <3>3, <4>1, <4>2, <4>3 DEF Placement
    <3> QED BY <1>5, <3>1, <3>2, <3>3
  <2>2. CASE m # n
    <3>0. realm'[e][m] = realm[e][m] /\ Standing(e, m) /\ Placement(e, m, s) /\ shared'[e] = x.table
      BY <1>6, <1>8, <1>10, <1>16, <2>2 DEF Realms
    <3>1. CASE PolicyOf(m, s) = {} /\ realm[e][m][s] = Default
      BY <2>0, <3>0, <3>1 DEF Placement
    <3>2. CASE \E l \in Label : /\ PolicyOf(m, s) = {l}
                                /\ realm[e][m][s] = shared[e][l] /\ shared[e][l] # Default
      <4>1. PICK l \in Label : /\ PolicyOf(m, s) = {l}
                               /\ realm[e][m][s] = shared[e][l] /\ shared[e][l] # Default
        BY <3>2
      <4>2. x.table[l] = shared[e][l]
        BY <1>12, <4>1
      <4> QED BY <2>0, <3>0, <4>1, <4>2 DEF Placement
    <3>3. CASE PolicyOf(m, s) = {Private}
      <4>1. /\ Mine(e, realm[e][m][s])'
            /\ \A l \in Label : x.table[l] # realm[e][m][s]
            /\ \A t \in Service : x.map[t] # realm[e][m][s]
            /\ \A k \in Entry, t \in Service :
                 Standing(e, k) /\ realm[e][k][t] = realm[e][m][s] => k = m /\ t = s
        BY <1>15, <3>0, <3>3
      <4>2. \A k \in Entry, t \in Service :
              Standing(e, k)' /\ realm'[e][k][t] = realm[e][m][s] => k = m /\ t = s
        <5> SUFFICES ASSUME NEW k \in Entry, NEW t \in Service,
                            Standing(e, k)', realm'[e][k][t] = realm[e][m][s]
                     PROVE  k = m /\ t = s
          OBVIOUS
        <5>1. CASE k = n
          BY <1>8, <4>1, <5>1
        <5>2. CASE k # n
          <6>1. realm'[e][k][t] = realm[e][k][t] /\ Standing(e, k)
            BY <1>8, <1>10, <5>2
          <6> QED BY <4>1, <6>1
        <5> QED BY <5>1, <5>2
      <4> QED BY <2>0, <3>0, <3>3, <4>1, <4>2 DEF Placement
    <3> QED BY <3>0, <3>1, <3>2, <3>3 DEF Placement
  <2> QED BY <2>1, <2>2
<1> QED BY <1>8, <1>11, <1>16 DEF Realms

LEMMA PlaceStep ==
    ASSUME IInv, NEW e \in Load, Place(e)
    PROVE  IInv'
<1>1. Enabled(e) /\ UNCHANGED <<planVars, order, off, rows>> /\ ResolveEntry(nodes[Current(e)].row) = "none"
  BY DEF Place
<1>2. PICK n \in Nodes : n = Current(e) /\ n \in Entry
  BY <1>1, CurrentFacts DEF Enabled, Reached
<1>3. fiber' = [fiber EXCEPT ![e][n] = "creating"] /\ at' = [at EXCEPT ![e] = "spawn"]
  BY <1>2 DEF Place
<1>4. TypeOK /\ LoadOK(e)
  BY DEF IInv
<1>5. /\ shared' \in [Load -> [Label -> Realm]] /\ realms' \in [Load -> Nat]
      /\ realm' \in [Load -> [Entry -> [Service -> Realm]]]
      /\ \A g \in Load \ {e} : /\ shared'[g] = shared[g] /\ realms'[g] = realms[g]
                               /\ realm'[g] = realm[g]
      /\ Realms(e)'
  BY PlaceRealms
<1>6. /\ at' \in [Load -> Stage] /\ at'[e] = "spawn"
      /\ fiber' \in [Load -> [Entry -> Fate]] /\ fiber'[e][n] = "creating"
      /\ \A m \in Entry : m # n => fiber'[e][m] = fiber[e][m]
      /\ \A g \in Load \ {e} : at'[g] = at[g] /\ fiber'[g] = fiber[g]
  BY <1>2, <1>3, <1>4 DEF TypeOK, Stage, Fate
<1>7. TypeOK'
  BY <1>1, <1>4, <1>5, <1>6 DEF TypeOK
<1>8. at[e] = "entry" /\ More(e)
  BY <1>1 DEF Enabled, Reached
<1>9. Current(e)' = Current(e) /\ More(e)' = More(e)
  BY <1>1 DEF Current, More, planVars
<1>10. Started(e)'
  BY <1>1, <1>4, <1>6, <1>8, PlanKept DEF LoadOK, Started, planVars
<1>11. Rows(e)'
  BY <1>1, <1>4, PlanKept DEF LoadOK, Rows
<1>12. Pruning(e)'
  BY <1>1, <1>4, <1>8, PlanKept DEF LoadOK, Pruning
<1>13. Progress(e)'
  <2>1. DisabledAncestors(n) = {}
    BY <1>1, <1>2, UndisabledIs DEF Enabled
  <2>2. Runs(n)
    BY <1>1, <1>2, <2>1 DEF Runs, Enabled, IsDisabled
  <2> QED BY <1>1, <1>2, <1>6, <1>8, <1>9, <2>2, PlanKept DEF Progress
<1>14. Fibers(e)'
  <2>1. Fibers(e)
    BY <1>4 DEF LoadOK
  <2> QED BY <1>1, <1>2, <1>6, <1>8, <1>9, <2>1 DEF Fibers
<1>15. LoadOK(e)'
  BY <1>10, <1>11, <1>12, <1>13, <1>14 DEF LoadOK
<1> QED BY <1>1, <1>5, <1>6, <1>7, <1>15, ByLoad

\* The spawn of the current entry returns.
LEMMA SpawnReturnsStep ==
    ASSUME IInv, NEW e \in Load, SpawnReturns(e)
    PROVE  IInv'
<1>1. /\ at[e] = "spawn" /\ at' = [at EXCEPT ![e] = "entry"]
      /\ UNCHANGED <<planVars, order, off, shared, realm, realms>>
  BY DEF SpawnReturns
<1>2. TypeOK /\ LoadOK(e) /\ Realms(e)
  BY DEF IInv
<1>3. More(e) /\ Runs(Current(e))
  BY <1>1, <1>2 DEF LoadOK, Progress
<1>4. PICK n \in Nodes : n = Current(e) /\ n \in Entry /\ n \in Nat /\ off[e][n] = None
                         /\ Len(rows[e]) + 1 \in 1..Len(order[e]) /\ order[e][Len(rows[e]) + 1] = n
  BY <1>1, <1>3, CurrentFacts DEF Nodes
<1>5. /\ IsPlanOrder(order[e]) /\ frozen /\ Len(rows[e]) \in Nat /\ Len(order[e]) = Len(nodes)
      /\ order[e] \in Seq(Nodes) /\ Nodes \subseteq Entry /\ Len(order[e]) \in Nat
  BY <1>1, LoadFacts
<1>6. PICK fate, row : /\ fiber' = [fiber EXCEPT ![e][n] = fate]
                       /\ rows' = [rows EXCEPT ![e] = Append(@, row)]
                       /\ row.id = n /\ row \in Line /\ <<row.kind, row.why>> \in Expected(n)
                       /\ row.kind # "pruned"
                       /\ ((fate = "live" /\ row.kind = "spawned") \/ fate = "none")
  <2>0. Expected(n) = {<<"spawned", "none">>, <<"failed", "Spawn">>}
    BY <1>3, <1>4 DEF Expected, Runs
  <2>1. CASE /\ fiber' = [fiber EXCEPT ![e][Current(e)] = "live"]
             /\ PushRow(e, "spawned", None, "none")
    <3>1. Outcome(n, "spawned", None, "none") \in Line
      BY <1>4 DEF Outcome, Line, Kind, Why, None
    <3>2. /\ Outcome(n, "spawned", None, "none").id = n /\ Outcome(n, "spawned", None, "none").kind = "spawned"
          /\ Outcome(n, "spawned", None, "none").why = "none"
      BY DEF Outcome
    <3>3. rows' = [rows EXCEPT ![e] = Append(@, Outcome(n, "spawned", None, "none"))]
      BY <1>4, <2>1 DEF PushRow
    <3> QED BY <1>4, <2>0, <2>1, <3>1, <3>2, <3>3
  <2>2. CASE /\ fiber' = [fiber EXCEPT ![e][Current(e)] = "none"]
             /\ PushRow(e, "failed", None, "Spawn")
    <3>1. Outcome(n, "failed", None, "Spawn") \in Line
      BY <1>4 DEF Outcome, Line, Kind, Why, None
    <3>2. /\ Outcome(n, "failed", None, "Spawn").id = n /\ Outcome(n, "failed", None, "Spawn").kind = "failed"
          /\ Outcome(n, "failed", None, "Spawn").why = "Spawn"
      BY DEF Outcome
    <3>3. rows' = [rows EXCEPT ![e] = Append(@, Outcome(n, "failed", None, "Spawn"))]
      BY <1>4, <2>2 DEF PushRow
    <3> QED BY <1>4, <2>0, <2>2, <3>1, <3>2, <3>3
  <2> QED BY <2>1, <2>2 DEF SpawnReturns
<1>7. Faithful(row)
  BY <1>6 DEF Faithful
<1>8. /\ rows' \in [Load -> Seq(Line)] /\ \A g \in Load \ {e} : rows'[g] = rows[g]
      /\ Len(rows'[e]) = Len(rows[e]) + 1 /\ Len(rows'[e]) <= Len(nodes)
      /\ \A i \in 1..Len(rows[e]) : rows'[e][i] = rows[e][i]
      /\ rows'[e][Len(rows[e]) + 1] = row
      /\ Rows(e)'
  BY <1>1, <1>3, <1>4, <1>6, <1>7, RowPushed
<1>9. /\ at' \in [Load -> Stage] /\ at'[e] = "entry"
      /\ fiber' \in [Load -> [Entry -> Fate]] /\ fiber'[e][n] = fate
      /\ \A m \in Entry : m # n => fiber'[e][m] = fiber[e][m]
      /\ \A g \in Load \ {e} : at'[g] = at[g] /\ fiber'[g] = fiber[g]
  <2>1. fate \in Fate
    BY <1>6 DEF Fate
  <2> QED BY <1>1, <1>2, <1>4, <1>6, <2>1 DEF TypeOK, Stage
<1>10. TypeOK'
  BY <1>1, <1>2, <1>8, <1>9 DEF TypeOK
<1>11. Started(e)'
  BY <1>1, <1>5, <1>8, <1>9, PlanKept DEF Started, planVars
<1>12. Pruning(e)'
  <2> SUFFICES ASSUME NEW i \in 1..Len(order[e])
               PROVE  IF i <= Len(rows[e]) + 1 THEN Passes(order[e][i], off[e][order[e][i]])
                      ELSE off[e][order[e][i]] = None
    BY <1>1, <1>8, PlanKept DEF Pruning
  <2>1. IF i <= Len(rows[e]) THEN Passes(order[e][i], off[e][order[e][i]])
        ELSE off[e][order[e][i]] = None
    BY <1>1, <1>2 DEF LoadOK, Pruning
  <2>2. CASE i = Len(rows[e]) + 1
    <3>1. Passes(n, None)
      BY <1>3, <1>4 DEF Passes, Runs
    <3> QED BY <1>4, <1>5, <2>2, <3>1
  <2>3. CASE i # Len(rows[e]) + 1
    <3>1. i <= Len(rows[e]) + 1 <=> i <= Len(rows[e])
      BY <1>5, <2>3
    <3> QED BY <2>1, <3>1
  <2> QED BY <2>2, <2>3
<1>13. Progress(e)'
  BY <1>9 DEF Progress
<1>14. Fibers(e)'
  <2>1. Fibers(e)
    BY <1>2 DEF LoadOK
  <2>2. ASSUME NEW m \in Entry, fiber'[e][m] = "live"
        PROVE  \E i \in 1..Len(rows'[e]) : rows'[e][i].id = m /\ rows'[e][i].kind = "spawned"
    <3>1. CASE m = n
      <4>1. row.kind = "spawned" /\ Len(rows[e]) + 1 \in 1..Len(rows'[e])
        BY <1>5, <1>6, <1>8, <1>9, <2>2, <3>1
      <4> QED BY <1>6, <1>8, <3>1, <4>1
    <3>2. CASE m # n
      <4>1. PICK i \in 1..Len(rows[e]) : rows[e][i].id = m /\ rows[e][i].kind = "spawned"
        BY <1>9, <2>1, <2>2, <3>2 DEF Fibers
      <4>2. i \in 1..Len(rows'[e]) /\ rows'[e][i] = rows[e][i]
        BY <1>5, <1>8
      <4> QED BY <4>1, <4>2
    <3> QED BY <3>1, <3>2
  <2>3. \A m \in Entry : fiber'[e][m] # "creating" /\ fiber'[e][m] # "disposed"
    BY <1>1, <1>4, <1>6, <1>9, <2>1 DEF Fibers
  <2> QED BY <2>2, <2>3 DEF Fibers
<1>15. LoadOK(e)'
  BY <1>8, <1>11, <1>12, <1>13, <1>14 DEF LoadOK
<1>16. Realms(e)'
  <2>1. \A m \in Entry : Standing(e, m)' => Standing(e, m)
    <3>1. fiber[e][n] = "creating"
      BY <1>1, <1>2, <1>4 DEF LoadOK, Progress
    <3> QED BY <1>6, <1>9, <3>1 DEF Standing
  <2> QED BY <1>1, <1>2, <2>1, SameRealms
<1> QED BY <1>1, <1>8, <1>9, <1>10, <1>15, <1>16, ByLoad

\* The last row is taken off, and its Fiber disposed.
LEMMA RollbackStep ==
    ASSUME IInv, NEW e \in Load, RollbackNext(e)
    PROVE  IInv'
<1>1. at[e] = "rollback" /\ UNCHANGED <<planVars, order, off, shared, realm, realms>>
  BY DEF RollbackNext
<1>2. TypeOK /\ LoadOK(e) /\ Realms(e)
  BY DEF IInv
<1>3. Fibers(e) /\ Rows(e)
  BY <1>2 DEF LoadOK
<1>4. CASE rows[e] = <<>> /\ at' = [at EXCEPT ![e] = "ended"] /\ UNCHANGED <<rows, fiber>>
  <2>1. at' \in [Load -> Stage] /\ at'[e] = "ended" /\ \A g \in Load \ {e} : at'[g] = at[g]
    BY <1>2, <1>4 DEF TypeOK, Stage
  <2>2. Progress(e)'
    BY <1>4, <2>1 DEF Progress
  <2>3. Fibers(e)'
    BY <1>1, <1>3, <1>4, <2>1 DEF Fibers
  <2>4. \A n \in Entry : Standing(e, n)' => Standing(e, n)
    BY <1>4 DEF Standing
  <2>5. order' \in [Load -> Seq(Nat)] /\ fiber' \in [Load -> [Entry -> Fate]]
    BY <1>1, <1>2, <1>4 DEF TypeOK
  <2> QED BY <1>1, <1>4, <2>1, <2>2, <2>3, <2>4, <2>5, NoRowPushed
<1>5. CASE /\ rows[e] # <<>> /\ UNCHANGED at /\ rows' = [rows EXCEPT ![e] = Front(@)]
           /\ IF Last(rows[e]).kind = "spawned"
              THEN /\ Disposes(fiber[e][Last(rows[e]).id])
                   /\ fiber' = [fiber EXCEPT ![e][Last(rows[e]).id] = IF @ = "live" THEN "disposed" ELSE @]
              ELSE UNCHANGED fiber
  <2>1. PICK r \in Seq(Line) : r = rows[e] /\ r # <<>> /\ Len(r) \in Nat /\ Len(r) # 0
    BY <1>2, <1>5 DEF TypeOK
  <2>2. PICK f \in Seq(Line) : f = Front(r) /\ Len(f) = Len(r) - 1 /\ \A i \in 1..(Len(r) - 1) : f[i] = r[i]
    BY <2>1, FrontIs
  <2>3. rows' \in [Load -> Seq(Line)] /\ rows'[e] = f /\ \A g \in Load \ {e} : rows'[g] = rows[g]
    BY <1>2, <1>5, <2>1, <2>2 DEF TypeOK
  <2>4. /\ IsPlanOrder(order[e]) /\ order[e] \in Seq(Nodes) /\ Len(order[e]) = Len(nodes)
        /\ Len(nodes) \in Nat /\ Len(r) <= Len(nodes) /\ Nodes \subseteq Entry /\ frozen
    BY <1>1, <2>1, LoadFacts
  <2>5. PICK row \in Line : row = Last(r) /\ row = r[Len(r)] /\ row.id = order[e][Len(r)]
    <3>1. Len(r) \in 1..Len(r) /\ Last(r) = r[Len(r)]
      BY <2>1 DEF Last
    <3>2. r[Len(r)].id = order[e][Len(r)]
      BY <1>3, <2>1, <3>1 DEF Rows
    <3> QED BY <2>1, <3>1, <3>2
  <2>6. row.id \in Entry /\ Len(r) \in 1..Len(order[e])
    <3>1. Len(r) \in 1..Len(order[e])
      BY <2>1, <2>4
    <3>2. order[e][Len(r)] \in Nodes
      BY <2>4, <3>1
    <3> QED BY <2>4, <2>5, <3>1, <3>2
  <2>7. /\ fiber' \in [Load -> [Entry -> Fate]] /\ \A g \in Load \ {e} : fiber'[g] = fiber[g]
        /\ \A n \in Entry : \/ fiber'[e][n] = fiber[e][n]
                            \/ n = row.id /\ fiber[e][n] = "live" /\ fiber'[e][n] = "disposed"
        /\ row.kind = "spawned" => fiber'[e][row.id] # "live"
    <3>1. CASE row.kind = "spawned"
      <4>1. fiber' = [fiber EXCEPT ![e][row.id] = IF @ = "live" THEN "disposed" ELSE @]
        BY <1>5, <2>1, <2>5, <3>1
      <4>2. fiber \in [Load -> [Entry -> Fate]] /\ "disposed" \in Fate
        BY <1>2 DEF TypeOK, Fate
      <4>3. fiber'[e][row.id] = IF fiber[e][row.id] = "live" THEN "disposed" ELSE fiber[e][row.id]
        BY <2>6, <4>1, <4>2
      <4>4. \A n \in Entry : n # row.id => fiber'[e][n] = fiber[e][n]
        BY <2>6, <4>1, <4>2
      <4>5. fiber' \in [Load -> [Entry -> Fate]] /\ \A g \in Load \ {e} : fiber'[g] = fiber[g]
        BY <2>6, <4>1, <4>2
      <4> QED BY <4>3, <4>4, <4>5
    <3>2. CASE row.kind # "spawned"
      <4>1. UNCHANGED fiber
        BY <1>5, <2>1, <2>5, <3>2
      <4> QED BY <1>2, <3>2, <4>1 DEF TypeOK
    <3> QED BY <3>1, <3>2
  <2>8. TypeOK'
    BY <1>1, <1>2, <1>5, <2>3, <2>7 DEF TypeOK
  <2>9. Started(e)'
    <3>1. Len(f) <= Len(nodes)
      BY <2>1, <2>2, <2>4
    <3> QED BY <1>1, <1>5, <2>3, <2>4, <3>1, PlanKept DEF Started, planVars
  <2>10. \A i \in 1..Len(f) : i \in 1..Len(r) /\ f[i] = r[i]
    BY <2>1, <2>2
  <2>11. Rows(e)'
    BY <1>1, <1>3, <2>1, <2>3, <2>10, PlanKept DEF Rows
  <2>12. Pruning(e)' /\ Progress(e)'
    BY <1>1, <1>5 DEF Pruning, Progress
  <2>13. ASSUME NEW n \in Entry, fiber'[e][n] = "live"
         PROVE  \E i \in 1..Len(f) : f[i].id = n /\ f[i].kind = "spawned"
    <3>1. fiber[e][n] = "live"
      BY <2>7, <2>13
    <3>2. PICK i \in 1..Len(r) : r[i].id = n /\ r[i].kind = "spawned"
      BY <1>3, <2>1, <3>1 DEF Fibers
    <3>3. i # Len(r)
      BY <2>5, <2>7, <2>13, <3>2
    <3>4. i \in 1..Len(f) /\ f[i] = r[i]
      BY <2>1, <2>2, <3>3
    <3> QED BY <3>2, <3>4
  <2>14. ASSUME NEW n \in Entry, fiber'[e][n] = "disposed"
         PROVE  \E j \in 1..Len(order[e]) : j > Len(f) /\ order[e][j] = n
    <3>1. CASE n = row.id
      <4>1. Len(r) > Len(f)
        BY <2>1, <2>2
      <4> QED BY <2>5, <2>6, <3>1, <4>1
    <3>2. CASE n # row.id
      <4>1. PICK j \in 1..Len(order[e]) : j > Len(r) /\ order[e][j] = n
        BY <1>3, <2>1, <2>7, <2>14, <3>2 DEF Fibers
      <4>2. j > Len(f)
        BY <2>1, <2>2, <2>4, <4>1
      <4> QED BY <4>1, <4>2
    <3> QED BY <3>1, <3>2
  <2>15. \A n \in Entry : fiber'[e][n] # "creating"
    BY <1>1, <1>3, <2>7 DEF Fibers
  <2>16. Fibers(e)'
    BY <1>1, <1>5, <2>3, <2>13, <2>14, <2>15 DEF Fibers
  <2>17. LoadOK(e)'
    BY <2>9, <2>11, <2>12, <2>16 DEF LoadOK
  <2>18. Realms(e)'
    <3>1. \A n \in Entry : Standing(e, n)' => Standing(e, n)
      BY <2>7 DEF Standing
    <3> QED BY <1>1, <1>2, <3>1, SameRealms
  <2> QED BY <1>1, <1>5, <2>3, <2>7, <2>8, <2>17, <2>18, ByLoad
<1> QED BY <1>1, <1>4, <1>5 DEF RollbackNext

\* Nothing runs before the plan is frozen.
LEMMA Unstarted ==
    ASSUME IInv, ~frozen, NEW e \in Load
    PROVE  at[e] = "idle" /\ rows[e] = <<>> /\ \A n \in Entry : fiber[e][n] = "none" /\ off[e][n] = None
BY DEF IInv, LoadOK, Started

LEMMA BuildingLoads ==
    ASSUME IInv, ~frozen, UNCHANGED <<at, order, off, shared, rows, fiber, realm, realms>>
    PROVE  \A e \in Load : LoadOK(e)' /\ Realms(e)'
<1> SUFFICES ASSUME NEW e \in Load
             PROVE  LoadOK(e)' /\ Realms(e)'
  OBVIOUS
<1>1. at[e] = "idle" /\ rows[e] = <<>> /\ \A n \in Entry : fiber[e][n] = "none" /\ off[e][n] = None
  BY Unstarted
<1>2. Started(e)'
  BY <1>1 DEF Started
<1>3. Rows(e)'
  BY <1>1 DEF Rows
<1>4. Pruning(e)' /\ Progress(e)'
  BY <1>1 DEF Pruning, Progress
<1>5. Fibers(e)'
  BY <1>1 DEF Fibers
<1>6. Realms(e)'
  <2>1. Labels(e)
    BY DEF IInv, Realms
  <2>2. Labels(e)'
    BY <2>1 DEF Labels, Mine
  <2>3. \A n \in Entry : ~Standing(e, n)'
    BY <1>1 DEF Standing
  <2> QED BY <2>2, <2>3 DEF Realms
<1> QED BY <1>2, <1>3, <1>4, <1>5, <1>6 DEF LoadOK

LEMMA AddStep ==
    ASSUME IInv, NEW row \in Row, NEW p \in 0..(MaxEntries + 1), Add(row, p)
    PROVE  IInv'
<1>1. /\ ~frozen /\ Len(nodes) < MaxEntries /\ AdmitsParent(p) /\ Valid(row)
      /\ nodes' = Append(nodes, [parent |-> p, row |-> row]) /\ frozen' = frozen
      /\ UNCHANGED <<at, order, off, shared, rows, fiber, realm, realms>>
  BY DEF Add
<1>2. PlanOK /\ TypeOK /\ Tree
  BY DEF IInv, PlanOK
<1>3. PICK b \in Seq(Node) : b = nodes /\ Len(b) \in Nat
  BY <1>2 DEF Tree
<1>4. PICK x \in Node : x = [parent |-> p, row |-> row] /\ x.parent = p /\ x.row = row
  <2>1. p \in Nat
    BY EntriesAssumption
  <2>2. [parent |-> p, row |-> row] \in Node
    BY <2>1 DEF Node
  <2> QED BY <2>2
<1>5. PICK q \in Seq(Node) : /\ q = nodes' /\ Len(q) = Len(b) + 1 /\ q[Len(b) + 1] = x
                             /\ \A i \in 1..Len(b) : q[i] = b[i]
  <2>1. /\ Append(b, x) \in Seq(Node) /\ Len(Append(b, x)) = Len(b) + 1
        /\ Append(b, x)[Len(b) + 1] = x /\ \A i \in 1..Len(b) : Append(b, x)[i] = b[i]
    BY <1>3
  <2> QED BY <1>1, <1>3, <1>4, <2>1
<1>6. Len(q) <= MaxEntries
  BY <1>1, <1>3, <1>5, EntriesAssumption
<1>7. \A n \in 1..Len(q) : q[n].parent \in 0..(n - 1) /\ Valid(q[n].row)
  <2> SUFFICES ASSUME NEW n \in 1..Len(q)
               PROVE  q[n].parent \in 0..(n - 1) /\ Valid(q[n].row)
    OBVIOUS
  <2>1. CASE n \in 1..Len(b)
    BY <1>2, <1>3, <1>5, <2>1 DEF PlanOK, Tree, Nodes
  <2>2. CASE n = Len(b) + 1
    <3>1. p \in 0..Len(b)
      BY <1>1, <1>3 DEF AdmitsParent, None
    <3>2. n - 1 = Len(b)
      BY <1>3, <2>2
    <3> QED BY <1>1, <1>4, <1>5, <2>2, <3>1, <3>2
  <2> QED BY <1>3, <1>5, <2>1, <2>2
<1>8. Tree'
  BY <1>5, <1>7 DEF Tree, Nodes
<1>9. PlanOK'
  BY <1>1, <1>2, <1>5, <1>6, <1>7, <1>8 DEF PlanOK, Nodes
<1>10. TypeOK'
  BY <1>1, <1>2 DEF TypeOK
<1>11. \A e \in Load : LoadOK(e)' /\ Realms(e)'
  BY <1>1, BuildingLoads
<1> QED BY <1>9, <1>10, <1>11 DEF IInv

LEMMA FinishStep ==
    ASSUME IInv, Finish
    PROVE  IInv'
<1>1. ~frozen /\ frozen' = TRUE /\ UNCHANGED <<nodes, at, order, off, shared, rows, fiber, realm, realms>>
  BY DEF Finish
<1>2. PlanOK' /\ TypeOK'
  BY <1>1 DEF IInv, PlanOK, Tree, Nodes, TypeOK
<1>3. \A e \in Load : LoadOK(e)' /\ Realms(e)'
  BY <1>1, BuildingLoads
<1> QED BY <1>2, <1>3 DEF IInv

-----------------------------------------------------------------------------
(* Theorems *)

LEMMA Starts == Init => IInv
<1> SUFFICES ASSUME Init PROVE IInv
  OBVIOUS
<1>1. PlanOK
  <2>1. nodes = <<>> /\ Len(nodes) = 0 /\ nodes \in Seq(Node) /\ 1..0 = {}
    BY DEF Init
  <2>2. Nodes = {}
    BY <2>1 DEF Nodes
  <2>3. Len(nodes) <= MaxEntries
    BY <2>1, EntriesAssumption
  <2> QED BY <2>1, <2>2, <2>3 DEF Init, PlanOK, Tree
<1>2. TypeOK
  BY DEF Init, TypeOK, Stage, Fate, Realm, Default, None
<1>3. ASSUME NEW e \in Load
      PROVE  LoadOK(e) /\ Realms(e)
  <2>1. /\ at[e] = "idle" /\ rows[e] = <<>> /\ \A n \in Entry : fiber[e][n] = "none" /\ off[e][n] = None
        /\ \A l \in Label : shared[e][l] = Default
    BY DEF Init
  <2>2. Started(e)
    BY <2>1 DEF Started
  <2>3. Rows(e)
    BY <2>1 DEF Rows
  <2>4. Pruning(e) /\ Progress(e)
    BY <2>1 DEF Pruning, Progress
  <2>5. Fibers(e)
    BY <2>1 DEF Fibers
  <2>6. Realms(e)
    BY <2>1 DEF Realms, Labels, Standing
  <2> QED BY <2>2, <2>3, <2>4, <2>5, <2>6 DEF LoadOK
<1> QED BY <1>1, <1>2, <1>3 DEF IInv

LEMMA Preserved == IInv /\ [Next]_vars => IInv'
<1> SUFFICES ASSUME IInv, [Next]_vars PROVE IInv'
  OBVIOUS
<1>1. CASE \E row \in Row, p \in 0..(MaxEntries + 1) : Add(row, p)
  BY <1>1, AddStep
<1>2. CASE Finish
  BY <1>2, FinishStep
<1>3. ASSUME NEW e \in Load, Step(e)
      PROVE  IInv'
  BY <1>3, StartStep, PruneStep, GroupStep, DisabledStep, UnresolvedStep, PlaceStep,
     SpawnReturnsStep, DeliverStep DEF Step
<1>4. ASSUME NEW e \in Load, Abandon(e) \/ RollbackNext(e)
      PROVE  IInv'
  BY <1>4, AbandonStep, RollbackStep
<1>5. ASSUME NEW e \in Load, NEW n \in Entry, Rescue(e, n)
      PROVE  IInv'
  BY <1>5, FiberGone DEF Rescue
<1>6. ASSUME NEW e \in Load, NEW n \in Entry, RemoveFiber(e, n)
      PROVE  IInv'
  BY <1>6, FiberGone DEF RemoveFiber
<1>7. CASE UNCHANGED vars
  <2>1. PlanOK' /\ TypeOK'
    BY <1>7, PlanKept DEF vars, IInv, TypeOK
  <2>2. ASSUME NEW e \in Load
        PROVE  LoadOK(e)' /\ Realms(e)'
    <3>1. LoadOK(e)'
      BY <1>7, OtherLoad DEF vars, IInv
    <3>2. \A n \in Entry : Standing(e, n)' => Standing(e, n)
      BY <1>7 DEF vars, Standing
    <3> QED BY <1>7, <3>1, <3>2, SameRealms DEF vars, IInv
  <2> QED BY <2>1, <2>2 DEF IInv
<1> QED BY <1>1, <1>2, <1>3, <1>4, <1>5, <1>6, <1>7 DEF Next

LEMMA Invariant == Spec => []IInv
BY Starts, Preserved, PTL DEF Spec

\* FiberHandles gives the spawned rows, all of them.
LEMMA HandlesAre ==
    ASSUME NEW r \in Seq(Line)
    PROVE  {FiberHandles(r)[i].id : i \in DOMAIN FiberHandles(r)}
             = {r[i].id : i \in {j \in 1..Len(r) : r[j].kind = "spawned"}}
<1> DEFINE T == {row \in Range(r) : row.kind = "spawned"}
<1>1. PICK c : c = Only(r, T) /\ c \in Seq(Line) /\ Range(c) = Range(r) \cap T
  BY OnlyKeeps
<1>2. FiberHandles(r) = c
  BY <1>1 DEF FiberHandles
<1>3. Range(c) = {r[i] : i \in {j \in 1..Len(r) : r[j].kind = "spawned"}}
  <2>1. Range(r) = {r[i] : i \in 1..Len(r)}
    BY RangeOf
  <2> QED BY <1>1, <2>1
<1>4. Range(c) = {c[i] : i \in DOMAIN c}
  BY DEF Range
<1> HIDE DEF T
<1>5. {c[i].id : i \in DOMAIN c} = {x.id : x \in Range(c)}
  BY <1>4
<1>6. {x.id : x \in Range(c)} = {r[i].id : i \in {j \in 1..Len(r) : r[j].kind = "spawned"}}
  BY <1>3
<1> QED BY <1>2, <1>5, <1>6

LEMMA RowsArePlans ==
    ASSUME IInv, NEW e \in Load
    PROVE  /\ \A i, j \in DOMAIN rows[e] : i < j => Precedes(rows[e][i].id, rows[e][j].id)
           /\ \A i \in DOMAIN rows[e] :
                /\ <<rows[e][i].kind, rows[e][i].why>> \in Expected(rows[e][i].id)
                /\ rows[e][i].kind = "pruned" =>
                     /\ rows[e][i].by \in DisabledAncestors(rows[e][i].id)
                     /\ DisabledAncestors(rows[e][i].by) = {}
<1>0. rows[e] \in Seq(Line) /\ DOMAIN rows[e] = 1..Len(rows[e]) /\ Len(rows[e]) \in Nat
  BY DEF IInv, TypeOK
<1>1. CASE at[e] = "idle"
  <2>1. rows[e] = <<>>
    BY <1>1 DEF IInv, LoadOK, Started
  <2>2. DOMAIN rows[e] = {}
    BY <1>0, <2>1
  <2> QED BY <2>2
<1>2. CASE at[e] # "idle"
  <2>1. IsPlanOrder(order[e]) /\ Len(order[e]) = Len(nodes) /\ Len(nodes) \in Nat /\ Len(rows[e]) <= Len(nodes)
    BY <1>2, LoadFacts
  <2>2. \A i \in 1..Len(rows[e]) : i \in 1..Len(order[e]) /\ rows[e][i].id = order[e][i] /\ Faithful(rows[e][i])
    <3>1. \A i \in 1..Len(rows[e]) : i \in 1..Len(order[e])
      BY <1>0, <2>1
    <3> QED BY <3>1 DEF IInv, LoadOK, Rows
  <2>3. \A i, j \in 1..Len(rows[e]) : i < j => Precedes(rows[e][i].id, rows[e][j].id)
    <3>1. \A i, j \in 1..Len(order[e]) : i < j => Precedes(order[e][i], order[e][j])
      BY <2>1 DEF IsPlanOrder
    <3> QED BY <2>2, <3>1
  <2>4. \A i \in 1..Len(rows[e]) :
          /\ <<rows[e][i].kind, rows[e][i].why>> \in Expected(rows[e][i].id)
          /\ rows[e][i].kind = "pruned" =>
               /\ rows[e][i].by \in DisabledAncestors(rows[e][i].id)
               /\ DisabledAncestors(rows[e][i].by) = {}
    BY <2>2 DEF Faithful
  <2> QED BY <1>0, <2>3, <2>4
<1> QED BY <1>1, <1>2

LEMMA Delivered ==
    ASSUME IInv, NEW e \in Load, at[e] = "delivered"
    PROVE  /\ {rows[e][i].id : i \in DOMAIN rows[e]} = DOMAIN nodes
           /\ IsOk(rows[e]) =>
                {FiberHandles(rows[e])[i].id : i \in DOMAIN FiberHandles(rows[e])}
                  = {n \in DOMAIN nodes : <<"spawned", "none">> \in Expected(n)}
<1>1. /\ IsPlanOrder(order[e]) /\ order[e] \in Seq(Nodes) /\ Len(order[e]) = Len(nodes)
      /\ Len(nodes) \in Nat /\ Len(rows[e]) = Len(nodes)
  BY LoadFacts DEF IInv, LoadOK, Progress
<1>2. PICK r \in Seq(Line) : r = rows[e] /\ Len(r) = Len(nodes) /\ DOMAIN r = Nodes
  BY <1>1 DEF IInv, TypeOK, Nodes
<1>3. DOMAIN nodes = Nodes
  BY DEF IInv, PlanOK, Tree, Nodes
<1>4. \A i \in Nodes : r[i].id = order[e][i] /\ Faithful(r[i]) /\ r[i].id \in Nodes
  <2>1. \A i \in Nodes : i \in 1..Len(r) /\ i \in 1..Len(order[e])
    BY <1>1, <1>2 DEF Nodes
  <2> QED BY <1>1, <1>2, <2>1 DEF IInv, LoadOK, Rows
<1>5. \A n \in Nodes : \E i \in Nodes : r[i].id = n
  <2>1. \A n \in Nodes : \E i \in 1..Len(order[e]) : order[e][i] = n
    BY <1>1 DEF IsPlanOrder
  <2> QED BY <1>1, <1>4, <2>1 DEF Nodes
<1>6. {r[i].id : i \in DOMAIN r} = DOMAIN nodes
  BY <1>2, <1>3, <1>4, <1>5
<1>7. ASSUME IsOk(r)
      PROVE  {r[i].id : i \in {j \in 1..Len(r) : r[j].kind = "spawned"}}
               = {n \in DOMAIN nodes : <<"spawned", "none">> \in Expected(n)}
  <2>1. ASSUME NEW i \in Nodes
        PROVE  r[i].kind = "spawned" <=> <<"spawned", "none">> \in Expected(r[i].id)
    <3>1. r[i].kind # "failed" /\ <<r[i].kind, r[i].why>> \in Expected(r[i].id)
      BY <1>2, <1>4, <1>7 DEF IsOk, Faithful
    <3>2. PICK n, k, w : n = r[i].id /\ k = r[i].kind /\ w = r[i].why
      OBVIOUS
    <3>3. k # "failed" /\ <<k, w>> \in Expected(n)
      BY <3>1, <3>2
    <3>4. k = "spawned" <=> <<"spawned", "none">> \in Expected(n)
      BY <3>3 DEF Expected
    <3> QED BY <3>2, <3>4
  <2>2. 1..Len(r) = Nodes
    BY <1>2 DEF Nodes
  <2>3. ASSUME NEW n
        PROVE  (\E i \in Nodes : r[i].kind = "spawned" /\ r[i].id = n)
                 <=> n \in Nodes /\ <<"spawned", "none">> \in Expected(n)
    <3>1. ASSUME NEW i \in Nodes, r[i].kind = "spawned", r[i].id = n
          PROVE  n \in Nodes /\ <<"spawned", "none">> \in Expected(n)
      BY <1>4, <2>1, <3>1
    <3>2. ASSUME n \in Nodes, <<"spawned", "none">> \in Expected(n)
          PROVE  \E i \in Nodes : r[i].kind = "spawned" /\ r[i].id = n
      <4>1. PICK i \in Nodes : r[i].id = n
        BY <1>5, <3>2
      <4> QED BY <2>1, <3>2, <4>1
    <3> QED BY <3>1, <3>2
  <2> QED BY <1>3, <2>2, <2>3
<1>8. {FiberHandles(r)[i].id : i \in DOMAIN FiberHandles(r)}
        = {r[i].id : i \in {j \in 1..Len(r) : r[j].kind = "spawned"}}
  BY HandlesAre
<1>9. IsOk(r) => {FiberHandles(r)[i].id : i \in DOMAIN FiberHandles(r)}
                   = {n \in DOMAIN nodes : <<"spawned", "none">> \in Expected(n)}
  BY <1>7, <1>8
<1> QED BY <1>2, <1>6, <1>9

\* Outcomes are the plan's: the traversal off the stack is the depth-first plan
\* order of every plan, and each row is of the kind its own resolution and its
\* ancestry ask for.
THEOREM Outcomes == Spec => []OutcomesAreFaithful
<1>1. IInv => OutcomesAreFaithful
  <2> SUFFICES ASSUME IInv PROVE OutcomesAreFaithful
    OBVIOUS
  <2>1. Complete
    BY DEF IInv, PlanOK, Tree, Nodes, Complete
  <2> QED BY <2>1, RowsArePlans, Delivered DEF OutcomesAreFaithful
<1> QED BY <1>1, Invariant, PTL

\* Two placements are one realm exactly when both are Shared under one label in
\* one execution.
THEOREM Rendezvous == Spec => []RealmsRendezvous
<1>1. IInv => RealmsRendezvous
  <2> SUFFICES ASSUME IInv,
                      NEW e \in Load, NEW g \in Load, NEW n \in Entry, NEW m \in Entry,
                      NEW s \in Service, NEW t \in Service,
                      fiber[e][n] \in {"creating", "live"}, fiber[g][m] \in {"creating", "live"},
                      <<e, n, s>> # <<g, m, t>>, realm[e][n][s] # Default
               PROVE  realm[e][n][s] = realm[g][m][t]
                        <=> e = g /\ PolicyOf(n, s) = PolicyOf(m, t) /\ PolicyOf(n, s) # {Private}
    BY DEF RealmsRendezvous
  <2>1. Standing(e, n) /\ Standing(g, m)
    BY DEF Standing
  <2>2. Placement(e, n, s) /\ Placement(g, m, t) /\ Labels(e) /\ Labels(g)
    BY <2>1 DEF IInv, Realms
  <2>3. realm[e][n][s].by = {e}
    BY <2>2 DEF Placement, Labels, Mine
  <2>4. realm[g][m][t] = Default \/ realm[g][m][t].by = {g}
    BY <2>2 DEF Placement, Labels, Mine
  <2>5. CASE e # g
    BY <2>3, <2>4, <2>5
  <2>6. CASE e = g /\ PolicyOf(n, s) = {Private}
    <3>1. \A k \in Entry, u \in Service :
            Standing(e, k) /\ realm[e][k][u] = realm[e][n][s] => k = n /\ u = s
      BY <2>2, <2>6, PolicyAssumption DEF Placement
    <3> QED BY <2>1, <2>6, <3>1
  <2>7. CASE e = g /\ PolicyOf(m, t) = {Private}
    <3>1. \A k \in Entry, u \in Service :
            Standing(e, k) /\ realm[e][k][u] = realm[e][m][t] => k = m /\ u = t
      BY <2>2, <2>7, PolicyAssumption DEF Placement
    <3>2. realm[e][n][s] # realm[g][m][t]
      BY <2>1, <2>7, <3>1
    <3> QED BY <2>7, <3>2
  <2>8. CASE e = g /\ PolicyOf(n, s) # {Private} /\ PolicyOf(m, t) # {Private}
    <3>1. PICK l \in Label : /\ PolicyOf(n, s) = {l}
                             /\ realm[e][n][s] = shared[e][l] /\ shared[e][l] # Default
      BY <2>2, <2>8 DEF Placement
    <3>2. CASE PolicyOf(m, t) = {} /\ realm[g][m][t] = Default
      BY <2>8, <3>1, <3>2
    <3>3. CASE \E k \in Label : /\ PolicyOf(m, t) = {k}
                                /\ realm[g][m][t] = shared[g][k] /\ shared[g][k] # Default
      <4>1. PICK k \in Label : /\ PolicyOf(m, t) = {k}
                               /\ realm[e][m][t] = shared[e][k] /\ shared[e][k] # Default
        BY <2>8, <3>3
      <4>2. shared[e][k] = shared[e][l] => k = l
        BY <2>2, <3>1 DEF Labels
      <4> QED BY <2>8, <3>1, <4>1, <4>2
    <3> QED BY <2>2, <2>8, <3>2, <3>3 DEF Placement
  <2> QED BY <2>5, <2>6, <2>7, <2>8
<1> QED BY <1>1, Invariant, PTL

\* Every Fiber of an execution has one owner, and a rollback takes the last
\* spawned first.
THEOREM Handles == Spec => []HandlesAreOwned
<1>1. IInv => HandlesAreOwned
  <2> SUFFICES ASSUME IInv, NEW e \in Load
               PROVE  /\ \A n \in Entry : fiber[e][n] = "live" =>
                           \E i \in DOMAIN FiberHandles(rows[e]) : FiberHandles(rows[e])[i].id = n
                      /\ \A n \in Entry : fiber[e][n] = "live" => at[e] # "ended"
                      /\ \A n, m \in Entry :
                           fiber[e][n] = "disposed" =>
                             /\ at[e] \in {"rollback", "ended"}
                             /\ fiber[e][m] = "live" => Precedes(m, n)
    BY DEF HandlesAreOwned
  <2>1. rows[e] \in Seq(Line) /\ Fibers(e) /\ Rows(e) /\ Progress(e) /\ Started(e) /\ Len(rows[e]) \in Nat
    BY DEF IInv, TypeOK, LoadOK
  <2>2. ASSUME NEW n \in Entry, fiber[e][n] = "live"
        PROVE  /\ \E i \in DOMAIN FiberHandles(rows[e]) : FiberHandles(rows[e])[i].id = n
               /\ at[e] # "ended"
    <3>1. PICK i \in 1..Len(rows[e]) : rows[e][i].id = n /\ rows[e][i].kind = "spawned"
      BY <2>1, <2>2 DEF Fibers
    <3>2. n \in {rows[e][j].id : j \in {k \in 1..Len(rows[e]) : rows[e][k].kind = "spawned"}}
      BY <3>1
    <3>3. n \in {FiberHandles(rows[e])[j].id : j \in DOMAIN FiberHandles(rows[e])}
      BY <2>1, <3>2, HandlesAre
    <3>4. rows[e] # <<>>
      BY <2>1, <3>1
    <3> QED BY <2>1, <3>3, <3>4 DEF Progress
  <2>3. ASSUME NEW n \in Entry, NEW m \in Entry, fiber[e][n] = "disposed"
        PROVE  /\ at[e] \in {"rollback", "ended"}
               /\ fiber[e][m] = "live" => Precedes(m, n)
    <3>1. at[e] \in {"rollback", "ended"}
      BY <2>1, <2>3 DEF Fibers
    <3>2. PICK j \in 1..Len(order[e]) : j > Len(rows[e]) /\ order[e][j] = n
      BY <2>1, <2>3 DEF Fibers
    <3>3. ASSUME fiber[e][m] = "live"
          PROVE  Precedes(m, n)
      <4>1. PICK i \in 1..Len(rows[e]) : rows[e][i].id = m
        BY <2>1, <3>3 DEF Fibers
      <4>2. IsPlanOrder(order[e]) /\ Len(order[e]) \in Nat
        BY <3>1, LoadFacts
      <4>3. i \in 1..Len(order[e]) /\ i < j /\ order[e][i] = m
        BY <2>1, <3>2, <4>1, <4>2 DEF Rows
      <4> QED BY <3>2, <4>2, <4>3 DEF IsPlanOrder
    <3> QED BY <3>1, <3>3
  <2> QED BY <2>2, <2>3
<1> QED BY <1>1, Invariant, PTL
=============================================================================
