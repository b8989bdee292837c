---------------------------- MODULE EventsProofs ----------------------------
(***************************************************************************)
(* Proofs about Events, for any callers, listeners, shapes and requests:   *)
(* preflights see the effective order, no layer is bypassed, failures are  *)
(* attributed, and Events implements Occurrence.                           *)
(***************************************************************************)
EXTENDS Events, SelectionProofs

-----------------------------------------------------------------------------
(* The inductive invariant *)

StoreType ==
    /\ hook \in Seq(Hook) /\ Len(hook) <= MaxListeners
    /\ entries \subseteq 1..Len(hook) /\ journal \subseteq 1..Len(hook)
    /\ order \in [Stream -> Seq(1..Len(hook))]

\* An order names the occurrences of its stream, every registered one among
\* them, and is sorted.
Sorted(r, s, h) ==
    /\ r \in Seq(1..Len(h))
    /\ \A i \in 1..Len(r) : h[r[i]].stream = s
    /\ \A i, j \in 1..Len(r) : i < j =>
         IF h[r[i]].options.prepend THEN h[r[j]].options.prepend => r[i] > r[j]
         ELSE ~h[r[j]].options.prepend /\ r[i] < r[j]

Orders == \A s \in Stream : Sorted(order[s], s, hook) /\ Live(s) \subseteq Range(order[s])

SInv == StoreType /\ Orders

\* Every layer of the snapshot is ahead, in hand or behind.
Chain == {"Waterfall", "WaterfallQuery", "Update"}

Layers(k) ==
    /\ k.op \in Chain /\ k.at = "claim" =>
         Range(k.snapshot) \subseteq k.behind \cup Range(k.hooks)
    /\ k.op \in Chain /\ k.at = "invoke" =>
         Range(k.snapshot) \subseteq k.behind \cup Range(k.hooks) \cup {k.current}
    /\ k.at \in {"tail", "resolve"} \/ k.nested \/ k.reached => Range(k.snapshot) \subseteq k.behind
    /\ k.outcome = "Accepted" => k.reached

\* The name that a failure leaves the operation with.
NameOf(f) == IF f.as = Nobody THEN f.by ELSE f.as

\* A failure on its way out has its name, or, raised by the tail, still nobody's
\* before it passes the innermost Around.
Told(frames, failure, failed) ==
    \E f \in failed :
      IF failure = Nobody THEN f.as = Nobody /\ f.by = Innermost(frames)
      ELSE failure = NameOf(f)

Blame(k) ==
    /\ k.at # "done" => k.outcome = "none"
    /\ k.failing => k.at \in {"unwind", "dropped"}
    /\ k.failing /\ k.at = "unwind" => Told(k.frames, k.failure, k.failed)
    /\ k.outcome = "Invocation" => \E f \in k.failed : k.failure = NameOf(f)

Distinct(s) == \A i, j \in DOMAIN s : i # j => s[i] # s[j]

\* s lies in the first p places of t, in its order.
Embeds(s, t, p) ==
    /\ \A i \in DOMAIN s : \E m \in DOMAIN t : m <= p /\ t[m] = s[i]
    /\ \A i, j \in DOMAIN s : i < j =>
         \E m, n \in DOMAIN t : m < n /\ n <= p /\ t[m] = s[i] /\ t[n] = s[j]

\* hooks is what is left of t behind its first p places.
Ahead(hooks, t, p) ==
    Len(t) = p + Len(hooks) /\ \A i \in DOMAIN hooks : hooks[i] = t[p + i]

\* The failures reported are those raised, in the order of their authors.
InOrder(failures, snapshot, failed) ==
    /\ failures # <<>>
    /\ \E place \in [DOMAIN failures -> DOMAIN snapshot] :
         /\ \A i, j \in DOMAIN place : i < j => place[i] < place[j]
         /\ failed = {[by |-> snapshot[place[i]], as |-> failures[i]] : i \in DOMAIN place}

\* What emit_parallel has claimed and what has failed, each invocation once.
Lanes(k) ==
    /\ k.op = "EmitParallel" =>
         /\ k.at \in {"claim", "join", "dropped"}
         /\ k.at = "claim" => /\ k.failed = {}
                              /\ \E p \in Nat : Ahead(k.hooks, k.snapshot, p)
                                                /\ Embeds(k.claimed, k.snapshot, p)
         /\ k.at \in {"claim", "join"} => Distinct(k.snapshot)
         /\ k.at = "join" => /\ Authors(k) \cup k.running \subseteq Range(k.claimed)
                             /\ Authors(k) \cap k.running = {}
                             /\ \A f, g \in k.failed : f.by = g.by => f = g
                             /\ Embeds(k.claimed, k.snapshot, Len(k.snapshot))
    /\ k.at = "join" => k.op = "EmitParallel"
    /\ k.outcome = "Parallel" => InOrder(k.failures, k.snapshot, k.failed)

\* An operation holds no claim on what it is still to claim.
Claiming(k) ==
    /\ k.at = "invoke" => k.current \in Listener
    /\ k.at \in {"claim", "tail"} => k.current = Nobody
    /\ k.op # "EmitParallel" => k.claimed = <<>>
    /\ k.at \in {"claim", "invoke"} => Distinct(k.hooks) /\ Range(k.hooks) \cap Holds(k) = {}

\* Only the layers of a waterfall wait in frames for its nested query.
Roles(k, h) ==
    /\ Range(k.hooks) \cup Range(k.frames) \cup ({k.current} \ {Nobody}) \subseteq 1..Len(h)
    /\ k.op = "WaterfallQuery" /\ k.at \in {"claim", "invoke", "tail"} =>
         \A l \in Range(k.hooks) \cup Range(k.frames) \cup ({k.current} \ {Nobody}) :
           h[l].role \in {"Mapper", "Around"}

\* Of one operation, with the facts h of the occurrences.
Calls(k, h) == Layers(k) /\ Blame(k) /\ Lanes(k) /\ Claiming(k) /\ Roles(k, h)

\* What any step of an operation does but its preflight and its claims.
Continues(u, k, h) ==
    /\ u \in Call /\ Calls(u, h)
    /\ Holds(u) \subseteq Holds(k) \cup {Nobody}
    /\ u.at = "claim" => k.at # "idle" /\ (u.nested => k.nested)

CInv == call \in [Caller -> Call] /\ \A c \in Caller : Calls(call[c], hook)

EInv == SInv /\ CInv

-----------------------------------------------------------------------------
(* Sequences *)

LEMMA RangeIs ==
    ASSUME NEW S, NEW s \in Seq(S)
    PROVE  /\ DOMAIN s = 1..Len(s) /\ Len(s) \in Nat /\ Range(s) \subseteq S
           /\ \A i \in 1..Len(s) : s[i] \in Range(s) /\ s[i] \in S
           /\ \A x \in Range(s) : \E i \in 1..Len(s) : x = s[i]
BY DEF Range

LEMMA EmptyRange == Range(<<>>) = {} /\ Len(<<>>) = 0 /\ DOMAIN <<>> = {}
BY DEF Range

LEMMA AppendRange ==
    ASSUME NEW S, NEW s \in Seq(S), NEW x \in S
    PROVE  /\ Append(s, x) \in Seq(S) /\ Range(Append(s, x)) = Range(s) \cup {x}
           /\ Len(Append(s, x)) = Len(s) + 1 /\ Append(s, x)[Len(s) + 1] = x
           /\ \A i \in 1..Len(s) : Append(s, x)[i] = s[i]
<1>1. /\ Append(s, x) \in Seq(S) /\ Len(Append(s, x)) = Len(s) + 1 /\ Append(s, x)[Len(s) + 1] = x
      /\ \A i \in 1..Len(s) : Append(s, x)[i] = s[i]
  OBVIOUS
<1>2. \A i \in 1..(Len(s) + 1) : i = Len(s) + 1 \/ i \in 1..Len(s)
  OBVIOUS
<1>3. 1..Len(s) \subseteq 1..(Len(s) + 1) /\ Len(s) + 1 \in 1..(Len(s) + 1)
  OBVIOUS
<1> DEFINE r == Append(s, x)
<1>4. Range(r) = {r[i] : i \in 1..(Len(s) + 1)} /\ Range(s) = {s[i] : i \in 1..Len(s)}
  BY <1>1 DEF Range
<1> HIDE DEF r
<1>5. Range(r) = Range(s) \cup {x}
  <2>1. \A i \in 1..Len(s) : r[i] = s[i]
    BY <1>1 DEF r
  <2>2. r[Len(s) + 1] = x
    BY <1>1 DEF r
  <2>3. ASSUME NEW y \in Range(r) PROVE y \in Range(s) \cup {x}
    <3>1. PICK i \in 1..(Len(s) + 1) : y = r[i]
      BY <1>4
    <3> QED BY <1>2, <1>4, <2>1, <2>2, <3>1
  <2>4. ASSUME NEW y \in Range(s) \cup {x} PROVE y \in Range(r)
    BY <1>3, <1>4, <2>1, <2>2
  <2> QED BY <2>3, <2>4
<1> QED BY <1>1, <1>5 DEF r

LEMMA PrependRange ==
    ASSUME NEW S, NEW s \in Seq(S), NEW x \in S
    PROVE  /\ <<x>> \o s \in Seq(S) /\ Range(<<x>> \o s) = Range(s) \cup {x}
           /\ Len(<<x>> \o s) = Len(s) + 1 /\ (<<x>> \o s)[1] = x
           /\ \A i \in 1..Len(s) : (<<x>> \o s)[i + 1] = s[i]
<1> DEFINE r == <<x>> \o s
<1>1. r \in Seq(S) /\ Len(r) = Len(s) + 1 /\ Len(s) \in Nat
  OBVIOUS
<1>2. r[1] = x /\ \A i \in 1..Len(s) : r[i + 1] = s[i]
  OBVIOUS
<1>3. \A i \in 1..(Len(s) + 1) : i = 1 \/ (i - 1 \in 1..Len(s) /\ (i - 1) + 1 = i)
  BY <1>1
<1>4. Range(r) = {r[i] : i \in 1..(Len(s) + 1)} /\ Range(s) = {s[i] : i \in 1..Len(s)}
  BY <1>1 DEF Range
<1>5. 1 \in 1..(Len(s) + 1) /\ \A i \in 1..Len(s) : i + 1 \in 1..(Len(s) + 1)
  BY <1>1
<1> HIDE DEF r
<1>6. ASSUME NEW y \in Range(r) PROVE y \in Range(s) \cup {x}
  <2>1. PICK i \in 1..(Len(s) + 1) : y = r[i]
    BY <1>4
  <2>2. CASE i = 1
    BY <1>2, <2>1, <2>2
  <2>3. CASE i # 1
    <3>1. i - 1 \in 1..Len(s) /\ r[i] = s[i - 1]
      BY <1>2, <1>3, <2>3
    <3> QED BY <1>4, <2>1, <3>1
  <2> QED BY <2>2, <2>3
<1>7. ASSUME NEW y \in Range(s) \cup {x} PROVE y \in Range(r)
  <2>1. CASE y = x
    BY <1>2, <1>4, <1>5, <2>1
  <2>2. CASE y \in Range(s)
    <3>1. PICK i \in 1..Len(s) : y = s[i]
      BY <1>4, <2>2
    <3> QED BY <1>2, <1>4, <1>5, <3>1
  <2> QED BY <2>1, <2>2
<1>8. Range(r) = Range(s) \cup {x}
  BY <1>6, <1>7
<1> QED BY <1>1, <1>2, <1>8 DEF r

LEMMA TailRange ==
    ASSUME NEW S, NEW s \in Seq(S), s # <<>>
    PROVE  /\ Head(s) \in S /\ Tail(s) \in Seq(S) /\ Range(s) = Range(Tail(s)) \cup {Head(s)}
           /\ Len(s) = Len(Tail(s)) + 1 /\ Head(s) = s[1]
           /\ \A i \in 1..Len(Tail(s)) : Tail(s)[i] = s[i + 1]
<1>1. /\ Head(s) \in S /\ Tail(s) \in Seq(S) /\ Len(s) = Len(Tail(s)) + 1 /\ Head(s) = s[1]
      /\ \A i \in 1..Len(Tail(s)) : Tail(s)[i] = s[i + 1]
  OBVIOUS
<1> DEFINE r == Tail(s)
<1>2. Range(s) = {s[i] : i \in 1..(Len(r) + 1)} /\ Range(r) = {r[i] : i \in 1..Len(r)} /\ Len(r) \in Nat
  <2>1. DOMAIN s = 1..Len(s) /\ DOMAIN r = 1..Len(r) /\ Len(r) \in Nat /\ Len(s) = Len(r) + 1
    BY <1>1
  <2> HIDE DEF r
  <2> QED BY <2>1 DEF Range
<1>3. /\ \A i \in 1..(Len(r) + 1) : i = 1 \/ (i - 1 \in 1..Len(r) /\ (i - 1) + 1 = i)
      /\ 1 \in 1..(Len(r) + 1) /\ \A i \in 1..Len(r) : i + 1 \in 1..(Len(r) + 1)
  BY <1>2
<1>4. \A i \in 1..Len(r) : r[i] = s[i + 1]
  BY <1>1
<1> HIDE DEF r
<1>5. ASSUME NEW y \in Range(s) PROVE y \in Range(r) \cup {s[1]}
  <2>1. PICK i \in 1..(Len(r) + 1) : y = s[i]
    BY <1>2
  <2>2. CASE i # 1
    <3>1. i - 1 \in 1..Len(r) /\ r[i - 1] = s[i]
      BY <1>3, <1>4, <2>2
    <3> QED BY <1>2, <2>1, <3>1
  <2> QED BY <2>1, <2>2
<1>6. ASSUME NEW y \in Range(r) \cup {s[1]} PROVE y \in Range(s)
  <2>1. CASE y \in Range(r)
    <3>1. PICK i \in 1..Len(r) : y = r[i]
      BY <1>2, <2>1
    <3> QED BY <1>2, <1>3, <1>4, <3>1
  <2> QED BY <1>2, <1>3, <2>1
<1>7. Range(s) = Range(r) \cup {s[1]}
  BY <1>5, <1>6
<1> QED BY <1>1, <1>7 DEF r

-----------------------------------------------------------------------------
(* The store *)

\* Filtering keeps an order sorted.
LEMMA OnlySorted ==
    ASSUME NEW h, NEW s, NEW r, Sorted(r, s, h), NEW T
    PROVE  Sorted(Only(r, T), s, h) /\ Range(Only(r, T)) = Range(r) \cap T
<1>1. r \in Seq(1..Len(h))
  BY DEF Sorted
<1> DEFINE o == Only(r, T)
<1>2. /\ o \in Seq(1..Len(h)) /\ Range(o) = Range(r) \cap T
      /\ \A i, j \in 1..Len(o) : i < j => \E m, n \in 1..Len(r) : m < n /\ r[m] = o[i] /\ r[n] = o[j]
  BY <1>1, OnlyKeeps
<1> HIDE DEF o
<1>3. \A i \in 1..Len(o) : \E m \in 1..Len(r) : r[m] = o[i]
  <2>1. \A i \in 1..Len(o) : o[i] \in Range(o)
    BY <1>2, RangeIs
  <2>2. \A x \in Range(r) : \E i \in 1..Len(r) : x = r[i]
    BY <1>1, RangeIs
  <2>3. Range(o) \subseteq Range(r)
    BY <1>2
  <2> QED BY <2>1, <2>2, <2>3
<1>4. \A i \in 1..Len(o) : h[o[i]].stream = s
  BY <1>3 DEF Sorted
<1>5. ASSUME NEW i \in 1..Len(o), NEW j \in 1..Len(o), i < j
      PROVE  IF h[o[i]].options.prepend THEN h[o[j]].options.prepend => o[i] > o[j]
             ELSE ~h[o[j]].options.prepend /\ o[i] < o[j]
  <2>1. PICK m \in 1..Len(r), n \in 1..Len(r) : m < n /\ r[m] = o[i] /\ r[n] = o[j]
    BY <1>2, <1>5
  <2> QED BY <2>1 DEF Sorted
<1>6. Sorted(o, s, h)
  BY <1>2, <1>4, <1>5 DEF Sorted
<1> QED BY <1>2, <1>6 DEF o

LEMMA Occurrences ==
    ASSUME SInv
    PROVE  Len(hook) \in Nat /\ 1..Len(hook) \subseteq Listener /\ entries \subseteq Listener
<1>1. Len(hook) \in Nat /\ Len(hook) <= MaxListeners /\ entries \subseteq 1..Len(hook)
  BY DEF SInv, StoreType
<1>2. 1..Len(hook) \subseteq 1..MaxListeners
  BY <1>1, BoundAssumption
<1> QED BY <1>1, <1>2 DEF Listener

LEMMA CompactedSorted ==
    ASSUME SInv, NEW s \in Stream
    PROVE  Sorted(Compacted(s), s, hook) /\ Live(s) \subseteq Range(Compacted(s))
<1>1. Sorted(order[s], s, hook) /\ Live(s) \subseteq Range(order[s]) /\ Live(s) \subseteq entries
  BY DEF SInv, Orders, Live
<1>2. Compacted(s) = order[s] \/ Compacted(s) = Only(order[s], entries)
  BY DEF Compacted
<1> QED BY <1>1, <1>2, OnlySorted

\* What a preflight takes.
LEMMA SelectedIs ==
    ASSUME SInv, NEW s \in Stream, NEW routing
    PROVE  /\ Sorted(Selected(s, routing), s, hook)
           /\ Range(Selected(s, routing)) = {l \in Live(s) : Eligible(l, routing)}
           /\ Distinct(Selected(s, routing))
<1> DEFINE T == {l \in entries : Eligible(l, routing)}
           r == Selected(s, routing)
<1>1. Sorted(order[s], s, hook) /\ Live(s) \subseteq Range(order[s])
  BY DEF SInv, Orders
<1>2. Sorted(r, s, hook) /\ Range(r) = Range(order[s]) \cap T
  BY <1>1, OnlySorted DEF Selected
<1>3. order[s] \in Seq(1..Len(hook)) /\ \A i \in 1..Len(order[s]) : hook[order[s][i]].stream = s
  BY <1>1 DEF Sorted
<1>4. \A l \in Range(order[s]) : hook[l].stream = s
  BY <1>3, RangeIs
<1>5. Range(r) = {l \in Live(s) : Eligible(l, routing)}
  BY <1>1, <1>2, <1>4 DEF Live
<1> HIDE DEF r
<1>6. Distinct(r)
  <2>1. r \in Seq(1..Len(hook))
    BY <1>2 DEF Sorted
  <2>2. ASSUME NEW i \in 1..Len(r), NEW j \in 1..Len(r), i < j
        PROVE  r[i] # r[j]
    <3>1. /\ IF hook[r[i]].options.prepend THEN hook[r[j]].options.prepend => r[i] > r[j]
             ELSE ~hook[r[j]].options.prepend /\ r[i] < r[j]
          /\ r[i] \in Nat /\ r[j] \in Nat
      BY <1>2, <2>1, <2>2 DEF Sorted
    <3> QED BY <3>1
  <2>3. DOMAIN r = 1..Len(r) /\ \A i, j \in 1..Len(r) : i # j => i < j \/ j < i
    BY <2>1
  <2> QED BY <2>2, <2>3 DEF Distinct
<1> QED BY <1>2, <1>5, <1>6 DEF r

LEMMA StoreStays ==
    ASSUME SInv, UNCHANGED <<hook, entries, order>>, journal' \subseteq journal
    PROVE  SInv'
BY DEF SInv, StoreType, Orders, Live

\* A preflight compacts.
LEMMA CompactionKeeps ==
    ASSUME SInv, NEW s \in Stream, order' = [order EXCEPT ![s] = Compacted(s)],
           UNCHANGED <<hook, entries, journal>>
    PROVE  SInv'
<1>1. /\ order \in [Stream -> Seq(1..Len(hook))] /\ Sorted(Compacted(s), s, hook)
      /\ Live(s) \subseteq Range(Compacted(s))
  BY CompactedSorted DEF SInv, StoreType
<1>2. Compacted(s) \in Seq(1..Len(hook))
  BY <1>1 DEF Sorted
<1>3. /\ order' \in [Stream -> Seq(1..Len(hook))] /\ order'[s] = Compacted(s)
      /\ \A x \in Stream \ {s} : order'[x] = order[x]
  BY <1>1, <1>2
<1>4. StoreType'
  BY <1>3 DEF SInv, StoreType
<1>5. \A x \in Stream : Sorted(order'[x], x, hook) /\ Live(x) \subseteq Range(order'[x])
  BY <1>1, <1>3 DEF SInv, Orders
<1>6. Orders'
  BY <1>5 DEF Orders, Live
<1> QED BY <1>4, <1>6 DEF SInv

LEMMA WithdrawnKeeps ==
    ASSUME SInv, NEW l, l \in entries => l \in Listener, Withdrawn(l), hook' = hook, journal' \subseteq journal
    PROVE  SInv'
<1>1. CASE l \notin entries
  BY <1>1, StoreStays DEF Withdrawn
<1>2. CASE l \in entries
  <2> DEFINE s == hook[l].stream
             r == Forgotten(s, l)
  <2>1. /\ entries' = entries \ {l} /\ order' = [order EXCEPT ![s] = r] /\ l \in 1..Len(hook)
        /\ hook \in Seq(Hook) /\ order \in [Stream -> Seq(1..Len(hook))]
    BY <1>2 DEF Withdrawn, SInv, StoreType
  <2>2. hook[l] \in Hook /\ s \in Stream
    <3>1. hook[l] \in Hook
      BY <2>1
    <3> QED BY <3>1 DEF Hook
  <2>3. Sorted(order[s], s, hook) /\ Live(s) \subseteq Range(order[s])
    BY <2>2 DEF SInv, Orders
  <2>4. Sorted(r, s, hook) /\ Live(s) \ {l} \subseteq Range(r)
    <3>1. CASE Live(s) = {l}
      <4>1. r = <<>>
        BY <3>1 DEF Forgotten
      <4>2. Sorted(<<>>, s, hook)
        BY DEF Sorted
      <4> QED BY <3>1, <4>1, <4>2
    <3>2. CASE Live(s) # {l} /\ s = Updates
      <4>1. r = Only(order[s], Listener \ {l})
        BY <3>2 DEF Forgotten
      <4>2. Live(s) \ {l} \subseteq Listener \ {l}
        BY Occurrences DEF Live
      <4> QED BY <2>3, <4>1, <4>2, OnlySorted
    <3>3. CASE Live(s) # {l} /\ s # Updates
      BY <2>3, <3>3 DEF Forgotten
    <3> QED BY <3>1, <3>2, <3>3
  <2>5. r \in Seq(1..Len(hook))
    BY <2>4 DEF Sorted
  <2> HIDE DEF s, r
  <2>6. /\ order' \in [Stream -> Seq(1..Len(hook))] /\ order'[s] = r
        /\ \A x \in Stream \ {s} : order'[x] = order[x]
    BY <2>1, <2>2, <2>5
  <2>7. StoreType'
    BY <2>1, <2>6 DEF SInv, StoreType
  <2>8. \A x \in Stream : Sorted(order'[x], x, hook) /\ (Live(x) \ {l}) \subseteq Range(order'[x])
    BY <2>4, <2>6 DEF SInv, Orders
  <2>9. \A x \in Stream : Live(x)' = Live(x) \ {l}
    BY <2>1 DEF Live
  <2>10. Orders'
    BY <2>8, <2>9 DEF Orders
  <2> QED BY <2>7, <2>10 DEF SInv
<1> QED BY <1>1, <1>2

\* The facts of an occurrence never change.
LEMMA SortedStays ==
    ASSUME NEW h \in Seq(Hook), NEW x \in Hook, NEW r, NEW s, Sorted(r, s, h)
    PROVE  Sorted(r, s, Append(h, x))
<1> DEFINE g == Append(h, x)
<1>1. /\ Len(g) = Len(h) + 1 /\ Len(h) \in Nat /\ 1..Len(h) \subseteq 1..Len(g)
      /\ \A l \in 1..Len(h) : g[l] = h[l]
  BY AppendRange
<1> HIDE DEF g
<1>2. r \in Seq(1..Len(h))
  BY DEF Sorted
<1>3. \A i \in 1..Len(r) : r[i] \in 1..Len(h) /\ g[r[i]] = h[r[i]]
  BY <1>1, <1>2
<1>4. r \in Seq(1..Len(g))
  BY <1>1, <1>2
<1>5. Sorted(r, s, g)
  BY <1>3, <1>4 DEF Sorted
<1> QED BY <1>5 DEF g

LEMMA CommitsKeeps ==
    ASSUME SInv, NEW l \in Listener, NEW x \in Shape, Commits(l, x)
    PROVE  SInv' /\ hook' = Append(hook, x) /\ x \in Hook /\ call' = call
<1> DEFINE s == x.stream
           r == Compacted(s)
           o == Added(s, l, x.options.prepend)
           g == Append(hook, x)
<1>1. /\ x \in Hook /\ hook' = g /\ order' = [order EXCEPT ![s] = o] /\ entries' = entries \cup {l}
      /\ journal' = journal \cup {l} /\ call' = call /\ l = Len(hook) + 1
  BY ShapeAssumption DEF Commits
<1>2. /\ hook \in Seq(Hook) /\ Len(hook) \in Nat /\ order \in [Stream -> Seq(1..Len(hook))] /\ s \in Stream
      /\ entries \subseteq 1..Len(hook) /\ journal \subseteq 1..Len(hook)
  BY <1>1 DEF SInv, StoreType, Hook
<1>3. /\ g \in Seq(Hook) /\ Len(g) = Len(hook) + 1 /\ g[l] = x /\ \A m \in 1..Len(hook) : g[m] = hook[m]
  BY <1>1, <1>2, AppendRange
<1>4. l \in 1..Len(g) /\ 1..Len(hook) \subseteq 1..Len(g) /\ l \notin 1..Len(hook) /\ Len(g) <= MaxListeners
      /\ \A m \in 1..Len(hook) : m < l /\ m \in Nat /\ l \in Nat
  BY <1>1, <1>2, <1>3, BoundAssumption DEF Listener
<1>5. Sorted(r, s, hook) /\ Live(s) \subseteq Range(r)
  BY <1>2, CompactedSorted
<1>6. Sorted(r, s, g) /\ r \in Seq(1..Len(hook)) /\ r \in Seq(1..Len(g))
  <2>1. Sorted(r, s, g)
    BY <1>1, <1>2, <1>5, SortedStays
  <2> QED BY <1>5, <2>1 DEF Sorted
<1>7. \A i \in 1..Len(r) : r[i] < l /\ r[i] \in Nat
  BY <1>4, <1>6
<1> HIDE DEF g, r
<1>8. Sorted(o, s, g) /\ Range(o) = Range(r) \cup {l}
  <2>1. CASE x.options.prepend
    <3>1. o = <<l>> \o r
      BY <2>1 DEF Added, r
    <3>2. /\ o \in Seq(1..Len(g)) /\ Range(o) = Range(r) \cup {l} /\ Len(o) = Len(r) + 1 /\ o[1] = l
          /\ \A i \in 1..Len(r) : o[i + 1] = r[i]
      BY <1>4, <1>6, <3>1, PrependRange
    <3>3. \A i \in 1..Len(o) : i = 1 \/ (i - 1 \in 1..Len(r) /\ o[i] = r[i - 1])
      <4>1. Len(r) \in Nat
        BY <1>6
      <4>2. \A i \in 1..(Len(r) + 1) : i = 1 \/ (i - 1 \in 1..Len(r) /\ (i - 1) + 1 = i)
        BY <4>1
      <4> QED BY <3>2, <4>2
    <3> HIDE DEF o
    <3>4. \A i \in 1..Len(o) : g[o[i]].stream = s
      BY <1>3, <1>6, <3>2, <3>3, ZenonT(60) DEF Sorted
    <3>5. ASSUME NEW i \in 1..Len(o), NEW j \in 1..Len(o), i < j
          PROVE  IF g[o[i]].options.prepend THEN g[o[j]].options.prepend => o[i] > o[j]
                 ELSE ~g[o[j]].options.prepend /\ o[i] < o[j]
      <4>1. j # 1 /\ j - 1 \in 1..Len(r) /\ o[j] = r[j - 1]
        BY <3>3, <3>5
      <4>2. CASE i = 1
        <5>1. o[i] = l /\ g[o[i]].options.prepend /\ o[j] < l /\ o[j] \in Nat
          BY <1>3, <1>7, <2>1, <3>2, <4>1, <4>2
        <5> QED BY <1>4, <5>1
      <4>3. CASE i # 1
        <5>1. i - 1 \in 1..Len(r) /\ o[i] = r[i - 1] /\ i - 1 < j - 1
          BY <3>3, <3>5, <4>3
        <5> QED BY <1>6, <4>1, <5>1 DEF Sorted
      <4> QED BY <4>2, <4>3
    <3> QED BY <3>2, <3>4, <3>5 DEF Sorted
  <2>2. CASE ~x.options.prepend
    <3>1. o = Append(r, l)
      BY <2>2 DEF Added, r
    <3>2. /\ o \in Seq(1..Len(g)) /\ Range(o) = Range(r) \cup {l} /\ Len(o) = Len(r) + 1
          /\ o[Len(r) + 1] = l /\ \A i \in 1..Len(r) : o[i] = r[i]
      BY <1>4, <1>6, <3>1, AppendRange
    <3>3. \A i \in 1..Len(o) : i = Len(r) + 1 \/ i \in 1..Len(r)
      BY <1>6, <3>2
    <3> HIDE DEF o
    <3>4. \A i \in 1..Len(o) : g[o[i]].stream = s
      BY <1>3, <1>6, <3>2, <3>3 DEF Sorted
    <3>5. ASSUME NEW i \in 1..Len(o), NEW j \in 1..Len(o), i < j
          PROVE  IF g[o[i]].options.prepend THEN g[o[j]].options.prepend => o[i] > o[j]
                 ELSE ~g[o[j]].options.prepend /\ o[i] < o[j]
      <4>1. i \in 1..Len(r) /\ o[i] = r[i]
        <5>1. i # Len(r) + 1
          BY <1>6, <3>2, <3>5
        <5> QED BY <3>2, <3>3, <5>1
      <4>2. CASE j = Len(r) + 1
        <5>1. o[j] = l /\ ~g[o[j]].options.prepend /\ o[i] < l
          BY <1>3, <1>7, <2>2, <3>2, <4>1, <4>2
        <5> QED BY <5>1
      <4>3. CASE j \in 1..Len(r)
        BY <1>6, <3>2, <3>5, <4>1, <4>3 DEF Sorted
      <4> QED BY <3>3, <4>2, <4>3
    <3> QED BY <3>2, <3>4, <3>5 DEF Sorted
  <2> QED BY <2>1, <2>2
<1> HIDE DEF o, s
<1>9. ASSUME NEW y \in Stream
      PROVE  Sorted(order'[y], y, g) /\ Live(y)' \subseteq Range(order'[y])
  <2>1. Live(y)' \subseteq Live(y) \cup {l} /\ (y # s => Live(y)' \subseteq Live(y))
    <3>1. \A m \in entries : g[m] = hook[m]
      BY <1>2, <1>3
    <3>2. g[l].stream = s
      BY <1>3 DEF s
    <3> QED BY <1>1, <3>1, <3>2 DEF Live
  <2>2. CASE y = s
    BY <1>1, <1>2, <1>5, <1>8, <2>1, <2>2
  <2>3. CASE y # s
    <3>1. order'[y] = order[y] /\ Sorted(order[y], y, hook) /\ Live(y) \subseteq Range(order[y])
      BY <1>1, <1>2, <2>3 DEF SInv, Orders
    <3>2. Sorted(order[y], y, g)
      BY <1>1, <1>2, <3>1, SortedStays DEF g
    <3> QED BY <2>1, <2>3, <3>1, <3>2
  <2> QED BY <2>2, <2>3
<1>10. order' \in [Stream -> Seq(1..Len(g))]
  <2>1. \A y \in Stream : order'[y] \in Seq(1..Len(g))
    BY <1>9 DEF Sorted
  <2>2. order' = [y \in Stream |-> order'[y]]
    BY <1>1, <1>2
  <2> QED BY <2>1, <2>2, Zenon
<1>11. StoreType' /\ Orders'
  <2>1. Orders'
    BY <1>1, <1>9 DEF Orders
  <2>2. StoreType'
    BY <1>1, <1>2, <1>3, <1>4, <1>10 DEF StoreType
  <2> QED BY <2>1, <2>2
<1> QED BY <1>1, <1>11 DEF SInv, g

-----------------------------------------------------------------------------
(* The operations *)

LEMMA IdleType == Idle \in Call
<1>1. Nobody \in Name /\ Nobody \in Listener \cup {Nobody}
  BY DEF Name
<1>2. <<>> \in Seq(Listener) /\ <<>> \in Seq(Name)
  OBVIOUS
<1> QED BY <1>1, <1>2 DEF Idle, Call, Stream, Operation, EventOperation, Outcome

LEMMA IdleFields ==
    /\ Idle.op = "Emit" /\ Idle.at = "idle" /\ Idle.nested = FALSE /\ Idle.hooks = <<>>
    /\ Idle.current = Nobody /\ Idle.claimed = <<>> /\ Idle.running = {} /\ Idle.frames = <<>>
    /\ Idle.failing = FALSE /\ Idle.failure = Nobody /\ Idle.reached = FALSE /\ Idle.outcome = "none"
    /\ Idle.failures = <<>> /\ Idle.snapshot = <<>> /\ Idle.behind = {} /\ Idle.failed = {}
BY DEF Idle

\* A step of one caller leaves the others alone.
LEMMA CallMoves ==
    ASSUME CInv, NEW c \in Caller, NEW u \in Call, Calls(u, hook), call' = [call EXCEPT ![c] = u],
           hook' = hook
    PROVE  CInv'
<1>1. /\ call' \in [Caller -> Call] /\ call'[c] = u /\ \A d \in Caller \ {c} : call'[d] = call[d]
  BY DEF CInv
<1>2. \A d \in Caller : Calls(call'[d], hook)
  BY <1>1 DEF CInv
<1> QED BY <1>1, <1>2 DEF CInv

\* A registration leaves every operation alone.
LEMMA CallsStay ==
    ASSUME CInv, hook \in Seq(Hook), NEW x \in Hook, hook' = Append(hook, x), call' = call
    PROVE  CInv'
<1>1. /\ Len(hook') = Len(hook) + 1 /\ Len(hook) \in Nat /\ 1..Len(hook) \subseteq 1..Len(hook')
      /\ \A l \in 1..Len(hook) : hook'[l] = hook[l]
  BY AppendRange
<1>2. ASSUME NEW c \in Caller
      PROVE  Calls(call[c], hook')
  <2>1. Calls(call[c], hook)
    BY DEF CInv
  <2>2. Roles(call[c], hook')
    BY <1>1, <2>1 DEF Calls, Roles
  <2> QED BY <2>1, <2>2 DEF Calls
<1> QED BY <1>2 DEF CInv

\* Finish.
LEMMA FinishFields ==
    ASSUME NEW k \in Call, NEW o \in Outcome
    PROVE  LET u == Finish(k, o) IN
           /\ u \in Call /\ u.op = "Emit" /\ u.at = "done" /\ u.nested = FALSE /\ u.hooks = <<>>
           /\ u.current = Nobody /\ u.claimed = <<>> /\ u.frames = <<>> /\ u.failing = FALSE
           /\ u.outcome = o /\ u.failure = k.failure /\ u.failures = k.failures
           /\ u.reached = k.reached /\ u.snapshot = k.snapshot /\ u.behind = k.behind
           /\ u.failed = k.failed
BY IdleType, IdleFields DEF Finish, Call

LEMMA Finishes ==
    ASSUME NEW k \in Call, NEW o \in Outcome \ {"Parallel"}, NEW h,
           k.reached => Range(k.snapshot) \subseteq k.behind,
           o = "Accepted" => k.reached,
           o = "Invocation" => \E f \in k.failed : k.failure = NameOf(f)
    PROVE  Finish(k, o) \in Call /\ Calls(Finish(k, o), h)
<1>1. PICK u : u = Finish(k, o)
  OBVIOUS
<1>2. /\ u \in Call /\ u.op = "Emit" /\ u.at = "done" /\ u.nested = FALSE /\ u.hooks = <<>>
      /\ u.current = Nobody /\ u.claimed = <<>> /\ u.frames = <<>> /\ u.failing = FALSE
      /\ u.outcome = o /\ u.failure = k.failure /\ u.failures = k.failures
      /\ u.reached = k.reached /\ u.snapshot = k.snapshot /\ u.behind = k.behind
      /\ u.failed = k.failed
  BY <1>1, FinishFields, ZenonT(60)
<1>3. Layers(u)
  BY <1>2 DEF Layers, Chain
<1>4. Blame(u) /\ Lanes(u) /\ Claiming(u)
  BY <1>2 DEF Blame, Lanes, Claiming
<1>5. Roles(u, h)
  BY <1>2, EmptyRange DEF Roles
<1> QED BY <1>1, <1>2, <1>3, <1>4, <1>5 DEF Calls

\* A layer, an observer or a miss hands on.
LEMMA PassedFields ==
    ASSUME NEW k \in Call, k.current \in Listener
    PROVE  LET u == Passed(k) IN
           /\ u \in Call /\ u.op = k.op /\ u.at = "claim" /\ u.nested = k.nested /\ u.hooks = k.hooks
           /\ u.current = Nobody /\ u.claimed = k.claimed /\ u.frames = k.frames
           /\ u.failing = k.failing /\ u.outcome = k.outcome /\ u.failure = k.failure
           /\ u.failures = k.failures /\ u.reached = k.reached /\ u.snapshot = k.snapshot
           /\ u.behind = k.behind \cup {k.current} /\ u.failed = k.failed
BY DEF Passed, Call

\* A failure is raised.
Raises(u, k, l, n) ==
    /\ u \in Call /\ u.op = k.op /\ u.at = k.at /\ u.nested = k.nested /\ u.hooks = <<>>
    /\ u.current = k.current /\ u.claimed = k.claimed /\ u.frames = k.frames
    /\ u.failing = TRUE /\ u.outcome = k.outcome /\ u.failure = n
    /\ u.failures = k.failures /\ u.reached = k.reached /\ u.snapshot = k.snapshot
    /\ u.behind = k.behind /\ u.failed = {[by |-> l, as |-> n]}

LEMMA FailingFields ==
    ASSUME NEW k \in Call, NEW l \in Listener \cup {Nobody}, NEW n \in Name
    PROVE  Raises(Failing(k, l, n), k, l, n)
<1> DEFINE d == Discarded(k)
<1>1. /\ d \in Call /\ d.op = k.op /\ d.at = k.at /\ d.nested = k.nested /\ d.hooks = <<>>
      /\ d.current = k.current /\ d.claimed = k.claimed /\ d.frames = k.frames
      /\ d.outcome = k.outcome /\ d.failures = k.failures /\ d.reached = k.reached
      /\ d.snapshot = k.snapshot /\ d.behind = k.behind /\ d.failed = k.failed
  <2>1. <<>> \in Seq(Listener)
    OBVIOUS
  <2> QED BY <2>1 DEF Discarded, Call
<1> HIDE DEF d
<1>2. Failing(k, l, n) = [d EXCEPT !.failing = TRUE, !.failure = n, !.failed = {[by |-> l, as |-> n]}]
  BY DEF Failing, d
<1>3. {[by |-> l, as |-> n]} \in SUBSET Raised
  BY DEF Raised
<1>4. PICK f \in SUBSET Raised : f = {[by |-> l, as |-> n]}
  BY <1>3
<1>5. PICK u : u = [d EXCEPT !.failing = TRUE, !.failure = n, !.failed = f]
  OBVIOUS
<1>6. /\ u \in Call /\ u.op = d.op /\ u.at = d.at /\ u.nested = d.nested /\ u.hooks = d.hooks
      /\ u.current = d.current /\ u.claimed = d.claimed /\ u.frames = d.frames
      /\ u.outcome = d.outcome /\ u.failures = d.failures /\ u.reached = d.reached
      /\ u.snapshot = d.snapshot /\ u.behind = d.behind /\ u.failed = f /\ u.failing = TRUE
      /\ u.failure = n
  BY <1>1, <1>5 DEF Call
<1>7. u = Failing(k, l, n)
  BY <1>2, <1>4, <1>5
<1>8. Raises(u, k, l, n)
  BY <1>1, <1>4, <1>6 DEF Raises
<1> QED BY <1>7, <1>8

\* What a callback raises has its name at once.
LEMMA FailuresTold ==
    ASSUME NEW k \in Call, NEW l \in Listener, NEW u \in Failures(k, l)
    PROVE  /\ u \in Call /\ u.op = k.op /\ u.at = k.at /\ u.nested = k.nested /\ u.hooks = <<>>
           /\ u.current = k.current /\ u.claimed = k.claimed /\ u.frames = k.frames
           /\ u.failing = TRUE /\ u.outcome = k.outcome
           /\ u.failures = k.failures /\ u.reached = k.reached /\ u.snapshot = k.snapshot
           /\ u.behind = k.behind
           /\ u.failure # Nobody /\ \E f \in u.failed : u.failure = NameOf(f)
<1>1. PICK n \in Names(l) : u = Failing(k, l, n)
  BY Zenon DEF Failures
<1>2. n \in Name /\ n # Nobody /\ l \in Listener \cup {Nobody}
  BY BoundAssumption DEF Names, Name, Nobody, Elsewhere, Listener
<1>3. NameOf([by |-> l, as |-> n]) = n
  BY <1>2 DEF NameOf
<1>4. Raises(u, k, l, n)
  BY <1>1, <1>2, FailingFields
<1>5. u.failure # Nobody /\ \E f \in u.failed : u.failure = NameOf(f)
  BY <1>2, <1>3, <1>4 DEF Raises
<1> QED BY <1>4, <1>5 DEF Raises

\* It recovers.
LEMMA RecoveredFields ==
    ASSUME NEW k \in Call
    PROVE  LET u == Recovered(k) IN
           /\ u \in Call /\ u.op = k.op /\ u.at = k.at /\ u.nested = k.nested /\ u.hooks = k.hooks
           /\ u.current = k.current /\ u.claimed = k.claimed /\ u.frames = k.frames
           /\ u.failing = FALSE /\ u.outcome = k.outcome
           /\ u.reached = k.reached /\ u.snapshot = k.snapshot /\ u.behind = k.behind
<1>1. Nobody \in Name /\ {} \in SUBSET Raised
  BY DEF Name
<1> QED BY <1>1 DEF Recovered, Call

\* An operation that claims nothing any more.
LEMMA Rests ==
    ASSUME NEW h, NEW k \in Call, Calls(k, h), NEW u \in Call,
           u.at \in {"unwind", "resolve", "dropped"}, u.at # "dropped" => u.op # "EmitParallel",
           u.at = "resolve" \/ u.nested \/ u.reached => Range(u.snapshot) \subseteq u.behind,
           u.outcome = "none",
           u.failing => /\ u.at # "resolve"
                        /\ u.at = "unwind" => Told(u.frames, u.failure, u.failed),
           u.claimed = <<>>, Range(u.hooks) \subseteq Range(k.hooks),
           Range(u.frames) \subseteq Range(k.frames), u.current \in {k.current, Nobody}
    PROVE  Continues(u, k, h)
<1>1. Layers(u)
  BY DEF Layers
<1>2. Blame(u) /\ Lanes(u) /\ Claiming(u)
  BY DEF Blame, Lanes, Claiming
<1>3. Roles(u, h)
  BY DEF Calls, Roles
<1>4. Holds(u) \subseteq Holds(k) \cup {Nobody}
  BY EmptyRange DEF Holds
<1> QED BY <1>1, <1>2, <1>3, <1>4 DEF Calls, Continues

LEMMA Ends ==
    ASSUME NEW h, NEW k \in Call, NEW j \in Call, NEW o \in Outcome \ {"Parallel"},
           j.reached => Range(j.snapshot) \subseteq j.behind, o = "Accepted" => j.reached,
           o = "Invocation" => \E f \in j.failed : j.failure = NameOf(f)
    PROVE  Continues(Finish(j, o), k, h)
<1>1. PICK u : u = Finish(j, o)
  OBVIOUS
<1>2. u \in Call /\ u.at = "done" /\ u.current = Nobody /\ u.claimed = <<>> /\ u.frames = <<>>
  BY <1>1, FinishFields
<1>3. Calls(u, h)
  BY <1>1, Finishes
<1>4. Holds(u) \subseteq {Nobody}
  BY <1>2, EmptyRange DEF Holds
<1> QED BY <1>1, <1>2, <1>3, <1>4 DEF Continues

\* Hands on to the next hook.
LEMMA PassesOn ==
    ASSUME NEW h, NEW k \in Call, Calls(k, h), k.at = "invoke"
    PROVE  Continues(Passed(k), k, h)
<1>1. /\ k.current \in Listener /\ Distinct(k.hooks) /\ Range(k.hooks) \cap Holds(k) = {}
      /\ k.op # "EmitParallel" /\ k.claimed = <<>> /\ k.outcome = "none"
  BY DEF Calls, Claiming, Lanes, Blame
<1>2. PICK u : u = Passed(k)
  OBVIOUS
<1>3. /\ u \in Call /\ u.op = k.op /\ u.at = "claim" /\ u.nested = k.nested /\ u.hooks = k.hooks
      /\ u.current = Nobody /\ u.claimed = k.claimed /\ u.frames = k.frames
      /\ u.failing = k.failing /\ u.outcome = k.outcome /\ u.failure = k.failure
      /\ u.failures = k.failures /\ u.reached = k.reached /\ u.snapshot = k.snapshot
      /\ u.behind = k.behind \cup {k.current} /\ u.failed = k.failed
  BY <1>1, <1>2, PassedFields
<1>4. Layers(u)
  BY <1>1, <1>3 DEF Calls, Layers
<1>5. Blame(u) /\ Lanes(u)
  BY <1>1, <1>3 DEF Calls, Blame, Lanes
<1>6. Holds(u) \subseteq Holds(k) \cup {Nobody}
  BY <1>3 DEF Holds
<1>7. Nobody \notin Range(k.hooks)
  <2>1. k.hooks \in Seq(Listener) /\ Nobody \notin Listener
    BY BoundAssumption DEF Call, Listener, Nobody
  <2> QED BY <2>1, RangeIs
<1>8. Claiming(u)
  BY <1>1, <1>3, <1>6, <1>7 DEF Claiming
<1>9. Roles(u, h)
  BY <1>3 DEF Calls, Roles
<1> QED BY <1>2, <1>3, <1>4, <1>5, <1>6, <1>8, <1>9 DEF Calls, Continues

\* An Around waits for its Next.
LEMMA FrameWaits ==
    ASSUME NEW h, NEW k \in Call, Calls(k, h), k.at = "invoke"
    PROVE  Continues([Passed(k) EXCEPT !.frames = Append(@, k.current)], k, h)
<1>1. /\ k.current \in Listener /\ k.frames \in Seq(Listener) /\ Range(k.hooks) \cap Holds(k) = {}
      /\ k.hooks \in Seq(Listener) /\ k.current # Nobody
  BY BoundAssumption DEF Calls, Claiming, Call, Listener, Nobody
<1>2. PICK p : p = Passed(k)
  OBVIOUS
<1>3. /\ p \in Call /\ Calls(p, h) /\ p.at = "claim" /\ p.op = k.op /\ p.hooks = k.hooks /\ p.current = Nobody
      /\ p.claimed = k.claimed /\ p.frames = k.frames /\ p.nested = k.nested
  BY <1>1, <1>2, PassesOn, PassedFields DEF Continues
<1>4. PICK f \in Seq(Listener) : f = Append(k.frames, k.current) /\ Range(f) = Range(k.frames) \cup {k.current}
  <2>1. PICK g \in Seq(Listener), l \in Listener : g = k.frames /\ l = k.current
    BY <1>1
  <2>2. Append(g, l) \in Seq(Listener) /\ Range(Append(g, l)) = Range(g) \cup {l}
    BY AppendRange
  <2> QED BY <2>1, <2>2
<1>5. PICK u : u = [p EXCEPT !.frames = f]
  OBVIOUS
<1>6. /\ u \in Call /\ u.op = p.op /\ u.at = p.at /\ u.nested = p.nested /\ u.hooks = p.hooks
      /\ u.current = p.current /\ u.claimed = p.claimed /\ u.frames = f
      /\ u.failing = p.failing /\ u.outcome = p.outcome /\ u.failure = p.failure
      /\ u.failures = p.failures /\ u.reached = p.reached /\ u.snapshot = p.snapshot
      /\ u.behind = p.behind /\ u.failed = p.failed /\ u.running = p.running
  BY <1>3, <1>5, ZenonT(60) DEF Call
<1>7. Layers(u) /\ Blame(u) /\ Lanes(u)
  BY <1>3, <1>6 DEF Calls, Layers, Blame, Lanes, Authors
<1>8. Holds(u) \subseteq Holds(k) \cup {Nobody} /\ Nobody \notin Range(k.hooks)
  <2>1. Nobody \notin Listener
    BY BoundAssumption DEF Listener, Nobody
  <2>2. Nobody \notin Range(k.hooks)
    BY <1>1, <2>1, RangeIs
  <2> QED BY <1>3, <1>4, <1>6, <2>2 DEF Holds
<1>9. Claiming(u)
  BY <1>1, <1>3, <1>6, <1>8 DEF Calls, Claiming
<1>10. Roles(u, h)
  BY <1>1, <1>3, <1>4, <1>6 DEF Calls, Roles
<1>11. u = [Passed(k) EXCEPT !.frames = Append(@, k.current)]
  BY <1>2, <1>3, <1>4, <1>5
<1> QED BY <1>3, <1>6, <1>7, <1>8, <1>9, <1>10, <1>11 DEF Calls, Continues

\* The end of the layers, with or without a failure.
LEMMA UnwindsFrom ==
    ASSUME NEW h, NEW k \in Call, Calls(k, h), k.at \in {"invoke", "tail", "resolve"},
           k.op # "EmitParallel", NEW u \in Call, u.at = "unwind",
           u.op = k.op, u.nested = k.nested, u.claimed = k.claimed, u.frames = k.frames,
           u.hooks \in {k.hooks, <<>>}, u.current = k.current, u.outcome = k.outcome,
           u.snapshot = k.snapshot, u.behind = k.behind,
           u.reached => k.reached \/ k.at \in {"tail", "resolve"},
           u.failing => Told(u.frames, u.failure, u.failed)
    PROVE  Continues(u, k, h)
<1>1. /\ u.outcome = "none" /\ u.claimed = <<>> /\ Range(u.hooks) \subseteq Range(k.hooks)
      /\ u.nested \/ u.reached => Range(u.snapshot) \subseteq u.behind
  BY EmptyRange DEF Calls, Blame, Claiming, Layers
<1> QED BY <1>1, Rests

\* The result of a query goes to its caller or to the resolver.
LEMMA QueryEndsOn ==
    ASSUME NEW h, NEW k \in Call, Calls(k, h), NEW j \in Call, NEW o \in Outcome \ {"Parallel", "Accepted"},
           j.nested \/ j.reached => Range(j.snapshot) \subseteq j.behind,
           j.outcome = "none", j.claimed = <<>>, Range(j.hooks) \subseteq Range(k.hooks),
           Range(j.frames) \subseteq Range(k.frames), j.current \in {k.current, Nobody},
           o = "Invocation" => \E f \in j.failed : j.failure = NameOf(f)
    PROVE  Continues(QueryEnds(j, o), k, h)
<1>1. CASE j.nested
  <2>0. PICK r : r = Recovered(j)
    OBVIOUS
  <2>1. PICK u : u = [r EXCEPT !.op = "WaterfallQuery", !.nested = FALSE, !.at = "resolve"]
    OBVIOUS
  <2>2. /\ u \in Call /\ u.op = "WaterfallQuery" /\ u.at = "resolve" /\ u.nested = FALSE
        /\ u.hooks = j.hooks /\ u.current = j.current /\ u.claimed = j.claimed /\ u.frames = j.frames
        /\ u.failing = FALSE /\ u.outcome = j.outcome /\ u.reached = j.reached
        /\ u.snapshot = j.snapshot /\ u.behind = j.behind
    <3>1. "WaterfallQuery" \in Operation
      BY DEF Operation
    <3>2. /\ r \in Call /\ r.hooks = j.hooks /\ r.current = j.current /\ r.claimed = j.claimed
          /\ r.frames = j.frames /\ r.failing = FALSE /\ r.outcome = j.outcome /\ r.reached = j.reached
          /\ r.snapshot = j.snapshot /\ r.behind = j.behind
      BY <2>0, RecoveredFields
    <3> QED BY <2>1, <3>1, <3>2 DEF Call
  <2>3. Continues(u, k, h)
    BY <1>1, <2>2, Rests
  <2>4. u = QueryEnds(j, o)
    BY <1>1, <2>0, <2>1 DEF QueryEnds
  <2> QED BY <2>3, <2>4
<1>2. CASE ~j.nested
  <2>1. QueryEnds(j, o) = Finish(j, o)
    BY <1>2 DEF QueryEnds
  <2> QED BY <2>1, Ends, ZenonT(60)
<1> QED BY <1>1, <1>2

LEMMA DiscardedFields ==
    ASSUME NEW k \in Call
    PROVE  LET u == Discarded(k) IN
           /\ u \in Call /\ u.op = k.op /\ u.at = k.at /\ u.nested = k.nested /\ u.hooks = <<>>
           /\ u.current = k.current /\ u.claimed = k.claimed /\ u.frames = k.frames
           /\ u.failing = k.failing /\ u.outcome = k.outcome /\ u.failure = k.failure
           /\ u.failures = k.failures /\ u.reached = k.reached /\ u.snapshot = k.snapshot
           /\ u.behind = k.behind /\ u.failed = k.failed
<1>1. <<>> \in Seq(Listener)
  OBVIOUS
<1> QED BY <1>1 DEF Discarded, Call

\* A step of an operation but its preflight and its claims.
Proceeds(c) == \E u : call' = [call EXCEPT ![c] = u] /\ Continues(u, call[c], hook)

LEMMA ExhaustedProceeds ==
    ASSUME EInv, NEW c \in Caller, Exhausted(c)
    PROVE  Proceeds(c)
<1>1. PICK k : k = call[c]
  OBVIOUS
<1>2. k \in Call /\ Calls(k, hook) /\ k.at = "claim" /\ k.hooks = <<>> /\ k.op \in Operation
  BY <1>1 DEF EInv, CInv, Exhausted, Call
<1>3. /\ k.outcome = "none" /\ k.current = Nobody /\ Range(k.hooks) = {}
      /\ k.op # "EmitParallel" => k.claimed = <<>>
      /\ k.nested \/ k.reached => Range(k.snapshot) \subseteq k.behind
      /\ k.op \in Chain => Range(k.snapshot) \subseteq k.behind
      /\ k.failing = FALSE
  BY <1>2, EmptyRange DEF Calls, Blame, Layers, Claiming
<1>4. CASE k.op = "Emit"
  <2>1. call' = [call EXCEPT ![c] = Finish(k, "Completed")]
    BY <1>1, <1>4 DEF Exhausted
  <2>2. "Completed" \in Outcome \ {"Parallel"}
    BY DEF Outcome
  <2>3. Continues(Finish(k, "Completed"), k, hook)
    BY <1>2, <1>3, <2>2, Ends
  <2> QED BY <1>1, <2>1, <2>3 DEF Proceeds
<1>5. CASE k.op = "Query"
  <2>1. call' = [call EXCEPT ![c] = QueryEnds(k, "Missed")]
    BY <1>1, <1>5 DEF Exhausted
  <2>2. "Missed" \in Outcome \ {"Parallel", "Accepted"}
    BY DEF Outcome
  <2>3. Continues(QueryEnds(k, "Missed"), k, hook)
    BY <1>2, <1>3, <1>5, <2>2, QueryEndsOn
  <2> QED BY <1>1, <2>1, <2>3 DEF Proceeds
<1>6. CASE k.op = "EmitParallel"
  <2>1. call' = [call EXCEPT ![c] = [k EXCEPT !.at = "join", !.running = Range(k.claimed)]]
    BY <1>1, <1>6 DEF Exhausted
  <2>2. k.claimed \in Seq(Listener) /\ k.snapshot \in Seq(Listener)
    BY <1>2 DEF Call
  <2>3. PICK r \in SUBSET Listener : r = Range(k.claimed)
    BY <2>2, RangeIs
  <2>4. PICK u : u = [k EXCEPT !.at = "join", !.running = r]
    OBVIOUS
  <2>5. /\ u \in Call /\ u.op = k.op /\ u.at = "join" /\ u.nested = k.nested /\ u.hooks = k.hooks
        /\ u.current = k.current /\ u.claimed = k.claimed /\ u.frames = k.frames /\ u.running = r
        /\ u.failing = k.failing /\ u.outcome = k.outcome /\ u.failure = k.failure
        /\ u.failures = k.failures /\ u.reached = k.reached /\ u.snapshot = k.snapshot
        /\ u.behind = k.behind /\ u.failed = k.failed
    BY <1>2, <2>3, <2>4 DEF Call
  <2>6. PICK p \in Nat : Ahead(k.hooks, k.snapshot, p) /\ Embeds(k.claimed, k.snapshot, p)
    BY <1>2, <1>6 DEF Calls, Lanes
  <2>7. p = Len(k.snapshot)
    BY <1>2, <2>2, <2>6, EmptyRange DEF Ahead
  <2>8. Lanes(u)
    <3>1. k.failed = {} /\ Distinct(k.snapshot)
      BY <1>2, <1>6 DEF Calls, Lanes
    <3>2. Authors(u) = {}
      BY <2>5, <3>1 DEF Authors
    <3> QED BY <1>3, <1>6, <2>3, <2>5, <2>6, <2>7, <3>1, <3>2 DEF Lanes
  <2>9. Layers(u) /\ Blame(u)
    BY <1>2, <1>3, <1>6, <2>5 DEF Calls, Layers, Blame, Chain
  <2>10. Claiming(u) /\ Roles(u, hook) /\ Holds(u) = Holds(k)
    BY <1>2, <1>6, <2>5 DEF Calls, Claiming, Roles, Holds
  <2>11. Continues(u, k, hook)
    BY <2>5, <2>8, <2>9, <2>10 DEF Continues, Calls
  <2>12. call' = [call EXCEPT ![c] = u]
    BY <2>1, <2>3, <2>4
  <2> QED BY <1>1, <2>11, <2>12 DEF Proceeds
<1>7. CASE k.op = "Update"
  <2>1. PICK u : u = [k EXCEPT !.at = "unwind", !.reached = TRUE]
    OBVIOUS
  <2>2. call' = [call EXCEPT ![c] = u]
    BY <1>1, <1>7, <2>1 DEF Exhausted
  <2>3. /\ u \in Call /\ u.op = k.op /\ u.at = "unwind" /\ u.nested = k.nested /\ u.hooks = k.hooks
        /\ u.current = k.current /\ u.claimed = k.claimed /\ u.frames = k.frames
        /\ u.failing = k.failing /\ u.outcome = k.outcome /\ u.failure = k.failure
        /\ u.reached = TRUE /\ u.snapshot = k.snapshot /\ u.behind = k.behind /\ u.failed = k.failed
    BY <1>2, <2>1 DEF Call
  <2>4. Continues(u, k, hook)
    BY <1>2, <1>3, <1>7, <2>3, Rests DEF Chain
  <2> QED BY <1>1, <2>2, <2>4 DEF Proceeds
<1>8. CASE k.op \in {"Waterfall", "WaterfallQuery"}
  <2>1. PICK u : u = [k EXCEPT !.at = "tail"]
    OBVIOUS
  <2>2. call' = [call EXCEPT ![c] = u]
    BY <1>1, <1>8, <2>1 DEF Exhausted
  <2>3. /\ u \in Call /\ u.op = k.op /\ u.at = "tail" /\ u.nested = k.nested /\ u.hooks = k.hooks
        /\ u.current = k.current /\ u.claimed = k.claimed /\ u.frames = k.frames
        /\ u.failing = k.failing /\ u.outcome = k.outcome /\ u.failure = k.failure
        /\ u.reached = k.reached /\ u.snapshot = k.snapshot /\ u.behind = k.behind /\ u.failed = k.failed
    BY <1>2, <2>1 DEF Call
  <2>4. Layers(u) /\ Blame(u) /\ Lanes(u)
    BY <1>3, <1>8, <2>3 DEF Layers, Blame, Lanes, Chain
  <2>5. Claiming(u) /\ Roles(u, hook) /\ Holds(u) = Holds(k)
    BY <1>2, <1>3, <1>8, <2>3 DEF Calls, Claiming, Roles, Holds
  <2>6. Continues(u, k, hook)
    BY <2>3, <2>4, <2>5 DEF Continues, Calls
  <2> QED BY <1>1, <2>2, <2>6 DEF Proceeds
<1> QED BY <1>2, <1>4, <1>5, <1>6, <1>7, <1>8 DEF Operation, EventOperation

\* A layer of a chain maps, waits, answers or fails.
LEMMA LayerContinues ==
    ASSUME NEW k \in Call, Calls(k, hook), k.at = "invoke", NEW u \in Layer(k)
    PROVE  Continues(u, k, hook)
<1>1. k.current \in Listener /\ k.op # "EmitParallel"
  BY DEF Calls, Claiming, Lanes
<1>2. ASSUME NEW v0 \in Broken(k, k.current)
      PROVE  Continues(v0, k, hook)
  <2>1. PICK f \in Failures(k, k.current) : v0 = [f EXCEPT !.at = "unwind"]
    BY Zenon DEF Broken
  <2>2. /\ f \in Call /\ f.op = k.op /\ f.nested = k.nested /\ f.hooks = <<>>
        /\ f.current = k.current /\ f.claimed = k.claimed /\ f.frames = k.frames
        /\ f.failing = TRUE /\ f.outcome = k.outcome
        /\ f.reached = k.reached /\ f.snapshot = k.snapshot /\ f.behind = k.behind
        /\ f.failure # Nobody /\ \E g \in f.failed : f.failure = NameOf(g)
    <3>1. PICK l \in Listener : l = k.current
      BY <1>1
    <3>2. f \in Failures(k, l)
      BY <3>1
    <3> QED BY <3>2, FailuresTold, ZenonT(60)
  <2>3. PICK v : v = [f EXCEPT !.at = "unwind"]
    OBVIOUS
  <2>4. /\ v \in Call /\ v.at = "unwind" /\ v.op = f.op /\ v.nested = f.nested /\ v.hooks = f.hooks
        /\ v.current = f.current /\ v.claimed = f.claimed /\ v.frames = f.frames
        /\ v.failing = TRUE /\ v.outcome = f.outcome /\ v.failure = f.failure
        /\ v.reached = f.reached /\ v.snapshot = f.snapshot
        /\ v.behind = f.behind /\ v.failed = f.failed
    BY <2>2, <2>3 DEF Call
  <2>5. Told(v.frames, v.failure, v.failed)
    BY <2>2, <2>4 DEF Told
  <2>6. Continues(v, k, hook)
    BY <1>1, <2>2, <2>4, <2>5, UnwindsFrom, ZenonT(60)
  <2> QED BY <2>1, <2>3, <2>6
<1>3. Continues([Discarded(k) EXCEPT !.at = "unwind"], k, hook)
  <2>1. PICK f : f = Discarded(k)
    OBVIOUS
  <2>2. /\ f \in Call /\ f.op = k.op /\ f.nested = k.nested /\ f.hooks = <<>>
        /\ f.current = k.current /\ f.claimed = k.claimed /\ f.frames = k.frames
        /\ f.failing = k.failing /\ f.outcome = k.outcome /\ f.failure = k.failure
        /\ f.reached = k.reached /\ f.snapshot = k.snapshot
        /\ f.behind = k.behind /\ f.failed = k.failed
    BY <1>1, <2>1, DiscardedFields
  <2>3. PICK v : v = [f EXCEPT !.at = "unwind"]
    OBVIOUS
  <2>4. /\ v \in Call /\ v.at = "unwind" /\ v.op = f.op /\ v.nested = f.nested /\ v.hooks = f.hooks
        /\ v.current = f.current /\ v.claimed = f.claimed /\ v.frames = f.frames
        /\ v.failing = f.failing /\ v.outcome = f.outcome /\ v.failure = f.failure
        /\ v.reached = f.reached /\ v.snapshot = f.snapshot
        /\ v.behind = f.behind /\ v.failed = f.failed
    BY <2>2, <2>3 DEF Call
  <2>5. k.failing = FALSE
    BY DEF Calls, Blame, Call
  <2>6. Continues(v, k, hook)
    BY <1>1, <2>2, <2>4, <2>5, UnwindsFrom
  <2> QED BY <2>1, <2>3, <2>6
<1>4. Continues(Passed(k), k, hook) /\ Continues([Passed(k) EXCEPT !.frames = Append(@, k.current)], k, hook)
  BY PassesOn, FrameWaits
<1>5. \/ u = Passed(k) \/ u = [Passed(k) EXCEPT !.frames = Append(@, k.current)]
      \/ u = [Discarded(k) EXCEPT !.at = "unwind"] \/ u \in Broken(k, k.current)
  BY Zenon DEF Layer, Mapped, Around
<1> QED BY <1>2, <1>3, <1>4, <1>5, Zenon

LEMMA InvokeProceeds ==
    ASSUME EInv, NEW c \in Caller, Invoke(c) \/ InvokePolicy(c)
    PROVE  Proceeds(c)
<1>1. PICK k : k = call[c]
  OBVIOUS
<1>2. k \in Call /\ Calls(k, hook) /\ k.at = "invoke"
  BY <1>1 DEF EInv, CInv, Invoke, InvokePolicy
<1>3. /\ k.outcome = "none" /\ k.current \in Listener
      /\ k.op # "EmitParallel" /\ k.claimed = <<>>
      /\ k.nested \/ k.reached => Range(k.snapshot) \subseteq k.behind
  BY <1>2 DEF Calls, Blame, Layers, Claiming, Lanes
<1>4. PICK u : /\ call' = [call EXCEPT ![c] = u]
               /\ \/ u \in Layer(k)
                  \/ k.op \in {"Emit", "Query"} /\ u \in Notified(k) \cup Answered(k) \cup Refused(k)
  <2>1. CASE InvokePolicy(c)
    BY <1>1, <2>1, Zenon DEF InvokePolicy
  <2>2. CASE Invoke(c)
    <3>1. PICK u \in (IF k.op \in {"Emit", "Query"} THEN Notified(k) \cup Answered(k) \cup Refused(k) ELSE Layer(k)) :
            call' = [call EXCEPT ![c] = u]
      BY <1>1, <2>2, Zenon DEF Invoke
    <3> QED BY <3>1, Zenon
  <2> QED BY <2>1, <2>2
<1>5. Continues(u, k, hook)
  <2>1. CASE u \in Layer(k)
    BY <1>2, <2>1, LayerContinues
  <2>2. CASE u \in Notified(k)
    <3>1. u = Passed(k)
      BY <2>2, Zenon DEF Notified
    <3> QED BY <1>2, <3>1, PassesOn
  <2>3. CASE u \in Answered(k)
    <3>1. u = QueryEnds(Discarded(k), "Answered")
      BY <2>3, Zenon DEF Answered
    <3>2. PICK f : f = Discarded(k)
      OBVIOUS
    <3>3. /\ f \in Call /\ f.nested = k.nested /\ f.hooks = <<>>
          /\ f.current = k.current /\ f.claimed = k.claimed /\ f.frames = k.frames
          /\ f.outcome = k.outcome /\ f.reached = k.reached /\ f.snapshot = k.snapshot /\ f.behind = k.behind
      BY <1>2, <3>2, DiscardedFields
    <3>4. "Answered" \in Outcome \ {"Parallel", "Accepted"}
      BY DEF Outcome
    <3>5. Continues(QueryEnds(f, "Answered"), k, hook)
      BY <1>2, <1>3, <3>3, <3>4, QueryEndsOn, EmptyRange
    <3> QED BY <3>1, <3>2, <3>5
  <2>4. CASE u \in Refused(k)
    <3>1. PICK f \in Failures(k, k.current) : u = QueryEnds(f, "Invocation") \/ u = Finish(f, "Invocation")
      BY <2>4, Zenon DEF Refused
    <3>3. /\ f \in Call /\ f.nested = k.nested /\ f.hooks = <<>>
          /\ f.current = k.current /\ f.claimed = k.claimed /\ f.frames = k.frames
          /\ f.outcome = k.outcome /\ f.reached = k.reached /\ f.snapshot = k.snapshot /\ f.behind = k.behind
          /\ \E g \in f.failed : f.failure = NameOf(g)
      <4>1. PICK l \in Listener : l = k.current
        BY <1>3
      <4>2. f \in Failures(k, l)
        BY <4>1
      <4> QED BY <1>2, <4>2, FailuresTold, ZenonT(60)
    <3>4. "Invocation" \in Outcome \ {"Parallel", "Accepted"}
      BY DEF Outcome
    <3>6. Continues(QueryEnds(f, "Invocation"), k, hook)
      <4>1. /\ f.nested \/ f.reached => Range(f.snapshot) \subseteq f.behind
            /\ f.outcome = "none" /\ f.claimed = <<>> /\ Range(f.hooks) \subseteq Range(k.hooks)
            /\ Range(f.frames) \subseteq Range(k.frames) /\ f.current \in {k.current, Nobody}
        BY <1>3, <3>3, EmptyRange
      <4> QED BY <1>2, <3>3, <3>4, <4>1, QueryEndsOn
    <3>7. Continues(Finish(f, "Invocation"), k, hook)
      BY <1>2, <1>3, <3>3, <3>4, Ends
    <3> QED BY <3>1, <3>6, <3>7
  <2> QED BY <1>4, <2>1, <2>2, <2>3, <2>4
<1> QED BY <1>1, <1>4, <1>5 DEF Proceeds

LEMMA FrontRange ==
    ASSUME NEW S, NEW s \in Seq(S), s # <<>>
    PROVE  Front(s) \in Seq(S) /\ Range(Front(s)) \subseteq Range(s) /\ Last(s) \in S
<1>1. Len(s) \in Nat /\ Len(s) # 0 /\ Len(s) \in 1..Len(s) /\ Len(s) - 1 \in Nat
  OBVIOUS
<1>2. PICK n \in Nat : n = Len(s) - 1
  BY <1>1
<1>3. PICK r : r = SubSeq(s, 1, n)
  OBVIOUS
<1>4. r \in Seq(S) /\ Len(r) = n /\ \A i \in 1..n : r[i] = s[i] /\ i \in 1..Len(s)
  BY <1>1, <1>2, <1>3
<1>5. Front(s) = r /\ Last(s) = s[Len(s)]
  BY <1>2, <1>3 DEF Front, Last
<1>6. Range(r) \subseteq Range(s)
  <2>1. \A x \in Range(r) : \E i \in 1..n : x = r[i]
    BY <1>4, RangeIs
  <2>2. \A i \in 1..Len(s) : s[i] \in Range(s)
    BY RangeIs
  <2> QED BY <1>4, <2>1, <2>2
<1> QED BY <1>1, <1>4, <1>5, <1>6

LEMMA RunTailProceeds ==
    ASSUME EInv, NEW c \in Caller, RunTail(c)
    PROVE  Proceeds(c)
<1>1. PICK k : k = call[c]
  OBVIOUS
<1>2. k \in Call /\ Calls(k, hook) /\ k.at \in {"tail", "resolve"}
  BY <1>1 DEF EInv, CInv, RunTail
<1>3. k.op # "EmitParallel" /\ k.failing = FALSE /\ k.frames \in Seq(Listener)
  BY <1>2 DEF Calls, Blame, Lanes, Call
<1>4. PICK ran : ran = [k EXCEPT !.at = "unwind", !.reached = TRUE]
  OBVIOUS
<1>5. /\ ran \in Call /\ ran.op = k.op /\ ran.at = "unwind" /\ ran.nested = k.nested /\ ran.hooks = k.hooks
      /\ ran.current = k.current /\ ran.claimed = k.claimed /\ ran.frames = k.frames
      /\ ran.failing = k.failing /\ ran.outcome = k.outcome /\ ran.failure = k.failure
      /\ ran.reached = TRUE /\ ran.snapshot = k.snapshot /\ ran.behind = k.behind /\ ran.failed = k.failed
  BY <1>2, <1>4 DEF Call
<1>6. PICK u : call' = [call EXCEPT ![c] = u] /\ (u = ran \/ u = Failing(ran, Innermost(k.frames), Nobody))
  <2>1. PICK u \in {ran, Failing(ran, Innermost(k.frames), Nobody)} : call' = [call EXCEPT ![c] = u]
    BY <1>1, <1>4, Zenon DEF RunTail
  <2> QED BY <2>1, Zenon
<1>7. Continues(ran, k, hook)
  BY <1>2, <1>3, <1>5, UnwindsFrom
<1>8. Continues(Failing(ran, Innermost(k.frames), Nobody), k, hook)
  <2>0. PICK l \in Listener \cup {Nobody} : l = Innermost(k.frames)
    <3>1. k.frames # <<>> => Last(k.frames) \in Listener
      BY <1>3, FrontRange
    <3> QED BY <3>1 DEF Innermost
  <2>1. PICK f : f = Failing(ran, l, Nobody)
    OBVIOUS
  <2>2. /\ f \in Call /\ f.op = ran.op /\ f.at = ran.at /\ f.nested = ran.nested /\ f.hooks = <<>>
        /\ f.current = ran.current /\ f.claimed = ran.claimed /\ f.frames = ran.frames
        /\ f.outcome = ran.outcome /\ f.failure = Nobody
        /\ f.reached = ran.reached /\ f.snapshot = ran.snapshot
        /\ f.behind = ran.behind /\ f.failed = {[by |-> l, as |-> Nobody]}
    <3>1. Nobody \in Name
      BY DEF Name
    <3>2. Raises(f, ran, l, Nobody)
      BY <1>5, <2>1, <3>1, FailingFields
    <3> QED BY <3>2 DEF Raises
  <2>3. Told(f.frames, f.failure, f.failed)
    BY <1>5, <2>0, <2>2 DEF Told
  <2>4. Continues(f, k, hook)
    BY <1>2, <1>3, <1>5, <2>2, <2>3, UnwindsFrom
  <2> QED BY <2>0, <2>1, <2>4
<1> QED BY <1>1, <1>6, <1>7, <1>8 DEF Proceeds

LEMMA ReturnedContinues ==
    ASSUME NEW k \in Call, Calls(k, hook), k.at = "unwind", k.frames # <<>>, NEW u \in Returned(k)
    PROVE  Continues(u, k, hook)
<1>1. /\ k.op # "EmitParallel" /\ k.claimed = <<>> /\ k.outcome = "none"
      /\ k.nested \/ k.reached => Range(k.snapshot) \subseteq k.behind
      /\ k.failing => Told(k.frames, k.failure, k.failed)
      /\ k.frames \in Seq(Listener)
  BY DEF Calls, Lanes, Claiming, Blame, Layers, Call
<1>2. PICK f : f = Front(k.frames)
  OBVIOUS
<1>3. PICK l : l = Last(k.frames)
  OBVIOUS
<1>4. f \in Seq(Listener) /\ Range(f) \subseteq Range(k.frames) /\ l \in Listener
  BY <1>1, <1>2, <1>3, FrontRange
<1>5. PICK out : out = [k EXCEPT !.frames = f]
  OBVIOUS
<1>6. /\ out \in Call /\ out.op = k.op /\ out.at = k.at /\ out.nested = k.nested /\ out.hooks = k.hooks
      /\ out.current = k.current /\ out.claimed = k.claimed /\ out.frames = f
      /\ out.failing = k.failing /\ out.outcome = k.outcome /\ out.failure = k.failure
      /\ out.reached = k.reached /\ out.snapshot = k.snapshot /\ out.behind = k.behind /\ out.failed = k.failed
  BY <1>4, <1>5 DEF Call
<1>7. \/ u = Recovered(out)
      \/ u \in Failures(out, l)
      \/ k.failing /\ u = [out EXCEPT !.failure = Correlated(k, l)]
  <2>1. out = [k EXCEPT !.frames = Front(@)]
    BY <1>2, <1>5
  <2> QED BY <1>3, <2>1, Zenon DEF Returned
<1>8. CASE u = Recovered(out)
  <2>1. /\ u \in Call /\ u.op = out.op /\ u.at = out.at /\ u.nested = out.nested /\ u.hooks = out.hooks
        /\ u.current = out.current /\ u.claimed = out.claimed /\ u.frames = out.frames
        /\ u.failing = FALSE /\ u.outcome = out.outcome
        /\ u.reached = out.reached /\ u.snapshot = out.snapshot /\ u.behind = out.behind
    BY <1>6, <1>8, RecoveredFields
  <2> QED BY <1>1, <1>4, <1>6, <2>1, Rests
<1>9. CASE u \in Failures(out, l)
  <2>1. /\ u \in Call /\ u.op = out.op /\ u.at = out.at /\ u.nested = out.nested /\ u.hooks = <<>>
        /\ u.current = out.current /\ u.claimed = out.claimed /\ u.frames = out.frames
        /\ u.outcome = out.outcome /\ u.reached = out.reached /\ u.snapshot = out.snapshot
        /\ u.behind = out.behind
        /\ u.failure # Nobody /\ \E g \in u.failed : u.failure = NameOf(g)
    BY <1>4, <1>6, <1>9, FailuresTold, ZenonT(60)
  <2>2. Told(u.frames, u.failure, u.failed)
    BY <2>1 DEF Told
  <2> QED BY <1>1, <1>4, <1>6, <2>1, <2>2, Rests, EmptyRange
<1>10. CASE k.failing /\ u = [out EXCEPT !.failure = Correlated(k, l)]
  <2>1. PICK m \in Name : m = Correlated(k, l)
    BY <1>4 DEF Correlated, Call, Name
  <2>2. u = [out EXCEPT !.failure = m]
    BY <1>10, <2>1
  <2>3. /\ u \in Call /\ u.op = out.op /\ u.at = out.at /\ u.nested = out.nested /\ u.hooks = out.hooks
        /\ u.current = out.current /\ u.claimed = out.claimed /\ u.frames = out.frames
        /\ u.failing = out.failing /\ u.outcome = out.outcome /\ u.failure = m
        /\ u.reached = out.reached /\ u.snapshot = out.snapshot
        /\ u.behind = out.behind /\ u.failed = out.failed
    BY <1>6, <2>2 DEF Call
  <2>4. Told(f, m, k.failed)
    <3>1. l # Nobody /\ Innermost(k.frames) = l
      BY <1>3, <1>4, BoundAssumption DEF Innermost, Listener, Nobody
    <3> QED BY <1>1, <1>10, <2>1, <3>1 DEF Correlated, Told, NameOf
  <2> QED BY <1>1, <1>4, <1>6, <2>3, <2>4, Rests
<1> QED BY <1>7, <1>8, <1>9, <1>10

LEMMA UnwindProceeds ==
    ASSUME EInv, NEW c \in Caller, Unwind(c)
    PROVE  Proceeds(c)
<1>1. PICK k : k = call[c]
  OBVIOUS
<1>2. k \in Call /\ Calls(k, hook) /\ k.at = "unwind"
  BY <1>1 DEF EInv, CInv, Unwind
<1>3. /\ k.reached => Range(k.snapshot) \subseteq k.behind
      /\ k.failing => Told(k.frames, k.failure, k.failed)
  BY <1>2 DEF Calls, Blame, Layers
<1>4. PICK u \in (IF k.frames = <<>> THEN {Finish(k, Verdict(k))} ELSE Returned(k)) :
        call' = [call EXCEPT ![c] = u]
  BY <1>1, Zenon DEF Unwind
<1>5. CASE k.frames = <<>>
  <2>1. u = Finish(k, Verdict(k))
    BY <1>4, <1>5, Zenon
  <2>2. PICK o : o = Verdict(k)
    OBVIOUS
  <2>3. /\ o \in Outcome \ {"Parallel"} /\ (o = "Accepted" => k.reached)
        /\ (o = "Invocation" => k.failing)
    BY <2>2 DEF Verdict, Outcome
  <2>4. k.failing => \E f \in k.failed : k.failure = NameOf(f)
    BY <1>3, <1>5 DEF Told, NameOf, Innermost
  <2>5. Continues(Finish(k, o), k, hook)
    BY <1>2, <1>3, <2>3, <2>4, Ends
  <2> QED BY <1>1, <1>4, <2>1, <2>2, <2>5 DEF Proceeds
<1>6. CASE k.frames # <<>>
  <2>1. u \in Returned(k)
    BY <1>4, <1>6, Zenon
  <2>2. Continues(u, k, hook)
    BY <1>2, <1>6, <2>1, ReturnedContinues
  <2> QED BY <1>1, <1>4, <2>2 DEF Proceeds
<1> QED BY <1>5, <1>6

LEMMA DropProceeds ==
    ASSUME EInv, NEW c \in Caller, Drop(c)
    PROVE  Proceeds(c)
<1>1. PICK k : k = call[c]
  OBVIOUS
<1>2. k \in Call /\ Calls(k, hook) /\ k.at \in {"invoke", "join", "tail", "resolve", "unwind"}
  BY <1>1 DEF EInv, CInv, Drop
<1>3. /\ k.outcome = "none"
      /\ k.nested \/ k.reached => Range(k.snapshot) \subseteq k.behind
  BY <1>2 DEF Calls, Blame, Layers
<1>4. PICK f : f = Discarded(k)
  OBVIOUS
<1>5. /\ f \in Call /\ f.nested = k.nested /\ f.hooks = <<>>
      /\ f.failing = k.failing /\ f.outcome = k.outcome /\ f.failure = k.failure
      /\ f.reached = k.reached /\ f.snapshot = k.snapshot
      /\ f.behind = k.behind /\ f.failed = k.failed
  BY <1>2, <1>4, DiscardedFields
<1>6. PICK u : u = [f EXCEPT !.at = "dropped", !.current = Nobody, !.claimed = <<>>,
                             !.running = {}, !.frames = <<>>]
  OBVIOUS
<1>7. /\ u \in Call /\ u.at = "dropped" /\ u.nested = f.nested /\ u.hooks = f.hooks
      /\ u.current = Nobody /\ u.claimed = <<>> /\ u.frames = <<>>
      /\ u.failing = f.failing /\ u.outcome = f.outcome /\ u.failure = f.failure
      /\ u.reached = f.reached /\ u.snapshot = f.snapshot
      /\ u.behind = f.behind /\ u.failed = f.failed
  <2>1. <<>> \in Seq(Listener) /\ {} \in SUBSET Listener /\ Nobody \in Listener \cup {Nobody}
    OBVIOUS
  <2> QED BY <1>5, <1>6, <2>1 DEF Call
<1>8. Continues(u, k, hook)
  BY <1>2, <1>3, <1>5, <1>7, Rests, EmptyRange
<1>9. call' = [call EXCEPT ![c] = u]
  BY <1>1, <1>4, <1>6 DEF Drop
<1> QED BY <1>1, <1>8, <1>9 DEF Proceeds

LEMMA IdleIsFine == ASSUME NEW h PROVE Calls(Idle, h) /\ Holds(Idle) = {Nobody}
<1>1. PICK u : u = Idle
  OBVIOUS
<1>2. /\ u.op = "Emit" /\ u.at = "idle" /\ u.nested = FALSE /\ u.hooks = <<>>
      /\ u.current = Nobody /\ u.claimed = <<>> /\ u.frames = <<>> /\ u.failing = FALSE
      /\ u.outcome = "none" /\ u.reached = FALSE
  BY <1>1, IdleFields
<1>3. Layers(u) /\ Blame(u) /\ Lanes(u) /\ Claiming(u)
  BY <1>2 DEF Layers, Blame, Lanes, Claiming, Chain
<1>4. Roles(u, h) /\ Holds(u) = {Nobody}
  BY <1>2, EmptyRange DEF Roles, Holds
<1> QED BY <1>1, <1>3, <1>4 DEF Calls

LEMMA ReturnProceeds ==
    ASSUME EInv, NEW c \in Caller, Return(c)
    PROVE  Proceeds(c)
<1>1. call' = [call EXCEPT ![c] = Idle]
  BY DEF Return
<1>2. Continues(Idle, call[c], hook)
  BY IdleIsFine, IdleType, IdleFields DEF Continues
<1> QED BY <1>1, <1>2 DEF Proceeds

\* A selection of what lies in a sequence lies in it.
LEMMA OnlyEmbeds ==
    ASSUME NEW S, NEW s \in Seq(S), NEW t \in Seq(S), NEW p, Embeds(s, t, p), NEW T
    PROVE  Embeds(Only(s, T), t, p)
<1> DEFINE o == Only(s, T)
<1>2. /\ o \in Seq(S) /\ Range(o) = Range(s) \cap T
      /\ \A i, j \in 1..Len(o) : i < j => \E m, n \in 1..Len(s) : m < n /\ s[m] = o[i] /\ s[n] = o[j]
  BY OnlyKeeps
<1> HIDE DEF o
<1>3. DOMAIN o = 1..Len(o) /\ DOMAIN s = 1..Len(s)
  BY <1>2
<1>4. \A i \in DOMAIN o : \E j \in DOMAIN s : s[j] = o[i]
  <2>1. \A i \in 1..Len(o) : o[i] \in Range(o)
    BY <1>2, RangeIs
  <2>2. \A x \in Range(s) : \E i \in 1..Len(s) : x = s[i]
    BY RangeIs
  <2>3. Range(o) \subseteq Range(s)
    BY <1>2
  <2> QED BY <1>3, <2>1, <2>2, <2>3
<1>5. \A i \in DOMAIN o : \E m \in DOMAIN t : m <= p /\ t[m] = o[i]
  BY <1>4 DEF Embeds
<1>6. ASSUME NEW i \in DOMAIN o, NEW j \in DOMAIN o, i < j
      PROVE  \E m, n \in DOMAIN t : m < n /\ n <= p /\ t[m] = o[i] /\ t[n] = o[j]
  <2>0. \E m, n \in 1..Len(s) : m < n /\ s[m] = o[i] /\ s[n] = o[j]
    BY <1>2, <1>3, <1>6
  <2>1. PICK m \in DOMAIN s, n \in DOMAIN s : m < n /\ s[m] = o[i] /\ s[n] = o[j]
    BY <1>3, <2>0
  <2>2. \E a, b \in DOMAIN t : a < b /\ b <= p /\ t[a] = s[m] /\ t[b] = s[n]
    BY <2>1 DEF Embeds
  <2> QED BY <2>1, <2>2
<1>7. Embeds(o, t, p)
  BY <1>5, <1>6 DEF Embeds
<1> QED BY <1>7 DEF o

\* The failures of a parallel notification are reported in effective order.
LEMMA FailuresInOrder ==
    ASSUME NEW k \in Call, k.failed # {}, Distinct(k.snapshot), Authors(k) \subseteq Range(k.claimed),
           \A f, g \in k.failed : f.by = g.by => f = g,
           Embeds(k.claimed, k.snapshot, Len(k.snapshot))
    PROVE  ParallelFailures(k) \in Seq(Name) /\ InOrder(ParallelFailures(k), k.snapshot, k.failed)
<1> DEFINE of(a) == CHOOSE f \in k.failed : f.by = a
           a == Only(k.claimed, Authors(k))
<1>1. k.claimed \in Seq(Listener) /\ k.snapshot \in Seq(Listener) /\ k.failed \in SUBSET Raised
  BY DEF Call
<1>2. a \in Seq(Listener) /\ Range(a) = Authors(k) /\ Embeds(a, k.snapshot, Len(k.snapshot))
  <2>1. PICK s \in Seq(Listener) : s = k.claimed
    BY <1>1
  <2>2. Only(s, Authors(k)) \in Seq(Listener) /\ Range(Only(s, Authors(k))) = Range(s) \cap Authors(k)
    BY OnlyKeeps
  <2>3. Embeds(Only(s, Authors(k)), k.snapshot, Len(k.snapshot))
    BY <1>1, <2>1, OnlyEmbeds
  <2> QED BY <2>1, <2>2, <2>3
<1>3. PICK r : r = ParallelFailures(k)
  OBVIOUS
<1>4. r = [i \in DOMAIN a |-> of(a[i]).as]
  BY <1>3 DEF ParallelFailures
<1> HIDE DEF a
<1>5. DOMAIN a = 1..Len(a) /\ Len(a) \in Nat /\ \A i \in DOMAIN a : a[i] \in Authors(k)
  BY <1>2, RangeIs
<1>6. \A x \in Authors(k) : /\ of(x) \in k.failed /\ of(x).by = x /\ of(x) \in Raised
                            /\ of(x) = [by |-> x, as |-> of(x).as] /\ of(x).as \in Name
  <2>1. ASSUME NEW x \in Authors(k)
        PROVE  of(x) \in k.failed /\ of(x).by = x
    BY <2>1 DEF Authors
  <2>2. \A f \in Raised : f = [by |-> f.by, as |-> f.as] /\ f.as \in Name
    BY DEF Raised
  <2> HIDE DEF of
  <2> QED BY <1>1, <2>1, <2>2
<1>7. \A f \in k.failed : f.by \in Authors(k) /\ of(f.by) = f
  <2>1. \A f \in k.failed : f.by \in Authors(k)
    BY DEF Authors
  <2> HIDE DEF of
  <2> QED BY <1>6, <2>1
<1> HIDE DEF of
<1>8. r \in Seq(Name)
  BY <1>4, <1>5, <1>6
<1>9. DOMAIN r = DOMAIN a /\ \A i \in DOMAIN a : r[i] = of(a[i]).as
  BY <1>4
<1>10. r # <<>>
  <2>1. PICK f \in k.failed : TRUE
    OBVIOUS
  <2>2. f.by \in Range(a)
    BY <1>2, <1>7
  <2>3. \E i \in 1..Len(a) : f.by = a[i]
    BY <1>2, <2>2, RangeIs
  <2> QED BY <1>5, <1>9, <2>3
<1> DEFINE place == [i \in DOMAIN a |-> CHOOSE m \in DOMAIN k.snapshot : k.snapshot[m] = a[i]]
<1>11. place \in [DOMAIN r -> DOMAIN k.snapshot] /\ \A i \in DOMAIN a : k.snapshot[place[i]] = a[i]
  <2>1. \A i \in DOMAIN a : \E m \in DOMAIN k.snapshot : k.snapshot[m] = a[i]
    BY <1>2 DEF Embeds
  <2> QED BY <1>9, <2>1
<1>12. \A i \in DOMAIN a : place[i] \in DOMAIN k.snapshot
  BY <1>9, <1>11
<1> HIDE DEF place
<1>13. \A i, j \in DOMAIN a : i < j => place[i] < place[j]
  <2>1. ASSUME NEW i \in DOMAIN a, NEW j \in DOMAIN a, i < j
        PROVE  place[i] < place[j]
    <3>1. \E m, n \in DOMAIN k.snapshot : m < n /\ k.snapshot[m] = a[i] /\ k.snapshot[n] = a[j]
      BY <1>2, <2>1 DEF Embeds
    <3>2. PICK m \in DOMAIN k.snapshot, n \in DOMAIN k.snapshot :
            m < n /\ k.snapshot[m] = a[i] /\ k.snapshot[n] = a[j]
      BY <3>1
    <3>3. place[i] = m /\ place[j] = n
      BY <1>11, <1>12, <3>2 DEF Distinct
    <3> QED BY <3>2, <3>3
  <2> QED BY <2>1
<1>14. k.failed = {[by |-> k.snapshot[place[i]], as |-> r[i]] : i \in DOMAIN place}
  <2>0. DOMAIN place = DOMAIN a
    BY <1>9, <1>11
  <2>1. ASSUME NEW f \in k.failed
        PROVE  \E i \in DOMAIN place : f = [by |-> k.snapshot[place[i]], as |-> r[i]]
    <3>1. \E i \in 1..Len(a) : f.by = a[i]
      BY <1>2, <1>7, RangeIs
    <3>2. PICK i \in DOMAIN a : f.by = a[i]
      BY <1>5, <3>1
    <3>3. of(a[i]) = f /\ f = [by |-> a[i], as |-> f.as]
      BY <1>6, <1>7, <3>2
    <3> QED BY <1>9, <1>11, <2>0, <3>2, <3>3
  <2>2. ASSUME NEW i \in DOMAIN place
        PROVE  [by |-> k.snapshot[place[i]], as |-> r[i]] \in k.failed
    BY <1>5, <1>6, <1>9, <1>11, <2>0
  <2> QED BY <2>1, <2>2
<1>15. \A i, j \in DOMAIN place : i < j => place[i] < place[j]
  BY <1>9, <1>11, <1>13
<1> QED BY <1>3, <1>8, <1>10, <1>11, <1>14, <1>15 DEF InOrder

LEMMA JoinProceeds ==
    ASSUME EInv, NEW c \in Caller, Join(c)
    PROVE  Proceeds(c)
<1>1. PICK k : k = call[c]
  OBVIOUS
<1>2. k \in Call /\ Calls(k, hook) /\ k.at = "join"
  BY <1>1 DEF EInv, CInv, Join
<1>3. /\ k.op = "EmitParallel" /\ k.outcome = "none" /\ k.claimed \in Seq(Listener) /\ k.snapshot \in Seq(Listener)
      /\ k.reached => Range(k.snapshot) \subseteq k.behind
      /\ k.failing = FALSE /\ Distinct(k.snapshot)
      /\ Authors(k) \cup k.running \subseteq Range(k.claimed) /\ Authors(k) \cap k.running = {}
      /\ \A f, g \in k.failed : f.by = g.by => f = g
      /\ Embeds(k.claimed, k.snapshot, Len(k.snapshot))
      /\ k.failed \in SUBSET Raised /\ k.running \in SUBSET Listener
  BY <1>2 DEF Calls, Blame, Layers, Lanes, Call
<1>4. \/ k.failed = {} /\ call' = [call EXCEPT ![c] = Finish(k, "Completed")]
      \/ k.failed # {} /\ call' = [call EXCEPT ![c] = [Finish(k, "Parallel") EXCEPT !.failures = ParallelFailures(k)]]
      \/ \E l \in k.running : \E f \in {{}} \cup {{[by |-> l, as |-> name]} : name \in Names(l)} :
           call' = [call EXCEPT ![c] = [k EXCEPT !.running = @ \ {l}, !.failed = @ \cup f]]
  BY <1>1 DEF Join
<1>5. CASE k.failed = {} /\ call' = [call EXCEPT ![c] = Finish(k, "Completed")]
  <2>1. "Completed" \in Outcome \ {"Parallel"}
    BY DEF Outcome
  <2>2. Continues(Finish(k, "Completed"), k, hook)
    BY <1>2, <1>3, <2>1, Ends
  <2> QED BY <1>1, <1>5, <2>2 DEF Proceeds
<1>6. CASE k.failed # {} /\ call' = [call EXCEPT ![c] = [Finish(k, "Parallel") EXCEPT !.failures = ParallelFailures(k)]]
  <2>1. PICK f \in Seq(Name) : f = ParallelFailures(k) /\ InOrder(f, k.snapshot, k.failed)
    BY <1>2, <1>3, <1>6, FailuresInOrder
  <2>2. PICK v : v = Finish(k, "Parallel")
    OBVIOUS
  <2>3. /\ v \in Call /\ v.op = "Emit" /\ v.at = "done" /\ v.nested = FALSE /\ v.hooks = <<>>
        /\ v.current = Nobody /\ v.claimed = <<>> /\ v.frames = <<>> /\ v.failing = FALSE
        /\ v.outcome = "Parallel" /\ v.reached = k.reached /\ v.snapshot = k.snapshot
        /\ v.behind = k.behind /\ v.failed = k.failed
    <3>1. "Parallel" \in Outcome
      BY DEF Outcome
    <3> QED BY <1>2, <2>2, <3>1, FinishFields
  <2>4. PICK u : u = [v EXCEPT !.failures = f]
    OBVIOUS
  <2>5. /\ u \in Call /\ u.op = "Emit" /\ u.at = "done" /\ u.nested = FALSE /\ u.hooks = <<>>
        /\ u.current = Nobody /\ u.claimed = <<>> /\ u.frames = <<>> /\ u.failing = FALSE
        /\ u.outcome = "Parallel" /\ u.reached = k.reached /\ u.snapshot = k.snapshot
        /\ u.behind = k.behind /\ u.failed = k.failed /\ u.failures = f
    BY <2>3, <2>4, ZenonT(60) DEF Call
  <2>6. Layers(u) /\ Blame(u) /\ Claiming(u)
    BY <1>3, <2>5 DEF Layers, Blame, Claiming, Chain
  <2>7. Lanes(u)
    BY <1>6, <2>1, <2>5 DEF Lanes
  <2>8. Roles(u, hook) /\ Holds(u) = {Nobody}
    BY <2>5, EmptyRange DEF Roles, Holds
  <2>9. Continues(u, k, hook)
    BY <2>5, <2>6, <2>7, <2>8 DEF Continues, Calls
  <2>10. call' = [call EXCEPT ![c] = u]
    BY <1>6, <2>1, <2>2, <2>4
  <2> QED BY <1>1, <2>9, <2>10 DEF Proceeds
<1>7. CASE \E l \in k.running : \E f \in {{}} \cup {{[by |-> l, as |-> name]} : name \in Names(l)} :
             call' = [call EXCEPT ![c] = [k EXCEPT !.running = @ \ {l}, !.failed = @ \cup f]]
  <2>1. PICK l \in k.running : \E f \in {{}} \cup {{[by |-> l, as |-> name]} : name \in Names(l)} :
             call' = [call EXCEPT ![c] = [k EXCEPT !.running = @ \ {l}, !.failed = @ \cup f]]
    BY <1>7
  <2>0. PICK e \in {{}} \cup {{[by |-> l, as |-> name]} : name \in Names(l)} :
             call' = [call EXCEPT ![c] = [k EXCEPT !.running = @ \ {l}, !.failed = @ \cup e]]
    BY <2>1
  <2>2. PICK r \in SUBSET Listener, f \in SUBSET Raised : r = k.running \ {l} /\ f = k.failed \cup e
    <3>1. k.running \ {l} \in SUBSET Listener
      BY <1>3
    <3>2. e \in SUBSET Raised
      BY <1>3, <2>1 DEF Names, Raised, Name
    <3> QED BY <1>3, <3>1, <3>2
  <2>3. PICK u : u = [k EXCEPT !.running = r, !.failed = f]
    OBVIOUS
  <2>4. /\ u \in Call /\ u.op = k.op /\ u.at = "join" /\ u.nested = k.nested /\ u.hooks = k.hooks
        /\ u.current = k.current /\ u.claimed = k.claimed /\ u.frames = k.frames /\ u.running = r
        /\ u.failing = k.failing /\ u.outcome = k.outcome /\ u.failure = k.failure
        /\ u.failures = k.failures /\ u.reached = k.reached /\ u.snapshot = k.snapshot
        /\ u.behind = k.behind /\ u.failed = f
    <3>1. r \in SUBSET Listener /\ f \in SUBSET Raised
      BY <2>2
    <3> QED BY <1>2, <2>3, <3>1 DEF Call
  <2>5. /\ Authors(u) \cup r \subseteq Range(k.claimed) /\ Authors(u) \cap r = {}
        /\ \A x, y \in f : x.by = y.by => x = y
    <3>1. \A x \in k.failed : x.by \in Authors(k)
      BY DEF Authors
    <3>2. e = {} \/ \E n \in Names(l) : e = {[by |-> l, as |-> n]}
      BY <2>0
    <3>3. CASE e = {}
      <4>1. Authors(u) = Authors(k) /\ f = k.failed
        BY <2>2, <2>4, <3>3 DEF Authors
      <4> QED BY <1>3, <2>2, <4>1
    <3>4. CASE \E n \in Names(l) : e = {[by |-> l, as |-> n]}
      <4>1. PICK n \in Names(l) : e = {[by |-> l, as |-> n]}
        BY <3>4
      <4>2. PICK x : x = [by |-> l, as |-> n]
        OBVIOUS
      <4>3. x.by = l /\ f = k.failed \cup {x}
        BY <2>2, <4>1, <4>2
      <4>4. Authors(u) = Authors(k) \cup {l}
        BY <2>4, <4>3 DEF Authors
      <4>5. l \notin Authors(k)
        BY <1>3, <2>1
      <4> QED BY <1>3, <2>1, <2>2, <3>1, <4>3, <4>4, <4>5
    <3> QED BY <3>2, <3>3, <3>4
  <2>6. Lanes(u)
    BY <1>3, <2>4, <2>5 DEF Lanes
  <2>7. Layers(u) /\ Blame(u)
    BY <1>2, <1>3, <2>4, <2>5 DEF Calls, Layers, Blame, Chain
  <2>8. Claiming(u) /\ Roles(u, hook) /\ Holds(u) = Holds(k)
    BY <1>2, <1>3, <2>4 DEF Calls, Claiming, Roles, Holds
  <2>9. Continues(u, k, hook)
    BY <2>4, <2>6, <2>7, <2>8 DEF Continues, Calls
  <2>10. call' = [call EXCEPT ![c] = u]
    BY <2>0, <2>2, <2>3
  <2> QED BY <1>1, <2>9, <2>10 DEF Proceeds
<1> QED BY <1>4, <1>5, <1>6, <1>7

-----------------------------------------------------------------------------
(* Preflights and claims *)

\* A preflight: what is to be claimed is what the store selects.
Starts(c) ==
    \E u : /\ call' = [call EXCEPT ![c] = u]
           /\ u \in Call /\ Calls(u, hook)
           /\ Holds(u) \subseteq Holds(call[c]) \cup {Nobody}
           /\ u.at = "claim" /\ u.hooks = Selected(u.stream, u.routing)

LEMMA SelectedType ==
    ASSUME SInv, NEW s \in Stream, NEW routing
    PROVE  /\ Selected(s, routing) \in Seq(Listener) /\ Range(Selected(s, routing)) \subseteq 1..Len(hook)
           /\ Distinct(Selected(s, routing)) /\ Nobody \notin Range(Selected(s, routing))
<1>1. PICK r : r = Selected(s, routing)
  OBVIOUS
<1>2. r \in Seq(1..Len(hook)) /\ Distinct(r)
  BY <1>1, SelectedIs DEF Sorted
<1>3. 1..Len(hook) \subseteq Listener /\ Nobody \notin 1..Len(hook)
  BY Occurrences DEF Nobody
<1>4. r \in Seq(Listener)
  BY <1>2, <1>3
<1>5. Range(r) \subseteq 1..Len(hook)
  BY <1>2, RangeIs
<1> QED BY <1>1, <1>2, <1>3, <1>4, <1>5

LEMMA StartedIs ==
    ASSUME SInv, NEW r \in Ask, r.op = "WaterfallQuery" => ~HasForeignRole(StartedAs(r))
    PROVE  /\ StartedAs(r) \in Call /\ Calls(StartedAs(r), hook) /\ Holds(StartedAs(r)) = {Nobody}
           /\ StartedAs(r).at = "claim"
           /\ StartedAs(r).hooks = Selected(StartedAs(r).stream, StartedAs(r).routing)
<1>1. /\ r.op \in Operation /\ r.stream \in Stream /\ r.contract \in Contract \cup {Unbound}
      /\ r.routing \in Scope \cup {Root, "Unscoped", Foreign}
  BY DEF Ask
<1>2. PICK s : s = Selected(r.stream, r.routing)
  OBVIOUS
<1>3. s \in Seq(Listener) /\ Range(s) \subseteq 1..Len(hook) /\ Distinct(s) /\ Nobody \notin Range(s)
  BY <1>1, <1>2, SelectedType
<1>4. PICK u : u = [Idle EXCEPT !.op = r.op, !.stream = r.stream, !.contract = r.contract,
                                !.at = "claim", !.routing = r.routing, !.hooks = s, !.snapshot = s]
  OBVIOUS
<1>5. u = StartedAs(r)
  BY <1>2, <1>4 DEF StartedAs
<1>6. /\ u \in Call /\ u.op = r.op /\ u.stream = r.stream /\ u.routing = r.routing
      /\ u.at = "claim" /\ u.nested = FALSE /\ u.hooks = s /\ u.current = Nobody /\ u.claimed = <<>>
      /\ u.frames = <<>> /\ u.failing = FALSE /\ u.outcome = "none" /\ u.reached = FALSE
      /\ u.snapshot = s /\ u.failed = {}
  BY <1>1, <1>3, <1>4, IdleType, IdleFields DEF Call
<1>7. Layers(u) /\ Blame(u)
  BY <1>6 DEF Layers, Blame
<1>8. Lanes(u)
  <2>1. Ahead(s, s, 0)
    BY <1>3 DEF Ahead
  <2>2. Embeds(<<>>, s, 0)
    BY EmptyRange DEF Embeds
  <2> QED BY <1>3, <1>6, <2>1, <2>2 DEF Lanes
<1>9. Holds(u) = {Nobody}
  BY <1>6, EmptyRange DEF Holds
<1>10. Claiming(u)
  BY <1>3, <1>6, <1>9 DEF Claiming
<1>11. Roles(u, hook)
  <2>1. Range(u.hooks) \cup Range(u.frames) \cup ({u.current} \ {Nobody}) = Range(s)
    BY <1>6, EmptyRange
  <2>2. ASSUME r.op = "WaterfallQuery"
        PROVE  \A l \in Range(s) : hook[l].role \in {"Mapper", "Around"}
    <3>1. \A i \in DOMAIN s : Compatible(r.op, hook[s[i]].role)
      BY <1>5, <1>6, <2>2 DEF HasForeignRole
    <3>2. \A i \in DOMAIN s : hook[s[i]].role \in {"Mapper", "Around"}
      BY <2>2, <3>1 DEF Compatible
    <3> QED BY <1>3, <3>2, RangeIs
  <2> QED BY <1>3, <1>6, <2>1, <2>2 DEF Roles
<1> QED BY <1>2, <1>5, <1>6, <1>7, <1>8, <1>9, <1>10, <1>11 DEF Calls

LEMMA DispatchMoves ==
    ASSUME EInv, NEW c \in Caller, Dispatch(c)
    PROVE  SInv' /\ (Proceeds(c) \/ Starts(c))
<1>0. SInv /\ Idle \in Call
  BY IdleType DEF EInv
<1>1. PICK r \in Request[c] :
         \/ RefusedAs(c, "ForeignScope") \/ RefusedAs(c, "EventContractMismatch")
         \/ /\ order' = [order EXCEPT ![r.stream] = Compacted(r.stream)]
            /\ call' = [call EXCEPT ![c] = Admitted(StartedAs(r))]
  BY DEF Dispatch
<1>2. UNCHANGED <<entries, hook, journal>>
  BY DEF Dispatch
<1>3. ASSUME NEW o \in Outcome \ {"Parallel", "Accepted", "Invocation"}
      PROVE  Continues(Finish(Idle, o), call[c], hook)
  <2>1. call[c] \in Call /\ Idle.reached = FALSE
    BY IdleFields DEF EInv, CInv
  <2> QED BY <1>0, <2>1, Ends
<1>4. ASSUME NEW o \in Refusal, RefusedAs(c, o)
      PROVE  SInv' /\ Proceeds(c)
  <2>1. o \in Outcome \ {"Parallel", "Accepted", "Invocation"}
    BY DEF Outcome, Refusal
  <2>2. call' = [call EXCEPT ![c] = Finish(Idle, o)] /\ order' = order
    BY <1>4 DEF RefusedAs
  <2>3. SInv'
    BY <1>0, <1>2, <2>2, StoreStays
  <2> QED BY <1>3, <2>1, <2>2, <2>3 DEF Proceeds
<1>5. CASE /\ order' = [order EXCEPT ![r.stream] = Compacted(r.stream)]
           /\ call' = [call EXCEPT ![c] = Admitted(StartedAs(r))]
  <2>1. r \in Ask /\ r.stream \in Stream
    BY RequestAssumption DEF Ask
  <2>2. SInv'
    BY <1>0, <1>2, <1>5, <2>1, CompactionKeeps
  <2>3. CASE HasForeignRole(StartedAs(r))
    <3>1. Admitted(StartedAs(r)) = Finish(Idle, "IncompatibleRole")
      BY <2>3 DEF Admitted
    <3>2. "IncompatibleRole" \in Outcome \ {"Parallel", "Accepted", "Invocation"}
      BY DEF Outcome, Refusal
    <3> QED BY <1>3, <1>5, <2>2, <3>1, <3>2 DEF Proceeds
  <2>4. CASE ~HasForeignRole(StartedAs(r))
    <3>1. PICK u : u = StartedAs(r)
      OBVIOUS
    <3>2. /\ u \in Call /\ Calls(u, hook) /\ Holds(u) = {Nobody}
          /\ u.at = "claim" /\ u.hooks = Selected(u.stream, u.routing)
      BY <1>0, <2>1, <2>4, <3>1, StartedIs
    <3>3. call' = [call EXCEPT ![c] = u]
      BY <1>5, <2>4, <3>1 DEF Admitted
    <3>4. Starts(c)
      BY <3>2, <3>3 DEF Starts
    <3> QED BY <2>2, <3>4
  <2> QED BY <2>3, <2>4
<1> QED BY <1>1, <1>4, <1>5 DEF Refusal

LEMMA ControlMoves ==
    ASSUME EInv, NEW c \in Caller, Control(c)
    PROVE  SInv' /\ Starts(c)
<1>1. PICK r \in Request[c] : r.op = "Update" /\ call' = [call EXCEPT ![c] = StartedAs(r)]
  BY DEF Control
<1>2. SInv /\ SInv'
  BY StoreStays DEF EInv, Control, storeVars
<1>3. r \in Ask
  BY RequestAssumption
<1>4. PICK u : u = StartedAs(r)
  OBVIOUS
<1>5. /\ u \in Call /\ Calls(u, hook) /\ Holds(u) = {Nobody}
      /\ u.at = "claim" /\ u.hooks = Selected(u.stream, u.routing)
  BY <1>1, <1>2, <1>3, <1>4, StartedIs
<1>6. Starts(c)
  BY <1>1, <1>4, <1>5 DEF Starts
<1> QED BY <1>2, <1>6

LEMMA NestedMoves ==
    ASSUME EInv, NEW c \in Caller, NestedQuery(c)
    PROVE  SInv' /\ (Proceeds(c) \/ Starts(c))
<1>1. PICK k : k = call[c]
  OBVIOUS
<1>2. /\ k \in Call /\ Calls(k, hook) /\ k.at = "tail" /\ k.op = "WaterfallQuery" /\ SInv
      /\ UNCHANGED <<entries, hook, journal>>
  BY <1>1 DEF EInv, CInv, NestedQuery
<1>3. /\ k.outcome = "none" /\ k.claimed = <<>> /\ k.current = Nobody
      /\ Range(k.snapshot) \subseteq k.behind
      /\ k.failing = FALSE
      /\ Range(k.frames) \subseteq 1..Len(hook)
      /\ \A l \in Range(k.frames) : hook[l].role \in {"Mapper", "Around"}
  BY <1>2 DEF Call, Calls, Blame, Layers, Claiming, Roles
<1>4. PICK q, asked :
        /\ q \in Event
        /\ asked = [k EXCEPT !.op = "Query", !.stream = q, !.nested = TRUE,
                             !.at = "claim", !.hooks = Selected(q, k.routing)]
        /\ \/ /\ order' = [order EXCEPT ![q] = Compacted(q)]
              /\ call' = [call EXCEPT ![c] =
                   IF HasForeignRole(asked)
                   THEN QueryEnds(Discarded(asked), "IncompatibleRole") ELSE asked]
           \/ call' = [call EXCEPT ![c] = [k EXCEPT !.at = "resolve"]] /\ order' = order
  BY <1>1 DEF NestedQuery
<1>5. PICK s : s = Selected(q, k.routing)
  OBVIOUS
<1>6. q \in Stream /\ s \in Seq(Listener) /\ Range(s) \subseteq 1..Len(hook) /\ Distinct(s) /\ Nobody \notin Range(s)
  <2>1. q \in Stream
    BY <1>4 DEF Stream
  <2> QED BY <1>2, <1>5, <2>1, SelectedType
<1>7. asked = [k EXCEPT !.op = "Query", !.stream = q, !.nested = TRUE, !.at = "claim", !.hooks = s]
  BY <1>4, <1>5
<1>8. /\ asked \in Call /\ asked.op = "Query" /\ asked.stream = q /\ asked.nested = TRUE
      /\ asked.at = "claim" /\ asked.hooks = s /\ asked.routing = k.routing
      /\ asked.current = k.current /\ asked.claimed = k.claimed /\ asked.frames = k.frames
      /\ asked.failing = k.failing /\ asked.outcome = k.outcome /\ asked.failure = k.failure
      /\ asked.reached = k.reached /\ asked.snapshot = k.snapshot
      /\ asked.behind = k.behind /\ asked.failed = k.failed
  <2>1. "Query" \in Operation
    BY DEF Operation, EventOperation
  <2> QED BY <1>2, <1>6, <1>7, <2>1 DEF Call
<1>9. CASE call' = [call EXCEPT ![c] = [k EXCEPT !.at = "resolve"]] /\ order' = order
  <2>1. SInv'
    BY <1>2, <1>9, StoreStays
  <2>2. PICK u : u = [k EXCEPT !.at = "resolve"]
    OBVIOUS
  <2>3. /\ u \in Call /\ u.op = k.op /\ u.at = "resolve" /\ u.nested = k.nested /\ u.hooks = k.hooks
        /\ u.current = k.current /\ u.claimed = k.claimed /\ u.frames = k.frames
        /\ u.failing = k.failing /\ u.outcome = k.outcome /\ u.failure = k.failure
        /\ u.reached = k.reached /\ u.snapshot = k.snapshot /\ u.behind = k.behind /\ u.failed = k.failed
    BY <1>2, <2>2 DEF Call
  <2>4. Continues(u, k, hook)
    BY <1>2, <1>3, <2>3, Rests
  <2> QED BY <1>1, <1>9, <2>1, <2>2, <2>4 DEF Proceeds
<1>10. CASE /\ order' = [order EXCEPT ![q] = Compacted(q)]
            /\ call' = [call EXCEPT ![c] =
                   IF HasForeignRole(asked)
                   THEN QueryEnds(Discarded(asked), "IncompatibleRole") ELSE asked]
  <2>1. SInv'
    BY <1>2, <1>6, <1>10, CompactionKeeps
  <2>2. CASE HasForeignRole(asked)
    <3>1. PICK j : j = Discarded(asked)
      OBVIOUS
    <3>2. /\ j \in Call /\ j.nested = asked.nested /\ j.hooks = <<>>
          /\ j.current = asked.current /\ j.claimed = asked.claimed /\ j.frames = asked.frames
          /\ j.outcome = asked.outcome /\ j.reached = asked.reached
          /\ j.snapshot = asked.snapshot /\ j.behind = asked.behind
      BY <1>8, <3>1, DiscardedFields
    <3>3. "IncompatibleRole" \in Outcome \ {"Parallel", "Accepted"}
      BY DEF Outcome, Refusal
    <3>4. Continues(QueryEnds(j, "IncompatibleRole"), k, hook)
      <4>1. /\ j.nested \/ j.reached => Range(j.snapshot) \subseteq j.behind
            /\ j.outcome = "none" /\ j.claimed = <<>> /\ Range(j.hooks) \subseteq Range(k.hooks)
            /\ Range(j.frames) \subseteq Range(k.frames) /\ j.current \in {k.current, Nobody}
        BY <1>3, <1>8, <3>2, EmptyRange
      <4> QED BY <1>2, <3>2, <3>3, <4>1, QueryEndsOn
    <3>5. Proceeds(c)
      BY <1>1, <1>10, <2>2, <3>1, <3>4 DEF Proceeds
    <3> QED BY <2>1, <3>5
  <2>3. CASE ~HasForeignRole(asked)
    <3>1. \A l \in Range(s) : hook[l].role \in {"Observer", "Responder"}
      <4>1. \A i \in DOMAIN s : Compatible("Query", hook[s[i]].role)
        BY <1>8, <2>3 DEF HasForeignRole
      <4>2. \A i \in DOMAIN s : hook[s[i]].role \in {"Observer", "Responder"}
        BY <4>1 DEF Compatible
      <4> QED BY <1>6, <4>2, RangeIs
    <3>2. Range(s) \cap Range(k.frames) = {}
      BY <1>3, <3>1
    <3>3. Holds(asked) = {Nobody} \cup Range(k.frames) /\ Holds(asked) = Holds(k)
      BY <1>3, <1>8, EmptyRange DEF Holds
    <3>4. Claiming(asked)
      BY <1>3, <1>6, <1>8, <3>2, <3>3 DEF Claiming
    <3>5. Layers(asked) /\ Blame(asked) /\ Lanes(asked)
      BY <1>3, <1>8 DEF Layers, Blame, Lanes, Chain
    <3>6. Roles(asked, hook)
      BY <1>3, <1>6, <1>8 DEF Roles
    <3>7. call' = [call EXCEPT ![c] = asked]
      BY <1>10, <2>3
    <3>8. Calls(asked, hook) /\ asked.hooks = Selected(asked.stream, asked.routing)
      BY <1>5, <1>8, <3>4, <3>5, <3>6 DEF Calls
    <3>9. Starts(c)
      BY <1>1, <1>8, <3>3, <3>7, <3>8 DEF Starts
    <3> QED BY <2>1, <3>9
  <2> QED BY <2>2, <2>3
<1> QED BY <1>4, <1>9, <1>10

\* The next hook leaves what is to be claimed.
LEMMA TailDistinct ==
    ASSUME NEW S, NEW s \in Seq(S), s # <<>>, Distinct(s)
    PROVE  Distinct(Tail(s)) /\ Head(s) \notin Range(Tail(s))
<1> DEFINE r == Tail(s)
<1>1. /\ r \in Seq(S) /\ Len(s) = Len(r) + 1 /\ Head(s) = s[1]
      /\ \A i \in 1..Len(r) : r[i] = s[i + 1]
  BY TailRange
<1> HIDE DEF r
<1>2. /\ DOMAIN s = 1..Len(s) /\ DOMAIN r = 1..Len(r) /\ Len(r) \in Nat /\ 1 \in DOMAIN s
      /\ \A i \in 1..Len(r) : i + 1 \in DOMAIN s /\ i + 1 # 1
  BY <1>1
<1>3. Distinct(r)
  <2>1. ASSUME NEW i \in 1..Len(r), NEW j \in 1..Len(r), i # j
        PROVE  r[i] # r[j]
    <3>1. i + 1 \in DOMAIN s /\ j + 1 \in DOMAIN s /\ i + 1 # j + 1
      BY <1>2, <2>1
    <3> QED BY <1>1, <3>1 DEF Distinct
  <2> QED BY <1>2, <2>1 DEF Distinct
<1>4. \A i \in 1..Len(r) : r[i] # s[1]
  BY <1>1, <1>2 DEF Distinct
<1>5. s[1] \notin Range(r)
  BY <1>1, <1>4, RangeIs
<1> QED BY <1>1, <1>3, <1>5 DEF r

LEMMA TailAhead ==
    ASSUME NEW S, NEW s \in Seq(S), s # <<>>, NEW t \in Seq(S), NEW p \in Nat, Ahead(s, t, p)
    PROVE  Ahead(Tail(s), t, p + 1) /\ p + 1 \in DOMAIN t /\ t[p + 1] = Head(s)
<1> DEFINE r == Tail(s)
<1>1. /\ r \in Seq(S) /\ Len(s) = Len(r) + 1 /\ Head(s) = s[1]
      /\ \A i \in 1..Len(r) : r[i] = s[i + 1]
  BY TailRange
<1> HIDE DEF r
<1>2. /\ Len(r) \in Nat /\ Len(t) = p + Len(s) /\ DOMAIN t = 1..Len(t) /\ DOMAIN s = 1..Len(s)
      /\ DOMAIN r = 1..Len(r) /\ \A i \in 1..Len(s) : s[i] = t[p + i]
  <2>1. Len(r) \in Nat /\ DOMAIN t = 1..Len(t) /\ DOMAIN s = 1..Len(s) /\ DOMAIN r = 1..Len(r)
    BY <1>1
  <2>2. Len(t) = p + Len(s) /\ \A i \in DOMAIN s : s[i] = t[p + i]
    BY Zenon DEF Ahead
  <2> QED BY <2>1, <2>2
<1>3. Len(t) = (p + 1) + Len(r) /\ p + 1 \in DOMAIN t /\ 1 \in 1..Len(s) /\ t[p + 1] = s[1]
  BY <1>1, <1>2
<1>4. ASSUME NEW i \in 1..Len(r)
      PROVE  r[i] = t[(p + 1) + i]
  <2>1. i + 1 \in 1..Len(s) /\ p + (i + 1) = (p + 1) + i
    BY <1>1, <1>2
  <2> QED BY <1>1, <1>2, <2>1
<1> QED BY <1>1, <1>2, <1>3, <1>4 DEF Ahead, r

LEMMA EmbedsOn ==
    ASSUME NEW S, NEW s \in Seq(S), NEW t \in Seq(S), NEW p \in Nat, Embeds(s, t, p)
    PROVE  /\ Embeds(s, t, p + 1)
           /\ \A l \in S : p + 1 \in DOMAIN t /\ t[p + 1] = l => Embeds(Append(s, l), t, p + 1)
<1>0. DOMAIN t = 1..Len(t) /\ Len(t) \in Nat /\ DOMAIN s = 1..Len(s) /\ Len(s) \in Nat
  OBVIOUS
<1>1. \A m \in DOMAIN t : m <= p => m <= p + 1 /\ m < p + 1
  BY <1>0
<1>2. Embeds(s, t, p + 1)
  BY <1>1 DEF Embeds
<1>3. ASSUME NEW l \in S, p + 1 \in DOMAIN t, t[p + 1] = l
      PROVE  Embeds(Append(s, l), t, p + 1)
  <2> DEFINE a == Append(s, l)
  <2>1. /\ a \in Seq(S) /\ Len(a) = Len(s) + 1 /\ a[Len(s) + 1] = l
        /\ \A i \in 1..Len(s) : a[i] = s[i]
    BY AppendRange
  <2> HIDE DEF a
  <2>2. DOMAIN a = 1..Len(a) /\ \A i \in DOMAIN a : i \in DOMAIN s \/ i = Len(s) + 1
    BY <1>0, <2>1
  <2>3. ASSUME NEW i \in DOMAIN a
        PROVE  \E m \in DOMAIN t : m <= p + 1 /\ t[m] = a[i]
    <3>1. CASE i = Len(s) + 1
      <4>1. p + 1 <= p + 1 /\ t[p + 1] = a[i]
        BY <1>3, <2>1, <3>1
      <4> QED BY <1>3, <4>1
    <3>2. CASE i \in DOMAIN s
      BY <1>0, <1>2, <2>1, <3>2 DEF Embeds
    <3> QED BY <2>2, <3>1, <3>2
  <2>4. ASSUME NEW i \in DOMAIN a, NEW j \in DOMAIN a, i < j
        PROVE  \E m, n \in DOMAIN t : m < n /\ n <= p + 1 /\ t[m] = a[i] /\ t[n] = a[j]
    <3>1. i \in DOMAIN s /\ a[i] = s[i]
      <4>1. i # Len(s) + 1
        BY <1>0, <2>1, <2>2, <2>4
      <4> QED BY <1>0, <2>1, <2>2, <4>1
    <3>2. CASE j = Len(s) + 1
      <4>1. PICK m \in DOMAIN t : m <= p /\ t[m] = s[i]
        BY <3>1 DEF Embeds
      <4>2. m < p + 1 /\ p + 1 <= p + 1 /\ t[m] = a[i] /\ t[p + 1] = a[j]
        BY <1>1, <1>3, <2>1, <3>1, <3>2, <4>1
      <4> QED BY <1>3, <4>1, <4>2
    <3>3. CASE j \in DOMAIN s
      <4>1. a[j] = s[j]
        BY <1>0, <2>1, <3>3
      <4> QED BY <1>2, <2>4, <3>1, <3>3, <4>1 DEF Embeds
    <3> QED BY <2>2, <3>2, <3>3
  <2>5. Embeds(a, t, p + 1)
    BY <2>3, <2>4 DEF Embeds
  <2> QED BY <2>5 DEF a
<1> QED BY <1>2, <1>3

\* A claim: the occurrence is registered, not yet this operation's, and
\* withdrawn if it serves once.
Claims(c, l) ==
    /\ l \in entries /\ l \notin Holds(call[c])
    /\ entries' = IF hook[l].options.once THEN entries \ {l} ELSE entries
    /\ \E u : /\ call' = [call EXCEPT ![c] = u]
              /\ u \in Call /\ Calls(u, hook)
              /\ Holds(u) \cup {Nobody} = Holds(call[c]) \cup {l, Nobody}
              /\ u.at = "claim" => call[c].at # "idle" /\ u.nested = call[c].nested

LEMMA ClaimMoves ==
    ASSUME EInv, NEW c \in Caller, ClaimNext(c)
    PROVE  SInv' /\ ((Proceeds(c) /\ UNCHANGED <<entries, hook>>) \/ \E l \in Listener : Claims(c, l))
<1>0. PICK k : k = call[c]
  OBVIOUS
<1>1. PICK l : k = call[c] /\ l = Head(k.hooks)
  BY <1>0
<1>2. k \in Call /\ Calls(k, hook) /\ k.at = "claim" /\ k.hooks # <<>> /\ SInv /\ hook' = hook /\ journal' = journal
  BY <1>1 DEF EInv, CInv, ClaimNext
<1>3. k.hooks \in Seq(Listener) /\ k.claimed \in Seq(Listener) /\ k.snapshot \in Seq(Listener)
      /\ k.behind \in SUBSET Listener /\ k.frames \in Seq(Listener)
  BY <1>2 DEF Call
<1>4. /\ k.outcome = "none" /\ k.current = Nobody /\ Distinct(k.hooks) /\ Range(k.hooks) \cap Holds(k) = {}
      /\ k.op # "EmitParallel" => k.claimed = <<>>
  BY <1>2 DEF Calls, Blame, Claiming
<1>5. PICK r : r = Tail(k.hooks)
  OBVIOUS
<1>6. /\ l \in Listener /\ r \in Seq(Listener) /\ Range(k.hooks) = Range(r) \cup {l}
      /\ Distinct(r) /\ l \notin Range(r)
  <2>1. PICK s \in Seq(Listener) : s = k.hooks /\ s # <<>> /\ Distinct(s)
    BY <1>2, <1>3, <1>4
  <2>2. Head(s) \in Listener /\ Tail(s) \in Seq(Listener) /\ Range(s) = Range(Tail(s)) \cup {Head(s)}
    BY <2>1, TailRange
  <2>3. Distinct(Tail(s)) /\ Head(s) \notin Range(Tail(s))
    BY <2>1, TailDistinct
  <2> QED BY <1>1, <1>5, <2>1, <2>2, <2>3
<1>7. l \notin Holds(k) /\ Range(r) \cap Holds(k) = {} /\ Nobody \in Holds(k)
  BY <1>4, <1>6 DEF Holds
<1>8. k.op = "EmitParallel" =>
        \E p \in Nat : /\ Ahead(r, k.snapshot, p + 1) /\ Embeds(k.claimed, k.snapshot, p + 1)
                       /\ Embeds(Append(k.claimed, l), k.snapshot, p + 1)
  <2> SUFFICES ASSUME k.op = "EmitParallel"
               PROVE  \E p \in Nat : /\ Ahead(r, k.snapshot, p + 1) /\ Embeds(k.claimed, k.snapshot, p + 1)
                                     /\ Embeds(Append(k.claimed, l), k.snapshot, p + 1)
    OBVIOUS
  <2>1. PICK p \in Nat : Ahead(k.hooks, k.snapshot, p) /\ Embeds(k.claimed, k.snapshot, p)
    BY <1>2 DEF Calls, Lanes
  <2>2. Ahead(r, k.snapshot, p + 1) /\ p + 1 \in DOMAIN k.snapshot /\ k.snapshot[p + 1] = l
    BY <1>1, <1>2, <1>3, <1>5, <2>1, TailAhead
  <2>3. /\ Embeds(k.claimed, k.snapshot, p + 1)
        /\ \A m \in Listener : p + 1 \in DOMAIN k.snapshot /\ k.snapshot[p + 1] = m
             => Embeds(Append(k.claimed, m), k.snapshot, p + 1)
    BY <1>3, <2>1, EmbedsOn
  <2> QED BY <1>6, <2>2, <2>3
<1>9. PICK rest : rest = [k EXCEPT !.hooks = r]
  OBVIOUS
<1>10. /\ rest \in Call /\ rest.op = k.op /\ rest.at = k.at /\ rest.nested = k.nested /\ rest.hooks = r
       /\ rest.current = k.current /\ rest.claimed = k.claimed /\ rest.frames = k.frames /\ rest.running = k.running
       /\ rest.failing = k.failing /\ rest.outcome = k.outcome /\ rest.failure = k.failure
       /\ rest.failures = k.failures /\ rest.reached = k.reached /\ rest.snapshot = k.snapshot
       /\ rest.behind = k.behind /\ rest.failed = k.failed
  BY <1>2, <1>6, <1>9 DEF Call
<1>11. CASE ~Claimable(l)
  <2>1. PICK b \in SUBSET Listener : b = k.behind \cup {l}
    <3>1. k.behind \cup {l} \in SUBSET Listener
      BY <1>3, <1>6
    <3> QED BY <3>1
  <2>2. PICK u : u = [rest EXCEPT !.behind = b]
    OBVIOUS
  <2>3. call' = [call EXCEPT ![c] = u] /\ UNCHANGED <<entries, order>>
    <3>1. rest.behind \cup {l} = b
      BY <1>10, <2>1
    <3>2. rest = [k EXCEPT !.hooks = Tail(k.hooks)]
      BY <1>5, <1>9
    <3> QED BY <1>1, <1>11, <2>2, <3>1, <3>2 DEF ClaimNext
  <2>4. /\ u \in Call /\ u.op = k.op /\ u.at = k.at /\ u.nested = k.nested /\ u.hooks = r
        /\ u.current = k.current /\ u.claimed = k.claimed /\ u.frames = k.frames /\ u.running = k.running
        /\ u.failing = k.failing /\ u.outcome = k.outcome /\ u.failure = k.failure
        /\ u.failures = k.failures /\ u.reached = k.reached /\ u.snapshot = k.snapshot
        /\ u.behind = b /\ u.failed = k.failed
    BY <1>10, <2>1, <2>2 DEF Call
  <2>5. Holds(u) = Holds(k)
    BY <2>4 DEF Holds
  <2>6. Layers(u) /\ Blame(u)
    BY <1>2, <1>4, <1>6, <2>1, <2>4 DEF Calls, Layers, Blame
  <2>7. Lanes(u)
    <3>1. k.op = "EmitParallel" => k.failed = {} /\ Distinct(k.snapshot)
      BY <1>2, <1>4 DEF Calls, Lanes
    <3>2. k.op = "EmitParallel" => \E p \in Nat : Ahead(r, k.snapshot, p) /\ Embeds(k.claimed, k.snapshot, p)
      BY <1>8
    <3> QED BY <1>2, <1>4, <2>4, <3>1, <3>2 DEF Lanes
  <2>8. Claiming(u) /\ Roles(u, hook)
    BY <1>2, <1>4, <1>6, <1>7, <2>4, <2>5 DEF Calls, Claiming, Roles
  <2>9. Continues(u, k, hook)
    BY <1>2, <2>4, <2>5, <2>6, <2>7, <2>8 DEF Continues, Calls
  <2>10. SInv'
    BY <1>2, <2>3, StoreStays
  <2> QED BY <1>1, <1>2, <2>3, <2>9, <2>10 DEF Proceeds
<1>12. CASE Claimable(l)
  <2>1. l \in entries /\ (hook[l].options.once => Withdrawn(l)) /\ (~hook[l].options.once => UNCHANGED <<entries, order>>)
    BY <1>1, <1>12 DEF ClaimNext, Claimable
  <2>2. SInv' /\ entries' = IF hook[l].options.once THEN entries \ {l} ELSE entries
    <3>1. CASE hook[l].options.once
      <4>1. Withdrawn(l)
        BY <2>1, <3>1
      <4>2. entries' = entries \ {l}
        BY <2>1, <4>1 DEF Withdrawn
      <4>3. SInv'
        BY <1>2, <1>6, <4>1, WithdrawnKeeps
      <4> QED BY <3>1, <4>2, <4>3
    <3>2. CASE ~hook[l].options.once
      BY <1>2, <2>1, <3>2, StoreStays
    <3> QED BY <3>1, <3>2
  <2>3. call' = [call EXCEPT ![c] = IF k.op = "EmitParallel" THEN [rest EXCEPT !.claimed = Append(@, l)]
                                    ELSE [rest EXCEPT !.current = l, !.at = "invoke"]]
    <3>1. rest = [k EXCEPT !.hooks = Tail(k.hooks)]
      BY <1>5, <1>9
    <3> QED BY <1>1, <1>12, <3>1, Zenon DEF ClaimNext
  <2>4. SUFFICES \E u : /\ call' = [call EXCEPT ![c] = u]
                        /\ u \in Call /\ Calls(u, hook)
                        /\ Holds(u) \cup {Nobody} = Holds(k) \cup {l, Nobody}
                        /\ u.at = "claim" => u.nested = k.nested
    BY <1>1, <1>2, <1>6, <1>7, <2>1, <2>2 DEF Claims
  <2>5. CASE k.op = "EmitParallel"
    <3>1. PICK a \in Seq(Listener) : a = Append(k.claimed, l) /\ Range(a) = Range(k.claimed) \cup {l}
      <4>1. PICK g \in Seq(Listener) : g = k.claimed
        BY <1>3
      <4>2. Append(g, l) \in Seq(Listener) /\ Range(Append(g, l)) = Range(g) \cup {l}
        BY <1>6, AppendRange
      <4> QED BY <4>1, <4>2
    <3>2. PICK u : u = [rest EXCEPT !.claimed = a]
      OBVIOUS
    <3>3. call' = [call EXCEPT ![c] = u]
      BY <1>10, <2>3, <2>5, <3>1, <3>2
    <3>4. /\ u \in Call /\ u.op = k.op /\ u.at = k.at /\ u.nested = k.nested /\ u.hooks = r
          /\ u.current = k.current /\ u.claimed = a /\ u.frames = k.frames /\ u.running = k.running
          /\ u.failing = k.failing /\ u.outcome = k.outcome /\ u.failure = k.failure
          /\ u.failures = k.failures /\ u.reached = k.reached /\ u.snapshot = k.snapshot
          /\ u.behind = k.behind /\ u.failed = k.failed
      BY <1>10, <3>1, <3>2 DEF Call
    <3>5. Holds(u) = Holds(k) \cup {l}
      BY <3>1, <3>4 DEF Holds
    <3>6. Layers(u) /\ Blame(u)
      BY <1>2, <1>4, <2>5, <3>4 DEF Calls, Layers, Blame, Chain
    <3>7. Lanes(u)
      <4>1. k.failed = {} /\ Distinct(k.snapshot)
        BY <1>2, <1>4, <2>5 DEF Calls, Lanes
      <4>2. \E p \in Nat : Ahead(r, k.snapshot, p) /\ Embeds(a, k.snapshot, p)
        BY <1>8, <2>5, <3>1
      <4> QED BY <1>2, <1>4, <3>4, <4>1, <4>2 DEF Lanes
    <3>8. Claiming(u) /\ Roles(u, hook)
      BY <1>2, <1>4, <1>6, <1>7, <2>5, <3>4, <3>5 DEF Calls, Claiming, Roles
    <3> QED BY <3>3, <3>4, <3>5, <3>6, <3>7, <3>8 DEF Calls
  <2>6. CASE k.op # "EmitParallel"
    <3>1. PICK u : u = [rest EXCEPT !.current = l, !.at = "invoke"]
      OBVIOUS
    <3>2. call' = [call EXCEPT ![c] = u]
      BY <2>3, <2>6, <3>1
    <3>3. /\ u \in Call /\ u.op = k.op /\ u.at = "invoke" /\ u.nested = k.nested /\ u.hooks = r
          /\ u.current = l /\ u.claimed = k.claimed /\ u.frames = k.frames /\ u.running = k.running
          /\ u.failing = k.failing /\ u.outcome = k.outcome /\ u.failure = k.failure
          /\ u.failures = k.failures /\ u.reached = k.reached /\ u.snapshot = k.snapshot
          /\ u.behind = k.behind /\ u.failed = k.failed
      <4>1. l \in Listener \cup {Nobody}
        BY <1>6
      <4> QED BY <1>10, <3>1, <4>1 DEF Call
    <3>4. Holds(u) \cup {Nobody} = Holds(k) \cup {l} /\ Holds(u) \subseteq Holds(k) \cup {l}
      BY <1>4, <3>3 DEF Holds
    <3>5. Layers(u) /\ Blame(u) /\ Lanes(u)
      BY <1>2, <1>4, <1>6, <2>6, <3>3 DEF Calls, Layers, Blame, Lanes
    <3>6. Claiming(u)
      BY <1>4, <1>6, <1>7, <2>6, <3>3, <3>4 DEF Claiming
    <3>7. Roles(u, hook)
      BY <1>2, <1>6, <3>3 DEF Calls, Roles
    <3> QED BY <3>2, <3>3, <3>4, <3>5, <3>6, <3>7 DEF Calls
  <2> QED BY <2>5, <2>6
<1> QED BY <1>11, <1>12

-----------------------------------------------------------------------------
(* Steps *)

\* What a step can be: a registration, a withdrawal, nothing of the store's
\* occurrences and the operations, a step of an operation, or a claim.
Registers    == \E l \in Listener, x \in Shape : Commits(l, x)
Withdraws    == \E l \in Listener : Withdrawn(l) /\ UNCHANGED <<hook, call>>
KeepsAll     == UNCHANGED <<hook, entries, call>>
Moves        == \E c \in Caller : (Proceeds(c) \/ Starts(c)) /\ UNCHANGED <<hook, entries>>
ClaimsOne    == \E c \in Caller, l \in Listener : Claims(c, l) /\ hook' = hook

LEMMA OwnerMoves ==
    ASSUME EInv, Owner
    PROVE  SInv' /\ (Registers \/ Withdraws \/ KeepsAll)
<1>0. SInv
  BY DEF EInv
<1>1. CASE CloseGeneration \/ OpenGeneration
  BY <1>0, <1>1, StoreStays DEF CloseGeneration, OpenGeneration, storeVars, KeepsAll
<1>2. ASSUME NEW l \in Listener, Register(l) \/ OnUpdate(l)
      PROVE  SInv' /\ Registers
  <2>1. PICK x \in Shape : Commits(l, x)
    BY <1>2 DEF Register, OnUpdate
  <2> QED BY <1>0, <2>1, CommitsKeeps DEF Registers
<1>3. ASSUME NEW l \in Listener, RemoveListener(l) \/ Cleanup(l)
      PROVE  SInv' /\ Withdraws
  <2>1. Withdrawn(l) /\ hook' = hook /\ call' = call /\ journal' \subseteq journal
    BY <1>3 DEF RemoveListener, Cleanup
  <2>2. SInv'
    BY <1>0, <2>1, WithdrawnKeeps
  <2> QED BY <2>1, <2>2 DEF Withdraws
<1> QED BY <1>1, <1>2, <1>3 DEF Owner

LEMMA CallerMoves ==
    ASSUME EInv, NEW c \in Caller, Dispatch(c) \/ Control(c) \/ Step(c) \/ Drop(c) \/ Return(c)
    PROVE  SInv' /\ (Moves \/ ClaimsOne)
<1>0. SInv
  BY DEF EInv
<1>1. CASE Dispatch(c)
  <2>1. UNCHANGED <<hook, entries>>
    BY <1>1 DEF Dispatch
  <2> QED BY <1>1, <2>1, DispatchMoves DEF Moves
<1>2. CASE Control(c)
  <2>1. UNCHANGED <<hook, entries>>
    BY <1>2 DEF Control, storeVars
  <2> QED BY <1>2, <2>1, ControlMoves DEF Moves
<1>3. CASE NestedQuery(c)
  <2>1. UNCHANGED <<hook, entries>>
    BY <1>3 DEF NestedQuery
  <2> QED BY <1>3, <2>1, NestedMoves DEF Moves
<1>4. CASE ClaimNext(c)
  <2>1. hook' = hook
    BY <1>4 DEF ClaimNext
  <2> QED BY <1>4, <2>1, ClaimMoves DEF Moves, ClaimsOne
<1>5. CASE Exhausted(c) \/ Invoke(c) \/ InvokePolicy(c) \/ Join(c) \/ RunTail(c) \/ Unwind(c) \/ Drop(c) \/ Return(c)
  <2>1. UNCHANGED <<hook, entries, order, journal>>
    BY <1>5 DEF Exhausted, Invoke, InvokePolicy, Join, RunTail, Unwind, Drop, Return, storeVars
  <2>2. SInv'
    BY <1>0, <2>1, StoreStays
  <2>3. Proceeds(c)
    BY <1>5, ExhaustedProceeds, InvokeProceeds, JoinProceeds, RunTailProceeds, UnwindProceeds,
       DropProceeds, ReturnProceeds
  <2> QED BY <2>1, <2>2, <2>3 DEF Moves
<1> QED BY <1>1, <1>2, <1>3, <1>4, <1>5 DEF Step

LEMMA NextMoves ==
    ASSUME EInv, Next
    PROVE  SInv' /\ (Registers \/ Withdraws \/ KeepsAll \/ Moves \/ ClaimsOne)
BY OwnerMoves, CallerMoves DEF Next

LEMMA InitInv == Init => EInv
<1> SUFFICES ASSUME Init PROVE EInv
  OBVIOUS
<1>1. hook = <<>> /\ entries = {} /\ journal = {} /\ order = [s \in Stream |-> <<>>]
      /\ call = [c \in Caller |-> Idle]
  BY DEF Init
<1>2. Len(hook) = 0 /\ hook \in Seq(Hook) /\ <<>> \in Seq(1..Len(hook))
  BY <1>1
<1>3. StoreType
  BY <1>1, <1>2, BoundAssumption DEF StoreType
<1>4. Orders
  <2>1. ASSUME NEW s \in Stream PROVE Sorted(<<>>, s, hook) /\ Live(s) = {}
    BY <1>1, <1>2 DEF Sorted, Live
  <2> QED BY <1>1, <2>1 DEF Orders
<1>5. CInv
  BY <1>1, IdleType, IdleIsFine DEF CInv
<1> QED BY <1>3, <1>4, <1>5 DEF EInv, SInv

LEMMA NextInv == EInv /\ [Next]_vars => EInv'
<1> SUFFICES ASSUME EInv, [Next]_vars PROVE EInv'
  OBVIOUS
<1>0. SInv /\ CInv
  BY DEF EInv
<1>1. CASE UNCHANGED vars
  <2>1. UNCHANGED <<hook, entries, order, journal, call>>
    BY <1>1 DEF vars
  <2>2. SInv'
    BY <1>0, <2>1, StoreStays
  <2>3. CInv'
    BY <1>0, <2>1 DEF CInv
  <2> QED BY <2>2, <2>3 DEF EInv
<1>2. CASE Next
  <2>1. SInv' /\ (Registers \/ Withdraws \/ KeepsAll \/ Moves \/ ClaimsOne)
    BY <1>2, NextMoves
  <2>2. CASE Registers
    <3>1. PICK l \in Listener, x \in Shape : Commits(l, x)
      BY <2>2 DEF Registers
    <3>2. hook' = Append(hook, x) /\ x \in Hook /\ call' = call /\ hook \in Seq(Hook)
      BY <1>0, <3>1, CommitsKeeps DEF SInv, StoreType
    <3> QED BY <1>0, <2>1, <3>2, CallsStay DEF EInv
  <2>3. CASE Withdraws \/ KeepsAll
    <3>1. UNCHANGED <<hook, call>>
      BY <2>3 DEF Withdraws, KeepsAll
    <3>2. CInv'
      BY <1>0, <3>1 DEF CInv
    <3> QED BY <2>1, <3>2 DEF EInv
  <2>4. CASE Moves \/ ClaimsOne
    <3>1. PICK c \in Caller, u \in Call : Calls(u, hook) /\ call' = [call EXCEPT ![c] = u] /\ hook' = hook
      BY <2>4 DEF Moves, ClaimsOne, Proceeds, Starts, Continues, Claims
    <3>2. CInv'
      BY <1>0, <3>1, CallMoves
    <3> QED BY <2>1, <3>2 DEF EInv
  <2> QED BY <2>1, <2>2, <2>3, <2>4
<1> QED BY <1>1, <1>2

\* The store's orders stay complete and sorted, and every operation accounts
\* for its layers, its claims and its failures.
THEOREM EventsInvariant == Spec => []EInv
BY InitInv, NextInv, PTL DEF Spec

-----------------------------------------------------------------------------
(* The properties *)

\* A tail runs and an update is accepted only past every layer of the snapshot
\* that was registered when its turn came.
THEOREM LayersAreNotBypassed == Spec => []NoLayerBypassed
<1>1. EInv => NoLayerBypassed
  BY DEF EInv, CInv, Calls, Layers, NoLayerBypassed
<1> QED BY <1>1, EventsInvariant, PTL

\* For any listeners, layers and callers: a reported failure has the name it was
\* raised with, its author's or, through its author, that of another operation's
\* failure; the tail's has the innermost Around's name, if one waited.  Parallel
\* failures are those raised, in effective order.
THEOREM FailuresHaveAuthors == Spec => []FailuresAreAttributed
<1>1. ASSUME EInv PROVE FailuresAreAttributed
  <2> DEFINE Attributed(k) ==
        /\ k \in Call
        /\ k.outcome = "Invocation" =>
             \E f \in k.failed : k.failure = (IF f.as = Nobody THEN f.by ELSE f.as)
        /\ k.outcome = "Parallel" =>
             /\ k.failures # <<>>
             /\ \E place \in [DOMAIN k.failures -> DOMAIN k.snapshot] :
                  /\ \A i, j \in DOMAIN place : i < j => place[i] < place[j]
                  /\ k.failed = {[by |-> k.snapshot[place[i]], as |-> k.failures[i]] : i \in DOMAIN place}
  <2> SUFFICES ASSUME NEW c \in Caller PROVE Attributed(call[c])
    BY Zenon DEF FailuresAreAttributed
  <2>0. PICK k : k = call[c]
    OBVIOUS
  <2>1. k \in Call /\ Blame(k) /\ Lanes(k)
    BY <1>1, <2>0 DEF EInv, CInv, Calls
  <2>2. k.outcome = "Invocation" => \E f \in k.failed : k.failure = (IF f.as = Nobody THEN f.by ELSE f.as)
    BY <2>1 DEF Blame, NameOf
  <2>3. k.outcome = "Parallel" => InOrder(k.failures, k.snapshot, k.failed)
    BY <2>1 DEF Lanes
  <2>4. Attributed(k)
    BY <2>1, <2>2, <2>3, Zenon DEF InOrder
  <2> HIDE DEF Attributed
  <2> QED BY <2>0, <2>4
<1> QED BY <1>1, EventsInvariant, PTL

\* A preflight takes every eligible listener, once and in effective order.
THEOREM PreflightsAreEffective == Spec => SnapshotsAreEffective
<1> DEFINE Fresh(c, k) == k.at = "claim" /\ (call[c].at = "idle" \/ (k.nested /\ ~call[c].nested))
           A == \A c \in Caller : Fresh(c, call'[c]) => IsEffectiveOrder(call'[c].hooks, call'[c].stream, call'[c].routing)
<1>1. ASSUME EInv, [Next]_vars PROVE [A]_vars
  <2> SUFFICES ASSUME Next, NEW c \in Caller, Fresh(c, call'[c])
               PROVE  IsEffectiveOrder(call'[c].hooks, call'[c].stream, call'[c].routing)
    BY <1>1
  <2>1. Registers \/ Withdraws \/ KeepsAll \/ Moves \/ ClaimsOne
    BY <1>1, NextMoves
  <2>2. SInv /\ call \in [Caller -> Call] /\ call[c] \in Call /\ call[c].nested \in BOOLEAN
    BY <1>1 DEF EInv, CInv, Call
  <2>3. PICK k : k = call'[c]
    OBVIOUS
  <2>4. Fresh(c, k)
    BY <2>3
  <2>5. k \in Call /\ k.hooks = Selected(k.stream, k.routing)
    <3>0. Calls(call[c], hook)
      BY <1>1 DEF EInv, CInv
    <3>1. CASE call'[c] = call[c]
      <4>1. k.at # "idle" /\ ~(k.nested /\ ~k.nested)
        BY <2>4
      <4> QED BY <2>3, <2>4, <3>1, <4>1
    <3>2. CASE Moves
      <4>1. PICK d \in Caller : Proceeds(d) \/ Starts(d)
        BY <3>2 DEF Moves
      <4>2. CASE d # c
        <5>1. call'[c] = call[c]
          BY <2>2, <4>1, <4>2 DEF Proceeds, Starts
        <5> QED BY <3>1, <5>1
      <4>3. CASE d = c /\ Proceeds(c)
        <5>1. PICK u : call' = [call EXCEPT ![c] = u] /\ Continues(u, call[c], hook)
          BY <4>3 DEF Proceeds
        <5>2. k = u
          BY <2>2, <2>3, <5>1
        <5>3. k.at = "claim" => call[c].at # "idle" /\ (k.nested => call[c].nested)
          BY <5>1, <5>2 DEF Continues
        <5> QED BY <2>4, <5>3
      <4>4. CASE d = c /\ Starts(c)
        <5>1. PICK u : /\ call' = [call EXCEPT ![c] = u] /\ u \in Call
                       /\ u.hooks = Selected(u.stream, u.routing)
          BY <4>4 DEF Starts
        <5>2. k = u
          BY <2>2, <2>3, <5>1
        <5> QED BY <5>1, <5>2
      <4> QED BY <4>1, <4>2, <4>3, <4>4
    <3>3. CASE ClaimsOne
      <4>1. PICK d \in Caller, l \in Listener : Claims(d, l)
        BY <3>3 DEF ClaimsOne
      <4>2. PICK u : /\ call' = [call EXCEPT ![d] = u]
                     /\ u.at = "claim" => call[d].at # "idle" /\ u.nested = call[d].nested
        BY <4>1 DEF Claims
      <4>3. CASE d # c
        <5>1. call'[c] = call[c]
          BY <2>2, <4>2, <4>3
        <5> QED BY <3>1, <5>1
      <4>4. CASE d = c
        <5>1. k = u
          BY <2>2, <2>3, <4>2, <4>4
        <5> QED BY <2>4, <4>2, <4>4, <5>1
      <4> QED BY <4>3, <4>4
    <3>4. CASE Registers
      <4>1. call' = call
        BY <3>4 DEF Registers, Commits
      <4> QED BY <3>1, <4>1
    <3>5. CASE Withdraws \/ KeepsAll
      <4>1. call' = call
        BY <3>5 DEF Withdraws, KeepsAll
      <4> QED BY <3>1, <4>1
    <3> QED BY <2>1, <3>2, <3>3, <3>4, <3>5
  <2>6. PICK s, routing : s \in Stream /\ s = k.stream /\ routing = k.routing
    BY <2>5 DEF Call
  <2>7. PICK r : r = Selected(s, routing)
    OBVIOUS
  <2>8. Sorted(r, s, hook) /\ Range(r) = {l \in Live(s) : Eligible(l, routing)} /\ DOMAIN r = 1..Len(r)
    <3>1. Sorted(r, s, hook) /\ Range(r) = {l \in Live(s) : Eligible(l, routing)}
      BY <2>2, <2>6, <2>7, SelectedIs
    <3>2. DOMAIN r = 1..Len(r)
      BY <3>1 DEF Sorted
    <3> QED BY <3>1, <3>2
  <2>9. \A i, j \in DOMAIN r : i < j => Before(r[i], r[j])
    BY <2>8 DEF Sorted, Before
  <2>10. IsEffectiveOrder(r, s, routing)
    BY <2>8, <2>9 DEF IsEffectiveOrder
  <2> QED BY <2>3, <2>5, <2>6, <2>7, <2>10
<1>2. EInv /\ [Next]_vars =>
        [\A c \in Caller :
           LET k == call'[c]
           IN  (k.at = "claim" /\ (call[c].at = "idle" \/ (k.nested /\ ~call[c].nested)))
                 => IsEffectiveOrder(k.hooks, k.stream, k.routing)]_vars
  BY <1>1
<1> QED BY <1>2, EventsInvariant, PTL DEF Spec, SnapshotsAreEffective

-----------------------------------------------------------------------------
(* Events implements Occurrence *)

\* The refinement mapping.
Phase   == [l \in Listener |-> IF l \notin DOMAIN hook THEN "absent"
                               ELSE IF l \in entries THEN "registered" ELSE "withdrawn"]
Once    == [l \in Listener |-> l \in DOMAIN hook /\ hook[l].options.once]
Running == [l \in Listener |-> {c \in Caller : l \in Holds(call[c])}]

LEMMA NobodyIsNoListener == Nobody \notin Listener
BY BoundAssumption DEF Nobody, Listener

LEMMA OccurrenceInit == Init => Withdrawal!Init
<1> SUFFICES ASSUME Init PROVE Withdrawal!Init
  OBVIOUS
<1>1. hook = <<>> /\ DOMAIN hook = {} /\ call = [c \in Caller |-> Idle]
  BY EmptyRange DEF Init
<1>2. Phase = [l \in Listener |-> "absent"]
  BY <1>1 DEF Phase
<1>3. Once = [l \in Listener |-> FALSE]
  BY <1>1 DEF Once
<1>4. Running = [l \in Listener |-> {}]
  <2>1. ASSUME NEW l \in Listener PROVE {c \in Caller : l \in Holds(call[c])} = {}
    BY <1>1, IdleIsFine, NobodyIsNoListener
  <2> QED BY <2>1 DEF Running
<1> QED BY <1>2, <1>3, <1>4 DEF Withdrawal!Init, Phase, Once, Running

LEMMA RegisterRefines ==
    ASSUME EInv, Registers
    PROVE  \E l \in Listener : Withdrawal!Register(l)
<1>1. PICK l \in Listener, x \in Shape : Commits(l, x)
  BY DEF Registers
<1>2. /\ hook' = Append(hook, x) /\ call' = call /\ entries' = entries \cup {l} /\ l = Len(hook) + 1
      /\ hook \in Seq(Hook) /\ x \in Hook /\ entries \subseteq 1..Len(hook)
  BY <1>1, ShapeAssumption DEF Commits, EInv, SInv, StoreType
<1>3. /\ DOMAIN hook = 1..Len(hook) /\ DOMAIN hook' = 1..l /\ Len(hook) \in Nat /\ hook'[l] = x
      /\ \A m \in 1..Len(hook) : hook'[m] = hook[m]
  BY <1>2
<1>4. /\ l \notin DOMAIN hook /\ l \in DOMAIN hook'
      /\ \A m \in Listener \ {l} : m \in DOMAIN hook' <=> m \in DOMAIN hook
  <2>1. \A m \in Listener : m \in Nat /\ m >= 1
    BY DEF Listener
  <2> QED BY <1>2, <1>3, <2>1
<1>5. x.options.once \in BOOLEAN
  BY <1>2 DEF Hook, ListenerOptions
<1>6. Phase[l] = "absent" /\ Phase' = [Phase EXCEPT ![l] = "registered"]
  <2>1. Phase[l] = "absent"
    BY <1>4 DEF Phase
  <2>2. ASSUME NEW m \in Listener PROVE Phase'[m] = IF m = l THEN "registered" ELSE Phase[m]
    BY <1>2, <1>4 DEF Phase
  <2>3. Phase' = [m \in Listener |-> Phase'[m]] /\ Phase = [m \in Listener |-> Phase[m]]
    BY DEF Phase
  <2> QED BY <2>1, <2>2, <2>3
<1>7. Once' = [Once EXCEPT ![l] = x.options.once]
  <2>1. ASSUME NEW m \in Listener PROVE Once'[m] = IF m = l THEN x.options.once ELSE Once[m]
    <3>1. CASE m = l
      BY <1>3, <1>4, <1>5, <3>1 DEF Once
    <3>2. CASE m # l
      <4>1. CASE m \in DOMAIN hook
        <5>1. m \in DOMAIN hook' /\ hook'[m] = hook[m]
          BY <1>3, <1>4, <3>2, <4>1
        <5> QED BY <3>2, <4>1, <5>1 DEF Once
      <4>2. CASE m \notin DOMAIN hook
        <5>1. m \notin DOMAIN hook'
          BY <1>4, <3>2, <4>2
        <5> QED BY <3>2, <4>2, <5>1 DEF Once
      <4> QED BY <4>1, <4>2
    <3> QED BY <3>1, <3>2
  <2>2. Once' = [m \in Listener |-> Once'[m]] /\ Once = [m \in Listener |-> Once[m]]
    BY DEF Once
  <2> QED BY <2>1, <2>2
<1>8. Running' = Running
  BY <1>2 DEF Running
<1> QED BY <1>5, <1>6, <1>7, <1>8 DEF Withdrawal!Register, Phase, Once, Running

LEMMA WithdrawalStep ==
    ASSUME EInv, NEW l \in Listener, l \in entries, entries' = entries \ {l}, hook' = hook
    PROVE  Phase[l] = "registered" /\ Phase' = [Phase EXCEPT ![l] = "withdrawn"] /\ Once' = Once
<1>1. l \in DOMAIN hook
  BY DEF EInv, SInv, StoreType
<1>2. Phase[l] = "registered"
  BY <1>1 DEF Phase
<1>3. ASSUME NEW m \in Listener PROVE Phase'[m] = IF m = l THEN "withdrawn" ELSE Phase[m]
  BY <1>1 DEF Phase
<1>4. Phase' = [m \in Listener |-> Phase'[m]] /\ Phase = [m \in Listener |-> Phase[m]]
  BY DEF Phase
<1>5. Once' = Once
  BY DEF Once
<1> QED BY <1>2, <1>3, <1>4, <1>5

LEMMA WithdrawRefines ==
    ASSUME EInv, Withdraws
    PROVE  (\E l \in Listener : Withdrawal!Withdraw(l)) \/ UNCHANGED <<Phase, Once, Running>>
<1>1. PICK l \in Listener : Withdrawn(l) /\ UNCHANGED <<hook, call>>
  BY DEF Withdraws
<1>2. Running' = Running
  BY <1>1 DEF Running
<1>3. CASE l \in entries
  <2>1. entries' = entries \ {l}
    BY <1>1, <1>3 DEF Withdrawn
  <2>2. Phase[l] = "registered" /\ Phase' = [Phase EXCEPT ![l] = "withdrawn"] /\ Once' = Once
    BY <1>1, <1>3, <2>1, WithdrawalStep
  <2>3. Withdrawal!Withdraw(l)
    BY <1>2, <2>2 DEF Withdrawal!Withdraw, Phase, Once, Running
  <2> QED BY <2>3
<1>4. CASE l \notin entries
  <2>1. entries' = entries
    BY <1>1, <1>4 DEF Withdrawn
  <2> QED BY <1>1, <1>2, <2>1 DEF Phase, Once
<1> QED BY <1>3, <1>4

LEMMA MovesRefine ==
    ASSUME EInv, Moves
    PROVE  \E c \in Caller : Withdrawal!Release(c)
<1>1. PICK c \in Caller : (Proceeds(c) \/ Starts(c)) /\ UNCHANGED <<hook, entries>>
  BY DEF Moves
<1>2. PICK u : call' = [call EXCEPT ![c] = u] /\ Holds(u) \subseteq Holds(call[c]) \cup {Nobody}
  BY <1>1 DEF Proceeds, Starts, Continues
<1>3. call'[c] = u /\ \A d \in Caller \ {c} : call'[d] = call[d]
  BY <1>2 DEF EInv, CInv
<1>4. PICK L \in SUBSET Listener : L = {l \in Listener : l \notin Holds(u)}
  OBVIOUS
<1>5. ASSUME NEW l \in Listener
      PROVE  Running'[l] = IF l \in L THEN Running[l] \ {c} ELSE Running[l]
  <2>1. Running[l] = {d \in Caller : l \in Holds(call[d])} /\ Running'[l] = {d \in Caller : l \in Holds(call'[d])}
    BY DEF Running
  <2>2. l \in L => Running'[l] = Running[l] \ {c}
    BY <1>3, <1>4, <2>1
  <2>3. l \notin L => Running'[l] = Running[l]
    <3>1. l \notin L => l \in Holds(u) /\ l \in Holds(call[c])
      BY <1>2, <1>4, NobodyIsNoListener
    <3> QED BY <1>3, <2>1, <3>1
  <2> QED BY <2>2, <2>3
<1>6. Running' = [l \in Listener |-> Running'[l]]
  BY DEF Running
<1>7. Running' = [l \in Listener |-> IF l \in L THEN Running[l] \ {c} ELSE Running[l]]
  BY <1>5, <1>6
<1>8. Phase' = Phase /\ Once' = Once
  BY <1>1 DEF Phase, Once
<1>9. Withdrawal!Release(c)
  BY <1>7, <1>8 DEF Withdrawal!Release, Phase, Once, Running
<1> QED BY <1>9

LEMMA ClaimRefines ==
    ASSUME EInv, ClaimsOne
    PROVE  \E c \in Caller, l \in Listener : Withdrawal!Claim(c, l)
<1>1. PICK c \in Caller, l \in Listener : Claims(c, l) /\ hook' = hook
  BY DEF ClaimsOne
<1>2. /\ l \in entries /\ l \notin Holds(call[c])
      /\ entries' = IF hook[l].options.once THEN entries \ {l} ELSE entries
  BY <1>1 DEF Claims
<1>3. PICK u : call' = [call EXCEPT ![c] = u] /\ Holds(u) \cup {Nobody} = Holds(call[c]) \cup {l, Nobody}
  BY <1>1 DEF Claims
<1>4. call'[c] = u /\ \A d \in Caller \ {c} : call'[d] = call[d]
  BY <1>3 DEF EInv, CInv
<1>5. l \in DOMAIN hook /\ hook[l].options.once \in BOOLEAN
  <2>1. hook \in Seq(Hook) /\ l \in 1..Len(hook)
    BY <1>2 DEF EInv, SInv, StoreType
  <2>2. hook[l] \in Hook
    BY <2>1
  <2> QED BY <2>1, <2>2 DEF Hook, ListenerOptions
<1>6. Phase[l] = "registered" /\ Once[l] = hook[l].options.once /\ c \notin Running[l]
  BY <1>2, <1>5 DEF Phase, Once, Running
<1>7. Running' = [Running EXCEPT ![l] = Running[l] \cup {c}]
  <2>1. ASSUME NEW m \in Listener PROVE Running'[m] = IF m = l THEN Running[l] \cup {c} ELSE Running[m]
    <3>1. Running[m] = {d \in Caller : m \in Holds(call[d])} /\ Running'[m] = {d \in Caller : m \in Holds(call'[d])}
      BY DEF Running
    <3>2. m \in Holds(u) <=> m \in Holds(call[c]) \/ m = l
      BY <1>3, NobodyIsNoListener
    <3> QED BY <1>4, <3>1, <3>2
  <2>2. Running' = [m \in Listener |-> Running'[m]] /\ Running = [m \in Listener |-> Running[m]]
    BY DEF Running
  <2> QED BY <2>1, <2>2
<1>8. Phase' = (IF Once[l] THEN [Phase EXCEPT ![l] = "withdrawn"] ELSE Phase) /\ Once' = Once
  <2>1. CASE hook[l].options.once
    <3>1. entries' = entries \ {l}
      BY <1>2, <2>1
    <3> QED BY <1>1, <1>2, <1>6, <2>1, <3>1, WithdrawalStep
  <2>2. CASE ~hook[l].options.once
    <3>1. entries' = entries
      BY <1>2, <2>2
    <3>2. Phase' = Phase /\ Once' = Once
      BY <1>1, <3>1 DEF Phase, Once
    <3> QED BY <1>6, <2>2, <3>2
  <2> QED BY <1>5, <2>1, <2>2
<1>9. Withdrawal!Claim(c, l)
  BY <1>6, <1>7, <1>8 DEF Withdrawal!Claim, Phase, Once, Running
<1> QED BY <1>9

\* Every occurrence is registered once, withdrawn at most once and claimed only
\* while registered, a once-occurrence by one dispatch: Events implements
\* Occurrence.
THEOREM EventsImplementOccurrence == Spec => OccurrencesAreExact
<1>1. ASSUME EInv, [Next]_vars PROVE [Withdrawal!Next]_(Withdrawal!vars)
  <2>0. UNCHANGED <<Phase, Once, Running>> => UNCHANGED Withdrawal!vars
    BY DEF Withdrawal!vars, Phase, Once, Running
  <2>1. CASE UNCHANGED vars
    <3>1. UNCHANGED <<hook, entries, call>>
      BY <2>1 DEF vars
    <3>2. UNCHANGED <<Phase, Once, Running>>
      BY <3>1 DEF Phase, Once, Running
    <3> QED BY <2>0, <3>2
  <2>2. CASE Next
    <3>1. Registers \/ Withdraws \/ KeepsAll \/ Moves \/ ClaimsOne
      BY <1>1, <2>2, NextMoves
    <3>2. CASE Registers
      BY <1>1, <3>2, RegisterRefines DEF Withdrawal!Next
    <3>3. CASE Withdraws
      BY <1>1, <2>0, <3>3, WithdrawRefines DEF Withdrawal!Next
    <3>4. CASE KeepsAll
      <4>1. UNCHANGED <<Phase, Once, Running>>
        BY <3>4 DEF KeepsAll, Phase, Once, Running
      <4> QED BY <2>0, <4>1
    <3>5. CASE Moves
      BY <1>1, <3>5, MovesRefine DEF Withdrawal!Next
    <3>6. CASE ClaimsOne
      BY <1>1, <3>6, ClaimRefines DEF Withdrawal!Next
    <3> QED BY <3>1, <3>2, <3>3, <3>4, <3>5, <3>6
  <2> QED BY <1>1, <2>1, <2>2
<1> QED BY <1>1, OccurrenceInit, EventsInvariant, PTL DEF Spec, OccurrencesAreExact, Withdrawal!Spec
=============================================================================
