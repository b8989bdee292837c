-------------------------- MODULE SelectionProofs --------------------------
(***************************************************************************)
(* What Selection!Only computes, for every sequence and set.  A recursive  *)
(* function is shown to exist, and its values described, by looking at the *)
(* least argument at which that would fail.                                *)
(***************************************************************************)
EXTENDS Selection, Functions, WellFoundedInduction, TLAPS

LEMMA LeastNumber ==
    ASSUME NEW S, S \subseteq Nat, S # {}
    PROVE  \E n \in S : \A m \in S : n <= m
<1> DEFINE R == OpToRel(<, Nat)
<1>1. IsWellFoundedOn(R, Nat)
  BY NatLessThanWellFounded
<1> HIDE DEF R
<1>2. PICK n \in S : \A m \in S : ~(<<m, n>> \in R)
  BY <1>1, WFMin, Zenon
<1>3. \A m \in S : ~(m < n)
  BY <1>2 DEF R, OpToRel
<1> QED BY <1>3

\* The recursive function of Only is defined.
LEMMA KeptExists ==
    ASSUME NEW S, NEW s \in Seq(S), NEW T
    PROVE  \E f : f = [i \in 0..Len(s) |->
                         IF i = 0 THEN <<>>
                         ELSE IF s[i] \in T THEN Append(f[i - 1], s[i]) ELSE f[i - 1]]
<1> DEFINE Body(f, i) == IF i = 0 THEN <<>>
                         ELSE IF s[i] \in T THEN Append(f[i - 1], s[i]) ELSE f[i - 1]
           Defined(n) == \E f : f = [i \in 0..n |-> Body(f, i)]
           Undefined == {n \in Nat : ~Defined(n)}
<1>1. Defined(0)
  <2> DEFINE f == [i \in 0..0 |-> <<>>]
  <2>1. \A i \in 0..0 : i = 0
    OBVIOUS
  <2>2. f = [i \in 0..0 |-> Body(f, i)]
    BY <2>1
  <2> QED BY <2>2
<1>2. ASSUME NEW n \in Nat, Defined(n)
      PROVE  Defined(n + 1)
  <2>1. PICK f : f = [i \in 0..n |-> Body(f, i)]
    BY <1>2
  <2> DEFINE last == IF s[n + 1] \in T THEN Append(f[n], s[n + 1]) ELSE f[n]
             g == [i \in 0..(n + 1) |-> IF i = n + 1 THEN last ELSE f[i]]
  <2>2. ASSUME NEW i \in 0..(n + 1)
        PROVE  g[i] = Body(g, i)
    <3>1. CASE i = n + 1
      <4>1. g[i] = last /\ i # 0 /\ i - 1 = n /\ n \in 0..(n + 1) /\ n # n + 1
        BY <3>1
      <4>2. g[i - 1] = f[n]
        BY <4>1
      <4> QED BY <3>1, <4>1, <4>2
    <3>2. CASE i # n + 1
      <4>0. \A j \in 0..n : f[j] = Body(f, j)
        BY <2>1, Zenon
      <4>1. i \in 0..n /\ g[i] = f[i] /\ f[i] = Body(f, i)
        BY <3>2, <4>0
      <4>2. i # 0 => i - 1 \in 0..(n + 1) /\ i - 1 # n + 1
        BY <4>1
      <4>3. i # 0 => g[i - 1] = f[i - 1]
        BY <4>2
      <4> QED BY <4>1, <4>3
    <3> QED BY <3>1, <3>2
  <2>3. g = [i \in 0..(n + 1) |-> g[i]]
    OBVIOUS
  <2> HIDE DEF g
  <2>4. g = [i \in 0..(n + 1) |-> Body(g, i)]
    BY <2>2, <2>3, Zenon
  <2> QED BY <2>4
<1> HIDE DEF Defined
<1>3. Undefined = {}
  <2> SUFFICES ASSUME Undefined # {} PROVE FALSE
    OBVIOUS
  <2>1. PICK n \in Undefined : \A m \in Undefined : n <= m
    BY LeastNumber
  <2>2. n \in Nat /\ n # 0
    BY <1>1
  <2>3. n - 1 \in Nat /\ (n - 1) + 1 = n /\ n - 1 \notin Undefined
    BY <2>1, <2>2
  <2> QED BY <1>2, <2>3
<1>4. Len(s) \in Nat
  OBVIOUS
<1>5. Defined(Len(s))
  BY <1>3, <1>4
<1> QED BY <1>5 DEF Defined

\* Only keeps the members of T, all of them and in their order.
LEMMA OnlyKeeps ==
    ASSUME NEW S, NEW s \in Seq(S), NEW T
    PROVE  /\ Only(s, T) \in Seq(S)
           /\ Range(Only(s, T)) = Range(s) \cap T
           /\ \A i, j \in 1..Len(Only(s, T)) : i < j =>
                \E m, n \in 1..Len(s) : m < n /\ s[m] = Only(s, T)[i] /\ s[n] = Only(s, T)[j]
<1> DEFINE Body(f, i) == IF i = 0 THEN <<>>
                         ELSE IF s[i] \in T THEN Append(f[i - 1], s[i]) ELSE f[i - 1]
<1>1. PICK kept : kept = [i \in 0..Len(s) |-> Body(kept, i)] /\ Only(s, T) = kept[Len(s)]
  <2> DEFINE f == CHOOSE f : f = [i \in 0..Len(s) |-> Body(f, i)]
  <2>0. \E g : g = [i \in 0..Len(s) |-> Body(g, i)]
    BY KeptExists, ZenonT(60)
  <2>1. f = [i \in 0..Len(s) |-> Body(f, i)]
    BY <2>0, Zenon
  <2>2. Only(s, T) = f[Len(s)]
    BY Zenon DEF Only
  <2> QED BY <2>1, <2>2, Zenon
<1>2. \A i \in 0..Len(s) : kept[i] = Body(kept, i)
  BY <1>1, Zenon
<1> DEFINE Good(i) ==
             /\ kept[i] \in Seq(S)
             /\ \A a \in 1..Len(kept[i]) : \E m \in 1..i : s[m] = kept[i][a] /\ s[m] \in T
             /\ \A m \in 1..i : s[m] \in T => \E a \in 1..Len(kept[i]) : kept[i][a] = s[m]
             /\ \A a, b \in 1..Len(kept[i]) : a < b =>
                  \E m, n \in 1..i : m < n /\ s[m] = kept[i][a] /\ s[n] = kept[i][b]
           Bad == {i \in 0..Len(s) : ~Good(i)}
<1>3. Good(0)
  <2>1. kept[0] = <<>> /\ 1..0 = {}
    BY <1>2
  <2> QED BY <2>1
<1>4. ASSUME NEW i \in 0..Len(s), i # Len(s), Good(i)
      PROVE  Good(i + 1)
  <2>1. /\ i + 1 \in 0..Len(s) /\ i + 1 # 0 /\ (i + 1) - 1 = i /\ i \in Nat /\ i + 1 \in 1..Len(s)
        /\ s[i + 1] \in S /\ 1..i \subseteq 1..(i + 1) /\ \A m \in 1..(i + 1) : m = i + 1 \/ m \in 1..i
    BY <1>4, SMTT(30)
  <2>2. CASE s[i + 1] \notin T
    <3>1. kept[i + 1] = kept[i]
      BY <1>2, <2>1, <2>2
    <3> QED BY <1>4, <2>1, <2>2, <3>1
  <2>3. CASE s[i + 1] \in T
    <3> DEFINE r == kept[i]
    <3>1. kept[i + 1] = Append(r, s[i + 1]) /\ r \in Seq(S)
      BY <1>2, <1>4, <2>1, <2>3
    <3>2. /\ kept[i + 1] \in Seq(S) /\ Len(kept[i + 1]) = Len(r) + 1 /\ Len(r) \in Nat
          /\ kept[i + 1][Len(r) + 1] = s[i + 1]
          /\ \A a \in 1..Len(r) : kept[i + 1][a] = r[a]
          /\ \A a \in 1..(Len(r) + 1) : a = Len(r) + 1 \/ a \in 1..Len(r)
          /\ Len(r) + 1 \in 1..(Len(r) + 1) /\ 1..Len(r) \subseteq 1..(Len(r) + 1)
      BY <2>1, <3>1
    <3>3. \A a \in 1..Len(kept[i + 1]) : \E m \in 1..(i + 1) : s[m] = kept[i + 1][a] /\ s[m] \in T
      <4> SUFFICES ASSUME NEW a \in 1..(Len(r) + 1)
                   PROVE  \E m \in 1..(i + 1) : s[m] = kept[i + 1][a] /\ s[m] \in T
        BY <3>2
      <4>1. CASE a = Len(r) + 1
        BY <2>1, <2>3, <3>2, <4>1
      <4>2. CASE a \in 1..Len(r)
        BY <1>4, <2>1, <3>2, <4>2
      <4> QED BY <3>2, <4>1, <4>2
    <3>4. \A m \in 1..(i + 1) : s[m] \in T => \E a \in 1..Len(kept[i + 1]) : kept[i + 1][a] = s[m]
      <4> SUFFICES ASSUME NEW m \in 1..(i + 1), s[m] \in T
                   PROVE  \E a \in 1..(Len(r) + 1) : kept[i + 1][a] = s[m]
        BY <3>2
      <4>1. CASE m = i + 1
        BY <3>2, <4>1
      <4>2. CASE m \in 1..i
        BY <1>4, <3>2, <4>2
      <4> QED BY <2>1, <4>1, <4>2
    <3>5. \A a, b \in 1..Len(kept[i + 1]) : a < b =>
            \E m, n \in 1..(i + 1) : m < n /\ s[m] = kept[i + 1][a] /\ s[n] = kept[i + 1][b]
      <4> SUFFICES ASSUME NEW a \in 1..(Len(r) + 1), NEW b \in 1..(Len(r) + 1), a < b
                   PROVE  \E m, n \in 1..(i + 1) : m < n /\ s[m] = kept[i + 1][a] /\ s[n] = kept[i + 1][b]
        BY <3>2, SMTT(30)
      <4>1. a \in 1..Len(r)
        BY <3>2
      <4>2. CASE b = Len(r) + 1
        <5>1. PICK m \in 1..i : s[m] = r[a]
          BY <1>4, <4>1
        <5>2. m < i + 1 /\ m \in 1..(i + 1) /\ i + 1 \in 1..(i + 1)
          BY <2>1
        <5> QED BY <3>2, <4>1, <4>2, <5>1, <5>2
      <4>3. CASE b \in 1..Len(r)
        BY <1>4, <2>1, <3>2, <4>1, <4>3
      <4> QED BY <3>2, <4>2, <4>3
    <3> QED BY <3>2, <3>3, <3>4, <3>5
  <2> QED BY <2>2, <2>3
<1> HIDE DEF Good
<1>5. Bad = {}
  <2> SUFFICES ASSUME Bad # {} PROVE FALSE
    OBVIOUS
  <2>1. Bad \subseteq Nat
    OBVIOUS
  <2>2. PICK i \in Bad : \A m \in Bad : i <= m
    BY <2>1, LeastNumber
  <2>3. i \in 0..Len(s) /\ i # 0 /\ Len(s) \in Nat
    BY <1>3
  <2>4. i - 1 \in 0..Len(s) /\ i - 1 # Len(s) /\ (i - 1) + 1 = i /\ i - 1 \notin Bad
    BY <2>2, <2>3
  <2> QED BY <1>4, <2>2, <2>4
<1>6. Len(s) \in 0..Len(s) /\ Len(s) \in Nat
  OBVIOUS
<1>7. Good(Len(s))
  BY <1>5, <1>6
<1>8. Only(s, T) = kept[Len(s)]
  BY <1>1
<1> HIDE DEF Bad
<1>9. Only(s, T) \in Seq(S)
  BY <1>7, <1>8 DEF Good
<1>10. DOMAIN s = 1..Len(s) /\ DOMAIN Only(s, T) = 1..Len(Only(s, T))
  BY <1>9
<1>11. Range(Only(s, T)) = Range(s) \cap T
  <2>1. /\ \A a \in 1..Len(Only(s, T)) : \E m \in 1..Len(s) : s[m] = Only(s, T)[a] /\ s[m] \in T
        /\ \A m \in 1..Len(s) : s[m] \in T => \E a \in 1..Len(Only(s, T)) : Only(s, T)[a] = s[m]
    <3> DEFINE k == kept[Len(s)]
    <3>1. /\ \A a \in 1..Len(k) : \E m \in 1..Len(s) : s[m] = k[a] /\ s[m] \in T
          /\ \A m \in 1..Len(s) : s[m] \in T => \E a \in 1..Len(k) : k[a] = s[m]
      BY <1>7, Zenon DEF Good
    <3> HIDE DEF k
    <3>2. Only(s, T) = k
      BY <1>8 DEF k
    <3> QED BY <3>1, <3>2, Zenon
  <2> DEFINE r == Only(s, T)
  <2>2. Range(r) = {r[a] : a \in 1..Len(r)} /\ Range(s) = {s[m] : m \in 1..Len(s)}
    BY <1>10 DEF Range
  <2> HIDE DEF r
  <2>3. /\ \A a \in 1..Len(r) : \E m \in 1..Len(s) : s[m] = r[a] /\ s[m] \in T
        /\ \A m \in 1..Len(s) : s[m] \in T => \E a \in 1..Len(r) : r[a] = s[m]
    BY <2>1 DEF r
  <2>4. Range(r) = Range(s) \cap T
    BY <2>2, <2>3
  <2> QED BY <2>4 DEF r
<1> QED BY <1>7, <1>8, <1>9, <1>11 DEF Good
=============================================================================
