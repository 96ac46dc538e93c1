---------------------------- MODULE WellOrdering ----------------------------
(***************************************************************************)
(* Facts about natural numbers that the other proofs induce with.  The     *)
(* library states induction for a predicate; here it is stated for a set,  *)
(* which every prover can be given.  The last ones are about a sequence    *)
(* that is collected by recursion on a number.                             *)
(***************************************************************************)
EXTENDS Naturals, Sequences, FiniteSetTheorems, WellFoundedInduction, TLAPS

\* A set of natural numbers that is not empty has a least one: the smallest of the
\* finite sets of all the numbers below one of them.
LEMMA LeastNatural ==
  ASSUME NEW A \in SUBSET Nat, A # {}
  PROVE  \E m \in A : \A k \in A : m <= k
<1> DEFINE Below(n) == 0 .. n - 1
           T == {Below(n) : n \in A}
<1>1. IsWellFoundedOn(StrictSubsetOrdering(Nat), FiniteSubsetsOf(Nat))
  BY FS_StrictSubsetOrderingWellFounded
<1>2. T \subseteq FiniteSubsetsOf(Nat)
  <2> SUFFICES ASSUME NEW n \in A PROVE Below(n) \in FiniteSubsetsOf(Nat)
    OBVIOUS
  <2>1. 0 \in Int /\ n - 1 \in Int
    OBVIOUS
  <2>2. IsFiniteSet(0 .. n - 1)
    BY <2>1, FS_Interval
  <2> QED
    BY <2>2 DEF FiniteSubsetsOf
<1>3. T # {}
  OBVIOUS
<1>4. PICK S \in T : \A R \in T : <<R, S>> \notin StrictSubsetOrdering(Nat)
  <2> HIDE DEF T
  <2> QED
    BY <1>1, <1>2, <1>3, WFMin
<1>5. PICK m \in A : S = Below(m)
  BY <1>4
<1>6. ASSUME NEW k \in A, k < m PROVE FALSE
  <2>1. Below(k) \subseteq Below(m) /\ k \in Below(m) /\ k \notin Below(k)
    BY <1>6
  <2>2. <<Below(k), Below(m)>> \in StrictSubsetOrdering(Nat)
    BY <2>1 DEF StrictSubsetOrdering
  <2> QED
    BY <1>4, <1>5, <2>2
<1> QED
  BY <1>6

\* A finite set of natural numbers that is not empty has a greatest one, by the same
\* argument with the numbers above one of them.
LEMMA GreatestNatural ==
  ASSUME NEW A \in SUBSET Nat, IsFiniteSet(A), A # {}
  PROVE  \E m \in A : \A k \in A : k <= m
<1> DEFINE Above(n) == {k \in A : k > n}
           T == {Above(n) : n \in A}
<1>1. IsWellFoundedOn(StrictSubsetOrdering(A), FiniteSubsetsOf(A))
  BY FS_StrictSubsetOrderingWellFounded
<1>2. T \subseteq FiniteSubsetsOf(A)
  <2> SUFFICES ASSUME NEW n \in A PROVE Above(n) \in FiniteSubsetsOf(A)
    OBVIOUS
  <2>1. Above(n) \in SUBSET A
    OBVIOUS
  <2>2. IsFiniteSet(Above(n))
    BY <2>1, FS_Subset
  <2> QED
    BY <2>1, <2>2 DEF FiniteSubsetsOf
<1>3. T # {}
  OBVIOUS
<1>4. PICK S \in T : \A R \in T : <<R, S>> \notin StrictSubsetOrdering(A)
  <2> HIDE DEF T
  <2> QED
    BY <1>1, <1>2, <1>3, WFMin
<1>5. PICK m \in A : S = Above(m)
  BY <1>4
<1>6. ASSUME NEW k \in A, k > m PROVE FALSE
  <2>1. Above(k) \subseteq Above(m)
    <3> SUFFICES ASSUME NEW j \in A, j > k PROVE j > m
      OBVIOUS
    <3>1. j \in Nat /\ k \in Nat /\ m \in Nat
      OBVIOUS
    <3> QED
      BY <1>6, <3>1
  <2>3. k \in Above(m)
    BY <1>6
  <2>4. k \notin Above(k)
    <3>1. k \in Nat
      OBVIOUS
    <3> QED
      BY <3>1
  <2>2. <<Above(k), Above(m)>> \in StrictSubsetOrdering(A)
    BY <2>1, <2>3, <2>4 DEF StrictSubsetOrdering
  <2> QED
    BY <1>4, <1>5, <2>2
<1> QED
  BY <1>6

\* What holds of 0 and passes from each number to the next holds of all numbers: the
\* induction over a set.
LEMMA SetInduction ==
  ASSUME NEW S, 0 \in S, \A n \in Nat : n \in S => n + 1 \in S
  PROVE  Nat \subseteq S
<1> SUFFICES ASSUME Nat \ S # {} PROVE FALSE
  OBVIOUS
<1>1. PICK m \in Nat \ S : \A k \in Nat \ S : m <= k
  BY LeastNatural
<1>2. m # 0 /\ m - 1 \in Nat /\ m - 1 \notin Nat \ S
  BY <1>1
<1> QED
  BY <1>1, <1>2

Recursive(f, l, T, a, G) ==
  f \in [0 .. l -> T] /\ f[0] = a /\ \A i \in 1 .. l : f[i] = G[<<f[i - 1], i>>]

\* A function that is defined by recursion over the numbers up to l is the one of its
\* equations: there is one, as each value leads to the next.
LEMMA Recursion ==
  ASSUME NEW l \in Nat, NEW T, NEW a \in T, NEW G \in [T \X (1 .. l) -> T]
  PROVE  \E f : Recursive(f, l, T, a, G)
<1> USE DEF Recursive
<1> DEFINE Upto(f, n) == Recursive(f, n, T, a, G)
           I == {n \in Nat : n <= l => \E f : Upto(f, n)}
<1>1. 0 \in I
  <2> DEFINE f == [i \in 0 .. 0 |-> a]
  <2>1. Upto(f, 0)
    OBVIOUS
  <2> QED
    BY <2>1
<1>2. ASSUME NEW n \in Nat, n \in I PROVE n + 1 \in I
  <2> SUFFICES ASSUME n + 1 <= l PROVE \E f : Upto(f, n + 1)
    OBVIOUS
  <2>1. PICK f : Upto(f, n)
    BY <1>2
  <2> DEFINE g == [i \in 0 .. n + 1 |-> IF i = n + 1 THEN G[<<f[n], n + 1>>] ELSE f[i]]
  <2>2. f[n] \in T /\ n + 1 \in 1 .. l
    BY <2>1
  <2>3. G[<<f[n], n + 1>>] \in T
    BY <2>2
  <2>4. g \in [0 .. n + 1 -> T] /\ g[0] = a /\ g[n + 1] = G[<<f[n], n + 1>>]
    BY <2>1, <2>3
  <2>5. \A i \in 0 .. n : g[i] = f[i]
    OBVIOUS
  <2> HIDE DEF g
  <2>6. ASSUME NEW i \in 1 .. n + 1 PROVE g[i] = G[<<g[i - 1], i>>]
    <3>1. CASE i = n + 1
      <4>1. i - 1 = n /\ g[n] = f[n]
        BY <2>5, <3>1
      <4> QED
        BY <2>4, <3>1, <4>1
    <3>2. CASE i # n + 1
      <4>1. i \in 1 .. n /\ i \in 0 .. n /\ i - 1 \in 0 .. n
        BY <3>2
      <4>2. g[i] = f[i] /\ g[i - 1] = f[i - 1] /\ f[i] = G[<<f[i - 1], i>>]
        BY <2>1, <2>5, <4>1
      <4> QED
        BY <4>2
    <3> QED
      BY <3>1, <3>2
  <2>7. Upto(g, n + 1)
    BY <2>4, <2>6
  <2> QED
    BY <2>7
<1> HIDE DEF I
<1>3. l \in I
  BY <1>1, <1>2, SetInduction
<1>4. PICK f : Upto(f, l)
  BY <1>3 DEF I
<1> QED
  BY <1>4

-----------------------------------------------------------------------------
\* f[n] is the sequence of the items x[i] of those of the numbers up to n that are in S.
Collects(f, l, S, x) ==
  f = [n \in 0 .. l |->
        IF n = 0 THEN <<>> ELSE IF n \in S THEN Append(f[n - 1], x[n]) ELSE f[n - 1]]

\* There is such a function.
LEMMA GatheringExists ==
  ASSUME NEW l \in Nat, NEW V, NEW S, NEW x \in [1 .. l -> V]
  PROVE  \E f : Collects(f, l, S, x)
<1> DEFINE T == Seq(V)
           With(s, n) == IF n \in S THEN Append(s, x[n]) ELSE s
           G == [p \in T \X (1 .. l) |-> With(p[1], p[2])]
<1>1. <<>> \in T /\ \A s \in T, n \in 1 .. l : With(s, n) \in T
  OBVIOUS
<1> HIDE DEF T, With
<1>2. G \in [T \X (1 .. l) -> T] /\ \A s \in T, n \in 1 .. l : G[<<s, n>>] = With(s, n)
  BY <1>1
<1> HIDE DEF G
<1>3. PICK f : Recursive(f, l, T, <<>>, G)
  BY <1>1, <1>2, Recursion
<1>4. /\ f \in [0 .. l -> T] /\ f[0] = <<>>
      /\ \A n \in 1 .. l : f[n] = G[<<f[n - 1], n>>]
  BY <1>3 DEF Recursive
<1> DEFINE Value(n) == IF n = 0 THEN <<>> ELSE With(f[n - 1], n)
<1>5. ASSUME NEW n \in 0 .. l PROVE f[n] = Value(n)
  <2>1. CASE n = 0
    BY <1>4, <2>1
  <2>2. CASE n # 0
    <3>1. n \in 1 .. l /\ n - 1 \in 0 .. l
      BY <2>2
    <3> QED
      BY <1>2, <1>4, <2>2, <3>1
  <2> QED
    BY <2>1, <2>2
<1>6. f = [n \in 0 .. l |-> Value(n)]
  <2> HIDE DEF Value
  <2> QED
    BY <1>4, <1>5
<1>7. Collects(f, l, S, x)
  BY <1>6 DEF Collects, With
<1> QED
  BY <1>7

LEMMA GatheringStep ==
  ASSUME NEW l \in Nat, NEW S, NEW x, NEW f, Collects(f, l, S, x)
  PROVE  /\ f[0] = <<>>
         /\ \A n \in 1 .. l : n \in S => f[n] = Append(f[n - 1], x[n])
         /\ \A n \in 1 .. l : n \notin S => f[n] = f[n - 1]
<1> DEFINE Value(n) ==
             IF n = 0 THEN <<>> ELSE IF n \in S THEN Append(f[n - 1], x[n]) ELSE f[n - 1]
<1>1. f = [n \in 0 .. l |-> Value(n)]
  BY DEF Collects
<1> HIDE DEF Value
<1>2. \A n \in 0 .. l : f[n] = Value(n)
  BY <1>1
<1>3. 0 \in 0 .. l /\ \A n \in 1 .. l : n \in 0 .. l /\ n # 0
  OBVIOUS
<1> QED
  BY <1>2, <1>3 DEF Value

LEMMA GatheredInSeq ==
  ASSUME NEW l \in Nat, NEW V, NEW S, NEW x \in [1 .. l -> V], NEW f, Collects(f, l, S, x),
         NEW n \in 0 .. l
  PROVE  f[n] \in Seq(V)
<1> DEFINE I == {k \in Nat : k <= l => f[k] \in Seq(V)}
<1>1. 0 \in I
  <2>1. f[0] = <<>> /\ <<>> \in Seq(V)
    BY GatheringStep
  <2> QED
    BY <2>1
<1>2. ASSUME NEW k \in Nat, k \in I PROVE k + 1 \in I
  <2> SUFFICES ASSUME k + 1 <= l PROVE f[k + 1] \in Seq(V)
    OBVIOUS
  <2>1. k + 1 \in 1 .. l /\ (k + 1) - 1 = k /\ f[k] \in Seq(V)
    BY <1>2
  <2>2. f[k + 1] = Append(f[k], x[k + 1]) \/ f[k + 1] = f[k]
    BY <2>1, GatheringStep
  <2> QED
    BY <2>1, <2>2
<1> HIDE DEF I
<1>3. n \in I
  BY <1>1, <1>2, SetInduction
<1> QED
  BY <1>3 DEF I

LEMMA NothingGathered ==
  ASSUME NEW l \in Nat, NEW S, NEW x, NEW f, Collects(f, l, S, x),
         NEW a \in 0 .. l, NEW b \in 0 .. l, a <= b, \A n \in a + 1 .. b : n \notin S
  PROVE  f[b] = f[a]
<1> DEFINE I == {k \in Nat : a + k <= b => f[a + k] = f[a]}
<1>1. 0 \in I
  OBVIOUS
<1>2. ASSUME NEW k \in Nat, k \in I PROVE k + 1 \in I
  <2> SUFFICES ASSUME a + (k + 1) <= b PROVE f[a + (k + 1)] = f[a]
    OBVIOUS
  <2>1. PICK n \in Nat : n = a + k
    OBVIOUS
  <2>2. n + 1 = a + (k + 1) /\ n + 1 \in a + 1 .. b /\ n + 1 \in 1 .. l /\ (n + 1) - 1 = n
    BY <2>1
  <2>3. f[n] = f[a]
    BY <1>2, <2>1
  <2>4. f[n + 1] = f[n]
    BY <2>2, GatheringStep
  <2> QED
    BY <2>2, <2>3, <2>4
<1> HIDE DEF I
<1>3. b - a \in I
  BY <1>1, <1>2, SetInduction
<1>4. a + (b - a) = b
  OBVIOUS
<1> QED
  BY <1>3, <1>4 DEF I

\* What was gathered up to a number stays at its place.
Prolongs(t, s, V) ==
  /\ s \in Seq(V) /\ t \in Seq(V)
  /\ Len(s) <= Len(t)
  /\ \A k \in 1 .. Len(s) : t[k] = s[k]
LEMMA GatheredBefore ==
  ASSUME NEW l \in Nat, NEW V, NEW S, NEW x \in [1 .. l -> V], NEW f, Collects(f, l, S, x),
         NEW a \in 0 .. l, NEW b \in 0 .. l, a <= b
  PROVE  Prolongs(f[b], f[a], V)
<1> DEFINE Longer(s) == /\ Len(f[a]) <= Len(s)
                        /\ \A k \in 1 .. Len(f[a]) : s[k] = f[a][k]
           I == {k \in Nat : a + k <= b => Longer(f[a + k])}
<1>0. \A n \in 0 .. l : f[n] \in Seq(V)
  BY GatheredInSeq
<1>1. 0 \in I
  <2>1. a + 0 = a /\ Longer(f[a])
    BY <1>0
  <2> QED
    BY <2>1
<1>2. ASSUME NEW k \in Nat, k \in I PROVE k + 1 \in I
  <2> SUFFICES ASSUME a + (k + 1) <= b PROVE Longer(f[a + (k + 1)])
    OBVIOUS
  <2>1. PICK n \in Nat : n = a + k
    OBVIOUS
  <2>2. n + 1 = a + (k + 1) /\ n + 1 \in 1 .. l /\ (n + 1) - 1 = n /\ n \in 0 .. l
    BY <2>1
  <2>3. Longer(f[n])
    BY <1>2, <2>1
  <2>4. f[n + 1] = Append(f[n], x[n + 1]) \/ f[n + 1] = f[n]
    BY <2>2, GatheringStep
  <2>5. Longer(f[n + 1])
    <3>1. PICK s, t, v :
            /\ s = f[a] /\ t = f[n] /\ v = x[n + 1]
            /\ s \in Seq(V) /\ t \in Seq(V) /\ v \in V
      BY <1>0, <2>2
    <3>2. Len(s) <= Len(t) /\ \A j \in 1 .. Len(s) : t[j] = s[j]
      BY <2>3, <3>1
    <3>3. Len(Append(t, v)) = Len(t) + 1 /\ \A j \in 1 .. Len(t) : Append(t, v)[j] = t[j]
      BY <3>1
    <3>4. Len(s) \in Nat /\ Len(t) \in Nat
      BY <3>1
    <3>5. \A j \in 1 .. Len(s) : j \in 1 .. Len(t)
      BY <3>2, <3>4
    <3>6. /\ Len(s) <= Len(Append(t, v))
          /\ \A j \in 1 .. Len(s) : Append(t, v)[j] = s[j]
      BY <3>2, <3>3, <3>4, <3>5
    <3> QED
      BY <2>3, <2>4, <3>1, <3>6
  <2> QED
    BY <2>2, <2>5
<1> HIDE DEF I
<1>3. b - a \in I
  BY <1>1, <1>2, SetInduction
<1>4. a + (b - a) = b
  OBVIOUS
<1> QED
  BY <1>0, <1>3, <1>4 DEF I, Prolongs

=============================================================================
