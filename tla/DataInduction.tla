---------------------------- MODULE DataInduction ----------------------------
(***************************************************************************)
(* Induction over the naturals, stated about sets: the library's induction *)
(* theorems take a predicate as a parameter, which no prover here can      *)
(* instantiate.  That a set of naturals has a least element rests on the   *)
(* strict inclusion of finite sets being well founded.  What follows from  *)
(* it is what the other modules need of sequences: a greatest index, order *)
(* from the order of neighbours, and sums.                                 *)
(***************************************************************************)
EXTENDS Integers, FiniteSetTheorems, WellFoundedInduction, TLAPS

\* A set of naturals that is not empty has a least element.
LEMMA LeastOf ==
  ASSUME NEW T, T \subseteq Nat, T # {}
  PROVE  \E n \in T : \A m \in T : n <= m
<1> DEFINE Upto(k) == {m \in T : m <= k}
           U == {Upto(k) : k \in T}
           R == StrictSubsetOrdering(Nat)
<1>1. ASSUME NEW k \in T PROVE Upto(k) \in FiniteSubsetsOf(Nat)
  <2>1. Upto(k) \subseteq Nat /\ \A m \in Upto(k) : m <= k
    OBVIOUS
  <2> HIDE DEF Upto
  <2>2. k \in Nat /\ Upto(k) \in SUBSET Nat
    BY <2>1
  <2>3. IsFiniteSet(Upto(k))
    BY <2>1, <2>2, FS_BoundedSetOfNaturals
  <2> QED BY <2>2, <2>3 DEF FiniteSubsetsOf
<1>2. U \subseteq FiniteSubsetsOf(Nat) /\ U # {}
  BY <1>1
<1>3. IsWellFoundedOn(R, FiniteSubsetsOf(Nat))
  BY FS_StrictSubsetOrderingWellFounded
<1>4. PICK M \in U : \A L \in U : ~ (<<L, M>> \in R)
  <2> HIDE DEF R, U
  <2> QED BY <1>2, <1>3, WFMin
<1>5. PICK n \in T : M = Upto(n)
  OBVIOUS
<1>6. ASSUME NEW m \in T, m < n PROVE FALSE
  <2>1. Upto(m) \subseteq Upto(n) /\ n \in Upto(n) /\ n \notin Upto(m)
    <3>1. m \in Nat /\ n \in Nat
      OBVIOUS
    <3>2. \A x \in T : x <= m => x <= n
      BY <1>6, <3>1
    <3>3. n <= n /\ ~(n <= m)
      BY <1>6, <3>1
    <3> QED BY <3>2, <3>3
  <2>2. Upto(m) \in SUBSET Nat /\ Upto(n) \in SUBSET Nat /\ Upto(m) \in U
    OBVIOUS
  <2>3. <<Upto(m), M>> \in R
    BY <1>5, <2>1, <2>2 DEF StrictSubsetOrdering
  <2> QED BY <1>4, <2>2, <2>3
<1> QED BY <1>6

\* Induction from 0 to n.
THEOREM IntervalInduction ==
  ASSUME NEW n \in Nat, NEW S, 0 \in S, \A i \in 1 .. n : i - 1 \in S => i \in S
  PROVE  0 .. n \subseteq S
<1> DEFINE T == (0 .. n) \ S
<1> SUFFICES ASSUME T # {} PROVE FALSE
  OBVIOUS
<1>1. PICK i \in T : \A j \in T : i <= j
  <2>1. T \subseteq Nat
    OBVIOUS
  <2> HIDE DEF T
  <2> QED BY <2>1, LeastOf
<1>2. i \in 1 .. n /\ i - 1 \in 0 .. n /\ ~(i <= i - 1)
  OBVIOUS
<1>3. i - 1 \notin T
  BY <1>1, <1>2
<1> QED BY <1>2, <1>3

\* A transitive relation that holds between neighbours holds between all.
THEOREM NeighboursSuffice ==
  ASSUME NEW n \in Nat, NEW R,
         \A i \in 1 .. n - 1 : <<i, i + 1>> \in R,
         \A i, j, k \in 1 .. n : <<i, j>> \in R /\ <<j, k>> \in R => <<i, k>> \in R
  PROVE  \A i, j \in 1 .. n : i < j => <<i, j>> \in R
<1> SUFFICES ASSUME NEW i \in 1 .. n PROVE \A j \in 1 .. n : i < j => <<i, j>> \in R
  OBVIOUS
<1> DEFINE S == {j \in 0 .. n : i < j => <<i, j>> \in R}
<1>1. 0 \in S
  OBVIOUS
<1>2. ASSUME NEW j \in 1 .. n, j - 1 \in S PROVE j \in S
  <2>1. CASE j <= i
    BY <2>1
  <2>2. CASE j = i + 1
    BY <2>2
  <2>3. CASE j > i + 1
    <3>1. j - 1 \in 1 .. n - 1 /\ i < j - 1 /\ (j - 1) + 1 = j
      BY <2>3
    <3>2. <<j - 1, (j - 1) + 1>> \in R
      BY <3>1
    <3>3. <<i, j - 1>> \in R
      BY <1>2, <3>1
    <3>4. <<i, j>> \in R
      BY <3>1, <3>2, <3>3
    <3> QED BY <3>4
  <2> QED BY <2>1, <2>2, <2>3
<1>3. 0 .. n \subseteq S
  <2> HIDE DEF S
  <2> QED BY <1>1, <1>2, IntervalInduction
<1> QED BY <1>3

\* What a recursive function that sums t up is to be; there is one.
Sums(f, n, t) == f = [i \in 0 .. n |-> IF i = 0 THEN 0 ELSE f[i - 1] + t[i]]

LEMMA SumsExist == ASSUME NEW n \in Nat, NEW t PROVE \E f : Sums(f, n, t)
<1> DEFINE S == {m \in 0 .. n : \E f : Sums(f, m, t)}
<1>1. 0 \in S
  <2> DEFINE f == [i \in 0 .. 0 |-> 0]
  <2>1. Sums(f, 0, t)
    BY DEF Sums
  <2> QED BY <2>1
<1>2. ASSUME NEW m \in 1 .. n, m - 1 \in S PROVE m \in S
  <2>1. PICK f : Sums(f, m - 1, t)
    BY <1>2
  <2> DEFINE g == [i \in 0 .. m |-> IF i = m THEN f[m - 1] + t[m] ELSE f[i]]
             h == [i \in 0 .. m |-> IF i = 0 THEN 0 ELSE g[i - 1] + t[i]]
  <2>2. ASSUME NEW i \in 0 .. m PROVE g[i] = h[i]
    <3>1. CASE i = m
      BY <3>1
    <3>2. CASE i # m
      <4>1. i \in 0 .. m - 1 /\ g[i] = f[i]
        BY <3>2
      <4>2. f[i] = IF i = 0 THEN 0 ELSE f[i - 1] + t[i]
        BY <2>1, <4>1 DEF Sums
      <4>3. i # 0 => g[i - 1] = f[i - 1]
        BY <4>1
      <4> QED BY <4>1, <4>2, <4>3
    <3> QED BY <3>1, <3>2
  <2>3. g = h
    BY <2>2
  <2>4. Sums(g, m, t)
    BY <2>3 DEF Sums
  <2> QED BY <2>4
<1>3. n \in S
  <2> HIDE DEF S
  <2>1. 0 .. n \subseteq S
    BY <1>1, <1>2, IntervalInduction
  <2> QED BY <2>1
<1> QED BY <1>3

LEMMA ChosenSums ==
  ASSUME NEW n \in Nat, NEW t, NEW f, f = CHOOSE g : Sums(g, n, t)
  PROVE  Sums(f, n, t)
<1>1. \E g : Sums(g, n, t)
  BY SumsExist
<1> QED BY <1>1, Zenon

\* The sums of naturals: their equations, and that they grow.
THEOREM SumFacts ==
  ASSUME NEW n \in Nat, NEW t \in [1 .. n -> Nat], NEW f, Sums(f, n, t)
  PROVE  /\ f[0] = 0
         /\ \A i \in 1 .. n : f[i] = f[i - 1] + t[i]
         /\ f \in [0 .. n -> Nat]
         /\ \A i \in 0 .. n : f[i] <= f[n]
<1>1. f[0] = 0 /\ \A i \in 1 .. n : f[i] = f[i - 1] + t[i]
  <2>1. 0 \in 0 .. n /\ \A i \in 1 .. n : i \in 0 .. n /\ i # 0
    OBVIOUS
  <2> QED BY <2>1 DEF Sums
<1>2. \A i \in 0 .. n : f[i] \in Nat
  <2> DEFINE S == {i \in 0 .. n : f[i] \in Nat}
  <2>1. 0 \in S /\ \A i \in 1 .. n : i - 1 \in S => i \in S
    BY <1>1
  <2> HIDE DEF S
  <2>2. 0 .. n \subseteq S
    BY <2>1, IntervalInduction
  <2> QED BY <2>2 DEF S
<1>3. f \in [0 .. n -> Nat]
  BY <1>2 DEF Sums
<1>4. \A i \in 0 .. n : f[i] <= f[n]
  <2> DEFINE S == {k \in 0 .. n : f[n - k] <= f[n]}
  <2>1. 0 \in S
    BY <1>2
  <2>2. ASSUME NEW k \in 1 .. n, k - 1 \in S PROVE k \in S
    <3>1. n - k \in 0 .. n /\ n - k + 1 \in 1 .. n /\ (n - k + 1) - 1 = n - k
          /\ n - (k - 1) = n - k + 1
      OBVIOUS
    <3>2. f[n - k + 1] = f[n - k] + t[n - k + 1]
      BY <1>1, <3>1
    <3>3. f[n - k + 1] <= f[n]
      BY <2>2, <3>1
    <3>4. f[n - k] \in Nat /\ t[n - k + 1] \in Nat /\ f[n] \in Nat
      BY <1>2, <3>1
    <3> QED BY <3>2, <3>3, <3>4
  <2>3. 0 .. n \subseteq S
    <3> HIDE DEF S
    <3> QED BY <2>1, <2>2, IntervalInduction
  <2>4. ASSUME NEW i \in 0 .. n PROVE f[i] <= f[n]
    <3>1. n - i \in 0 .. n /\ n - (n - i) = i
      OBVIOUS
    <3> QED BY <2>3, <3>1
  <2> QED BY <2>4
<1> QED BY <1>1, <1>3, <1>4

\* A sum of n summands is at most n times their bound.
THEOREM SumBound ==
  ASSUME NEW n \in Nat, NEW t \in [1 .. n -> Nat], NEW f, Sums(f, n, t),
         NEW c \in Nat, \A i \in 1 .. n : t[i] <= c
  PROVE  f[n] <= n * c
<1>1. f[0] = 0 /\ f \in [0 .. n -> Nat] /\ \A i \in 1 .. n : f[i] = f[i - 1] + t[i]
  BY SumFacts
<1> DEFINE S == {i \in 0 .. n : f[i] <= i * c}
<1>2. 0 \in S
  BY <1>1
<1>3. ASSUME NEW i \in 1 .. n, i - 1 \in S PROVE i \in S
  <2>1. f[i - 1] \in Nat /\ t[i] \in Nat /\ f[i] = f[i - 1] + t[i]
    BY <1>1
  <2>2. i * c = (i - 1) * c + c /\ (i - 1) * c \in Nat
    OBVIOUS
  <2> QED BY <1>3, <2>1, <2>2
<1>4. 0 .. n \subseteq S
  <2> HIDE DEF S
  <2> QED BY <1>2, <1>3, IntervalInduction
<1> QED BY <1>4
=============================================================================
