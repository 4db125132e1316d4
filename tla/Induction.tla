------------------------------ MODULE Induction ------------------------------
(***************************************************************************)
(* Induction over the natural numbers in terms of sets and functions, so   *)
(* that no operator has to be instantiated: the least element of a set,    *)
(* the set that holds 0 and all successors, the function defined by        *)
(* primitive recursion.                                                    *)
(***************************************************************************)
EXTENDS Integers, FiniteSetTheorems, TLAPS

\* Every non-empty set of natural numbers has a least element: the smallest of
\* the intervals 0 .. n with n in the set is there, as they are finite sets.
LEMMA LeastNatural ==
  ASSUME NEW T \in SUBSET Nat, T # {}
  PROVE  \E m \in T : \A k \in T : m <= k
<1> DEFINE R == StrictSubsetOrdering(Nat)
           F == FiniteSubsetsOf(Nat)
           I == {0 .. n : n \in T}
<1>1. IsWellFoundedOn(R, F)
  BY FS_StrictSubsetOrderingWellFounded
<1>2. I \subseteq F
  <2>1. \A n \in Nat : IsFiniteSet(0 .. n)
    BY FS_Interval
  <2> QED
    BY <2>1 DEF FiniteSubsetsOf
<1>3. I # {}
  OBVIOUS
<1> HIDE DEF R, F, I
<1>4. PICK x \in I : \A y \in I : <<y, x>> \notin R
  BY <1>1, <1>2, <1>3, WFMin
<1>5. PICK m \in T : x = 0 .. m
  BY DEF I
<1>6. ASSUME NEW k \in T, k < m PROVE FALSE
  <2>1. 0 .. k \subseteq 0 .. m /\ 0 .. k # 0 .. m
    <3>1. m \in 0 .. m /\ m \notin 0 .. k
      BY <1>6
    <3> QED
      BY <1>6, <3>1
  <2>2. 0 .. k \in I
    BY DEF I
  <2>3. 0 .. k \in SUBSET Nat /\ 0 .. m \in SUBSET Nat
    OBVIOUS
  <2>4. <<0 .. k, 0 .. m>> \in R
    BY <2>1, <2>3 DEF R, StrictSubsetOrdering
  <2> QED
    BY <2>2, <2>4, <1>4, <1>5
<1> QED
  BY <1>6

\* A set with 0 and with the successor of each of its elements has them all.
LEMMA InductiveSet ==
  ASSUME NEW S, 0 \in S, \A n \in Nat : n \in S => n + 1 \in S
  PROVE  Nat \subseteq S
<1> SUFFICES ASSUME Nat \ S # {} PROVE FALSE
  OBVIOUS
<1>1. PICK m \in Nat \ S : \A k \in Nat \ S : m <= k
  BY LeastNatural
<1>2. m - 1 \in Nat
  OBVIOUS
<1>3. m - 1 \in S
  BY <1>1, <1>2
<1> QED
  BY <1>1, <1>2, <1>3

\* Primitive recursion defines a function.
LEMMA RecursiveFunction ==
  ASSUME NEW S, NEW a \in S, NEW F \in [S -> S]
  PROVE  \E g : /\ g = [n \in Nat |-> IF n = 0 THEN a ELSE F[g[n - 1]]]
                /\ g \in [Nat -> S]
<1> DEFINE Start(f, n) == /\ f \in [0 .. n -> S] /\ f[0] = a
                          /\ \A i \in 1 .. n : f[i] = F[f[i - 1]]
           D == {n \in Nat : \E f : Start(f, n)}
<1>1. Nat \subseteq D
  <2>1. 0 \in D
    <3>1. Start([i \in 0 .. 0 |-> a], 0)
      OBVIOUS
    <3> QED
      BY <3>1
  <2>2. ASSUME NEW n \in D PROVE n + 1 \in D
    <3>1. PICK f : Start(f, n)
      OBVIOUS
    <3> DEFINE h == [i \in 0 .. n + 1 |-> IF i = n + 1 THEN F[f[n]] ELSE f[i]]
    <3>2. Start(h, n + 1)
      <4>1. h \in [0 .. n + 1 -> S] /\ h[0] = a
        BY <3>1
      <4>2. ASSUME NEW i \in 1 .. n + 1 PROVE h[i] = F[h[i - 1]]
        BY <3>1
      <4> QED
        BY <4>1, <4>2
    <3> HIDE DEF h, Start
    <3>3. \E q : Start(q, n + 1)
      BY <3>2
    <3> QED
      BY <3>3
  <2> HIDE DEF D
  <2> QED
    BY <2>1, <2>2, InductiveSet
<1>2. ASSUME NEW m \in Nat, NEW n \in Nat, NEW f, NEW h, Start(f, m), Start(h, n)
      PROVE  \A i \in Nat : i <= m /\ i <= n => f[i] = h[i]
  <2> DEFINE E == {i \in Nat : i <= m /\ i <= n => f[i] = h[i]}
  <2>1. 0 \in E
    BY <1>2
  <2>2. ASSUME NEW i \in E PROVE i + 1 \in E
    BY <1>2
  <2>3. Nat \subseteq E
    <3> HIDE DEF E
    <3> QED
      BY <2>1, <2>2, InductiveSet
  <2> QED
    BY <2>3
<1> DEFINE s == [n \in Nat |-> CHOOSE f : Start(f, n)]
           g == [n \in Nat |-> s[n][n]]
<1>3. \A n \in Nat : Start(s[n], n)
  BY <1>1
<1> HIDE DEF s
<1>4. g \in [Nat -> S]
  BY <1>3
<1>5. g[0] = a
  BY <1>3
<1>6. ASSUME NEW n \in Nat, n # 0 PROVE g[n] = F[g[n - 1]]
  <2>1. n - 1 \in Nat
    BY <1>6
  <2>2. s[n][n] = F[s[n][n - 1]]
    BY <1>3, <1>6
  <2>3. s[n][n - 1] = s[n - 1][n - 1]
    <3>1. Start(s[n], n) /\ Start(s[n - 1], n - 1)
      BY <1>3, <2>1
    <3> HIDE DEF Start
    <3> QED
      BY <1>2, <2>1, <3>1
  <2> QED
    BY <2>1, <2>2, <2>3
<1>7. g = [n \in Nat |-> IF n = 0 THEN a ELSE F[g[n - 1]]]
  BY <1>5, <1>6
<1> QED
  BY <1>4, <1>7
=============================================================================
