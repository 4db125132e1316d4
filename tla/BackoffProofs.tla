---------------------------- MODULE BackoffProofs ----------------------------
(***************************************************************************)
(* Theorems about Backoff for all delays, bounds and sizes of a duration.  *)
(***************************************************************************)
EXTENDS Backoff, Induction

\* A wrapped number fits, and one that fits is not changed.
LEMMA WrapProperties ==
  ASSUME NEW top \in Nat, NEW n \in Int
  PROVE  /\ Wrap(n, top) \in (-top - 1) .. top
         /\ n \in (-top - 1) .. top => Wrap(n, top) = n
<1> DEFINE size == 2 * (top + 1)
<1>1. size \in Nat \ {0}
  OBVIOUS
<1>2. (n + top + 1) % size \in 0 .. size - 1
  BY <1>1
<1>3. n \in (-top - 1) .. top => (n + top + 1) % size = n + top + 1
  <2> SUFFICES ASSUME n \in (-top - 1) .. top PROVE (n + top + 1) % size = n + top + 1
    OBVIOUS
  <2>1. n + top + 1 \in 0 .. size - 1
    OBVIOUS
  <2> HIDE DEF size
  <2> QED
    BY <1>1, <2>1
<1> QED
  BY <1>2, <1>3 DEF Wrap

\* The recursion of Doublings defines what it says.
LEMMA DoublingsDefined ==
  ASSUME NEW delay \in Int, NEW top \in Nat
  PROVE  /\ Doublings(delay, top) \in [Nat -> Int]
         /\ Doublings(delay, top)[0] = delay
         /\ \A n \in Nat :
              Doublings(delay, top)[n + 1] = Wrap(2 * Doublings(delay, top)[n], top)
<1> DEFINE F == [x \in Int |-> Wrap(2 * x, top)]
           d == Doublings(delay, top)
<1>1. F \in [Int -> Int]
  BY WrapProperties
<1>2. PICK g : /\ g = [n \in Nat |-> IF n = 0 THEN delay ELSE F[g[n - 1]]]
               /\ g \in [Nat -> Int]
  <2> HIDE DEF F
  <2> QED
    BY <1>1, RecursiveFunction
<1>3. g = [n \in Nat |-> IF n = 0 THEN delay ELSE Wrap(2 * g[n - 1], top)]
  <2>a. g \in [Nat -> Int]
    BY <1>2
  <2>1. \A n \in Nat : n # 0 => g[n - 1] \in Int
    BY <2>a
  <2>2. \A n \in Nat : n # 0 => F[g[n - 1]] = Wrap(2 * g[n - 1], top)
    BY <2>1
  <2> HIDE DEF F
  <2> QED
    BY <1>2, <2>2
<1>4. d = [n \in Nat |-> IF n = 0 THEN delay ELSE Wrap(2 * d[n - 1], top)]
  BY <1>3 DEF Doublings
<1> HIDE DEF d, F
<1>5. d[0] = delay /\ \A n \in Nat : d[n + 1] = Wrap(2 * d[n], top)
  BY <1>4
<1>6. \A n \in Nat : d[n] \in Int
  <2> DEFINE S == {n \in Nat : d[n] \in Int}
  <2>1. 0 \in S
    BY <1>5
  <2>2. ASSUME NEW n \in Nat, n \in S PROVE n + 1 \in S
    <3>1. 2 * d[n] \in Int
      BY <2>2
    <3>2. Wrap(2 * d[n], top) \in Int
      BY <3>1, WrapProperties
    <3> QED
      BY <1>5, <3>2
  <2>3. Nat \subseteq S
    <3> HIDE DEF S
    <3> QED
      BY <2>1, <2>2, InductiveSet
  <2> QED
    BY <2>3
<1>7. d \in [Nat -> Int]
  BY <1>4, <1>6
<1> QED
  BY <1>5, <1>7 DEF d

\* Unless the limit is beyond half of what a duration can hold, doubling meets
\* the limit before it wraps around: until then delays stay between the bounds
\* (the loop of Exponential).
LEMMA DoublingsStayBelow ==
  ASSUME NEW lo \in Nat, NEW hi \in Nat, NEW top \in Nat, lo <= hi, 2 * hi <= top
  PROVE  \A n \in Nat : \/ \E i \in 1 .. n : Doublings(lo, top)[i] >= hi
                        \/ Doublings(lo, top)[n] \in lo .. hi
<1> DEFINE d == Doublings(lo, top)
           S == {n \in Nat : \/ \E i \in 1 .. n : d[i] >= hi
                             \/ d[n] \in lo .. hi}
<1>1. d \in [Nat -> Int] /\ d[0] = lo /\ \A n \in Nat : d[n + 1] = Wrap(2 * d[n], top)
  BY DoublingsDefined
<1> HIDE DEF d
<1>2. 0 \in S
  BY <1>1
<1>3. ASSUME NEW n \in Nat, n \in S PROVE n + 1 \in S
  <2>1. CASE \E i \in 1 .. n : d[i] >= hi
    BY <2>1
  <2>2. CASE (\A i \in 1 .. n : ~(d[i] >= hi)) /\ d[n] \in lo .. hi
    <3>1. 2 * d[n] \in (-top - 1) .. top
      BY <2>2
    <3>2. d[n + 1] = 2 * d[n]
      BY <1>1, <3>1, WrapProperties
    <3>3. CASE d[n + 1] >= hi
      BY <3>3
    <3>4. CASE d[n + 1] < hi
      BY <2>2, <3>2, <3>4
    <3> QED
      BY <2>2, <3>2, <3>3, <3>4
  <2> QED
    BY <1>3, <2>1, <2>2
<1>4. Nat \subseteq S
  <2> HIDE DEF S
  <2> QED
    BY <1>2, <1>3, InductiveSet
<1> QED
  BY <1>4 DEF d

\* Exponential keeps to its bounds, whatever the attempt and the two bounds
\* it is given, as long as the limit is not beyond half of what a duration can
\* hold (backoff.go:5).
THEOREM ExponentialBounded ==
  ASSUME NEW attempt \in Int, NEW min \in Int, NEW max \in Int, NEW top \in Nat,
         2 * Upper(min, max) <= top
  PROVE  Exponential(attempt, min, max, top) \in Lower(min) .. Upper(min, max)
<1> DEFINE lo == Lower(min)
           hi == Upper(min, max)
           d == Doublings(lo, top)
<1>1. lo \in Nat /\ hi \in Nat /\ lo <= hi
  BY DEF Lower, Upper, AtLeast, Larger, Second
<1>2. d \in [Nat -> Int]
  BY <1>1, DoublingsDefined
<1>3. \A n \in Nat : (\E i \in 1 .. n : d[i] >= hi) \/ d[n] \in lo .. hi
  BY <1>1, DoublingsStayBelow
<1>4. /\ attempt <= 0 => Exponential(attempt, min, max, top) = lo
      /\ attempt > 0 /\ (\E i \in 1 .. attempt : d[i] >= hi)
           => Exponential(attempt, min, max, top) = hi
      /\ attempt > 0 /\ ~(\E i \in 1 .. attempt : d[i] >= hi)
           => Exponential(attempt, min, max, top) = d[attempt]
  BY DEF Exponential
<1> HIDE DEF lo, hi, d
<1>5. Exponential(attempt, min, max, top) \in lo .. hi
  BY <1>1, <1>2, <1>3, <1>4
<1> QED
  BY <1>5 DEF lo, hi

\* Exponential returns a number, whatever wraps around on the way.
LEMMA ExponentialIsInt ==
  ASSUME NEW attempt \in Int, NEW min \in Int, NEW max \in Int, NEW top \in Nat
  PROVE  Exponential(attempt, min, max, top) \in Int
<1>1. Lower(min) \in Int /\ Upper(min, max) \in Int
  BY DEF Lower, Upper, AtLeast, Larger, Second
<1>2. Doublings(Lower(min), top) \in [Nat -> Int]
  BY <1>1, DoublingsDefined
<1> QED
  BY <1>1, <1>2 DEF Exponential
=============================================================================
