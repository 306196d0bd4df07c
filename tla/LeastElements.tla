------------------------------ MODULE LeastElements ------------------------------
(* A set of naturals that is not empty has a least element: the form in     *)
(* which the other proof modules reason by induction, on the least natural  *)
(* of which a fact would not hold.                                          *)
EXTENDS Integers, WellFoundedInduction, TLAPS

LEMMA LeastElement ==
    ASSUME NEW T \in SUBSET Nat, T # {}
    PROVE  \E n \in T : \A m \in T : n <= m
<1> DEFINE R == OpToRel(<, Nat)
<1>1. IsWellFoundedOn(R, Nat)
  BY NatLessThanWellFounded
<1>2. \A x, y \in Nat : y < x => <<y, x>> \in R
  BY DEF OpToRel
<1> HIDE DEF R
<1>3. PICK n \in T : \A m \in T : <<m, n>> \notin R
  BY <1>1, WFMin
<1>4. \A m \in T : ~(m < n)
  BY <1>2, <1>3
<1>5. \A m \in T : n <= m
  BY <1>4
<1> QED
  BY <1>5

(* f starts at a, and goes on from each value as G says. *)
Iteration(f, N, S, a, G) ==
    f \in [0..N -> S] /\ f[0] = a /\ \A k \in 1..N : f[k] = G[f[k - 1]]

(* A recursive function of a natural exists, and its values are where the   *)
(* first one is and each step leads.                                        *)
LEMMA Iterates ==
    ASSUME NEW N \in Nat, NEW S, NEW a \in S, NEW G \in [S -> S]
    PROVE  \E f : Iteration(f, N, S, a, G)
<1> DEFINE Start(n) == \E f \in [0..n -> S] :
                          f[0] = a /\ \A k \in 1..n : f[k] = G[f[k - 1]]
           Missing == {n \in Nat : ~Start(n)}
<1>1. Start(0)
  <2> DEFINE f == [k \in 0..0 |-> a]
  <2>1. f \in [0..0 -> S] /\ f[0] = a /\ 1..0 = {}
    OBVIOUS
  <2> HIDE DEF f
  <2> QED
    BY <2>1
<1>2. ASSUME NEW n \in Nat, Start(n) PROVE Start(n + 1)
  <2>1. PICK f \in [0..n -> S] : f[0] = a /\ \A k \in 1..n : f[k] = G[f[k - 1]]
    BY <1>2
  <2> DEFINE g == [k \in 0..(n + 1) |-> IF k = n + 1 THEN G[f[n]] ELSE f[k]]
  <2>2. g \in [0..(n + 1) -> S]
    OBVIOUS
  <2>3. g[0] = a
    BY <2>1
  <2>4. ASSUME NEW k \in 1..(n + 1) PROVE g[k] = G[g[k - 1]]
    <3>1. CASE k = n + 1
      BY <3>1
    <3>2. CASE k # n + 1
      <4>1. k \in 1..n /\ k - 1 \in 0..n /\ k - 1 # n + 1 /\ k \in 0..(n + 1) /\ k - 1 \in 0..(n + 1)
        BY <3>2
      <4>2. g[k] = f[k] /\ g[k - 1] = f[k - 1]
        BY <3>2, <4>1
      <4> QED
        BY <2>1, <4>1, <4>2
    <3> QED
      BY <3>1, <3>2
  <2> HIDE DEF g
  <2> QED
    BY <2>2, <2>3, <2>4
<1> HIDE DEF Start
<1>3. Missing = {}
  <2> SUFFICES ASSUME Missing # {} PROVE FALSE
    OBVIOUS
  <2>1. Missing \in SUBSET Nat
    OBVIOUS
  <2>2. PICK n \in Missing : \A m \in Missing : n <= m
    <3> HIDE DEF Missing
    <3> QED
      BY <2>1, LeastElement
  <2>3. n # 0 /\ n - 1 \in Nat /\ n - 1 \notin Missing
    BY <1>1, <2>2
  <2> QED
    BY <1>2, <2>2, <2>3
<1> QED
  BY <1>3 DEF Start, Iteration

(* What holds of a function's first value and passes from each value to the *)
(* next holds of all of them.                                               *)
LEMMA Chained ==
    ASSUME NEW N \in Nat, NEW R, NEW f, f[0] \in R[0], \A k \in 1..N : f[k - 1] \in R[k - 1] => f[k] \in R[k]
    PROVE  \A k \in 0..N : f[k] \in R[k]
<1> DEFINE Bad == {k \in 0..N : f[k] \notin R[k]}
<1> SUFFICES ASSUME Bad # {} PROVE FALSE
  OBVIOUS
<1>1. PICK k \in Bad : \A m \in Bad : k <= m
  <2>1. Bad \in SUBSET Nat
    OBVIOUS
  <2> HIDE DEF Bad
  <2> QED
    BY <2>1, LeastElement
<1>2. k \in 1..N /\ k - 1 \in 0..N /\ k - 1 \notin Bad
  BY <1>1
<1> QED
  BY <1>1, <1>2

(* f is the recursive function that starts at a and whose k-th step is G[k]. *)
Unfolds(f, N, a, G) == f = [k \in 0..N |-> IF k = 0 THEN a ELSE G[k][f[k - 1]]]

LEMMA Unfolding ==
    ASSUME NEW N \in Nat, NEW R, NEW a \in R[0], NEW G, \A k \in 1..N : \A x \in R[k - 1] : G[k][x] \in R[k]
    PROVE  \E f : Unfolds(f, N, a, G) /\ \A k \in 0..N : f[k] \in R[k]
<1> DEFINE Next(f, n) == [k \in 0..n |-> IF k = 0 THEN a ELSE G[k][f[k - 1]]]
           Missing == {n \in Nat : ~\E f : f = Next(f, n)}
<1>1. \E f : f = Next(f, 0)
  <2> DEFINE f == [k \in 0..0 |-> a]
  <2>1. f = Next(f, 0)
    OBVIOUS
  <2> QED
    BY <2>1
<1>2. ASSUME NEW n \in Nat, NEW f, f = Next(f, n) PROVE \E g : g = Next(g, n + 1)
  <2> DEFINE g == [k \in 0..(n + 1) |-> IF k = n + 1 THEN G[k][f[n]] ELSE f[k]]
  <2>1. ASSUME NEW k \in 0..(n + 1) PROVE g[k] = Next(g, n + 1)[k]
    <3>1. CASE k = n + 1
      <4>1. n \in 0..(n + 1) /\ n # n + 1 /\ k - 1 = n /\ k # 0
        BY <3>1
      <4> QED
        BY <3>1, <4>1
    <3>2. CASE k = 0
      BY <1>2, <3>2
    <3>3. CASE k # n + 1 /\ k # 0
      <4>1. k \in 1..n /\ k - 1 \in 0..n /\ k - 1 # n + 1 /\ k - 1 \in 0..(n + 1)
        BY <3>3
      <4>2. g[k] = f[k] /\ g[k - 1] = f[k - 1] /\ f[k] = Next(f, n)[k]
        BY <1>2, <3>3, <4>1
      <4> QED
        BY <3>3, <4>1, <4>2
    <3> QED
      BY <3>1, <3>2, <3>3
  <2>2. g = Next(g, n + 1)
    BY <2>1
  <2> QED
    BY <2>2
<1> HIDE DEF Next
<1>3. Missing = {}
  <2> SUFFICES ASSUME Missing # {} PROVE FALSE
    OBVIOUS
  <2>1. Missing \in SUBSET Nat
    OBVIOUS
  <2>2. PICK n \in Missing : \A m \in Missing : n <= m
    <3> HIDE DEF Missing
    <3> QED
      BY <2>1, LeastElement
  <2>3. n # 0 /\ n - 1 \in Nat /\ n - 1 \notin Missing
    BY <1>1, <2>2
  <2>4. PICK f : f = Next(f, n - 1)
    BY <2>3
  <2>5. \E g : g = Next(g, (n - 1) + 1)
    BY <1>2, <2>3, <2>4
  <2>6. (n - 1) + 1 = n
    BY <2>2
  <2>7. \E g : g = Next(g, n)
    BY <2>5, <2>6
  <2> QED
    BY <2>2, <2>7
<1>4. PICK f : f = Next(f, N)
  BY <1>3
<1>5. f[0] \in R[0] /\ \A k \in 1..N : f[k] = G[k][f[k - 1]]
  BY <1>4 DEF Next
<1>6. \A k \in 0..N : f[k] \in R[k]
  BY <1>5, Chained
<1> QED
  BY <1>4, <1>6 DEF Next, Unfolds
================================================================================
