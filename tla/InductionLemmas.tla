-------------------------- MODULE InductionLemmas --------------------------
(***************************************************************************)
(* Induction on the natural numbers and its consequences (the least and    *)
(* the greatest of a set, a list of a finite set in a given order), and    *)
(* recursive functions on an initial interval, all in a first-order form:  *)
(* what is proved by induction is a set, and a step of a recursion is a    *)
(* function.                                                               *)
(***************************************************************************)
EXTENDS Integers, Functions, FiniteSetTheorems, TLAPS

(* A set that has 0, and the successor of every number it has, has every   *)
(* natural number: otherwise the predecessor would map the numbers that it *)
(* lacks, up to one of them, one to one to fewer.                          *)
LEMMA NatSetInduction ==
  ASSUME NEW S, 0 \in S, \A n \in Nat : n \in S => n + 1 \in S
  PROVE  Nat \subseteq S
<1> SUFFICES ASSUME NEW k \in Nat, k \notin S PROVE FALSE
  OBVIOUS
<1> DEFINE Lacked == {n \in 0 .. k : n \notin S}
           before == [n \in Lacked |-> n - 1]
<1>1. IsFiniteSet(Lacked) /\ k \in Lacked
  <2>1. IsFiniteSet(0 .. k)
    BY FS_Interval
  <2> QED
    BY <2>1, FS_Subset
<1>2. /\ IsFiniteSet(Lacked \ {k})
      /\ Cardinality(Lacked \ {k}) = Cardinality(Lacked) - 1
      /\ Cardinality(Lacked) \in Nat
  <2> HIDE DEF Lacked
  <2> QED
    BY <1>1, FS_RemoveElement, FS_CardinalityType
<1>3. before \in [Lacked -> Lacked \ {k}]
  <2> SUFFICES ASSUME NEW n \in Lacked PROVE n - 1 \in Lacked \ {k}
    OBVIOUS
  <2>1. n # 0 /\ n - 1 \in Nat /\ n = (n - 1) + 1
    OBVIOUS
  <2> QED
    BY <2>1
<1>4. \A m, n \in Lacked : before[m] = before[n] => m = n
  OBVIOUS
<1> HIDE DEF Lacked, before
<1>5. \E m, n \in Lacked : m # n /\ before[m] = before[n]
  <2>1. Cardinality(Lacked \ {k}) < Cardinality(Lacked) /\ IsFiniteSet(Lacked)
    BY <1>1, <1>2
  <2> QED
    BY <1>2, <1>3, <2>1, FS_PigeonHole
<1> QED
  BY <1>4, <1>5

(* Induction up to a bound.                                                *)
LEMMA UpwardInduction ==
  ASSUME NEW N \in Nat, NEW S, 0 \in S, \A n \in 1 .. N : n - 1 \in S => n \in S
  PROVE  0 .. N \subseteq S
<1> DEFINE T == {n \in Nat : n <= N => n \in S}
<1>1. 0 \in T
  OBVIOUS
<1>2. ASSUME NEW n \in Nat, n \in T PROVE n + 1 \in T
  <2> SUFFICES ASSUME n + 1 <= N PROVE n + 1 \in S
    OBVIOUS
  <2>1. n \in S /\ n + 1 \in 1 .. N /\ (n + 1) - 1 = n
    BY <1>2
  <2> QED
    BY <2>1
<1>3. Nat \subseteq T
  <2> HIDE DEF T
  <2> QED
    BY <1>1, <1>2, NatSetInduction
<1> QED
  BY <1>3

(* Induction from a bound down to 0.                                       *)
LEMMA DownwardInduction ==
  ASSUME NEW N \in Nat, NEW S, N \in S, \A n \in 1 .. N : n \in S => n - 1 \in S
  PROVE  0 .. N \subseteq S
<1> DEFINE T == {n \in 0 .. N : N - n \in S}
<1>1. 0 \in T
  OBVIOUS
<1>2. ASSUME NEW n \in 1 .. N, n - 1 \in T PROVE n \in T
  <2>1. N - (n - 1) \in S /\ N - (n - 1) \in 1 .. N /\ (N - (n - 1)) - 1 = N - n
    BY <1>2
  <2> QED
    BY <2>1
<1>3. 0 .. N \subseteq T
  <2> HIDE DEF T
  <2> QED
    BY <1>1, <1>2, UpwardInduction
<1>4. ASSUME NEW n \in 0 .. N PROVE n \in S
  <2>1. N - n \in 0 .. N /\ N - (N - n) = n
    OBVIOUS
  <2> QED
    BY <1>3, <2>1
<1> QED
  BY <1>4

(* The least of some natural numbers, and the greatest below a bound.      *)
LEMMA LeastNumber ==
  ASSUME NEW S \in SUBSET Nat, S # {}
  PROVE  \E n \in S : \A m \in S : n <= m
<1> SUFFICES ASSUME \A n \in S : \E m \in S : m < n PROVE FALSE
  OBVIOUS
<1> DEFINE T == {n \in Nat : \A m \in S : n <= m}
<1>1. 0 \in T
  OBVIOUS
<1>2. ASSUME NEW n \in Nat, n \in T PROVE n + 1 \in T
  <2> SUFFICES ASSUME NEW m \in S PROVE n + 1 <= m
    OBVIOUS
  <2>1. PICK k \in S : k < m
    OBVIOUS
  <2> QED
    BY <1>2, <2>1
<1>3. Nat \subseteq T
  <2> HIDE DEF T
  <2> QED
    BY <1>1, <1>2, NatSetInduction
<1>4. PICK n \in S : TRUE
  OBVIOUS
<1>5. n + 1 \in T
  BY <1>3
<1> QED
  BY <1>5

LEMMA GreatestNumber ==
  ASSUME NEW N \in Nat, NEW S \in SUBSET (0 .. N), S # {}
  PROVE  \E n \in S : \A m \in S : m <= n
<1> DEFINE T == {N - n : n \in S}
<1>1. T \in SUBSET Nat /\ T # {}
  <2>1. \A n \in S : N - n \in Nat
    OBVIOUS
  <2> QED
    BY <2>1
<1>2. PICK k \in T : \A m \in T : k <= m
  <2> HIDE DEF T
  <2> QED
    BY <1>1, LeastNumber
<1>3. PICK n \in S : k = N - n
  OBVIOUS
<1>4. \A m \in S : N - m \in T
  OBVIOUS
<1> QED
  BY <1>2, <1>3, <1>4

(* A finite set can be listed with the elements of greater weight first.   *)
IsDescending(list, n, S, weight) ==
  /\ list \in [1 .. n -> S]
  /\ IsInjective(list)
  /\ \A c, d \in 1 .. n : c < d => weight[list[c]] >= weight[list[d]]

LEMMA DescendingListExists ==
  ASSUME NEW S, IsFiniteSet(S), NEW weight, \A x \in S : weight[x] \in Nat
  PROVE  \E list : IsDescending(list, Cardinality(S), S, weight)
<1> DEFINE Listed(X) == \E list : IsDescending(list, Cardinality(X), X, weight)
           T == {n \in Nat : \A X : /\ IsFiniteSet(X) /\ Cardinality(X) = n
                                    /\ \A x \in X : weight[x] \in Nat
                                    => Listed(X)}
<1>1. 0 \in T
  <2> SUFFICES ASSUME NEW X, IsFiniteSet(X), Cardinality(X) = 0 PROVE Listed(X)
    OBVIOUS
  <2>1. X = {}
    BY FS_EmptySet
  <2>2. IsDescending(<<>>, 0, X, weight)
    BY <2>1 DEF IsDescending, IsInjective
  <2> QED
    BY <2>2
<1>2. ASSUME NEW n \in Nat, n \in T PROVE n + 1 \in T
  <2> SUFFICES ASSUME NEW X, IsFiniteSet(X), Cardinality(X) = n + 1,
                      \A x \in X : weight[x] \in Nat
               PROVE  Listed(X)
    OBVIOUS
  <2> DEFINE W == {weight[x] : x \in X}
  <2>1. W \in SUBSET Nat /\ W # {}
    BY FS_EmptySet
  <2>2. PICK k \in W : \A m \in W : k <= m
    <3> HIDE DEF W
    <3> QED
      BY <2>1, LeastNumber
  <2>3. PICK x \in X : k = weight[x]
    OBVIOUS
  <2>4. IsFiniteSet(X \ {x}) /\ Cardinality(X \ {x}) = n
    <3>1. /\ IsFiniteSet(X \ {x})
          /\ Cardinality(X \ {x}) = Cardinality(X) - 1
      BY FS_RemoveElement
    <3> QED
      BY <3>1
  <2>5. PICK list : IsDescending(list, n, X \ {x}, weight)
    BY <1>2, <2>4
  <2> DEFINE longer == [c \in 1 .. n + 1 |-> IF c = n + 1 THEN x ELSE list[c]]
  <2>6. longer \in [1 .. n + 1 -> X]
    BY <2>5 DEF IsDescending
  <2>7. longer[n + 1] = x /\ \A c \in 1 .. n : longer[c] = list[c] /\ list[c] \in X \ {x}
    BY <2>5 DEF IsDescending
  <2> HIDE DEF longer
  <2>8. IsInjective(longer)
    <3>1. \A c, d \in 1 .. n : list[c] = list[d] => c = d
      BY <2>5 DEF IsDescending, IsInjective
    <3>2. DOMAIN longer = (1 .. n) \cup {n + 1}
      BY <2>6
    <3> QED
      BY <2>7, <3>1, <3>2 DEF IsInjective
  <2>9. ASSUME NEW c \in 1 .. n + 1, NEW d \in 1 .. n + 1, c < d
        PROVE  weight[longer[c]] >= weight[longer[d]]
    <3>1. c \in 1 .. n
      BY <2>9
    <3>2. CASE d = n + 1
      <4>1. weight[longer[c]] \in W
        BY <2>7, <3>1
      <4> QED
        BY <2>1, <2>2, <2>3, <2>7, <3>2, <4>1
    <3>3. CASE d # n + 1
      BY <2>5, <2>7, <2>9, <3>1, <3>3 DEF IsDescending
    <3> QED
      BY <3>2, <3>3
  <2>10. IsDescending(longer, Cardinality(X), X, weight)
    BY <2>6, <2>8, <2>9 DEF IsDescending
  <2> QED
    BY <2>10
<1>3. Nat \subseteq T
  <2> HIDE DEF T
  <2> QED
    BY <1>1, <1>2, NatSetInduction
<1>4. Cardinality(S) \in T
  BY <1>3, FS_CardinalityType
<1> QED
  BY <1>4

-----------------------------------------------------------------------------
(* step[<<n, x>>], round n of a recursion over the elements of S, is one.  *)
IsStep(step, N, S) == \A n \in 1 .. N, x \in S : step[<<n, x>>] \in S

(* f is the recursion that starts from a.                                  *)
Unfolds(f, N, S, a, step) ==
  /\ f \in [0 .. N -> S]
  /\ f[0] = a
  /\ \A n \in 1 .. N : f[n] = step[<<n, f[n - 1]>>]

(* There is one for every start and step.                                  *)
LEMMA RecursionHasSolution ==
  ASSUME NEW N \in Nat, NEW S, NEW a \in S, NEW step, IsStep(step, N, S)
  PROVE  \E f : Unfolds(f, N, S, a, step)
<1> DEFINE T == {k \in 0 .. N : \E f : Unfolds(f, k, S, a, step)}
<1>1. 0 \in T
  <2>1. Unfolds([n \in 0 .. 0 |-> a], 0, S, a, step)
    BY DEF Unfolds
  <2> QED
    BY <2>1
<1>2. ASSUME NEW k \in 1 .. N, k - 1 \in T PROVE k \in T
  <2>1. PICK f : Unfolds(f, k - 1, S, a, step)
    BY <1>2
  <2> DEFINE g == [n \in 0 .. k |-> IF n = k THEN step[<<k, f[k - 1]>>] ELSE f[n]]
  <2>2. f[k - 1] \in S
    BY <2>1 DEF Unfolds
  <2>3. step[<<k, f[k - 1]>>] \in S
    BY <2>2 DEF IsStep
  <2>4. g \in [0 .. k -> S] /\ g[0] = a
    BY <2>1, <2>3 DEF Unfolds
  <2>5. ASSUME NEW n \in 1 .. k PROVE g[n] = step[<<n, g[n - 1]>>]
    <3>1. n - 1 \in 0 .. k - 1 /\ g[n - 1] = f[n - 1]
      OBVIOUS
    <3>2. CASE n = k
      <4>1. g[k] = step[<<k, f[k - 1]>>]
        OBVIOUS
      <4> HIDE DEF g
      <4> QED
        BY <3>1, <3>2, <4>1
    <3>3. CASE n # k
      <4>1. n \in 1 .. k - 1 /\ g[n] = f[n]
        BY <3>3
      <4> HIDE DEF g
      <4> QED
        BY <2>1, <3>1, <4>1 DEF Unfolds
    <3> QED
      BY <3>2, <3>3
  <2> HIDE DEF g
  <2>6. Unfolds(g, k, S, a, step)
    BY <2>4, <2>5 DEF Unfolds
  <2> QED
    BY <2>6
<1>3. 0 .. N \subseteq T
  <2> HIDE DEF T
  <2> QED
    BY <1>1, <1>2, UpwardInduction
<1> QED
  BY <1>3

=============================================================================
