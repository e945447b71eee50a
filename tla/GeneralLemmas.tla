--------------------------- MODULE GeneralLemmas ---------------------------
(***************************************************************************)
(* What the proofs about several components need and no library states: the *)
(* induction over the natural numbers and recursive functions, stated for   *)
(* sets and functions, which the provers instantiate where they cannot      *)
(* instantiate an operator; what the places of a sequence hold; and sums    *)
(* over finite sets.                                                        *)
(***************************************************************************)
EXTENDS Integers, FiniteSets, Sequences, WellFoundedInduction, FiniteSetTheorems,
        SequenceTheorems, TLAPS

(***************************************************************************)
(* Induction and recursion                                                  *)
(***************************************************************************)
\* A set of natural numbers has a least element.
LEMMA LeastElement ==
    ASSUME NEW S \in SUBSET Nat, S # {}
    PROVE  \E m \in S: \A n \in S: m <= n
<1> DEFINE L == OpToRel(<, Nat)
<1>1. IsWellFoundedOn(L, Nat)
  BY NatLessThanWellFounded
<1>2. \A x, y \in Nat: x < y => <<x, y>> \in L
  BY DEF OpToRel
<1> HIDE DEF L
<1>3. PICK m \in S: \A n \in S: <<n, m>> \notin L
  BY <1>1, WFMin
<1>4. \A n \in S: ~(n < m)
  BY <1>2, <1>3
<1>5. \A n \in S: m <= n
  BY <1>4
<1> QED
  BY <1>5

\* A set that has 0 and the successor of each of its members has every number.
LEMMA NaturalInduction ==
    ASSUME NEW S, 0 \in S, \A n \in Nat: n \in S => n + 1 \in S
    PROVE  \A n \in Nat: n \in S
<1> SUFFICES ASSUME NEW k \in Nat, k \notin S PROVE FALSE
  OBVIOUS
<1> DEFINE T == Nat \ S
<1>1. T \in SUBSET Nat /\ T # {}
  OBVIOUS
<1>2. PICK m \in T: \A n \in T: m <= n
  BY <1>1, LeastElement
<1>3. m # 0 /\ m \in Nat
  OBVIOUS
<1>4. m - 1 \in Nat /\ m - 1 \notin T
  BY <1>2, <1>3
<1> QED
  BY <1>4

\* The same up to a bound.
LEMMA BoundedInduction ==
    ASSUME NEW S, NEW N \in Nat, 0 \in S,
           \A n \in Nat: n < N /\ n \in S => n + 1 \in S
    PROVE  \A n \in 0 .. N: n \in S
<1> DEFINE T == {n \in Nat: n <= N => n \in S}
<1>1. 0 \in T
  OBVIOUS
<1>2. ASSUME NEW n \in Nat, n \in T PROVE n + 1 \in T
  BY <1>2
<1> HIDE DEF T
<1>3. \A n \in Nat: n \in T
  BY <1>1, <1>2, NaturalInduction
<1> QED
  BY <1>3 DEF T

\* f has a at 0, and at every later place what F makes of the one before.
Iterates(f, F, a, N) == f[0] = a /\ \A n \in 1 .. N: f[n] = F[f[n - 1]]

\* A value and a function to apply to it again and again define a sequence of values.
LEMMA Iteration ==
    ASSUME NEW N \in Nat, NEW X, NEW a \in X, NEW F \in [X -> X]
    PROVE  \E f \in [0 .. N -> X]: Iterates(f, F, a, N)
<1> DEFINE Good(f, m) == f[0] = a /\ \A n \in 1 .. m: f[n] = F[f[n - 1]]
           S == {m \in Nat: \E f \in [0 .. m -> X]: Good(f, m)}
<1>1. 0 \in S
  <2> DEFINE f == [i \in 0 .. 0 |-> a]
  <2>1. f \in [0 .. 0 -> X] /\ Good(f, 0)
    OBVIOUS
  <2> HIDE DEF f
  <2> QED
    BY <2>1
<1>2. ASSUME NEW m \in Nat, m \in S PROVE m + 1 \in S
  <2>1. PICK f \in [0 .. m -> X]: Good(f, m)
    BY <1>2
  <2> DEFINE g == [i \in 0 .. m + 1 |-> IF i <= m THEN f[i] ELSE F[f[m]]]
  <2>2. g \in [0 .. m + 1 -> X]
    <3>1. \A i \in 0 .. m: f[i] \in X
      OBVIOUS
    <3>2. F[f[m]] \in X
      BY <3>1
    <3> QED
      BY <3>1, <3>2
  <2>3. g[0] = a
    BY <2>1
  <2>4. ASSUME NEW n \in 1 .. m + 1 PROVE g[n] = F[g[n - 1]]
    <3>1. CASE n <= m
      BY <2>1, <3>1
    <3>2. CASE n = m + 1
      <4>1. g[n] = F[f[m]] /\ g[n - 1] = f[m]
        BY <3>2
      <4> QED
        BY <4>1
    <3> QED
      BY <3>1, <3>2
  <2> HIDE DEF g
  <2> QED
    BY <2>2, <2>3, <2>4
<1> HIDE DEF S
<1>3. N \in S
  BY <1>1, <1>2, NaturalInduction
<1> QED
  BY <1>3 DEF S, Iterates

(***************************************************************************)
(* Sequences                                                                *)
(***************************************************************************)
\* What stands in a sequence is of its kind.
LEMMA SequenceElements ==
    ASSUME NEW T, NEW s \in Seq(T)
    PROVE  \A i \in DOMAIN s: i \in Nat \ {0} /\ s[i] \in T
<1>1. Len(s) \in Nat /\ DOMAIN s = 1 .. Len(s)
  OBVIOUS
<1> QED
  BY <1>1


\* A sequence, its head and its tail by their positions.
LEMMA TailFacts ==
    ASSUME NEW T, NEW s \in Seq(T), s # <<>>
    PROVE  /\ Head(s) = s[1] /\ Head(s) \in T /\ 1 \in DOMAIN s /\ Tail(s) \in Seq(T)
           /\ Len(s) \in Nat \ {0} /\ Len(Tail(s)) = Len(s) - 1
           /\ \A i \in DOMAIN s: i \in Nat \ {0} /\ s[i] \in T
           /\ \A i \in DOMAIN Tail(s): i \in Nat \ {0} /\ i + 1 \in DOMAIN s /\ Tail(s)[i] = s[i + 1]
           /\ \A i \in DOMAIN s: i = 1 \/ (i - 1 \in DOMAIN Tail(s) /\ Tail(s)[i - 1] = s[i])
<1>1. Len(s) \in Nat \ {0} /\ DOMAIN s = 1 .. Len(s) /\ \A i \in 1 .. Len(s): s[i] \in T
  OBVIOUS
<1>2. Head(s) = s[1]
  OBVIOUS
<1>3. /\ Tail(s) \in Seq(T) /\ Len(Tail(s)) = Len(s) - 1 /\ DOMAIN Tail(s) = 1 .. Len(s) - 1
      /\ \A i \in 1 .. Len(s) - 1: Tail(s)[i] = s[i + 1]
  OBVIOUS
<1>4. /\ \A i \in DOMAIN Tail(s): i \in Nat \ {0} /\ i + 1 \in DOMAIN s /\ Tail(s)[i] = s[i + 1]
  BY <1>1, <1>3
<1>5. ASSUME NEW i \in DOMAIN s, i # 1
      PROVE  i - 1 \in DOMAIN Tail(s) /\ Tail(s)[i - 1] = s[i]
  <2>1. i - 1 \in 1 .. Len(s) - 1 /\ (i - 1) + 1 = i
    BY <1>1, <1>5
  <2> QED
    BY <1>3, <2>1
<1> QED
  BY <1>1, <1>2, <1>3, <1>4, <1>5


\* What is appended stands last, and what stood before stands where it stood.
LEMMA AppendFacts ==
    ASSUME NEW T, NEW s \in Seq(T), NEW e
    PROVE  /\ Len(s) \in Nat /\ DOMAIN s = 1 .. Len(s) /\ Len(Append(s, e)) = Len(s) + 1
           /\ DOMAIN Append(s, e) = DOMAIN s \cup {Len(s) + 1}
           /\ Append(s, e)[Len(s) + 1] = e
           /\ \A i \in DOMAIN s: Append(s, e)[i] = s[i]
<1>1. Len(s) \in Nat /\ DOMAIN s = 1 .. Len(s)
  OBVIOUS
<1>2. s \in Seq(T \cup {e}) /\ e \in T \cup {e}
  OBVIOUS
<1>3. 1 .. Len(s) + 1 = (1 .. Len(s)) \cup {Len(s) + 1}
  BY <1>1
<1> QED
  BY <1>1, <1>2, <1>3, AppendProperties

(***************************************************************************)
(* Sums over finite sets                                                    *)
(***************************************************************************)
\* h[s] is the sum of f over s, for the finite subsets s of S, taken up in the order in
\* which the folds of the community modules choose.
SumsUp(h, f, S) ==
    /\ h \in [SUBSET S -> Nat]
    /\ \A s \in SUBSET S:
          h[s] = IF s = {} THEN 0
                 ELSE f[CHOOSE x \in s: TRUE] + h[s \ {CHOOSE x \in s: TRUE}]

\* A set without one of its elements.
LEMMA OneLess ==
    ASSUME NEW S, IsFiniteSet(S), NEW s \in SUBSET S, NEW x \in s, NEW n \in Nat,
           Cardinality(s) <= n + 1
    PROVE  s \ {x} \in SUBSET S /\ Cardinality(s \ {x}) \in Nat /\ Cardinality(s \ {x}) <= n
<1>1. IsFiniteSet(s) /\ Cardinality(s) \in Nat
  BY FS_Subset, FS_CardinalityType
<1>2. IsFiniteSet(s \ {x}) /\ Cardinality(s \ {x}) = Cardinality(s) - 1
  BY <1>1, FS_RemoveElement
<1>3. Cardinality(s \ {x}) \in Nat
  BY <1>2, FS_CardinalityType
<1> QED
  BY <1>1, <1>2, <1>3

\* What holds of the empty set and of a set if it holds of all with fewer elements holds
\* of every subset of a finite set.
LEMMA SubsetInduction ==
    ASSUME NEW S, IsFiniteSet(S), NEW G, {} \in G,
           \A s \in SUBSET S: s # {} /\ (\A x \in s: s \ {x} \in G) => s \in G
    PROVE  \A s \in SUBSET S: s \in G
<1> DEFINE N == {n \in Nat: \A s \in SUBSET S: Cardinality(s) <= n => s \in G}
<1>0. \A s \in SUBSET S: IsFiniteSet(s) /\ Cardinality(s) \in Nat
  BY FS_Subset, FS_CardinalityType
<1>1. 0 \in N
  <2>1. \A s \in SUBSET S: Cardinality(s) <= 0 => s = {}
    BY <1>0, FS_EmptySet
  <2> QED
    BY <2>1
<1>2. ASSUME NEW n \in Nat, n \in N PROVE n + 1 \in N
  <2> SUFFICES ASSUME NEW s \in SUBSET S, Cardinality(s) <= n + 1 PROVE s \in G
    OBVIOUS
  <2>1. \A x \in s: s \ {x} \in G
    BY <1>2, OneLess
  <2> QED
    BY <2>1
<1> HIDE DEF N
<1>3. \A n \in Nat: n \in N
  BY ONLY <1>1, <1>2, NaturalInduction
<1> QED
  BY <1>0, <1>3 DEF N

\* Every function on a finite set has its sums.
LEMMA SumsExist ==
    ASSUME NEW S, IsFiniteSet(S), NEW f \in [S -> Nat]
    PROVE  \E h \in [SUBSET S -> Nat]: SumsUp(h, f, S)
<1> DEFINE X == [SUBSET S -> Nat]
           c(s) == CHOOSE x \in s: TRUE
           Sum(h) == [s \in SUBSET S |-> IF s = {} THEN 0 ELSE f[c(s)] + h[s \ {c(s)}]]
           none == [s \in SUBSET S |-> 0]
           F == [h \in X |-> Sum(h)]
           N == Cardinality(S)
<1>0. N \in Nat
  BY FS_CardinalityType
<1>1. \A s \in SUBSET S: s # {} => c(s) \in s /\ f[c(s)] \in Nat
  OBVIOUS
<1>2. none \in X /\ F \in [X -> X]
  <2> HIDE DEF c
  <2>1. ASSUME NEW h \in X PROVE Sum(h) \in X
    <3>1. ASSUME NEW s \in SUBSET S
          PROVE (IF s = {} THEN 0 ELSE f[c(s)] + h[s \ {c(s)}]) \in Nat
      <4>1. CASE s = {}
        BY <4>1
      <4>2. CASE s # {}
        <5>1. f[c(s)] \in Nat /\ h[s \ {c(s)}] \in Nat
          BY <1>1, <4>2
        <5> QED
          BY <4>2, <5>1
      <4> QED
        BY <4>1, <4>2
    <3> QED
      BY <3>1
  <2> HIDE DEF Sum
  <2> QED
    BY <2>1
<1>3. PICK g \in [0 .. N + 1 -> X]: Iterates(g, F, none, N + 1)
  <2> HIDE DEF X, F, none, N
  <2>1. N + 1 \in Nat
    BY <1>0
  <2> QED
    BY <1>2, <2>1, Iteration
<1>4. g[0] = none /\ \A n \in 0 .. N: g[n] \in X /\ g[n + 1] = Sum(g[n])
  <2>1. g[0] = none /\ \A n \in 1 .. N + 1: g[n] = F[g[n - 1]]
    BY <1>3 DEF Iterates
  <2> HIDE DEF X, F, none, N
  <2>2. ASSUME NEW n \in 0 .. N PROVE g[n] \in X /\ g[n + 1] = F[g[n]]
    <3>1. n + 1 \in 1 .. N + 1 /\ (n + 1) - 1 = n /\ n \in 0 .. N + 1
      BY <1>0
    <3> QED
      BY <2>1, <3>1
  <2>3. \A n \in 0 .. N: g[n] \in X /\ g[n + 1] = Sum(g[n])
    BY <2>2 DEF F
  <2> QED
    BY <2>1, <2>3
<1> DEFINE Stable == {n \in Nat: n <= N => \A s \in SUBSET S: Cardinality(s) <= n => g[n + 1][s] = g[n][s]}
<1> HIDE DEF X, F, none
<1>5. 0 \in Stable
  <2> SUFFICES ASSUME NEW s \in SUBSET S, Cardinality(s) <= 0 PROVE g[0 + 1][s] = g[0][s]
    OBVIOUS
  <2>1. s = {}
    BY FS_Subset, FS_CardinalityType, FS_EmptySet
  <2>2. g[0 + 1] = Sum(g[0]) /\ g[0] = none
    <3> HIDE DEF N, Sum
    <3>1. 0 \in 0 .. N
      BY <1>0
    <3> QED
      BY <1>4, <3>1
  <2>3. Sum(g[0])[{}] = 0 /\ none[{}] = 0
    BY DEF none
  <2> QED
    BY <2>1, <2>2, <2>3
<1>6. ASSUME NEW n \in Nat, n \in Stable PROVE n + 1 \in Stable
  <2> SUFFICES ASSUME n + 1 <= N, NEW s \in SUBSET S, Cardinality(s) <= n + 1
               PROVE  g[(n + 1) + 1][s] = g[n + 1][s]
    OBVIOUS
  <2>1. n \in 0 .. N /\ n + 1 \in 0 .. N
    BY <1>0
  <2>2. g[n + 1] = Sum(g[n]) /\ g[(n + 1) + 1] = Sum(g[n + 1])
    BY <1>4, <2>1
  <2>3. CASE s = {}
    BY <2>2, <2>3
  <2>4. CASE s # {}
    <3>1. c(s) \in s
      BY <1>1, <2>4
    <3> HIDE DEF c
    <3>2. s \ {c(s)} \in SUBSET S /\ Cardinality(s \ {c(s)}) <= n
      BY <3>1, OneLess
    <3>3. g[n + 1][s \ {c(s)}] = g[n][s \ {c(s)}]
      BY <1>6, <2>1, <3>2
    <3>4. g[n + 1][s] = f[c(s)] + g[n][s \ {c(s)}] /\ g[(n + 1) + 1][s] = f[c(s)] + g[n + 1][s \ {c(s)}]
      BY <2>2, <2>4
    <3> QED
      BY <3>3, <3>4
  <2> QED
    BY <2>3, <2>4
<1> HIDE DEF Stable
<1>7. N \in Stable
  BY ONLY <1>0, <1>5, <1>6, NaturalInduction
<1>8. \A s \in SUBSET S: g[N + 1][s] = g[N][s]
  <2>1. \A s \in SUBSET S: Cardinality(s) <= N
    BY FS_Subset
  <2> QED
    BY <1>0, <1>7, <2>1 DEF Stable
<1>9. g[N] \in X /\ g[N + 1] = Sum(g[N])
  <2> HIDE DEF N, Sum
  <2>1. N \in 0 .. N
    BY <1>0
  <2> QED
    BY <1>4, <2>1
<1>10. SumsUp(g[N], f, S)
  <2>1. \A s \in SUBSET S: g[N][s] = Sum(g[N])[s]
    BY <1>8, <1>9
  <2> HIDE DEF N
  <2> QED
    BY <1>9, <2>1 DEF SumsUp, X
<1> QED
  BY <1>9, <1>10 DEF X

\* The sums of a function on a larger set are those of the smaller one.
LEMMA SumsAgree ==
    ASSUME NEW S, IsFiniteSet(S), NEW T, S \subseteq T, NEW f, NEW g, NEW h, NEW k,
           SumsUp(h, f, S), SumsUp(k, g, T), \A x \in S: f[x] = g[x]
    PROVE  \A s \in SUBSET S: h[s] = k[s]
<1> DEFINE G == {s \in SUBSET S: h[s] = k[s]}
<1>1. {} \in G
  BY DEF SumsUp
<1>2. ASSUME NEW s \in SUBSET S, s # {}, \A x \in s: s \ {x} \in G PROVE s \in G
  <2> DEFINE c == CHOOSE x \in s: TRUE
  <2>1. c \in s
    BY <1>2
  <2>2. h[s] = f[c] + h[s \ {c}] /\ k[s] = g[c] + k[s \ {c}]
    BY <1>2 DEF SumsUp
  <2>3. h[s \ {c}] = k[s \ {c}] /\ f[c] = g[c]
    BY <1>2, <2>1
  <2> QED
    BY <2>2, <2>3
<1> HIDE DEF G
<1>3. \A s \in SUBSET S: s \in G
  BY <1>1, <1>2, SubsetInduction
<1> QED
  BY <1>3 DEF G

\* A sum does not depend on the order: any element can be taken first.
LEMMA SumTakesOut ==
    ASSUME NEW S, IsFiniteSet(S), NEW f \in [S -> Nat], NEW h, SumsUp(h, f, S)
    PROVE  \A s \in SUBSET S: \A x \in s: h[s] = f[x] + h[s \ {x}]
<1> DEFINE G == {s \in SUBSET S: \A x \in s: h[s] = f[x] + h[s \ {x}]}
<1>1. {} \in G
  OBVIOUS
<1>2. ASSUME NEW s \in SUBSET S, s # {}, \A x \in s: s \ {x} \in G PROVE s \in G
  <2> SUFFICES ASSUME NEW x \in s PROVE h[s] = f[x] + h[s \ {x}]
    OBVIOUS
  <2> DEFINE c == CHOOSE y \in s: TRUE
  <2>1. c \in s /\ h[s] = f[c] + h[s \ {c}]
    BY <1>2 DEF SumsUp
  <2> HIDE DEF c
  <2>2. CASE x = c
    BY <2>1, <2>2
  <2>3. CASE x # c
    <3>1. h[s \ {c}] = f[x] + h[(s \ {c}) \ {x}]
      BY <1>2, <2>1, <2>3
    <3>2. h[s \ {x}] = f[c] + h[(s \ {x}) \ {c}]
      BY <1>2, <2>1, <2>3
    <3>3. (s \ {c}) \ {x} = (s \ {x}) \ {c}
      OBVIOUS
    <3>4. f[x] \in Nat /\ f[c] \in Nat /\ h[(s \ {x}) \ {c}] \in Nat
      BY <2>1 DEF SumsUp
    <3>5. \A i, j, l \in Nat: i + (j + l) = j + (i + l)
      OBVIOUS
    <3>6. h[s] = f[c] + (f[x] + h[(s \ {x}) \ {c}])
      BY <2>1, <3>1, <3>3
    <3> QED
      BY <3>2, <3>4, <3>5, <3>6
  <2> QED
    BY <2>2, <2>3
<1> HIDE DEF G
<1>3. \A s \in SUBSET S: s \in G
  BY <1>1, <1>2, SubsetInduction
<1> QED
  BY <1>3 DEF G

\* A function that is defined by the recursion has the sums.
LEMMA SumsSolved ==
    ASSUME NEW S, IsFiniteSet(S), NEW f \in [S -> Nat], NEW h,
           h = [s \in SUBSET S |-> IF s = {} THEN 0
                                   ELSE f[CHOOSE x \in s: TRUE] + h[s \ {CHOOSE x \in s: TRUE}]]
    PROVE  SumsUp(h, f, S)
<1> DEFINE c(s) == CHOOSE x \in s: TRUE
<1>5. \A s \in SUBSET S: h[s] = IF s = {} THEN 0 ELSE f[c(s)] + h[s \ {c(s)}]
  OBVIOUS
<1> DEFINE G == {s \in SUBSET S: h[s] \in Nat}
<1>6. {} \in G
  <2> HIDE DEF c
  <2>1. {} \in SUBSET S
    OBVIOUS
  <2>2. h[{}] = 0
    BY <1>5, <2>1
  <2> QED
    BY <2>1, <2>2
<1>7. ASSUME NEW s \in SUBSET S, s # {}, \A x \in s: s \ {x} \in G PROVE s \in G
  <2>1. c(s) \in s
    BY <1>7
  <2> HIDE DEF c
  <2>2. h[s] = f[c(s)] + h[s \ {c(s)}] /\ f[c(s)] \in Nat /\ h[s \ {c(s)}] \in Nat
    BY <1>5, <1>7, <2>1
  <2> QED
    BY <2>2
<1> HIDE DEF G
<1>8. \A s \in SUBSET S: s \in G
  BY <1>6, <1>7, SubsetInduction
<1>9. h \in [SUBSET S -> Nat]
  <2>1. h = [s \in SUBSET S |-> h[s]]
    OBVIOUS
  <2>2. \A s \in SUBSET S: h[s] \in Nat
    BY <1>8 DEF G
  <2> QED
    BY ONLY <2>1, <2>2
<1> QED
  BY <1>5, <1>9 DEF SumsUp
=============================================================================
