----------------------------- MODULE OperatorFacts -----------------------------
(***************************************************************************)
(* Facts about the operators the models are built from: the order of the   *)
(* contracts' fixed-point products and quotients (a * b / WAD), folds over *)
(* finite sets, recursive functions, sets in an order, and the sums of the *)
(* community modules.                                                      *)
(*                                                                         *)
(* The library's induction theorems take an operator for the formula they  *)
(* prove.  Here the induction is over a set: the least member of a set of  *)
(* numbers, the smallest subset that is not in a collection.               *)
(***************************************************************************)
EXTENDS Integers, Functions, FiniteSetTheorems, WellFoundedInduction, TLAPS

--------------------------------------------------------------------------------
(* Fixed-point arithmetic.                                                 *)

\* A product grows with its factors.
LEMMA TimesMonotone ==
    ASSUME NEW a \in Nat, NEW b \in Nat, NEW c \in Nat, NEW d \in Nat,
           a <= b, c <= d
    PROVE  /\ a * c \in Nat
           /\ a * c <= b * d
<1>1. a * c <= b * c
    BY Z3
<1>2. b * c <= b * d
    BY Z3
<1>3. a * c \in Nat /\ b * c \in Nat /\ b * d \in Nat
    BY Z3
<1> QED
    BY <1>1, <1>2, <1>3

\* A quotient grows with its dividend.
LEMMA DivMonotone ==
    ASSUME NEW a \in Nat, NEW b \in Nat, NEW d \in Nat \ {0}, a <= b
    PROVE  /\ a \div d \in Nat
           /\ a \div d <= b \div d
<1>1. a \div d \in Nat
    BY Z3
<1>2. a \div d <= b \div d
    BY Z3
<1> QED
    BY <1>1, <1>2

\* A share of at most the whole is at most all.
LEMMA ShareAtMostAll ==
    ASSUME NEW c \in Nat, NEW a \in Nat, NEW d \in Nat \ {0}, a <= d
    PROVE  (c * a) \div d \in Nat /\ (c * a) \div d <= c
<1>1. c * a \in Nat /\ c * d \in Nat /\ c * a <= c * d
    BY TimesMonotone
<1>2. (c * a) \div d \in Nat /\ (c * a) \div d <= (c * d) \div d
    BY <1>1, DivMonotone
<1>3. (c * d) \div d = c
    BY Z3
<1> QED
    BY <1>2, <1>3

--------------------------------------------------------------------------------
(* Induction, folds and recursion.                                         *)

LEMMA LeastNumber ==
    ASSUME NEW N, N \subseteq Nat, N # {}
    PROVE  \E n \in N : \A m \in N : n <= m
<1>1. PICK n \in N : \A m \in N : <<m, n>> \notin OpToRel(<, Nat)
    BY NatLessThanWellFounded, WFMin
<1>2. ASSUME NEW m \in N PROVE n <= m
    <2>1. n \in Nat /\ m \in Nat /\ ~(m < n)
        BY <1>1 DEF OpToRel
    <2> QED
        BY <2>1
<1> QED
    BY <1>2

\* Every subset of a finite set is in a collection that has the empty set and
\* each set whose smaller sets it has.
LEMMA SubsetsByInduction ==
    ASSUME NEW S, IsFiniteSet(S), NEW G, {} \in G,
           \A T \in SUBSET S : T # {} /\ (\A x \in T : T \ {x} \in G) => T \in G
    PROVE  SUBSET S \subseteq G
<1> DEFINE Bad == {Cardinality(T) : T \in (SUBSET S) \ G}
<1> SUFFICES ASSUME (SUBSET S) \ G # {}
             PROVE  FALSE
    OBVIOUS
<1>1. \A T \in SUBSET S : IsFiniteSet(T) /\ Cardinality(T) \in Nat
    BY FS_Subset, FS_CardinalityType
<1>2. Bad \subseteq Nat /\ Bad # {}
    BY <1>1
<1>3. PICK n \in Bad : \A m \in Bad : n <= m
    <2> HIDE DEF Bad
    <2> QED
        BY <1>2, LeastNumber
<1>4. PICK T \in (SUBSET S) \ G : Cardinality(T) = n
    BY <1>3
<1>5. PICK x \in T : T \ {x} \notin G
    BY <1>4
<1>6. Cardinality(T \ {x}) = Cardinality(T) - 1
    BY <1>1, <1>4, FS_RemoveElement
<1>7. T \ {x} \in (SUBSET S) \ G
    BY <1>4, <1>5
<1>8. Cardinality(T \ {x}) \in Bad
    BY <1>7
<1>9. n <= n - 1
    BY <1>3, <1>4, <1>6, <1>8
<1>10. n \in Nat
    BY <1>2
<1> QED
    BY <1>9, <1>10

\* A fold over a finite set exists: the function that takes an element of each
\* subset and applies a step to it and to what the rest gave.
Foldable(S, V, base, step, pick) ==
    /\ IsFiniteSet(S)
    /\ base \in V
    /\ \A x \in S : \A v \in V : step[x][v] \in V
    /\ \A T \in SUBSET S : T # {} => pick[T] \in T

Folded(g, S, V, base, step, pick) ==
    /\ g \in [SUBSET S -> V]
    /\ g[{}] = base
    /\ \A T \in SUBSET S : T # {} => g[T] = step[pick[T]][g[T \ {pick[T]}]]

LEMMA FoldExists ==
    ASSUME NEW S, NEW V, NEW base, NEW step, NEW pick,
           Foldable(S, V, base, step, pick)
    PROVE  \E g : Folded(g, S, V, base, step, pick)
<1> DEFINE Upto(n) == {T \in SUBSET S : Cardinality(T) <= n}
           Part(g, n) == /\ g \in [Upto(n) -> V]
                         /\ g = [T \in Upto(n) |->
                               IF T = {} THEN base ELSE step[pick[T]][g[T \ {pick[T]}]]]
           N == {n \in Nat : \A g : ~Part(g, n)}
<1>0. /\ IsFiniteSet(S)
      /\ base \in V
      /\ \A x \in S : \A v \in V : step[x][v] \in V
      /\ \A T \in SUBSET S : T # {} => pick[T] \in T
    BY DEF Foldable
<1>1. \A T \in SUBSET S : IsFiniteSet(T) /\ Cardinality(T) \in Nat
    BY <1>0, FS_Subset, FS_CardinalityType
<1>3. \A T \in SUBSET S : T # {} => T \ {pick[T]} \in SUBSET S
                            /\ Cardinality(T \ {pick[T]}) = Cardinality(T) - 1
    BY <1>0, <1>1, FS_RemoveElement
<1>4. \A n \in Nat : \E g : Part(g, n)
    <2>0. SUFFICES ASSUME N # {} PROVE FALSE
        <3>1. N = {} => \A n \in Nat : ~(\A g : ~Part(g, n))
            OBVIOUS
        <3> HIDE DEF Part, N
        <3> QED
            BY <3>1
    <2>1. PICK n \in N : \A m \in N : n <= m
        <3>1. N \subseteq Nat
            OBVIOUS
        <3> HIDE DEF N
        <3> QED
            BY <2>0, <3>1, LeastNumber
    <2>2. CASE n = 0
        <3>1. Upto(n) = {{}}
            BY <2>2, <1>1, FS_EmptySet
        <3> DEFINE h == [T \in Upto(n) |-> base]
        <3>2. h = [T \in Upto(n) |->
                       IF T = {} THEN base ELSE step[pick[T]][h[T \ {pick[T]}]]]
            BY <3>1
        <3>3. Part(h, n)
            BY <1>0, <3>2
        <3> QED
            BY <3>3, <2>1
    <2>3. CASE n # 0
        <3>0. n \in Nat /\ ~(n <= n - 1) /\ n - 1 \in Nat
            <4>1. N \subseteq Nat
                OBVIOUS
            <4> HIDE DEF N
            <4> QED
                BY <2>3, <4>1
        <3>1. n - 1 \in Nat /\ n - 1 \notin N
            <4> HIDE DEF N
            <4> QED
                BY <2>1, <3>0
        <3>2. PICK g : Part(g, n - 1)
            BY <3>1
        <3> DEFINE h == [T \in Upto(n) |->
                           IF T = {} THEN base ELSE step[pick[T]][g[T \ {pick[T]}]]]
        <3>3. ASSUME NEW T \in Upto(n), T # {}
              PROVE  /\ T \ {pick[T]} \in Upto(n - 1)
                     /\ h[T \ {pick[T]}] = g[T \ {pick[T]}]
            <4>0. n \in Nat /\ Cardinality(T) \in Nat /\ Cardinality(T) <= n
                BY <1>1, <3>0, <3>3
            <4>1. T \ {pick[T]} \in Upto(n - 1)
                BY <1>3, <3>3, <4>0
            <4>2. T \ {pick[T]} \in Upto(n)
                BY <1>3, <3>3, <4>0
            <4> QED
                BY <4>1, <4>2, <3>2
        <3>4. h = [T \in Upto(n) |->
                       IF T = {} THEN base ELSE step[pick[T]][h[T \ {pick[T]}]]]
            BY <3>3
        <3>5. ASSUME NEW T \in Upto(n) PROVE h[T] \in V
            <4>1. CASE T # {}
                <5>1. g[T \ {pick[T]}] \in V
                    BY <3>2, <3>3, <4>1
                <5>2. pick[T] \in S
                    BY <1>0, <4>1
                <5> QED
                    BY <1>0, <4>1, <5>1, <5>2
            <4> QED
                BY <1>0, <4>1
        <3>6. h \in [Upto(n) -> V]
            BY <3>5
        <3>7. Part(h, n)
            <4> HIDE DEF h, Upto
            <4> QED
                BY <3>4, <3>6
        <3> QED
            BY <3>7, <2>1
    <2> QED
        BY <2>2, <2>3
<1>5. Upto(Cardinality(S)) = SUBSET S
    <2>1. \A T \in SUBSET S : Cardinality(T) <= Cardinality(S)
        BY <1>0, FS_Subset
    <2> QED
        BY <2>1
<1>6. Cardinality(S) \in Nat
    BY <1>1
<1>7. PICK g : Part(g, Cardinality(S))
    BY <1>4, <1>6
<1> QED
    BY <1>5, <1>7 DEF Folded

LEMMA GreatestNumber ==
    ASSUME NEW n \in Nat, NEW T \in SUBSET (1 .. n), T # {}
    PROVE  \E m \in T : \A k \in T : k <= m
<1> DEFINE N == {n - k : k \in T}
<1>0. \A k \in T : k \in Nat /\ k <= n /\ n - k \in Nat
    <2> SUFFICES ASSUME NEW k \in T
                 PROVE  k \in Nat /\ k <= n /\ n - k \in Nat
        OBVIOUS
    <2>1. k \in 1 .. n
        OBVIOUS
    <2> QED
        BY <2>1
<1>1. N \subseteq Nat /\ N # {}
    BY <1>0
<1>2. PICK d \in N : \A e \in N : d <= e
    <2> HIDE DEF N
    <2> QED
        BY <1>1, LeastNumber
<1>3. PICK m \in T : d = n - m
    BY <1>2
<1>4. ASSUME NEW k \in T
      PROVE  k <= m
    <2>1. n - m <= n - k
        BY <1>2, <1>3
    <2>2. n - m \in Int /\ n - k \in Int /\ m \in Nat /\ k \in Nat
        BY <1>0
    <2> QED
        BY <2>1, <2>2
<1> QED
    BY <1>4

\* h goes from base to what n steps make of it.
InSteps(h, n, V, base, step) ==
    /\ h \in [0 .. n -> V]
    /\ h[0] = base
    /\ \A i \in 1 .. n : h[i] = step[i][h[i - 1]]

\* A fold that always takes the greatest index goes through a sequence in order.
PicksLast(pick, n) ==
    \A T \in SUBSET (1 .. n) :
        T # {} => pick[T] \in T /\ \A k \in T : k <= pick[T]

FoldsWith(g, n, V, base, step, pick) ==
    /\ \A i \in 1 .. n : \A v \in V : step[i][v] \in V
    /\ g[{}] = base
    /\ \A T \in SUBSET (1 .. n) :
          T # {} /\ g[T \ {pick[T]}] \in V
             => g[T] = step[pick[T]][g[T \ {pick[T]}]]

LEMMA FoldInOrder ==
    ASSUME NEW n \in Nat, NEW V, NEW base \in V, NEW step, NEW pick, NEW g,
           PicksLast(pick, n), FoldsWith(g, n, V, base, step, pick)
    PROVE  InSteps([i \in 0 .. n |-> g[1 .. i]], n, V, base, step)
<1> DEFINE h == [i \in 0 .. n |-> g[1 .. i]]
           S == 1 .. n
           G == {T \in SUBSET S : g[T] \in V}
<1>0. ASSUME NEW T \in SUBSET S
      PROVE  g[T] \in V /\ (T # {} => g[T] = step[pick[T]][g[T \ {pick[T]}]])
    <2>1. {} \in G
        BY DEF FoldsWith
    <2>2. \A R \in SUBSET S : R # {} /\ (\A k \in R : R \ {k} \in G) => R \in G
        <3> SUFFICES ASSUME NEW R \in SUBSET S, R # {}, \A k \in R : R \ {k} \in G
                     PROVE  R \in G
            OBVIOUS
        <3>1. pick[R] \in R /\ pick[R] \in S /\ g[R \ {pick[R]}] \in V
            BY DEF PicksLast
        <3> QED
            BY <3>1 DEF FoldsWith
    <2>3. IsFiniteSet(S)
        BY FS_Interval
    <2>4. SUBSET S \subseteq G
        <3> HIDE DEF S, G
        <3> QED
            BY <2>1, <2>2, <2>3, SubsetsByInduction
    <2>5. g[T] \in V
        BY <2>4
    <2>6. T # {} => g[T \ {pick[T]}] \in V
        BY <2>4
    <2> QED
        BY <2>5, <2>6 DEF FoldsWith
<1>1. ASSUME NEW i \in 0 .. n
      PROVE  1 .. i \in SUBSET S
    OBVIOUS
<1>2. h \in [0 .. n -> V]
    BY <1>0, <1>1
<1>3. h[0] = base
    <2>1. 1 .. 0 = {}
        OBVIOUS
    <2> QED
        BY <2>1 DEF FoldsWith
<1>4. ASSUME NEW i \in 1 .. n
      PROVE  h[i] = step[i][h[i - 1]]
    <2>1. 1 .. i \in SUBSET S /\ i \in 1 .. i
        OBVIOUS
    <2>2. pick[1 .. i] = i
        <3>1. pick[1 .. i] \in 1 .. i /\ i <= pick[1 .. i]
            BY <2>1 DEF PicksLast
        <3> QED
            BY <3>1
    <2>3. (1 .. i) \ {i} = 1 .. (i - 1)
        OBVIOUS
    <2>4. g[1 .. i] = step[i][g[1 .. (i - 1)]]
        BY <1>0, <2>1, <2>2, <2>3
    <2>5. i \in 0 .. n /\ i - 1 \in 0 .. n
        OBVIOUS
    <2> QED
        BY <2>4, <2>5
<1> HIDE DEF h
<1> QED
    BY <1>2, <1>3, <1>4 DEF InSteps, h

\* As far as the steps are the same, so is what they make.
LEMMA SameSteps ==
    ASSUME NEW n \in Nat, NEW m \in Nat, n <= m, NEW V, NEW base,
           NEW step, NEW h, InSteps(h, n, V, base, step),
           NEW other, NEW g, InSteps(g, m, V, base, other),
           \A i \in 1 .. n : \A v \in V : step[i][v] = other[i][v]
    PROVE  \A i \in 0 .. n : h[i] = g[i]
<1> DEFINE Off == {i \in 0 .. n : h[i] # g[i]}
<1> SUFFICES ASSUME Off # {}
             PROVE  FALSE
    OBVIOUS
<1>1. PICK i \in Off : \A j \in Off : i <= j
    <2>1. Off \subseteq Nat
        OBVIOUS
    <2> HIDE DEF Off
    <2> QED
        BY <2>1, LeastNumber
<1>2. i \in 0 .. n /\ h[i] # g[i] /\ i # 0
    BY <1>1 DEF InSteps
<1>3. i \in 1 .. n /\ i \in 1 .. m /\ i - 1 \in 0 .. n /\ i - 1 \in 0 .. m
    BY <1>2
<1>4. i - 1 \notin Off
    <2> HIDE DEF Off
    <2>1. ~(i <= i - 1)
        BY <1>3
    <2> QED
        BY <1>1, <2>1
<1>5. h[i - 1] = g[i - 1] /\ h[i - 1] \in V
    BY <1>3, <1>4 DEF InSteps
<1>6. h[i] = step[i][h[i - 1]] /\ g[i] = other[i][g[i - 1]]
    BY <1>3 DEF InSteps
<1> QED
    BY <1>2, <1>3, <1>5, <1>6

\* A sequence of values, each made from the one before it, exists,
LEMMA StepsExist ==
    ASSUME NEW n \in Nat, NEW V, NEW base \in V, NEW step,
           \A i \in 1 .. n : \A v \in V : step[i][v] \in V
    PROVE  \E h : InSteps(h, n, V, base, step)
<1> DEFINE pick == [T \in SUBSET (1 .. n) |-> CHOOSE k \in T : \A j \in T : j <= k]
<1>1. ASSUME NEW T \in SUBSET (1 .. n), T # {}
      PROVE  pick[T] \in T /\ \A k \in T : k <= pick[T]
    <2>1. \E k \in T : \A j \in T : j <= k
        BY <1>1, GreatestNumber
    <2> QED
        BY <2>1
<1> HIDE DEF pick
<1>2. PicksLast(pick, n)
    BY <1>1 DEF PicksLast
<1>3. PICK g : Folded(g, 1 .. n, V, base, step, pick)
    <2>1. Foldable(1 .. n, V, base, step, pick)
        BY <1>1, FS_Interval DEF Foldable
    <2> QED
        BY <2>1, FoldExists
<1>4. FoldsWith(g, n, V, base, step, pick)
    BY <1>1, <1>3 DEF Folded, FoldsWith
<1> QED
    BY <1>2, <1>4, FoldInOrder

\* and what is defined like it is it.
LEMMA StepsFollow ==
    ASSUME NEW n \in Nat, NEW V, NEW base \in V, NEW step,
           \A i \in 1 .. n : \A v \in V : step[i][v] \in V,
           NEW f, f = [i \in 0 .. n |-> f[i]], f[0] = base,
           \A i \in 1 .. n : f[i - 1] \in V => f[i] = step[i][f[i - 1]]
    PROVE  InSteps(f, n, V, base, step)
<1> DEFINE Off == {i \in 0 .. n : f[i] \notin V}
<1>1. ASSUME Off # {} PROVE FALSE
    <2>1. PICK i \in Off : \A j \in Off : i <= j
        <3>1. Off \subseteq Nat
            OBVIOUS
        <3> HIDE DEF Off
        <3> QED
            BY <1>1, <3>1, LeastNumber
    <2>2. i \in 0 .. n /\ i # 0 /\ f[i] \notin V
        BY <2>1
    <2>3. i \in 1 .. n /\ i - 1 \in 0 .. n /\ ~(i <= i - 1)
        BY <2>2
    <2>4. f[i - 1] \in V
        BY <2>1, <2>3
    <2> QED
        BY <2>2, <2>3, <2>4
<1>2. \A i \in 0 .. n : f[i] \in V
    BY <1>1
<1>3. \A i \in 1 .. n : f[i - 1] \in V
    BY <1>2
<1> QED
    BY <1>2, <1>3 DEF InSteps

\* A function that is defined by what it is at smaller arguments: next is smaller
\* than its argument in the measure m, unless the argument is one of Stop.
Descending(D, Stop, next, m) ==
    /\ m \in [D -> Nat]
    /\ \A x \in D \ Stop : next[x] \in D /\ m[next[x]] < m[x]

Descent(f, D, Stop, final, next) ==
    f = [x \in D |-> IF x \in Stop THEN final[x] ELSE f[next[x]]]

LEMMA DescentExists ==
    ASSUME NEW D, NEW Stop, NEW final, NEW next, NEW m, Descending(D, Stop, next, m)
    PROVE  \E f : Descent(f, D, Stop, final, next)
<1> DEFINE Below(n) == {x \in D : m[x] < n}
           Part(f, n) == Descent(f, Below(n), Stop, final, next)
           N == {n \in Nat : \A f : ~Part(f, n)}
<1>0. /\ \A x \in D : m[x] \in Nat
      /\ \A x \in D \ Stop : next[x] \in D /\ m[next[x]] < m[x]
    BY DEF Descending
<1>1. ASSUME NEW f, NEW n, Part(f, n)
      PROVE  /\ \A x \in Below(n) \cap Stop : f[x] = final[x]
             /\ \A x \in Below(n) \ Stop : f[x] = f[next[x]]
    BY <1>1 DEF Descent
<1>2. N = {}
    <2> SUFFICES ASSUME N # {} PROVE FALSE
        OBVIOUS
    <2>1. PICK n \in N : \A k \in N : n <= k
        <3> HIDE DEF N
        <3> QED
            BY LeastNumber DEF N
    <2>2. n \in Nat /\ \A f : ~Part(f, n)
        BY <2>1
    <2>3. n # 0
        <3> SUFFICES ASSUME n = 0 PROVE FALSE
            OBVIOUS
        <3>1. Below(n) = {}
            BY <1>0
        <3>2. Part([x \in {} |-> x], n)
            BY <3>1 DEF Descent
        <3> QED
            BY <2>2, <3>2
    <2>4. n - 1 \in Nat /\ n - 1 \notin N
        BY <2>1, <2>2, <2>3
    <2>5. PICK f : Part(f, n - 1)
        BY <2>4
    <2> DEFINE g == [x \in Below(n) |-> IF x \in Stop THEN final[x] ELSE f[next[x]]]
    <2>6. \A x \in Below(n) \ Stop : next[x] \in Below(n - 1) /\ next[x] \in Below(n)
        BY <1>0, <2>2
    <2>7. \A x \in Below(n - 1) : x \in Below(n) /\ g[x] = f[x]
        <3>1. \A x \in Below(n - 1) : x \in Below(n)
            BY <1>0, <2>2
        <3> HIDE DEF Below, Part
        <3> QED
            BY <1>1, <2>5, <3>1
    <2>8. \A x \in Below(n) \ Stop : g[next[x]] = f[next[x]]
        BY <2>6, <2>7
    <2>9. g = [x \in Below(n) |-> IF x \in Stop THEN final[x] ELSE g[next[x]]]
        <3> HIDE DEF Below
        <3> QED
            BY <2>8
    <2> QED
        BY <2>2, <2>9 DEF Descent
<1> DEFINE F(n) == CHOOSE f : Part(f, n)
<1>3. \A n \in Nat : Part(F(n), n)
    <2> HIDE DEF Part
    <2> QED
        BY <1>2
<1>4. ASSUME NEW f, NEW g, NEW n \in Nat, NEW k \in Nat, Part(f, n), Part(g, k)
      PROVE  \A x \in Below(n) \cap Below(k) : f[x] = g[x]
    <2> DEFINE Off == {x \in Below(n) \cap Below(k) : f[x] # g[x]}
               M == {m[x] : x \in Off}
    <2> SUFFICES ASSUME Off # {} PROVE FALSE
        OBVIOUS
    <2>1. M \subseteq Nat /\ M # {}
        BY <1>0
    <2>2. PICK l \in M : \A j \in M : l <= j
        <3> HIDE DEF M
        <3> QED
            BY <2>1, LeastNumber
    <2>3. PICK x \in Off : m[x] = l
        BY <2>2
    <2>4. x \in D /\ x \in Below(n) /\ x \in Below(k) /\ f[x] # g[x]
        BY <2>3
    <2>5. x \notin Stop
        <3> HIDE DEF Below, Part
        <3> QED
            BY <1>1, <1>4, <2>4
    <2>6. f[x] = f[next[x]] /\ g[x] = g[next[x]]
        <3> HIDE DEF Below, Part
        <3> QED
            BY <1>1, <1>4, <2>4, <2>5
    <2>7. next[x] \in D /\ m[next[x]] \in Nat /\ m[x] \in Nat /\ m[next[x]] < m[x]
        BY <1>0, <2>4, <2>5
    <2>8. next[x] \in Below(n) /\ next[x] \in Below(k)
        BY <2>4, <2>7
    <2>9. next[x] \in Off
        BY <2>4, <2>6, <2>8
    <2>10. m[next[x]] \in M
        BY <2>9
    <2> QED
        BY <2>2, <2>3, <2>7, <2>10
<1> DEFINE f == [x \in D |-> F(m[x] + 1)[x]]
<1>5. \A x \in D : x \in Below(m[x] + 1) /\ m[x] + 1 \in Nat
    BY <1>0
<1>6. ASSUME NEW x \in D PROVE f[x] = IF x \in Stop THEN final[x] ELSE f[next[x]]
    <2> DEFINE n == m[x] + 1
               y == next[x]
    <2>1. Part(F(n), n) /\ x \in Below(n) /\ n \in Nat /\ f[x] = F(n)[x]
        BY <1>3, <1>5
    <2>2. CASE x \in Stop
        <3> HIDE DEF Part, Below, F
        <3> QED
            BY <1>1, <2>1, <2>2
    <2>3. CASE x \notin Stop
        <3>1. y \in D /\ f[y] = F(m[y] + 1)[y] /\ y \in Below(m[y] + 1)
              /\ m[y] + 1 \in Nat /\ Part(F(m[y] + 1), m[y] + 1)
            BY <1>0, <1>3, <1>5, <2>3
        <3>2. y \in Below(n)
            BY <1>0, <2>3
        <3>3. F(n)[x] = F(n)[y]
            <4> HIDE DEF Part, Below, F
            <4> QED
                BY <1>1, <2>1, <2>3
        <3>4. F(n)[y] = F(m[y] + 1)[y]
            <4> HIDE DEF Part, Below, F
            <4> QED
                BY <1>4, <2>1, <3>1, <3>2
        <3> QED
            BY <2>1, <2>3, <3>1, <3>3, <3>4
    <2> QED
        BY <2>2, <2>3
<1>7. f = [x \in D |-> IF x \in Stop THEN final[x] ELSE f[next[x]]]
    <2> HIDE DEF F
    <2> QED
        BY <1>6
<1> QED
    BY <1>7 DEF Descent

\* Such a function stays in a set of values that shrinks on the way down.
LEMMA DescentStays ==
    ASSUME NEW D, NEW Stop, NEW final, NEW next, NEW m, Descending(D, Stop, next, m),
           NEW f, Descent(f, D, Stop, final, next),
           NEW V, \A x \in D \cap Stop : final[x] \in V[x],
           \A x \in D \ Stop : V[next[x]] \subseteq V[x]
    PROVE  \A x \in D : f[x] \in V[x]
<1> DEFINE Off == {x \in D : f[x] \notin V[x]}
           M == {m[x] : x \in Off}
<1>0. /\ \A x \in D : m[x] \in Nat
      /\ \A x \in D \ Stop : next[x] \in D /\ m[next[x]] < m[x]
    BY DEF Descending
<1>1. \A x \in D : f[x] = IF x \in Stop THEN final[x] ELSE f[next[x]]
    BY DEF Descent
<1> SUFFICES ASSUME Off # {} PROVE FALSE
    OBVIOUS
<1>2. M \subseteq Nat /\ M # {}
    BY <1>0
<1>3. PICK l \in M : \A j \in M : l <= j
    <2> HIDE DEF M
    <2> QED
        BY <1>2, LeastNumber
<1>4. PICK x \in Off : m[x] = l
    BY <1>3
<1>5. x \notin Stop /\ f[next[x]] \notin V[next[x]]
    BY <1>1, <1>4
<1>6. next[x] \in Off /\ m[next[x]] < m[x]
    BY <1>0, <1>4, <1>5
<1>7. m[next[x]] \in M /\ m[next[x]] \in Nat /\ m[x] \in Nat
    BY <1>0, <1>6
<1> QED
    BY <1>3, <1>4, <1>6, <1>7

LEMMA GreatestOfBounded ==
    ASSUME NEW n \in Nat, NEW T \in SUBSET (0 .. n), T # {}
    PROVE  \E m \in T : \A k \in T : k <= m
<1> DEFINE U == {k + 1 : k \in T}
<1>1. \A k \in T : k \in Nat /\ k <= n
    OBVIOUS
<1>2. U \in SUBSET (1 .. n + 1) /\ U # {} /\ n + 1 \in Nat
    <2>1. \A k \in T : k + 1 \in 1 .. n + 1
        BY <1>1
    <2>2. \A j \in U : j \in 1 .. n + 1
        BY <2>1
    <2>3. U # {}
        OBVIOUS
    <2> HIDE DEF U
    <2> QED
        BY <2>2, <2>3
<1>3. PICK m \in U : \A k \in U : k <= m
    <2> HIDE DEF U
    <2> QED
        BY <1>2, GreatestNumber
<1>4. PICK k \in T : m = k + 1
    BY <1>3
<1>5. ASSUME NEW j \in T PROVE j <= k
    <2>1. j + 1 \in U
        OBVIOUS
    <2>2. j + 1 <= k + 1
        BY <1>3, <1>4, <2>1
    <2> QED
        BY <1>1, <2>2
<1> QED
    BY <1>5

--------------------------------------------------------------------------------
(* Sets in an order.                                                       *)

\* R orders the members of S strictly, one before the other.
StrictlyOrders(R, S) ==
    /\ \A x, y, z \in S : <<x, y>> \in R /\ <<y, z>> \in R => <<x, z>> \in R
    /\ \A x \in S : <<x, x>> \notin R
    /\ \A x, y \in S : x = y \/ <<x, y>> \in R \/ <<y, x>> \in R

Before(x, R, S) == {y \in S : <<y, x>> \in R}

\* As many members as a place has before it, some member has before it.
LEMMA PlacesTaken ==
    ASSUME NEW S, IsFiniteSet(S), NEW R, StrictlyOrders(R, S),
           NEW i \in 1 .. Cardinality(S)
    PROVE  \E x \in S : Cardinality(Before(x, R, S)) = i - 1
<1> DEFINE before(x) == Before(x, R, S)
           n == Cardinality(S)
           place == [x \in S |-> Cardinality(before(x)) + 1]
<1>1. n \in Nat
    BY FS_CardinalityType
<1>2. ASSUME NEW x \in S
      PROVE  /\ IsFiniteSet(before(x)) /\ Cardinality(before(x)) \in Nat
             /\ place[x] \in 1 .. n
    <2>1. before(x) \in SUBSET S /\ before(x) # S
        BY DEF StrictlyOrders, Before
    <2>2. /\ IsFiniteSet(before(x))
          /\ Cardinality(before(x)) <= n
          /\ Cardinality(before(x)) # n
        BY <2>1, FS_Subset
    <2>3. Cardinality(before(x)) \in Nat
        BY <2>2, FS_CardinalityType
    <2> HIDE DEF before, n
    <2> QED
        BY <1>1, <2>2, <2>3
<1>3. ASSUME NEW x \in S, NEW y \in S, <<x, y>> \in R
      PROVE  place[x] # place[y]
    <2>1. before(x) \in SUBSET before(y) /\ x \in before(y) /\ x \notin before(x)
        BY <1>3 DEF StrictlyOrders, Before
    <2>2. /\ Cardinality(before(x)) <= Cardinality(before(y))
          /\ Cardinality(before(x)) # Cardinality(before(y))
        BY <1>2, <2>1, FS_Subset
    <2>3. Cardinality(before(x)) \in Nat /\ Cardinality(before(y)) \in Nat
        BY <1>2
    <2> HIDE DEF before
    <2> QED
        BY <2>2, <2>3
<1>4. place \in Injection(S, 1 .. n)
    <2>1. place \in [S -> 1 .. n]
        BY <1>2
    <2>2. \A x, y \in S : place[x] = place[y] => x = y
        <3> HIDE DEF place
        <3> QED
            BY <1>3 DEF StrictlyOrders
    <2> HIDE DEF place
    <2> QED
        BY <2>1, <2>2 DEF Injection, IsInjective
<1>5. IsFiniteSet(1 .. n) /\ Cardinality(1 .. n) = n
    BY <1>1, FS_Interval
<1>6. place \in Surjection(S, 1 .. n)
    <2> HIDE DEF place
    <2> QED
        BY <1>4, <1>5, FS_Injection
<1>7. PICK x \in S : place[x] = i
    <2> HIDE DEF place
    <2> QED
        BY <1>6 DEF Surjection
<1>8. Cardinality(before(x)) \in Nat /\ place[x] = Cardinality(before(x)) + 1
    BY <1>2
<1>9. Cardinality(before(x)) = i - 1
    <2> HIDE DEF before, place
    <2> QED
        BY <1>7, <1>8
<1> QED
    BY <1>9

--------------------------------------------------------------------------------
(* Sums.                                                                   *)

Picked(T) == CHOOSE x \in T : TRUE

\* g sums f over each subset of S, an element at a time.
Sums(g, f, S) ==
    g = [T \in SUBSET S |-> IF T = {} THEN 0 ELSE f[Picked(T)] + g[T \ {Picked(T)}]]

LEMMA SumsExist ==
    ASSUME NEW S, IsFiniteSet(S), NEW f, \A x \in S : f[x] \in Int
    PROVE  \E g : Sums(g, f, S)
<1> DEFINE step == [x \in S |-> [v \in Int |-> f[x] + v]]
           pick == [T \in SUBSET S |-> Picked(T)]
<1>1. \A x \in S : \A v \in Int : step[x][v] = f[x] + v
    OBVIOUS
<1>2. \A T \in SUBSET S : T # {} => pick[T] \in T
    BY DEF Picked
<1>3. \A T \in SUBSET S : pick[T] = Picked(T)
    OBVIOUS
<1> HIDE DEF step, pick
<1>4. PICK g \in [SUBSET S -> Int] :
          \A T \in SUBSET S :
              g[T] = IF T = {} THEN 0 ELSE step[pick[T]][g[T \ {pick[T]}]]
    <2> DEFINE zero == 0
               V == Int
    <2>1. zero \in V /\ \A x \in S : \A v \in V : step[x][v] \in V
        BY <1>1
    <2> HIDE DEF zero, V
    <2>2. \E g : Folded(g, S, V, zero, step, pick)
        <3>1. Foldable(S, V, zero, step, pick)
            BY <1>2, <2>1 DEF Foldable
        <3> QED
            BY <3>1, FoldExists
    <2> QED
        BY <2>2 DEF Folded, zero, V
<1>5. ASSUME NEW T \in SUBSET S, T # {}
      PROVE  step[pick[T]][g[T \ {pick[T]}]] = f[Picked(T)] + g[T \ {Picked(T)}]
    <2>1. pick[T] \in S /\ T \ {pick[T]} \in SUBSET S
        BY <1>2, <1>5
    <2>2. g[T \ {pick[T]}] \in Int
        BY <1>4, <2>1
    <2>3. step[pick[T]][g[T \ {pick[T]}]] = f[pick[T]] + g[T \ {pick[T]}]
        BY <1>1, <2>1, <2>2
    <2> QED
        BY <1>3, <1>5, <2>3
<1>6. g = [T \in SUBSET S |-> IF T = {} THEN 0 ELSE f[Picked(T)] + g[T \ {Picked(T)}]]
    BY <1>4, <1>5
<1> QED
    BY <1>6 DEF Sums

LEMMA SumsAgree ==
    ASSUME NEW S, IsFiniteSet(S), NEW R \in SUBSET S, NEW f, NEW e, NEW g, NEW h,
           Sums(g, f, S), Sums(h, e, R), \A x \in R : f[x] = e[x]
    PROVE  \A T \in SUBSET R : g[T] = h[T]
<1> DEFINE G == {T \in SUBSET R : g[T] = h[T]}
<1>1. g[{}] = 0 /\ h[{}] = 0
    BY DEF Sums
<1>2. \A T \in SUBSET R :
          T # {} => /\ g[T] = f[Picked(T)] + g[T \ {Picked(T)}]
                    /\ h[T] = e[Picked(T)] + h[T \ {Picked(T)}]
                    /\ Picked(T) \in T
    BY DEF Sums, Picked
<1>3. \A T \in SUBSET R : T # {} /\ (\A x \in T : T \ {x} \in G) => T \in G
    BY <1>2
<1>4. IsFiniteSet(R)
    BY FS_Subset
<1> HIDE DEF G
<1>5. SUBSET R \subseteq G
    <2>1. {} \in G
        BY <1>1 DEF G
    <2> QED
        BY <1>3, <1>4, <2>1, SubsetsByInduction
<1> QED
    BY <1>5 DEF G

\* The library's sum is such a function, at the whole set.
LEMMA SumUnfolds ==
    ASSUME NEW S, IsFiniteSet(S), NEW f, \A x \in S : f[x] \in Int
    PROVE  \E g : Sums(g, f, S) /\ SumFunctionOnSet(f, S) = g[S]
<1> DEFINE g == CHOOSE g : Sums(g, f, S)
<1>1. Sums(g, f, S)
    BY SumsExist
<1>2. SumFunctionOnSet(f, S) = g[S]
    BY DEF SumFunctionOnSet, FoldFunctionOnSet, MapThenFoldSet, Sums, Picked
<1> QED
    BY <1>1, <1>2

\* The sum of no element, and of an element and the rest.
LEMMA SumOfNone ==
    ASSUME NEW f
    PROVE  SumFunctionOnSet(f, {}) = 0
<1>1. PICK g : Sums(g, f, {}) /\ SumFunctionOnSet(f, {}) = g[{}]
    BY SumUnfolds, FS_EmptySet
<1> QED
    BY <1>1 DEF Sums

LEMMA SumOfPicked ==
    ASSUME NEW S, IsFiniteSet(S), S # {}, NEW f, \A x \in S : f[x] \in Int
    PROVE  SumFunctionOnSet(f, S)
              = f[Picked(S)] + SumFunctionOnSet(f, S \ {Picked(S)})
<1> DEFINE R == S \ {Picked(S)}
<1>1. IsFiniteSet(R) /\ R \in SUBSET S
    BY FS_Subset
<1>2. PICK g : Sums(g, f, S) /\ SumFunctionOnSet(f, S) = g[S]
    BY SumUnfolds
<1>3. PICK h : Sums(h, f, R) /\ SumFunctionOnSet(f, R) = h[R]
    BY <1>1, SumUnfolds
<1>4. g[R] = h[R]
    BY <1>1, <1>2, <1>3, SumsAgree
<1>5. g[S] = f[Picked(S)] + g[R]
    BY <1>2 DEF Sums
<1> QED
    BY <1>2, <1>3, <1>4, <1>5

\* A sum depends on what is summed.
LEMMA SumOfSame ==
    ASSUME NEW S, IsFiniteSet(S), NEW f, NEW e,
           \A x \in S : f[x] \in Int /\ f[x] = e[x]
    PROVE  SumFunctionOnSet(f, S) = SumFunctionOnSet(e, S)
<1>1. PICK g : Sums(g, f, S) /\ SumFunctionOnSet(f, S) = g[S]
    BY SumUnfolds
<1>2. PICK h : Sums(h, e, S) /\ SumFunctionOnSet(e, S) = h[S]
    BY SumUnfolds
<1>3. S \in SUBSET S
    OBVIOUS
<1> QED
    BY <1>1, <1>2, <1>3, SumsAgree

\* A sum of integers is one.
LEMMA SumType ==
    ASSUME NEW S, IsFiniteSet(S), NEW f, \A x \in S : f[x] \in Int
    PROVE  \A T \in SUBSET S : SumFunctionOnSet(f, T) \in Int
<1> DEFINE G == {T \in SUBSET S : SumFunctionOnSet(f, T) \in Int}
<1>1. {} \in G
    BY SumOfNone
<1>2. ASSUME NEW T \in SUBSET S, T # {}, \A x \in T : T \ {x} \in G
      PROVE  T \in G
    <2>1. Picked(T) \in T
        BY <1>2 DEF Picked
    <2>2. SumFunctionOnSet(f, T) = f[Picked(T)] + SumFunctionOnSet(f, T \ {Picked(T)})
        BY <1>2, FS_Subset, SumOfPicked
    <2>3. f[Picked(T)] \in Int /\ SumFunctionOnSet(f, T \ {Picked(T)}) \in Int
        BY <1>2, <2>1
    <2> QED
        BY <2>2, <2>3
<1>3. SUBSET S \subseteq G
    <2> HIDE DEF G
    <2> QED
        BY <1>1, <1>2, SubsetsByInduction
<1> QED
    BY <1>3

\* Any element may be taken out, whatever order the sum is made in.
LEMMA SumOfElement ==
    ASSUME NEW S, IsFiniteSet(S), NEW f, \A x \in S : f[x] \in Int
    PROVE  \A x \in S : SumFunctionOnSet(f, S) = f[x] + SumFunctionOnSet(f, S \ {x})
<1> DEFINE Total(T) == SumFunctionOnSet(f, T)
           G == {T \in SUBSET S : \A x \in T : Total(T) = f[x] + Total(T \ {x})}
<1>0. \A T \in SUBSET S : Total(T) \in Int
    BY SumType
<1>1. {} \in G
    OBVIOUS
<1>2. ASSUME NEW T \in SUBSET S, T # {}, \A x \in T : T \ {x} \in G
      PROVE  T \in G
    <2> DEFINE y == Picked(T)
    <2>1. y \in T /\ f[y] \in Int
        BY <1>2 DEF Picked
    <2>2. Total(T) = f[y] + Total(T \ {y})
        BY <1>2, FS_Subset, SumOfPicked
    <2> HIDE DEF Total, y
    <2>3. ASSUME NEW x \in T, x # y
          PROVE  Total(T) = f[x] + Total(T \ {x})
        <3> DEFINE rest == (T \ {x}) \ {y}
        <3>1. x \in T \ {y} /\ y \in T \ {x} /\ (T \ {y}) \ {x} = rest
            BY <2>1, <2>3
        <3>2. Total(T \ {y}) = f[x] + Total(rest)
            BY <1>2, <2>1, <3>1
        <3>3. Total(T \ {x}) = f[y] + Total(rest)
            BY <1>2, <3>1
        <3>4. f[x] \in Int /\ Total(rest) \in Int
            <4>1. rest \in SUBSET S
                OBVIOUS
            <4> QED
                BY <1>0, <4>1
        <3> QED
            BY <2>1, <2>2, <3>2, <3>3, <3>4
    <2>4. \A x \in T : Total(T) = f[x] + Total(T \ {x})
        BY <2>2, <2>3
    <2> QED
        BY <2>4
<1>3. SUBSET S \subseteq G
    <2> HIDE DEF G
    <2> QED
        BY <1>1, <1>2, SubsetsByInduction
<1> QED
    BY <1>3

\* One element changes and the sum by as much.
LEMMA SumOfChange ==
    ASSUME NEW S, IsFiniteSet(S), NEW f, NEW e, NEW x \in S,
           \A y \in S : f[y] \in Int /\ e[y] \in Int,
           \A y \in S \ {x} : e[y] = f[y]
    PROVE  SumFunctionOnSet(e, S) = SumFunctionOnSet(f, S) - f[x] + e[x]
<1>1. IsFiniteSet(S \ {x})
    BY FS_Subset
<1>2. SumFunctionOnSet(e, S \ {x}) = SumFunctionOnSet(f, S \ {x})
    BY <1>1, SumOfSame
<1>3. SumFunctionOnSet(f, S) = f[x] + SumFunctionOnSet(f, S \ {x})
    BY SumOfElement
<1>4. SumFunctionOnSet(e, S) = e[x] + SumFunctionOnSet(e, S \ {x})
    BY SumOfElement
<1>5. SumFunctionOnSet(f, S \ {x}) \in Int /\ f[x] \in Int /\ e[x] \in Int
    BY SumType
<1> QED
    BY <1>2, <1>3, <1>4, <1>5

\* A sum grows with what is summed.
LEMMA SumMonotone ==
    ASSUME NEW S, IsFiniteSet(S), NEW f, NEW e,
           \A x \in S : f[x] \in Int /\ e[x] \in Int /\ f[x] <= e[x]
    PROVE  SumFunctionOnSet(f, S) <= SumFunctionOnSet(e, S)
<1> DEFINE F(T) == SumFunctionOnSet(f, T)
           E(T) == SumFunctionOnSet(e, T)
           G == {T \in SUBSET S : F(T) <= E(T)}
<1>1. {} \in G
    BY SumOfNone
<1>2. ASSUME NEW T \in SUBSET S, T # {}, \A x \in T : T \ {x} \in G
      PROVE  T \in G
    <2>1. PICK x : x \in T
        BY <1>2
    <2>2. IsFiniteSet(T)
        BY FS_Subset
    <2>3. F(T) = f[x] + F(T \ {x}) /\ E(T) = e[x] + E(T \ {x})
        BY <2>1, <2>2, SumOfElement
    <2>4. F(T \ {x}) \in Int /\ E(T \ {x}) \in Int
        BY SumType
    <2>5. F(T \ {x}) <= E(T \ {x})
        BY <1>2, <2>1
    <2> QED
        BY <2>1, <2>3, <2>4, <2>5
<1>3. SUBSET S \subseteq G
    <2> HIDE DEF G
    <2> QED
        BY <1>1, <1>2, SubsetsByInduction
<1> QED
    BY <1>3

\* Sums add up.
LEMMA SumOfSums ==
    ASSUME NEW S, IsFiniteSet(S), NEW f, NEW e, NEW d,
           \A x \in S : f[x] \in Int /\ e[x] \in Int /\ d[x] = f[x] + e[x]
    PROVE  SumFunctionOnSet(d, S) = SumFunctionOnSet(f, S) + SumFunctionOnSet(e, S)
<1> DEFINE D(T) == SumFunctionOnSet(d, T)
           F(T) == SumFunctionOnSet(f, T)
           E(T) == SumFunctionOnSet(e, T)
           G == {T \in SUBSET S : D(T) = F(T) + E(T)}
<1>1. {} \in G
    BY SumOfNone
<1>2. ASSUME NEW T \in SUBSET S, T # {}, \A x \in T : T \ {x} \in G
      PROVE  T \in G
    <2>1. PICK x : x \in T
        BY <1>2
    <2>2. IsFiniteSet(T) /\ d[x] \in Int
        BY <2>1, FS_Subset
    <2>3. /\ F(T) = f[x] + F(T \ {x})
          /\ E(T) = e[x] + E(T \ {x})
          /\ D(T) = d[x] + D(T \ {x})
        BY <2>1, <2>2, SumOfElement
    <2>4. F(T \ {x}) \in Int /\ E(T \ {x}) \in Int
        BY SumType
    <2>5. D(T \ {x}) = F(T \ {x}) + E(T \ {x})
        BY <1>2, <2>1
    <2> QED
        BY <2>1, <2>3, <2>4, <2>5
<1>3. SUBSET S \subseteq G
    <2> HIDE DEF G
    <2> QED
        BY <1>1, <1>2, SubsetsByInduction
<1> QED
    BY <1>3

\* A sum of nothing but zero is zero.
LEMMA SumOfZeros ==
    ASSUME NEW S, IsFiniteSet(S), NEW f, \A x \in S : f[x] = 0
    PROVE  SumFunctionOnSet(f, S) = 0
<1> DEFINE G == {T \in SUBSET S : SumFunctionOnSet(f, T) = 0}
<1>1. {} \in G
    BY SumOfNone
<1>2. ASSUME NEW T \in SUBSET S, T # {}, \A x \in T : T \ {x} \in G
      PROVE  T \in G
    <2>1. Picked(T) \in T
        BY <1>2 DEF Picked
    <2>2. SumFunctionOnSet(f, T) = f[Picked(T)] + SumFunctionOnSet(f, T \ {Picked(T)})
        BY <1>2, FS_Subset, SumOfPicked
    <2> QED
        BY <1>2, <2>1, <2>2
<1>3. SUBSET S \subseteq G
    <2> HIDE DEF G
    <2> QED
        BY <1>1, <1>2, SubsetsByInduction
<1> QED
    BY <1>3

\* The sum of a whole function, and how it follows a change of one value.
LEMMA SumOfFunction ==
    ASSUME NEW S, IsFiniteSet(S), NEW f \in [S -> Int]
    PROVE  SumFunction(f) = SumFunctionOnSet(f, S) /\ SumFunction(f) \in Int
<1>1. DOMAIN f = S /\ S \in SUBSET S
    OBVIOUS
<1> QED
    BY <1>1, SumType DEF SumFunction

LEMMA SumAfterChange ==
    ASSUME NEW S, IsFiniteSet(S), NEW f \in [S -> Int], NEW x \in S, NEW d \in Int
    PROVE  SumFunction([f EXCEPT ![x] = f[x] + d]) = SumFunction(f) + d
<1> DEFINE e == [f EXCEPT ![x] = f[x] + d]
<1>1. e \in [S -> Int] /\ e[x] = f[x] + d /\ \A y \in S \ {x} : e[y] = f[y]
    OBVIOUS
<1> HIDE DEF e
<1>2. SumFunctionOnSet(e, S) = SumFunctionOnSet(f, S) - f[x] + e[x]
    BY <1>1, SumOfChange
<1>3. SumFunctionOnSet(f, S) \in Int /\ f[x] \in Int
    BY SumOfFunction
<1>4. SumFunction(e) = SumFunctionOnSet(f, S) + d
    BY <1>1, <1>2, <1>3, SumOfFunction
<1> QED
    BY <1>4, SumOfFunction DEF e

LEMMA SumOfNaturals ==
    ASSUME NEW S, IsFiniteSet(S), NEW f \in [S -> Nat]
    PROVE  SumFunction(f) \in Nat
<1> DEFINE z == [x \in S |-> 0]
<1>1. \A x \in S : z[x] = 0 /\ z[x] \in Int /\ f[x] \in Int /\ z[x] <= f[x]
    OBVIOUS
<1> HIDE DEF z
<1>2. SumFunctionOnSet(z, S) <= SumFunctionOnSet(f, S) /\ SumFunctionOnSet(z, S) = 0
    BY <1>1, SumMonotone, SumOfZeros
<1>3. f \in [S -> Int]
    OBVIOUS
<1> QED
    BY <1>2, <1>3, SumOfFunction

LEMMA SumOfZeroFunction ==
    ASSUME NEW S, IsFiniteSet(S)
    PROVE  SumFunction([x \in S |-> 0]) = 0
<1> DEFINE z == [x \in S |-> 0]
<1>1. z \in [S -> Int] /\ \A x \in S : z[x] = 0
    OBVIOUS
<1> HIDE DEF z
<1>2. SumFunction(z) = 0
    BY <1>1, SumOfFunction, SumOfZeros
<1> QED
    BY <1>2 DEF z

\* A sum of multiples is the multiple of the sum.
LEMMA SumOfMultiples ==
    ASSUME NEW S, IsFiniteSet(S), NEW f, NEW e, NEW c \in Int,
           \A x \in S : f[x] \in Int /\ e[x] = c * f[x]
    PROVE  SumFunctionOnSet(e, S) = c * SumFunctionOnSet(f, S)
<1> DEFINE F(T) == SumFunctionOnSet(f, T)
           E(T) == SumFunctionOnSet(e, T)
           G == {T \in SUBSET S : E(T) = c * F(T)}
<1>0. \A x \in S : e[x] \in Int
    OBVIOUS
<1>1. {} \in G
    BY SumOfNone
<1>2. ASSUME NEW T \in SUBSET S, T # {}, \A x \in T : T \ {x} \in G
      PROVE  T \in G
    <2>1. PICK x : x \in T
        BY <1>2
    <2>2. IsFiniteSet(T)
        BY FS_Subset
    <2>3. F(T) = f[x] + F(T \ {x}) /\ E(T) = e[x] + E(T \ {x})
        BY <1>0, <2>1, <2>2, SumOfElement
    <2>4. F(T \ {x}) \in Int /\ f[x] \in Int
        BY <2>1, SumType
    <2>5. E(T \ {x}) = c * F(T \ {x}) /\ e[x] = c * f[x]
        BY <1>2, <2>1
    <2> HIDE DEF F, E
    <2>6. c * (f[x] + F(T \ {x})) = c * f[x] + c * F(T \ {x})
        BY <2>4, Z3
    <2> QED
        BY <2>3, <2>5, <2>6
<1>3. SUBSET S \subseteq G
    <2> HIDE DEF G
    <2> QED
        BY <1>1, <1>2, SubsetsByInduction
<1> QED
    BY <1>3

\* Shares of a pool in proportion to parts of a whole, each rounded down, are
\* together at most the pool.
LEMMA SharesFitPool ==
    ASSUME NEW S, IsFiniteSet(S), NEW b \in [S -> Nat], NEW pool \in Nat,
           NEW whole \in Nat \ {0}, SumFunction(b) = whole
    PROVE  SumFunction([x \in S |-> (pool * b[x]) \div whole]) <= pool
<1> DEFINE share == [x \in S |-> (pool * b[x]) \div whole]
           part == [x \in S |-> pool * b[x]]
           spent == [x \in S |-> whole * share[x]]
<1>1. ASSUME NEW x \in S
      PROVE  /\ share[x] \in Nat /\ part[x] \in Nat /\ b[x] \in Int
             /\ spent[x] \in Int /\ spent[x] <= part[x]
             /\ part[x] = pool * b[x] /\ spent[x] = whole * share[x]
    <2>1. b[x] \in Nat
        OBVIOUS
    <2>2. pool * b[x] \in Nat
        BY <2>1, TimesMonotone
    <2> DEFINE p == pool * b[x]
    <2> HIDE DEF p
    <2>3. p \div whole \in Nat /\ whole * (p \div whole) \in Nat
          /\ whole * (p \div whole) <= p
        <3>1. p \in Nat
            BY <2>2 DEF p
        <3>2. p \div whole \in Nat
            BY <3>1, DivMonotone
        <3> QED
            BY <3>1, <3>2, Z3
    <2> QED
        BY <2>1, <2>2, <2>3 DEF p
<1>2. share \in [S -> Int] /\ b \in [S -> Int]
    BY <1>1
<1> HIDE DEF share, part, spent
<1>3. SumFunctionOnSet(spent, S) <= SumFunctionOnSet(part, S)
    BY <1>1, SumMonotone
<1>4. SumFunctionOnSet(spent, S) = whole * SumFunctionOnSet(share, S)
    BY <1>1, SumOfMultiples
<1>5. SumFunctionOnSet(part, S) = pool * SumFunctionOnSet(b, S)
    BY <1>1, SumOfMultiples
<1> DEFINE q == SumFunction(share)
<1>6. SumFunctionOnSet(share, S) = q /\ q \in Int /\ SumFunctionOnSet(b, S) = whole
    BY <1>2, SumOfFunction
<1> HIDE DEF q
<1>7. whole * q <= pool * whole
    BY <1>3, <1>4, <1>5, <1>6
<1>8. q <= pool
    BY <1>6, <1>7, Z3
<1> QED
    BY <1>8 DEF q, share
================================================================================
