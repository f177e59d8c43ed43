---------------------------- MODULE DocumentsProofs ----------------------------
(***************************************************************************)
(* What holds of the documents for all profiles, whatever claims a         *)
(* provider lists and however often it fails, after what holds of the time *)
(* that roles cover, for any number of roles.                              *)
(***************************************************************************)
EXTENDS Documents, FiniteSetTheorems, WellFoundedInduction, TLAPS

(* The time that roles cover *)

(* Lemma: a nonempty set of numbers has a least one.                       *)
LEMMA LeastNumber ==
  ASSUME NEW T \in SUBSET Nat, NEW n \in T
  PROVE  \E k \in T : \A m \in T : k <= m
<1> DEFINE R == OpToRel(<, Nat)
<1>1. IsWellFoundedOn(R, Nat)
  BY NatLessThanWellFounded
<1>2. \A x, y \in Nat : x < y => <<x, y>> \in R
  BY DEF OpToRel
<1> HIDE DEF R
<1>3. PICK k \in T : \A m \in T : <<m, k>> \notin R
  BY <1>1, WFMin
<1>4. \A m \in T : ~(m < k)
  BY <1>2, <1>3
<1> QED BY <1>4

(* Lemma: induction over the numbers, for a set of them.                   *)
LEMMA NumberInduction ==
  ASSUME NEW G, 0 \in G, \A n \in Nat : n \in G => n + 1 \in G
  PROVE  Nat \subseteq G
<1> SUFFICES ASSUME NEW n \in Nat \ G PROVE FALSE
  OBVIOUS
<1>1. PICK k \in Nat \ G : \A m \in Nat \ G : k <= m
  BY LeastNumber
<1>2. k - 1 \in Nat /\ k - 1 \in G
  BY <1>1
<1> QED BY <1>1, <1>2


(* Lemma: a nonempty set of places has a last one.                         *)
LEMMA LastPlace ==
  ASSUME NEW n \in Nat, NEW S \in SUBSET (1..n), S # {}
  PROVE  Max(S) \in S /\ \A i \in S : i <= Max(S)
<1> DEFINE T == {n - i : i \in S}
<1>1. T \in SUBSET Nat /\ \E m \in Nat : m \in T
  <2>1. PICK j \in S : n - j \in T
    OBVIOUS
  <2>2. T \in SUBSET Nat
    OBVIOUS
  <2> HIDE DEF T
  <2> QED BY <2>1, <2>2
<1>2. PICK k \in T : \A m \in T : k <= m
  <2> HIDE DEF T
  <2> QED BY <1>1, LeastNumber
<1>3. PICK j \in S : k = n - j
  OBVIOUS
<1>4. \A i \in S : j >= i
  <2>1. \A i \in S : n - i \in T
    OBVIOUS
  <2> HIDE DEF T
  <2> QED BY <1>2, <1>3, <2>1
<1> QED
  <2>1. Max(S) \in S /\ \A i \in S : Max(S) >= i
    BY <1>4 DEF Max
  <2> QED BY <2>1

Initially == [total |-> 0, cursor |-> None]

(* g[s] is the sweep over the ranges of q at the places s.                 *)
Sweeps(q, g, D) ==
  g = [s \in D |-> IF s = {} THEN Initially ELSE Sweep(g[s \ {Max(s)}], q[Max(s)])]
UpTo(S, n) == {s \in SUBSET S : Cardinality(s) <= n}

(* Lemma: MonthsInOrder is defined by that recursion.                      *)
LEMMA SweepByRecursion ==
  ASSUME NEW q
  PROVE  MonthsInOrder(q) = (CHOOSE g : Sweeps(q, g, SUBSET DOMAIN q))[DOMAIN q].total
  BY DEF MonthsInOrder, FoldLeft, MapThenFoldSet, Sweeps, Initially

(* Lemma: and the recursion has a solution, built up over the cardinality. *)
LEMMA SweepExists ==
  ASSUME NEW n \in Nat, NEW q
  PROVE  \E g : Sweeps(q, g, SUBSET (1..n))
<1> DEFINE S == 1..n
           Of(g, s) == IF s = {} THEN Initially ELSE Sweep(g[s \ {Max(s)}], q[Max(s)])
           G == {m \in Nat : \E g : Sweeps(q, g, UpTo(S, m))}
<1>0. IsFiniteSet(S)
  BY FS_Interval
<1>a. \A s \in SUBSET S : s # {} => Max(s) \in s
  BY LastPlace
<1> HIDE DEF S
<1>1. 0 \in G
  <2>1. \A s \in UpTo(S, 0) : s = {}
    BY <1>0, FS_Subset, FS_CardinalityType, FS_EmptySet DEF UpTo
  <2>2. Sweeps(q, [s \in UpTo(S, 0) |-> Initially], UpTo(S, 0))
    BY <2>1 DEF Sweeps
  <2> QED BY <2>2
<1>2. ASSUME NEW m \in G PROVE m + 1 \in G
  <2>1. PICK g : Sweeps(q, g, UpTo(S, m))
    OBVIOUS
  <2> DEFINE h == [s \in UpTo(S, m + 1) |-> Of(g, s)]
  <2>2. ASSUME NEW s \in UpTo(S, m + 1), s # {}
        PROVE  s \ {Max(s)} \in UpTo(S, m) /\ s \ {Max(s)} \in UpTo(S, m + 1)
    <3>1. IsFiniteSet(s) /\ Max(s) \in s
      BY <1>0, <1>a, <2>2, FS_Subset DEF UpTo
    <3>2. Cardinality(s \ {Max(s)}) = Cardinality(s) - 1 /\ Cardinality(s) \in Nat
      BY <3>1, FS_RemoveElement, FS_CardinalityType
    <3> QED BY <3>2 DEF UpTo
  <2>3. ASSUME NEW s \in UpTo(S, m) PROVE s \in UpTo(S, m + 1) /\ g[s] = h[s]
    <3>1. Cardinality(s) \in Nat
      BY <1>0, FS_Subset, FS_CardinalityType DEF UpTo
    <3>2. s \in UpTo(S, m + 1)
      BY <3>1 DEF UpTo
    <3>3. g[s] = Of(g, s)
      BY <2>1 DEF Sweeps
    <3> QED BY <3>2, <3>3
  <2>4. h = [s \in UpTo(S, m + 1) |-> Of(h, s)]
    <3>1. ASSUME NEW s \in UpTo(S, m + 1), s # {} PROVE g[s \ {Max(s)}] = h[s \ {Max(s)}]
      BY <2>2, <2>3, <3>1
    <3> HIDE DEF h
    <3>2. h = [s \in UpTo(S, m + 1) |-> Of(g, s)]
      BY DEF h
    <3> QED BY <3>1, <3>2
  <2>5. Sweeps(q, h, UpTo(S, m + 1))
    BY <2>4 DEF Sweeps
  <2> HIDE DEF h
  <2> QED BY <2>5
<1>3. Cardinality(S) \in G
  <2> HIDE DEF G
  <2>1. Nat \subseteq G
    BY <1>1, <1>2, NumberInduction
  <2> QED BY <1>0, <2>1, FS_CardinalityType
<1>4. UpTo(S, Cardinality(S)) = SUBSET S
  BY <1>0, FS_Subset DEF UpTo
<1> QED BY <1>3, <1>4 DEF S

(* The months of the first k ranges, and what the sweep knows after them.  *)
Months(q, k) == UNION {(q[i][1] + 1)..q[i][2] : i \in 1..k}

Swept(q, acc, k) ==
  /\ IsFiniteSet(Months(q, k)) /\ acc.total = Cardinality(Months(q, k))
  /\ k = 0 => acc.cursor = None
  /\ k > 0 => /\ \E i \in 1..k : acc.cursor = q[i][2]
              /\ \A i \in 1..k : q[i][2] <= acc.cursor

SortedRanges(n) ==
  {q \in [1..n -> Int \X Int] :
     /\ \A i \in 1..n : q[i][1] < q[i][2]
     /\ \A i, j \in 1..n : i < j => q[i][1] <= q[j][1]}

(* Lemma: one step of the loop.                                            *)
LEMMA SweepStep ==
  ASSUME NEW n \in Nat, NEW q \in SortedRanges(n), NEW k \in Nat, k < n,
         NEW acc, Swept(q, acc, k)
  PROVE  Swept(q, Sweep(acc, q[k + 1]), k + 1)
<1> DEFINE a == q[k + 1][1]
           b == q[k + 1][2]
           M == Months(q, k)
           c == acc.cursor
<1>1. a \in Int /\ b \in Int /\ a < b
  BY DEF SortedRanges
<1>2. Months(q, k + 1) = M \cup ((a + 1)..b)
  <2>1. 1..(k + 1) = 1..k \cup {k + 1}
    OBVIOUS
  <2> QED BY <2>1 DEF Months
<1>3. IsFiniteSet(M) /\ Cardinality(M) \in Nat /\ acc.total = Cardinality(M)
  BY FS_CardinalityType DEF Swept
<1>4. \A i \in 1..k : q[i][1] \in Int /\ q[i][2] \in Int /\ q[i][1] <= a
  BY DEF SortedRanges
<1>5. M \subseteq Int /\ (k > 0 => c \in Int /\ \A m \in M : m <= c)
  <2>1. M \subseteq Int
    BY <1>4 DEF Months
  <2>2. ASSUME k > 0 PROVE c \in Int /\ \A m \in M : m <= c
    BY <1>4, <2>2 DEF Months, Swept
  <2> QED BY <2>1, <2>2
<1>6. ASSUME NEW x \in Int, NEW y \in Int, x <= y,
             Months(q, k + 1) = M \cup ((x + 1)..y), M \cap ((x + 1)..y) = {}
      PROVE  IsFiniteSet(Months(q, k + 1)) /\ Cardinality(Months(q, k + 1)) = acc.total + y - x
  <2> DEFINE N == (x + 1)..y
  <2>1. IsFiniteSet(N) /\ Cardinality(N) = y - x
    <3>1. x + 1 \in Int /\ (x + 1 > y => y - x = 0)
      BY <1>6
    <3>2. IsFiniteSet(N) /\ Cardinality(N) = IF x + 1 > y THEN 0 ELSE y - (x + 1) + 1
      BY <3>1, FS_Interval
    <3> QED BY <3>1, <3>2
  <2>2. Cardinality(M \cap N) = 0
    BY <1>6, FS_EmptySet
  <2>3. Months(q, k + 1) = M \cup N
    BY <1>6
  <2> HIDE DEF M, N
  <2>4. /\ IsFiniteSet(M \cup N)
        /\ Cardinality(M \cup N) = Cardinality(M) + Cardinality(N) - Cardinality(M \cap N)
    BY <1>3, <2>1, FS_Union
  <2>5. x \in Int /\ y \in Int
    BY <1>6
  <2>6. Cardinality(M \cup N) = Cardinality(M) + y - x
    BY <1>3, <2>1, <2>2, <2>4, <2>5
  <2> QED BY <1>3, <2>3, <2>4, <2>6
<1>7. CASE c = None \/ a > c
  <2>1. Sweep(acc, q[k + 1]) = [total |-> acc.total + b - a, cursor |-> b]
    BY <1>7 DEF Sweep
  <2>2. M \cap ((a + 1)..b) = {}
    <3>1. CASE k = 0
      BY <3>1 DEF Months
    <3>2. CASE k > 0
      BY <1>1, <1>5, <1>7, <3>2, NoneAssumption
    <3> QED BY <3>1, <3>2
  <2>3. \A i \in 1..k : q[i][2] <= b
    <3>1. ASSUME NEW i \in 1..k PROVE q[i][2] <= b
      <4>1. k > 0 /\ c \in Int /\ q[i][2] <= c
        BY <1>5, <3>1 DEF Swept
      <4> QED BY <1>1, <1>4, <1>7, <4>1, NoneAssumption
    <3> QED BY <3>1
  <2> QED
    <3>1. IsFiniteSet(Months(q, k + 1)) /\ Cardinality(Months(q, k + 1)) = acc.total + b - a
      BY <1>1, <1>2, <1>6, <2>2
    <3>2. \A i \in 1..(k + 1) : i \in 1..k \/ i = k + 1
      OBVIOUS
    <3> QED BY <1>1, <2>1, <2>3, <3>1, <3>2 DEF Swept
<1>8. CASE ~(c = None \/ a > c)
  <2>1. k > 0 /\ c \in Int /\ a <= c
    BY <1>1, <1>5, <1>8 DEF Swept
  <2>2. (a + 1)..c \subseteq M
    <3>1. PICK i \in 1..k : c = q[i][2]
      BY <2>1 DEF Swept
    <3>2. (a + 1)..c \subseteq (q[i][1] + 1)..q[i][2]
      BY <1>1, <1>4, <2>1, <3>1
    <3> QED BY <3>2 DEF Months
  <2>3. CASE b > c
    <3>1. Sweep(acc, q[k + 1]) = [total |-> acc.total + b - c, cursor |-> b]
      BY <1>8, <2>3 DEF Sweep
    <3>2. Months(q, k + 1) = M \cup ((c + 1)..b)
      <4>1. (a + 1)..b = ((a + 1)..c) \cup ((c + 1)..b)
        BY <1>1, <2>1, <2>3
      <4> QED BY <1>2, <2>2, <4>1
    <3>3. M \cap ((c + 1)..b) = {}
      BY <1>1, <1>5, <2>1
    <3>4. IsFiniteSet(Months(q, k + 1)) /\ Cardinality(Months(q, k + 1)) = acc.total + b - c
      BY <1>1, <1>6, <2>1, <2>3, <3>2, <3>3
    <3>5. \A i \in 1..(k + 1) : q[i][2] <= b
      <4>1. \A i \in 1..k : q[i][2] <= c
        BY <2>1 DEF Swept
      <4>2. \A i \in 1..(k + 1) : i \in 1..k \/ i = k + 1
        OBVIOUS
      <4> QED BY <1>1, <1>4, <2>1, <2>3, <4>1, <4>2
    <3> QED BY <3>1, <3>4, <3>5 DEF Swept
  <2>4. CASE ~(b > c)
    <3>1. Sweep(acc, q[k + 1]) = acc
      BY <1>8, <2>4 DEF Sweep
    <3>2. Months(q, k + 1) = M
      <4>1. (a + 1)..b \subseteq (a + 1)..c
        BY <1>1, <2>1, <2>4
      <4> QED BY <1>2, <2>2, <4>1
    <3>3. \A i \in 1..(k + 1) : i \in 1..k \/ i = k + 1
      OBVIOUS
    <3>4. (\E i \in 1..k : c = q[i][2]) /\ \A i \in 1..k : q[i][2] <= c
      BY <2>1 DEF Swept
    <3>5. (\E i \in 1..(k + 1) : c = q[i][2]) /\ \A i \in 1..(k + 1) : q[i][2] <= c
      BY <1>1, <2>1, <2>4, <3>3, <3>4
    <3> QED BY <1>3, <3>1, <3>2, <3>5 DEF Swept
  <2> QED BY <2>3, <2>4
<1> QED BY <1>7, <1>8

(* Lemma: whatever order the ranges that start together come in, the loop  *)
(* counts every month once.                                                *)
LEMMA SweepCovers ==
  ASSUME NEW n \in Nat, NEW q \in SortedRanges(n)
  PROVE  IsFiniteSet(Months(q, n)) /\ MonthsInOrder(q) = Cardinality(Months(q, n))
<1> DEFINE g == CHOOSE h : Sweeps(q, h, SUBSET (1..n))
           G == {k \in Nat : k <= n => Swept(q, g[1..k], k)}
<1>1. Sweeps(q, g, SUBSET (1..n)) /\ MonthsInOrder(q) = g[1..n].total
  <2>1. DOMAIN q = 1..n
    BY DEF SortedRanges
  <2> QED BY <2>1, SweepExists, SweepByRecursion
<1> HIDE DEF g
<1>2. 0 \in G
  <2>1. g[1..0] = Initially
    BY <1>1 DEF Sweeps
  <2>2. Months(q, 0) = {}
    BY DEF Months
  <2>3. Swept(q, g[1..0], 0)
    BY <2>1, <2>2, FS_EmptySet DEF Swept, Initially
  <2> QED BY <2>3
<1>3. ASSUME NEW k \in G, k + 1 <= n PROVE Swept(q, g[1..(k + 1)], k + 1)
  <2>1. Max(1..(k + 1)) = k + 1
    <3>1. k + 1 \in Nat /\ k + 1 \in 1..(k + 1) /\ 1..(k + 1) \in SUBSET (1..(k + 1))
      OBVIOUS
    <3>2. Max(1..(k + 1)) \in 1..(k + 1) /\ k + 1 <= Max(1..(k + 1))
      BY <3>1, LastPlace
    <3> QED BY <3>2
  <2>2. (1..(k + 1)) \ {k + 1} = 1..k /\ 1..(k + 1) \in SUBSET (1..n) /\ 1..(k + 1) # {}
    BY <1>3
  <2>3. g[1..(k + 1)] = Sweep(g[1..k], q[k + 1])
    BY <1>1, <2>1, <2>2 DEF Sweeps
  <2> QED BY <1>3, <2>3, SweepStep
<1>4. n \in G
  <2>1. \A k \in Nat : k \in G => k + 1 \in G
    BY <1>3
  <2> HIDE DEF G
  <2> QED BY <1>2, <2>1, NumberInduction
<1> QED BY <1>1, <1>4 DEF Swept

(* Lemma: a finite set of ranges can be put in an order by their start.    *)
LEMMA OrderExists ==
  ASSUME NEW S, IsFiniteSet(S), \A r \in S : r[1] \in Int
  PROVE  \E q : q \in StartOrders(S)
<1> DEFINE G == {n \in Nat : \A R \in SUBSET S : Cardinality(R) = n => \E q : q \in StartOrders(R)}
<1>1. 0 \in G
  <2> SUFFICES ASSUME NEW R \in SUBSET S, Cardinality(R) = 0
               PROVE  \E q : q \in StartOrders(R)
    OBVIOUS
  <2> DEFINE q == [i \in 1..0 |-> i]
  <2>1. q \in [1..Cardinality(R) -> R] /\ DOMAIN q = {} /\ 1..Cardinality(R) = {}
    OBVIOUS
  <2> HIDE DEF q
  <2>2. q \in StartOrders(R)
    BY <2>1 DEF StartOrders, SetToSeqs
  <2> QED BY <2>2
<1>2. ASSUME NEW n \in G PROVE n + 1 \in G
  <2> SUFFICES ASSUME NEW R \in SUBSET S, Cardinality(R) = n + 1
               PROVE  \E q : q \in StartOrders(R)
    OBVIOUS
  <2>1. IsFiniteSet(R) /\ R # {} /\ n \in Nat
    BY FS_Subset, FS_EmptySet
  <2>2. ASSUME NEW x \in R
        PROVE  \E q \in [1..n -> R \ {x}] :
                 /\ {q[i] : i \in 1..n} = R \ {x}
                 /\ \A i, j \in 1..n : i # j => q[i] # q[j]
                 /\ \A i, j \in 1..n : i < j => q[i][1] <= q[j][1]
    <3>1. IsFiniteSet(R \ {x}) /\ Cardinality(R \ {x}) = n /\ R \ {x} \in SUBSET S
      <4>1. IsFiniteSet(R \ {x}) /\ Cardinality(R \ {x}) = Cardinality(R) - 1
        BY <2>1, <2>2, FS_RemoveElement
      <4>2. Cardinality(R) - 1 = n
        BY <2>1
      <4> QED BY <4>1, <4>2
    <3>2. PICK q : q \in StartOrders(R \ {x})
      BY <3>1
    <3>3. /\ q \in [1..n -> R \ {x}] /\ DOMAIN q = 1..n
          /\ \A i, j \in 1..n : i # j => q[i] # q[j]
          /\ \A i, j \in 1..n : i < j => q[i][1] <= q[j][1]
      BY <3>1, <3>2 DEF StartOrders, SetToSeqs
    <3>4. {q[i] : i \in 1..n} = R \ {x}
      <4>1. q \in Injection(1..n, R \ {x})
        BY <3>3 DEF Injection, IsInjective
      <4>2. Cardinality(1..n) = n
        BY <2>1, FS_Interval
      <4>3. q \in Surjection(1..n, R \ {x})
        BY <3>1, <4>1, <4>2, FS_Injection
      <4>4. \A y \in R \ {x} : \E i \in 1..n : q[i] = y
        BY <4>3 DEF Surjection
      <4> QED BY <3>3, <4>4
    <3> QED BY <3>3, <3>4
  <2>3. PICK last \in R : \A r \in R : r[1] <= last[1]
    <3>1. PICK x \in R : TRUE
      BY <2>1
    <3>2. PICK q \in [1..n -> R \ {x}] :
                 /\ {q[i] : i \in 1..n} = R \ {x}
                 /\ \A i, j \in 1..n : i < j => q[i][1] <= q[j][1]
      BY <2>2
    <3>3. CASE n = 0
      <4>1. R = {x}
        BY <3>2, <3>3
      <4> QED BY <4>1
    <3>4. CASE n # 0
      <4>1. n \in 1..n /\ \A i \in 1..n : i = n \/ i < n
        BY <2>1, <3>4
      <4>2. q[n] \in R /\ \A r \in R \ {x} : r[1] <= q[n][1]
        BY <3>2, <4>1
      <4>3. CASE q[n][1] <= x[1]
        BY <4>2, <4>3
      <4>4. CASE ~(q[n][1] <= x[1])
        BY <4>2, <4>4
      <4> QED BY <4>3, <4>4
    <3> QED BY <3>3, <3>4
  <2>4. PICK o \in [1..n -> R \ {last}] :
                 /\ \A i, j \in 1..n : i # j => o[i] # o[j]
                 /\ \A i, j \in 1..n : i < j => o[i][1] <= o[j][1]
    BY <2>2
  <2> DEFINE q == [i \in 1..(n + 1) |-> IF i = n + 1 THEN last ELSE o[i]]
  <2>5. \A i \in 1..(n + 1) : i # n + 1 => i \in 1..n /\ q[i] = o[i] /\ o[i] \in R \ {last}
    BY <2>1, <2>4
  <2>6. n + 1 \in 1..(n + 1) /\ q[n + 1] = last
    BY <2>1
  <2>7. q \in [1..(n + 1) -> R] /\ DOMAIN q = 1..(n + 1)
    BY <2>5, <2>6
  <2> HIDE DEF q
  <2>8. \A i, j \in 1..(n + 1) : i # j => q[i] # q[j]
    BY <2>4, <2>5, <2>6
  <2>9. \A i, j \in 1..(n + 1) : i < j => q[i][1] <= q[j][1]
    BY <2>1, <2>3, <2>4, <2>5, <2>6
  <2>10. q \in StartOrders(R)
    BY <2>7, <2>8, <2>9 DEF StartOrders, SetToSeqs
  <2> QED BY <2>10
<1>3. Cardinality(S) \in G
  <2>1. \A n \in Nat : n \in G => n + 1 \in G
    BY <1>2
  <2> HIDE DEF G
  <2>2. Nat \subseteq G
    BY <1>1, <2>1, NumberInduction
  <2> QED BY <2>2, FS_CardinalityType
<1> QED BY <1>3

(* Lemma: in whatever order by their start, the months the ranges cover.   *)
LEMMA MonthsAreCovered ==
  ASSUME NEW S, IsFiniteSet(S), \A r \in S : r \in Int \X Int /\ r[1] < r[2],
         NEW q \in StartOrders(S)
  PROVE  /\ MonthsInOrder(q) = Cardinality(UNION {(r[1] + 1)..r[2] : r \in S})
         /\ MonthsInOrder(q) \in Nat
<1> DEFINE n == Cardinality(S)
<1>1. n \in Nat
  BY FS_CardinalityType
<1>2. /\ q \in [1..n -> S] /\ DOMAIN q = 1..n
      /\ \A i, j \in 1..n : i # j => q[i] # q[j]
      /\ \A i, j \in 1..n : i < j => q[i][1] <= q[j][1]
  BY DEF StartOrders, SetToSeqs
<1>3. \A y \in S : \E i \in 1..n : q[i] = y
  <2>1. q \in Injection(1..n, S)
    BY <1>2 DEF Injection, IsInjective
  <2>2. Cardinality(1..n) = n
    BY <1>1, FS_Interval
  <2>3. q \in Surjection(1..n, S)
    BY <2>1, <2>2, FS_Injection
  <2> QED BY <2>3 DEF Surjection
<1> HIDE DEF n
<1>4. q \in SortedRanges(n)
  BY <1>2 DEF SortedRanges
<1>5. Months(q, n) = UNION {(r[1] + 1)..r[2] : r \in S}
  <2>1. {(q[i][1] + 1)..q[i][2] : i \in 1..n} = {(r[1] + 1)..r[2] : r \in S}
    BY <1>2, <1>3
  <2> QED BY <2>1 DEF Months
<1>6. IsFiniteSet(Months(q, n)) /\ MonthsInOrder(q) = Cardinality(Months(q, n))
  BY <1>1, <1>4, SweepCovers
<1> QED BY <1>5, <1>6, FS_CardinalityType

(* Lemma: so computeExperienceMonths counts every month once, whatever of  *)
(* the orders the sort leaves roles in that start together.                *)
LEMMA RangesAreCovered ==
  ASSUME NEW E, IsFiniteSet(E), NEW asOf \in Int,
         \A e \in E : e.start \in Int /\ e.end \in Int \cup {None}
  PROVE  /\ \A order \in StartOrders(Ranges(E, asOf)) :
              /\ MonthsInOrder(order) =
                   Cardinality(UNION {(r[1] + 1)..r[2] : r \in Ranges(E, asOf)})
              /\ MonthsInOrder(order) \in Nat
         /\ \E order \in StartOrders(Ranges(E, asOf)) :
              computeExperienceMonths(E, asOf) = MonthsInOrder(order)
<1> DEFINE range == [e \in E |-> <<e.start, IF e.end = None THEN asOf ELSE e.end>>]
           all == {range[e] : e \in E}
           R == Ranges(E, asOf)
<1>1. IsFiniteSet(all)
  <2>1. range \in Surjection(E, all)
    BY DEF Surjection
  <2> HIDE DEF range, all
  <2> QED BY <2>1, FS_Surjection
<1>2. \A r \in all : r \in Int \X Int
  <2> SUFFICES ASSUME NEW e \in E PROVE range[e] \in Int \X Int
    OBVIOUS
  <2>1. e.start \in Int /\ (IF e.end = None THEN asOf ELSE e.end) \in Int
    OBVIOUS
  <2> QED BY <2>1
<1>3. R = {r \in all : r[2] > r[1]}
  BY DEF Ranges
<1> HIDE DEF all, R
<1>4. IsFiniteSet(R) /\ \A r \in R : r \in Int \X Int /\ r[1] < r[2]
  BY <1>1, <1>2, <1>3, FS_Subset
<1>5. \E order : order \in StartOrders(R)
  BY <1>4, OrderExists
<1>6. \A order \in StartOrders(R) :
        /\ MonthsInOrder(order) = Cardinality(UNION {(r[1] + 1)..r[2] : r \in R})
        /\ MonthsInOrder(order) \in Nat
  BY <1>4, MonthsAreCovered
<1>7. \E order \in StartOrders(R) : computeExperienceMonths(E, asOf) = MonthsInOrder(order)
  BY <1>5 DEF computeExperienceMonths, R
<1> QED BY <1>6, <1>7 DEF R

--------------------------------------------------------------------------------
(* The validators *)

(* What the validators rely on of a view.                                  *)
ViewOK(view) ==
  /\ view.experiences \in Seq(ToSet(view.experiences))
  /\ \A e \in ToSet(view.experiences) : e.start \in Int /\ e.end \in Int \cup {None}
  /\ \A i \in DOMAIN view.skills : view.skills[i].years \in Int \cup {None}

(* And of a claim.                                                         *)
ClaimOK(c) ==
  c.kind \in Kinds /\ (c.kind = "years_experience" => c.years \in Int \cup {None})

(* Lemma: a list of roles can be put in the order of the view.             *)
LEMMA LatestFirstExists ==
  ASSUME NEW n \in Nat, NEW S, NEW rows \in [1..n -> S], \A i \in 1..n : rows[i].start \in Int
  PROVE  \E s \in Reorderings(rows) : \A i, j \in DOMAIN s : i < j => s[i].start >= s[j].start
<1> DEFINE key == [i \in 1..n |-> <<0 - rows[i].start, i>>]
           K == {key[i] : i \in 1..n}
<1>1. IsFiniteSet(K) /\ Cardinality(K) = n
  <2>1. key \in Bijection(1..n, K)
    BY DEF Bijection, Injection, Surjection, IsInjective
  <2>2. ExistsBijection(1..n, K)
    BY <2>1 DEF ExistsBijection
  <2>3. IsFiniteSet(1..n) /\ Cardinality(1..n) = n
    BY FS_Interval
  <2> QED BY <2>2, <2>3, FS_Bijection
<1>2. \A k \in K : k[1] \in Int /\ k[2] \in 1..n /\ k[1] = 0 - rows[k[2]].start /\ k = key[k[2]]
  OBVIOUS
<1> HIDE DEF K, key
<1>3. PICK q : q \in StartOrders(K)
  BY <1>1, <1>2, OrderExists
<1>4. /\ q \in [1..n -> K]
      /\ \A i, j \in 1..n : i # j => q[i] # q[j]
      /\ \A i, j \in 1..n : i < j => q[i][1] <= q[j][1]
  BY <1>1, <1>3 DEF StartOrders, SetToSeqs
<1> DEFINE p == [i \in 1..n |-> q[i][2]]
           s == [i \in 1..n |-> rows[p[i]]]
<1>5. p \in Injection(1..n, 1..n)
  <2>1. p \in [1..n -> 1..n]
    BY <1>2, <1>4
  <2>2. ASSUME NEW i \in 1..n, NEW j \in 1..n, p[i] = p[j] PROVE i = j
    BY <1>2, <1>4, <2>2
  <2> QED BY <2>1, <2>2 DEF Injection, IsInjective
<1>6. s \in Reorderings(rows)
  BY <1>5 DEF Reorderings
<1>7. \A i, j \in 1..n : i < j => s[i].start >= s[j].start
  <2> TAKE i, j \in 1..n
  <2> HAVE i < j
  <2>1. q[i][1] <= q[j][1] /\ q[i] \in K /\ q[j] \in K
    BY <1>4
  <2>2. q[i][1] = 0 - s[i].start /\ q[j][1] = 0 - s[j].start
    BY <1>2, <2>1
  <2>3. s[i].start \in Int /\ s[j].start \in Int
    BY <1>2, <2>1
  <2> HIDE DEF s
  <2> QED BY <2>1, <2>2, <2>3
<1> QED BY <1>6, <1>7

(* Lemma: a view has the roles of the profile, as many as it has.          *)
LEMMA ViewTyped ==
  ASSUME NEW p \in Profiles, NEW withSalary \in BOOLEAN
  PROVE  ViewOK(buildProfileFactsView(p, withSalary))
<1> DEFINE rows == p.experiences
           n == Len(rows)
           S == ToSet(rows)
           v == buildProfileFactsView(p, withSalary)
<1>1. /\ n \in Nat /\ rows \in [1..n -> S]
      /\ \A e \in S : e.start \in Int /\ e.end \in Int \cup {None}
      /\ {"experiences", "salary", "skills"} \subseteq DOMAIN p
      /\ \A i \in DOMAIN p.skills : p.skills[i].years \in Int \cup {None}
  BY ProfilesAssumption
<1>2. \A i \in 1..n : rows[i].start \in Int
  BY <1>1
<1>3. v.experiences = LatestFirst(rows) /\ v.skills = p.skills
  BY <1>1 DEF buildProfileFactsView
<1> HIDE DEF rows, n, S, v
<1>4. LatestFirst(rows) \in Reorderings(rows)
  BY <1>1, <1>2, LatestFirstExists DEF LatestFirst
<1>5. LatestFirst(rows) \in [1..n -> S]
  BY <1>1, <1>4 DEF Reorderings, Injection
<1> DEFINE s == LatestFirst(rows)
<1> HIDE DEF s
<1>6. s \in Seq(ToSet(s)) /\ ToSet(s) \subseteq S
  <2>1. s \in [1..n -> ToSet(s)] /\ ToSet(s) \subseteq S
    BY <1>5 DEF ToSet, s
  <2>2. ASSUME NEW X, s \in [1..n -> X] PROVE s \in Seq(X)
    BY <1>1, <2>2
  <2> QED BY <2>1, <2>2
<1> QED BY <1>1, <1>3, <1>6 DEF ViewOK, s, v

(* Lemma: the experience of a view is the time its roles cover.            *)
LEMMA ExperienceCounts ==
  ASSUME NEW view, ViewOK(view)
  PROVE  /\ computeExperienceMonths(ToSet(view.experiences), Today) =
              Cardinality(Covered(view, Today))
         /\ Cardinality(Covered(view, Today)) \in Nat
<1> DEFINE rows == view.experiences
           E == ToSet(rows)
<1>1. IsFiniteSet(E)
  <2>1. rows \in Surjection(1..Len(rows), E) /\ Len(rows) \in Nat
    BY DEF ViewOK, ToSet, Surjection
  <2>2. IsFiniteSet(1..Len(rows))
    BY <2>1, FS_Interval
  <2> QED BY <2>1, <2>2, FS_Surjection
<1>2. Today \in Int /\ \A e \in E : e.start \in Int /\ e.end \in Int \cup {None}
  BY ProfilesAssumption DEF ViewOK
<1> HIDE DEF E
<1>3. PICK order \in StartOrders(Ranges(E, Today)) :
        computeExperienceMonths(E, Today) = MonthsInOrder(order)
  BY <1>1, <1>2, RangesAreCovered
<1>4. /\ MonthsInOrder(order) = Cardinality(UNION {(r[1] + 1)..r[2] : r \in Ranges(E, Today)})
      /\ MonthsInOrder(order) \in Nat
  BY <1>1, <1>2, RangesAreCovered
<1>5. Covered(view, Today) = UNION {(r[1] + 1)..r[2] : r \in Ranges(E, Today)}
  BY DEF Covered, E
<1> QED BY <1>3, <1>4, <1>5 DEF E

(* Lemma: a claim that is verified has a fact of the profile behind it.    *)
LEMMA VerifiedIsBacked ==
  ASSUME NEW view, ViewOK(view), NEW c, c.kind \in Kinds,
         validateClaim(c, view, Today) = "verified"
  PROVE  Backed(c, view, Today)
<1>1. CASE c.kind = "years_experience"
  <2>1. validateYearsExperience(c, view, Today) = "verified"
    BY <1>1 DEF validateClaim
  <2>2. CASE c.skill # None
    BY <1>1, <2>1, <2>2 DEF validateYearsExperience, VerifiedIf, IsFirst, Backed
  <2>3. CASE c.skill = None
    <3>1. 12 * c.years <= 100 * computeExperienceMonths(ToSet(view.experiences), Today)
      BY <2>1, <2>3 DEF validateYearsExperience, VerifiedIf, WithinMonths
    <3>2. 12 * c.years <= 100 * Cardinality(Covered(view, Today))
      BY <3>1, ExperienceCounts
    <3> QED BY <1>1, <2>3, <3>2 DEF Backed
  <2> QED BY <2>2, <2>3
<1>2. CASE c.kind = "date_range"
  <2>1. validateDateRange(c, view) = "verified"
    BY <1>2 DEF validateClaim
  <2>2. \/ \E i \in DOMAIN view.experiences :
             SameRange(c, view.experiences[i].start, view.experiences[i].end)
        \/ \E i \in DOMAIN view.education :
             SameRange(c, view.education[i].start, view.education[i].end)
    BY <2>1 DEF validateDateRange, VerifiedIf
  <2>3. PICK row \in ToSet(view.experiences) \cup ToSet(view.education) :
           SameRange(c, row.start, row.end)
    BY <2>2 DEF ToSet
  <2> QED BY <1>2, <2>3 DEF Backed, Holds, Overstates
<1>3. CASE c.kind = "job_title"
  BY <1>3 DEF validateClaim, validateJobTitle, VerifiedIf, Backed, Holds, ToSet
<1>4. CASE c.kind = "company"
  BY <1>4 DEF validateClaim, validateCompany, VerifiedIf, Backed, Holds, ToSet
<1>5. CASE c.kind = "degree"
  <2>1. validateDegree(c, view) = "verified"
    BY <1>5 DEF validateClaim
  <2>2. PICK i \in DOMAIN view.education :
           /\ view.education[i].degree = c.degree
           /\ c.institution # None => view.education[i].institution = c.institution
    BY <2>1 DEF validateDegree, VerifiedIf
  <2>3. view.education[i] \in Studies(c, view)
    BY <2>2 DEF Studies, ToSet
  <2> QED BY <1>5, <2>3 DEF Backed, Overstates
<1>6. CASE c.kind = "language_level"
  <2>1. validateLanguageLevel(c, view) = "verified"
    BY <1>6 DEF validateClaim
  <2>2. PICK i \in DOMAIN view.languages :
           /\ view.languages[i].language = c.language
           /\ LevelWithin(c.level, view.languages[i].level)
    BY <2>1 DEF validateLanguageLevel, VerifiedIf, IsFirst
  <2> QED BY <1>6, <2>2 DEF Backed, Holds, ToSet, LevelWithin
<1>7. CASE c.kind = "salary"
  <2>1. validateSalary(c, view) = "verified"
    BY <1>7 DEF validateClaim
  <2> QED BY <1>7, <2>1 DEF validateSalary, VerifiedIf, Backed, Holds, SaidAmount, Given
<1>8. CASE c.kind \in {"certification", "project", "seniority"}
  BY <1>8 DEF validateClaim
<1> QED BY <1>1, <1>2, <1>3, <1>4, <1>5, <1>6, <1>7, <1>8 DEF Kinds

(* Lemma: the tenths that are printed are at most half a tenth too many,   *)
(* and none are when they are compared with tenths.                        *)
LEMMA PrintedYears ==
  ASSUME NEW years \in Int
  PROVE  /\ formatYears(years) \in Int
         /\ 10 * formatYears(years) <= years + 5
         /\ \A tenths \in Int : years <= 10 * tenths => formatYears(years) <= tenths
<1>1. (years + 5) \div 10 \in Int /\ 10 * ((years + 5) \div 10) <= years + 5
  OBVIOUS
<1> QED BY <1>1 DEF formatYears

(* Lemma: so the sentence of such a claim is true, but for what Overstates *)
(* names.                                                                  *)
LEMMA BackedIsSaid ==
  ASSUME NEW view, ViewOK(view), NEW c, ClaimOK(c), Backed(c, view, Today),
         c.kind = "years_experience" => c.years # None
  PROVE  Holds(c, view, Today) \/ Overstates(c, view, Today)
<1>1. CASE c.kind = "years_experience"
  <2>1. c.years \in Int
    BY <1>1 DEF ClaimOK
  <2>2. CASE c.skill # None
    <3>1. PICK i \in DOMAIN view.skills :
            /\ c.skill \in view.skills[i].names /\ view.skills[i].years # None
            /\ c.years <= 10 * view.skills[i].years
      BY <1>1, <2>2 DEF Backed
    <3>2. view.skills[i].years \in Int
      BY <3>1 DEF ViewOK
    <3>3. formatYears(c.years) <= view.skills[i].years
      BY <2>1, <3>1, <3>2, PrintedYears
    <3> QED BY <1>1, <2>2, <3>1, <3>3 DEF Holds
  <2>3. CASE c.skill = None
    <3> DEFINE m == Cardinality(Covered(view, Today))
               y == formatYears(c.years)
    <3>1. m \in Nat /\ 12 * c.years <= 100 * m
      BY <1>1, <2>3, ExperienceCounts DEF Backed
    <3>2. y \in Int /\ 10 * y <= c.years + 5
      BY <2>1, PrintedYears
    <3> HIDE DEF m, y
    <3>3. 12 * (10 * y - 5) <= 100 * m
      BY <2>1, <3>1, <3>2
    <3> QED BY <1>1, <2>3, <3>3 DEF Overstates, m, y
  <2> QED BY <2>2, <2>3
<1>2. CASE c.kind # "years_experience"
  BY <1>2 DEF Backed
<1> QED BY <1>1, <1>2

(* Lemma: each claim gets one of the verdicts, and what can only be        *)
(* unverifiable is a salary or a seniority.                                *)
LEMMA VerdictTyped ==
  ASSUME NEW view, NEW c, c.kind \in Kinds
  PROVE  /\ validateClaim(c, view, Today) \in Verdicts
         /\ validateClaim(c, view, Today) = "unverifiable" => c.kind \in {"salary", "seniority"}
<1>1. CASE c.kind = "salary"
  BY <1>1 DEF validateClaim, validateSalary, VerifiedIf, Verdicts
<1>2. CASE c.kind = "years_experience"
  BY <1>2 DEF validateClaim, validateYearsExperience, VerifiedIf, Verdicts
<1>3. CASE c.kind \in {"date_range", "language_level"}
  BY <1>3 DEF validateClaim, validateDateRange, validateLanguageLevel, VerifiedIf, Verdicts
<1>4. CASE c.kind \in Kinds \ {"salary", "years_experience", "date_range", "language_level"}
  BY <1>4 DEF validateClaim, validateJobTitle, validateCompany, validateDegree, VerifiedIf,
              Verdicts, Kinds
<1> QED BY <1>1, <1>2, <1>3, <1>4

(* Lemma: the status of the whole is the worst verdict.                    *)
LEMMA WorstVerdict ==
  ASSUME NEW view, NEW claims, \A c \in claims : c.kind \in Kinds,
         NEW status, status = validateClaims(claims, view, Today)
  PROVE  /\ status \in Verdicts
         /\ status # "rejected" =>
              \A c \in claims : validateClaim(c, view, Today) \in {"verified", "unverifiable"}
         /\ status = "verified" <=>
              \A c \in claims : validateClaim(c, view, Today) = "verified"
         /\ (\E c \in claims : validateClaim(c, view, Today) = "unverifiable")
               => status # "verified"
<1>1. \A c \in claims : validateClaim(c, view, Today) \in Verdicts
  BY VerdictTyped
<1>2. \A c \in claims : validateClaim(c, view, Today) \in VerdictsOn(claims, view, Today)
  BY DEF VerdictsOn
<1>3. ASSUME NEW v \in VerdictsOn(claims, view, Today)
      PROVE  \E c \in claims : v = validateClaim(c, view, Today)
  BY <1>3 DEF VerdictsOn
<1>4. status = StatusOf(VerdictsOn(claims, view, Today))
  BY DEF validateClaims
<1> QED BY <1>1, <1>2, <1>3, <1>4 DEF StatusOf, Verdicts

(* Lemma: years that are not more than 80 are verified.                    *)
LEMMA YearsAreVerified ==
  ASSUME NEW view, ViewOK(view), NEW c \in ToSet(YearsClaim(view))
  PROVE  /\ c.kind = "years_experience" /\ c.years \in Int
         /\ Years(view) <= 800 => validateClaim(c, view, Today) = "verified"
<1> DEFINE m == computeExperienceMonths(ToSet(view.experiences), Today)
           y == Years(view)
<1>1. m \in Nat /\ y = (10 * m) \div 12
  BY ExperienceCounts DEF Years
<1>2. c = [kind |-> "years_experience", years |-> 10 * y, skill |-> None] /\ y > 0
  BY DEF YearsClaim, ToSet
<1>3. view.experiences # <<>>
  <2> SUFFICES ASSUME view.experiences = <<>> PROVE FALSE
    OBVIOUS
  <2>1. Ranges(ToSet(view.experiences), Today) = {}
    BY DEF Ranges, ToSet
  <2>2. Covered(view, Today) = {}
    BY <2>1 DEF Covered
  <2>3. m = 0
    BY <2>2, ExperienceCounts, FS_EmptySet
  <2> QED BY <1>1, <1>2, <2>3
<1> HIDE DEF m, y
<1>4. y \in Int /\ 12 * y <= 10 * m
  BY <1>1
<1>5. ASSUME y <= 800 PROVE validateYearsExperience(c, view, Today) = "verified"
  <2>1. c.years = 10 * y /\ c.skill = None /\ 10 * y >= 0 /\ 10 * y # None /\ 10 * y <= 8000
    BY <1>2, <1>4, <1>5, NoneAssumption
  <2>2. m \in Nat /\ 12 * (10 * y) <= 100 * m
    BY <1>1, <1>4
  <2>3. WithinMonths(10 * y, view, Today)
    BY <2>2 DEF WithinMonths, m
  <2> QED BY <1>3, <2>1, <2>3 DEF validateYearsExperience, VerifiedIf
<1> QED BY <1>2, <1>4, <1>5 DEF validateClaim, y

(* Lemma: each claim of the template has a sentence, and of up to 80 years *)
(* each one is verified.                                                   *)
LEMMA TemplateClaims ==
  ASSUME NEW view, ViewOK(view), NEW c \in ToSet(buildFallbackClaims(view))
  PROVE  /\ ClaimOK(c) /\ Renderable(c)
         /\ Years(view) <= 800 => validateClaim(c, view, Today) = "verified"
<1> DEFINE latest == view.experiences[1]
           company == [kind |-> "company", company |-> latest.company, plain |-> FALSE]
           title == [kind |-> "job_title", title |-> latest.title, plain |-> FALSE]
<1>1. view.experiences # <<>> /\ 1 \in DOMAIN view.experiences
  BY DEF buildFallbackClaims, ToSet, ViewOK
<1>2. c \in ToSet(YearsClaim(view)) \/ c = company \/ c = title
  <2>1. buildFallbackClaims(view) = YearsClaim(view) \o <<company, title>>
    BY <1>1 DEF buildFallbackClaims, ViewOK
  <2> HIDE DEF company, title
  <2>2. CASE YearsClaim(view) = <<>>
    BY <2>1, <2>2 DEF ToSet
  <2>3. CASE YearsClaim(view) # <<>>
    <3>1. PICK years : YearsClaim(view) = <<years>>
      BY <2>3 DEF YearsClaim
    <3> DEFINE s == <<years>> \o <<company, title>>
               S == {years, company, title}
    <3>2. <<years>> \in Seq(S) /\ <<company, title>> \in Seq(S)
      OBVIOUS
    <3> HIDE DEF S
    <3>3. DOMAIN s = 1..3 /\ s[1] = years /\ s[2] = company /\ s[3] = title
      BY <3>2
    <3> HIDE DEF s
    <3>4. ToSet(s) = {years, company, title}
      BY <3>3 DEF ToSet
    <3> QED BY <2>1, <3>1, <3>4 DEF ToSet, s
  <2> QED BY <2>2, <2>3
<1>3. CASE c \in ToSet(YearsClaim(view))
  BY <1>3, YearsAreVerified DEF ClaimOK, Kinds, Renderable
<1>4. CASE c = company
  BY <1>1, <1>4 DEF ClaimOK, Kinds, Renderable, validateClaim, validateCompany, VerifiedIf
<1>5. CASE c = title
  BY <1>1, <1>5 DEF ClaimOK, Kinds, Renderable, validateClaim, validateJobTitle, VerifiedIf
<1> QED BY <1>2, <1>3, <1>4, <1>5

(* Lemma: a draft of claims that are not rejected says what holds, or what *)
(* Overstates names.                                                       *)
LEMMA DraftHolds ==
  ASSUME NEW view, ViewOK(view), NEW plan, \A c \in ToSet(plan) : ClaimOK(c),
         NEW status, status = validateClaims(ToSet(plan), view, Today), status # "rejected",
         NEW i \in DOMAIN plan
  PROVE  \/ Holds(plan[i], view, Today)
         \/ Overstates(plan[i], view, Today)
         \/ status = "unverifiable" /\ plan[i].kind \in {"salary", "seniority"}
<1>0. \A c \in ToSet(plan) : c.kind \in Kinds
  BY DEF ClaimOK
<1>1. plan[i] \in ToSet(plan)
  BY DEF ToSet
<1>2. CASE validateClaim(plan[i], view, Today) = "verified"
  <2>1. Backed(plan[i], view, Today)
    BY <1>0, <1>1, <1>2, VerifiedIsBacked
  <2>2. plan[i].kind = "years_experience" => plan[i].years # None
    BY <1>2 DEF validateClaim, validateYearsExperience, VerifiedIf
  <2> QED BY <1>1, <2>1, <2>2, BackedIsSaid
<1>3. CASE validateClaim(plan[i], view, Today) = "unverifiable"
  <2>1. plan[i].kind \in {"salary", "seniority"}
    BY <1>0, <1>1, <1>3, VerdictTyped
  <2>2. status \in Verdicts /\ status # "verified"
    BY <1>0, <1>1, <1>3, WorstVerdict
  <2> QED BY <2>1, <2>2 DEF Verdicts
<1> QED BY <1>0, <1>1, <1>2, <1>3, WorstVerdict

--------------------------------------------------------------------------------
(* The loop and the decision *)

Views == {buildProfileFactsView(p, FALSE) : p \in Profiles}

(* The plans that become a letter.                                         *)
Accepted(view) ==
  {plan \in Plans :
     ClaimComplete(plan, view) /\ validateClaims(ToSet(plan), view, Today) # "rejected"}

Outcomes(view) ==
  {RequiresHuman("rejected_claims"), RequiresHuman("no_plan"), fallbackPreparation(view)}
    \cup {draftFrom(plan, view, "model") : plan \in Accepted(view)}

Results == {Nothing} \cup UNION {Outcomes(view) : view \in Views}

Preparations ==
  [step : {"ask", "decide", "over"}, view : Views, attempt : Nat, last : Verdicts \cup {"none"},
   invalid : BOOLEAN, failed : BOOLEAN, variant : {prepareResumeVariant(v) : v \in Views},
   result : Results]

(* The loop ends without a draft only after an attempt that went wrong.    *)
Excused(l) == l.failed \/ l.invalid \/ l.last = "rejected"

Kept(m, l) == m.view = l.view /\ m.variant = l.variant

(* In the loop.                                                            *)
Begun(l) ==
  /\ l \in Preparations /\ l.step = "ask" /\ l.result = Nothing
  /\ l.variant = prepareResumeVariant(l.view)

Loop(l) ==
  /\ l \in Preparations
  /\ l.step \in {"ask", "decide"} => l.result = Nothing
  /\ l.step = "decide" => Excused(l)
  /\ l.variant = prepareResumeVariant(l.view)
  /\ l.result = Nothing \/ l.result \in Outcomes(l.view)
  /\ l.result.kind = "draft" /\ l.result.by = "template" => l.failed /\ l.last # "rejected"

(* An answer that is given again was verified against a view of a profile. *)
ReuseOK ==
  answer.kind = "reuse" =>
    \E plan \in Plans, p \in Profiles :
      /\ answer.claims = ToSet(plan) /\ answer.view = buildProfileFactsView(p, TRUE)
      /\ validateAnswerContent(answer.claims, answer.view, Today) = "verified"

IInv == profile \in Profiles /\ (letter # Idle => Loop(letter)) /\ ReuseOK

(* Lemma: the verdict on a list of claims is one of the three.             *)
LEMMA StatusTyped ==
  ASSUME NEW claims, NEW facts, NEW asOf
  PROVE  validateClaims(claims, facts, asOf) \in Verdicts
  BY DEF validateClaims, StatusOf, Verdicts

(* Lemma: a preparation is not idle, and its fields keep their types.      *)
LEMMA Fields ==
  ASSUME NEW l \in Preparations
  PROVE  /\ l # Idle /\ l.view \in Views
         /\ LET m == [l EXCEPT !.failed = TRUE] IN
              /\ m \in Preparations /\ m.failed
              /\ m.step = l.step /\ m.result = l.result /\ Kept(m, l)
         /\ LET m == [l EXCEPT !.invalid = TRUE] IN
              /\ m \in Preparations /\ m.invalid
              /\ m.step = l.step /\ m.result = l.result /\ Kept(m, l)
         /\ \A v \in Verdicts : LET m == [l EXCEPT !.last = v] IN
              /\ m \in Preparations /\ m.last = v
              /\ m.step = l.step /\ m.result = l.result /\ Kept(m, l)
         /\ \A r \in Results : LET m == [l EXCEPT !.step = "over", !.result = r] IN
              /\ m \in Preparations /\ m.step = "over" /\ m.result = r
              /\ m.failed = l.failed /\ m.last = l.last /\ Kept(m, l)
<1>1. l # Idle
  BY DEF Preparations, Idle
<1>2. LET m == [l EXCEPT !.failed = TRUE] IN
        /\ m \in Preparations /\ m.failed
        /\ m.step = l.step /\ m.result = l.result /\ Kept(m, l)
  BY DEF Preparations, Kept
<1>3. LET m == [l EXCEPT !.invalid = TRUE] IN
        /\ m \in Preparations /\ m.invalid
        /\ m.step = l.step /\ m.result = l.result /\ Kept(m, l)
  BY DEF Preparations, Kept
<1>4. ASSUME NEW v \in Verdicts
      PROVE  LET m == [l EXCEPT !.last = v] IN
               /\ m \in Preparations /\ m.last = v
               /\ m.step = l.step /\ m.result = l.result /\ Kept(m, l)
  BY DEF Preparations, Kept
<1>5. ASSUME NEW r \in Results
      PROVE  LET m == [l EXCEPT !.step = "over", !.result = r] IN
               /\ m \in Preparations /\ m.step = "over" /\ m.result = r
               /\ m.failed = l.failed /\ m.last = l.last /\ Kept(m, l)
  BY DEF Preparations, Kept
<1>6. l.view \in Views
  BY DEF Preparations
<1> QED BY <1>1, <1>2, <1>3, <1>4, <1>5, <1>6

(* Lemma: the loop after an attempt that went wrong.                       *)
LEMMA NextLoop ==
  ASSUME NEW l, Begun(l), Excused(l)
  PROVE  Loop(NextAttempt(l))
<1>0. l \in Preparations /\ l.variant = prepareResumeVariant(l.view) /\ l.result = Nothing
  BY DEF Begun
<1>1. CASE l.attempt < maxAttempts
  <2> DEFINE n == [l EXCEPT !.attempt = l.attempt + 1]
  <2>1. NextAttempt(l) = n
    BY <1>1 DEF NextAttempt
  <2>2. n \in Preparations /\ n.step = "ask" /\ n.result = Nothing /\ Kept(n, l)
    BY <1>0 DEF Begun, Preparations, Kept
  <2> HIDE DEF n
  <2> QED BY <1>0, <2>1, <2>2 DEF Loop, Nothing, Kept
<1>2. CASE ~(l.attempt < maxAttempts)
  <2> DEFINE n == [l EXCEPT !.step = "decide"]
  <2>1. NextAttempt(l) = n
    BY <1>2 DEF NextAttempt
  <2>2. /\ n \in Preparations /\ n.step = "decide" /\ n.result = Nothing /\ Kept(n, l)
        /\ n.failed = l.failed /\ n.invalid = l.invalid /\ n.last = l.last
    BY <1>0 DEF Preparations, Kept
  <2> HIDE DEF n
  <2> QED BY <1>0, <2>1, <2>2 DEF Loop, Excused, Nothing, Kept
<1> QED BY <1>1, <1>2

(* Lemma: the decision after the loop is an outcome, and the template is   *)
(* chosen for a provider that failed and was not heard to say something    *)
(* that is rejected.                                                       *)
LEMMA TemplateDecision ==
  ASSUME NEW l \in Preparations, Excused(l)
  PROVE  /\ Decision(l) \in Outcomes(l.view)
         /\ Decision(l).kind = "draft" => l.failed /\ l.last # "rejected"
<1>1. CASE l.last = "rejected" \/ (l.invalid /\ ~l.failed)
  <2>1. PICK r \in {"rejected_claims", "no_plan"} : Decision(l) = RequiresHuman(r)
    BY <1>1 DEF Decision
  <2> QED BY <2>1 DEF Outcomes, RequiresHuman
<1>2. CASE ~(l.last = "rejected" \/ (l.invalid /\ ~l.failed))
  BY <1>2 DEF Excused, Decision, Outcomes
<1> QED BY <1>1, <1>2

(* Lemma: every step keeps what the invariant says of the letter.          *)
LEMMA LoopStep ==
  ASSUME profile \in Profiles, letter # Idle => Loop(letter), [Next]_vars
  PROVE  profile' \in Profiles /\ (letter' # Idle => Loop(letter)')
<1> DEFINE Result == profile' \in Profiles /\ (letter' # Idle => Loop(letter'))
<1>0. ASSUME NEW l, Loop(l), letter' = l, profile' = profile PROVE Result
  BY <1>0
<1>1. CASE \/ EditProfile \/ NoApprovedAnswer \/ UNCHANGED vars
           \/ \E plan \in Plans : resolveAnswer(ToSet(plan))
  <2>1. letter' = letter /\ profile' \in Profiles
    BY <1>1 DEF EditProfile, NoApprovedAnswer, resolveAnswer, vars
  <2> QED BY <2>1
<1>2. CASE Begin
  <2> DEFINE view == buildProfileFactsView(profile, FALSE)
             l == [step |-> "ask", view |-> view, attempt |-> 0, last |-> "none",
                   invalid |-> FALSE, failed |-> FALSE,
                   variant |-> prepareResumeVariant(view), result |-> Nothing]
  <2>1. letter' = l /\ view \in Views /\ profile' = profile
    BY <1>2 DEF Begin, Views
  <2> HIDE DEF view
  <2>2. l \in Preparations
    BY <2>1 DEF Preparations, Results
  <2>3. Loop(l)
    BY <2>2 DEF Loop, Nothing
  <2> HIDE DEF l
  <2> QED BY <1>0, <2>1, <2>3
<1>3. CASE ProviderFails \/ InvalidOutput
  <2>1. Begun(letter) /\ profile' = profile
    BY <1>3 DEF ProviderFails, InvalidOutput, Asking, Begun, Loop, Idle
  <2>2. PICK l : Begun(l) /\ Excused(l) /\ letter' = NextAttempt(l)
    <3>1. CASE ProviderFails
      BY <2>1, <3>1, Fields DEF ProviderFails, Excused, Begun, Kept
    <3>2. CASE InvalidOutput
      BY <2>1, <3>2, Fields DEF InvalidOutput, Excused, Begun, Kept
    <3> QED BY <1>3, <3>1, <3>2
  <2> QED BY <1>0, <2>1, <2>2, NextLoop
<1>4. ASSUME NEW plan \in Plans, PlanArrives(plan)
      PROVE  Result
  <2> DEFINE status == validateClaims(ToSet(plan), letter.view, Today)
             seen == [letter EXCEPT !.last = status]
             complete == ClaimComplete(plan, letter.view)
             draft == draftFrom(plan, letter.view, "model")
  <2>1. Begun(letter) /\ profile' = profile
    BY <1>4 DEF PlanArrives, Asking, Begun, Loop, Idle
  <2>2. letter' = IF ~complete THEN NextAttempt([seen EXCEPT !.invalid = TRUE])
                  ELSE IF status = "rejected" THEN NextAttempt(seen)
                  ELSE Finish(seen, draft)
    BY <1>4 DEF PlanArrives
  <2>3. status \in Verdicts
    BY StatusTyped
  <2>4. complete /\ status # "rejected" => draft \in Outcomes(letter.view)
    BY DEF Outcomes, Accepted
  <2>5. draft.by = "model"
    BY DEF draftFrom
  <2> HIDE DEF status, complete, draft
  <2>6. Begun(seen) /\ seen.last = status /\ seen.view = letter.view
    <3>1. letter \in Preparations
      BY <2>1 DEF Begun
    <3>2. /\ seen \in Preparations /\ seen.last = status
          /\ seen.step = letter.step /\ seen.result = letter.result /\ Kept(seen, letter)
      BY <2>3, <3>1, Fields
    <3> HIDE DEF seen
    <3> QED BY <2>1, <3>2 DEF Begun, Kept
  <2> HIDE DEF seen
  <2>7. CASE ~complete
    <3> DEFINE l == [seen EXCEPT !.invalid = TRUE]
    <3>1. Begun(l) /\ Excused(l)
      BY <2>6, Fields DEF Excused, Begun, Kept
    <3>2. letter' = NextAttempt(l)
      BY <2>2, <2>7
    <3> HIDE DEF l
    <3> QED BY <1>0, <2>1, <3>1, <3>2, NextLoop
  <2>8. CASE complete /\ status = "rejected"
    BY <1>0, <2>1, <2>2, <2>6, <2>8, NextLoop DEF Excused
  <2>9. CASE complete /\ status # "rejected"
    <3> DEFINE l == [seen EXCEPT !.step = "over", !.result = draft]
    <3>1. letter' = l
      BY <2>2, <2>9 DEF Finish
    <3>2. draft \in Outcomes(seen.view) /\ draft \in Results
      <4>1. draft \in Outcomes(seen.view)
        BY <2>4, <2>6, <2>9
      <4>2. seen.view \in Views
        BY <2>6, Fields DEF Begun
      <4> QED BY <4>1, <4>2 DEF Results
    <3>3. /\ l \in Preparations /\ l.step = "over" /\ l.result = draft
          /\ l.view = seen.view /\ l.variant = prepareResumeVariant(l.view)
      <4>1. seen \in Preparations
        BY <2>6 DEF Begun
      <4>2. l \in Preparations /\ l.step = "over" /\ l.result = draft /\ Kept(l, seen)
        BY <3>2, <4>1, Fields
      <4> HIDE DEF l
      <4> QED BY <2>6, <4>2 DEF Begun, Kept
    <3> HIDE DEF l
    <3>4. Loop(l)
      BY <2>5, <3>2, <3>3 DEF Loop
    <3> QED BY <1>0, <2>1, <3>1, <3>4
  <2> QED BY <2>7, <2>8, <2>9
<1>5. CASE Decide
  <2>1. /\ letter \in Preparations /\ Excused(letter) /\ profile' = profile
        /\ letter.variant = prepareResumeVariant(letter.view)
    BY <1>5 DEF Decide, Loop, Idle
  <2> DEFINE l == [letter EXCEPT !.step = "over", !.result = Decision(letter)]
  <2>2. letter' = l
    BY <1>5 DEF Decide, Finish
  <2>3. /\ Decision(letter) \in Outcomes(letter.view)
        /\ Decision(letter).kind = "draft" => letter.failed /\ letter.last # "rejected"
    BY <2>1, TemplateDecision
  <2>4. Decision(letter) \in Results
    BY <2>1, <2>3, Fields DEF Results
  <2>5. /\ l \in Preparations /\ l.step = "over" /\ l.result = Decision(letter)
        /\ l.failed = letter.failed /\ l.last = letter.last /\ Kept(l, letter)
    BY <2>1, <2>4, Fields
  <2> HIDE DEF l
  <2>6. Loop(l)
    BY <2>1, <2>3, <2>5 DEF Loop, Kept
  <2> QED BY <1>0, <2>1, <2>2, <2>6
<1>6. CASE Store
  BY <1>6 DEF Store
<1> QED BY <1>1, <1>2, <1>3, <1>4, <1>5, <1>6 DEF Next

(* Lemma: an answer only changes to one that was just verified.            *)
LEMMA ReuseStep ==
  ASSUME profile \in Profiles, ReuseOK, [Next]_vars
  PROVE  ReuseOK'
<1>1. CASE \E plan \in Plans : resolveAnswer(ToSet(plan))
  <2>1. PICK plan \in Plans : resolveAnswer(ToSet(plan))
    BY <1>1
  <2> DEFINE view == buildProfileFactsView(profile, TRUE)
             valid == validateAnswerContent(ToSet(plan), view, Today)
  <2>2. answer' = [kind |-> IF valid = "verified" THEN "reuse" ELSE "stale",
                   claims |-> ToSet(plan), view |-> view]
    BY <2>1 DEF resolveAnswer
  <2>3. answer'.kind = "reuse" => valid = "verified"
    BY <2>2
  <2>4. answer'.claims = ToSet(plan) /\ answer'.view = view
    BY <2>2
  <2> QED BY <2>3, <2>4 DEF ReuseOK
<1>2. CASE Begin \/ NoApprovedAnswer
  <2>1. answer'.kind \in {"nothing", "requires_human"}
    <3>1. answer' = Nothing \/ answer' = RequiresHuman("no_answer")
      BY <1>2 DEF Begin, NoApprovedAnswer
    <3> QED BY <3>1 DEF Nothing, RequiresHuman
  <2> QED BY <2>1 DEF ReuseOK
<1>3. CASE answer' = answer
  BY <1>3 DEF ReuseOK
<1>4. CASE \/ EditProfile \/ ProviderFails \/ InvalidOutput \/ Decide \/ Store \/ UNCHANGED vars
           \/ \E plan \in Plans : PlanArrives(plan)
  BY <1>3, <1>4 DEF EditProfile, ProviderFails, InvalidOutput, Decide, Store, PlanArrives, vars
<1> QED BY <1>1, <1>2, <1>4 DEF Next

(* Lemma: the invariant of the specification.                              *)
LEMMA Inductive == Spec => []IInv
<1>1. Init => IInv
  BY DEF Init, IInv, ReuseOK, Nothing
<1>2. IInv /\ [Next]_vars => IInv'
  BY LoopStep, ReuseStep DEF IInv
<1> QED BY <1>1, <1>2, PTL DEF Spec

(* Theorem: the template stands in for a provider that failed, and never   *)
(* for one whose last plan was rejected (prepareCoverLetter, where the     *)
(* order of the three decisions after the loop matters).                   *)
THEOREM TemplateIsLastResort == Spec => []TemplateOnlyAfterFailure
<1>1. IInv => TemplateOnlyAfterFailure
  BY DEF IInv, Loop, TemplateOnlyAfterFailure, Drafted
<1> QED BY <1>1, Inductive, PTL

(* Lemma: what a draft was made of.                                        *)
LEMMA DraftOf ==
  ASSUME IInv, Drafted
  PROVE  /\ ViewOK(letter.view)
         /\ \E plan, by :
              /\ letter.result = draftFrom(plan, letter.view, by)
              /\ \A c \in ToSet(plan) : ClaimOK(c)
              /\ validateClaims(ToSet(plan), letter.view, Today) # "rejected"
              /\ ClaimComplete(plan, letter.view)
              /\ by = "template" => plan = buildFallbackClaims(letter.view)
<1> DEFINE view == letter.view
<1>1. Loop(letter) /\ letter.result.kind = "draft"
  BY DEF IInv, Drafted
<1>2. PICK p \in Profiles : view = buildProfileFactsView(p, FALSE)
  BY <1>1, Fields DEF Loop, Views
<1>3. ViewOK(view)
  BY <1>2, ViewTyped
<1>4. CASE \E plan \in Accepted(view) : letter.result = draftFrom(plan, view, "model")
  <2>1. PICK plan \in Accepted(view) : letter.result = draftFrom(plan, view, "model")
    BY <1>4
  <2>2. \A c \in ToSet(plan) : ClaimOK(c)
    BY <2>1, OffersAssumption DEF Accepted, Plans, ToSet, ClaimOK
  <2> QED BY <1>3, <2>1, <2>2 DEF Accepted
<1>5. CASE letter.result = fallbackPreparation(view)
  <2> DEFINE plan == buildFallbackClaims(view)
  <2>1. /\ validateClaims(ToSet(plan), view, Today) # "rejected"
        /\ letter.result = draftFrom(plan, view, "template")
    BY <1>1, <1>5 DEF fallbackPreparation, RequiresHuman
  <2>2. \A c \in ToSet(plan) : ClaimOK(c) /\ Renderable(c)
    BY <1>3, TemplateClaims
  <2>3. ClaimComplete(plan, view)
    BY <2>2 DEF ClaimComplete, ToSet
  <2> HIDE DEF plan
  <2> QED BY <1>3, <2>1, <2>2, <2>3 DEF plan
<1>6. letter.result \notin {Nothing, RequiresHuman("rejected_claims"), RequiresHuman("no_plan")}
  BY <1>1 DEF Nothing, RequiresHuman
<1> QED BY <1>1, <1>4, <1>5, <1>6 DEF Loop, Outcomes

(* Theorem: whatever a model lists and however often it fails, a draft     *)
(* says each of its claims (draftFrom drops those without a sentence, and  *)
(* the check for a complete plan is what leaves it none to drop).          *)
THEOREM NothingIsLeftOut == Spec => []NothingLeftOut
<1>1. IInv => NothingLeftOut
  <2> SUFFICES ASSUME IInv, Drafted
               PROVE  letter.result.says = DOMAIN letter.result.claims
    BY DEF NothingLeftOut
  <2>1. PICK plan, by :
          /\ letter.result = draftFrom(plan, letter.view, by)
          /\ \A c \in ToSet(plan) : c.kind \in Kinds
          /\ validateClaims(ToSet(plan), letter.view, Today) # "rejected"
          /\ ClaimComplete(plan, letter.view)
    BY DraftOf DEF ClaimOK
  <2>2. \A i \in DOMAIN plan : validateClaim(plan[i], letter.view, Today) # "rejected"
    <3>1. \A c \in ToSet(plan) : validateClaim(c, letter.view, Today) # "rejected"
      BY <2>1, WorstVerdict
    <3> QED BY <3>1 DEF ToSet
  <2>3. \A i \in DOMAIN plan : Renderable(plan[i])
    BY <2>1, <2>2 DEF ClaimComplete
  <2> QED BY <2>1, <2>2, <2>3 DEF draftFrom
<1> QED BY <1>1, Inductive, PTL

(* Theorem: for every profile and every list of claims, the sentences of a *)
(* letter are true of the profile, but for half a tenth of a year, for the *)
(* dates and the completion of an education, and, in a letter that is not  *)
(* verified, for salary and seniority; the claims of an answer given again *)
(* have a fact behind them (the validators of claims.ts against the        *)
(* sentences of cover-letter.ts).                                          *)
THEOREM OnlyWhatIsBacked == Spec => []NothingUnbackedIsSaid
<1>1. IInv => LetterSaysWhatHolds
  <2> SUFFICES ASSUME IInv, Drafted, NEW c \in Said
               PROVE  \/ Holds(c, letter.view, Today)
                      \/ Overstates(c, letter.view, Today)
                      \/ /\ letter.result.status = "unverifiable"
                         /\ c.kind \in {"salary", "seniority"}
    BY DEF LetterSaysWhatHolds
  <2>1. ViewOK(letter.view)
    BY DraftOf
  <2>2. PICK plan, by :
          /\ letter.result = draftFrom(plan, letter.view, by)
          /\ \A d \in ToSet(plan) : ClaimOK(d)
          /\ validateClaims(ToSet(plan), letter.view, Today) # "rejected"
    BY DraftOf
  <2>3. PICK i \in DOMAIN plan : c = plan[i]
    BY <2>2 DEF Said, draftFrom
  <2>4. letter.result.status = validateClaims(ToSet(plan), letter.view, Today)
    BY <2>2 DEF draftFrom
  <2> QED BY <2>1, <2>2, <2>3, <2>4, DraftHolds
<1>2. IInv => ReusedAnswerIsBacked
  <2> SUFFICES ASSUME IInv, answer.kind = "reuse"
               PROVE  /\ answer.claims # {}
                      /\ \A c \in answer.claims : Backed(c, answer.view, Today)
    BY DEF ReusedAnswerIsBacked
  <2>1. PICK plan \in Plans, p \in Profiles :
          /\ answer.claims = ToSet(plan) /\ answer.view = buildProfileFactsView(p, TRUE)
          /\ validateAnswerContent(answer.claims, answer.view, Today) = "verified"
    BY DEF IInv, ReuseOK
  <2>2. ViewOK(answer.view)
    BY <2>1, ViewTyped
  <2>3. \A c \in answer.claims : c.kind \in Kinds
    BY <2>1, OffersAssumption DEF Plans, ToSet
  <2>4. /\ answer.claims # {}
        /\ validateClaims(answer.claims, answer.view, Today) = "verified"
    BY <2>1 DEF validateAnswerContent
  <2> QED BY <2>2, <2>3, <2>4, WorstVerdict, VerifiedIsBacked
<1> QED BY <1>1, <1>2, Inductive, PTL DEF NothingUnbackedIsSaid

(* Theorem: what the documents package writes itself is verified by its    *)
(* own validator, of any profile of up to 80 years (buildFallbackClaims    *)
(* and prepareResumeVariant, which round down what claims.ts compares).    *)
THEOREM TemplateHolds == Spec => []TemplateIsVerified
<1>1. IInv => TemplateIsVerified
  <2> SUFFICES ASSUME IInv, letter # Idle, Years(letter.view) <= 800
               PROVE  /\ letter.variant.status = "verified"
                      /\ letter.result # RequiresHuman("fallback")
                      /\ Drafted /\ letter.result.by = "template" =>
                           letter.result.status = "verified"
    BY DEF TemplateIsVerified
  <2> DEFINE view == letter.view
  <2>1. Loop(letter)
    BY DEF IInv
  <2>2. ViewOK(view)
    <3>1. PICK p \in Profiles : view = buildProfileFactsView(p, FALSE)
      BY <2>1, Fields DEF Loop, Views
    <3> QED BY <3>1, ViewTyped
  <2>3. letter.variant.status = "verified"
    <3>1. validateClaims(ToSet(YearsClaim(view)), view, Today) = "verified"
      <4>1. \A c \in ToSet(YearsClaim(view)) :
              c.kind \in Kinds /\ validateClaim(c, view, Today) = "verified"
        BY <2>2, YearsAreVerified DEF Kinds
      <4> QED BY <4>1, WorstVerdict
    <3> QED BY <2>1, <3>1 DEF Loop, prepareResumeVariant
  <2>4. validateClaims(ToSet(buildFallbackClaims(view)), view, Today) = "verified"
    <3>1. \A c \in ToSet(buildFallbackClaims(view)) :
            c.kind \in Kinds /\ validateClaim(c, view, Today) = "verified"
      BY <2>2, TemplateClaims DEF ClaimOK
    <3> QED BY <3>1, WorstVerdict
  <2>5. letter.result # RequiresHuman("fallback")
    <3>1. Nothing # RequiresHuman("fallback")
      BY DEF Nothing, RequiresHuman
    <3>2. /\ RequiresHuman("rejected_claims") # RequiresHuman("fallback")
          /\ RequiresHuman("no_plan") # RequiresHuman("fallback")
      BY DEF RequiresHuman
    <3>3. \A plan, by : draftFrom(plan, view, by) # RequiresHuman("fallback")
      BY DEF draftFrom, RequiresHuman
    <3>4. fallbackPreparation(view) # RequiresHuman("fallback")
      BY <2>4, <3>3 DEF fallbackPreparation
    <3> QED BY <2>1, <3>1, <3>2, <3>3, <3>4 DEF Loop, Outcomes
  <2>6. ASSUME Drafted, letter.result.by = "template"
        PROVE  letter.result.status = "verified"
    <3>1. PICK plan, by :
            /\ letter.result = draftFrom(plan, view, by)
            /\ by = "template" => plan = buildFallbackClaims(view)
      BY <2>6, DraftOf
    <3> QED BY <2>4, <2>6, <3>1 DEF draftFrom
  <2> QED BY <2>3, <2>5, <2>6
<1> QED BY <1>1, Inductive, PTL

================================================================================
