----------------------------- MODULE ClipsProofs ------------------------------
(***************************************************************************)
(* What the computations on clips do for every input: the selection, the   *)
(* scores, the captions, the windows and suggestions, and the cutting of   *)
(* files and sound.  The library's induction theorems take an operator;    *)
(* Induction below takes a set, and every fold and recursion rests on it.  *)
(***************************************************************************)
EXTENDS Captions, Proposing, Scoring, Chunks, FramingProofs, FiniteSetTheorems

-----------------------------------------------------------------------------
(* Induction, over a set of numbers.                                        *)
LEMMA Induction ==
  ASSUME NEW T, 0 \in T, \A n \in Nat : n \in T => n + 1 \in T
  PROVE  Nat \subseteq T
  <1> DEFINE Missing == Nat \ T
  <1> SUFFICES ASSUME Missing # {} PROVE FALSE
    OBVIOUS
  <1>1. PICK x \in Missing : \A y \in Missing : ~(<<y, x>> \in OpToRel(<, Nat))
    BY NatLessThanWellFounded, WFMin
  <1>2. x # 0 /\ x \in Nat
    BY <1>1
  <1>3. x - 1 \in Nat /\ x - 1 < x /\ (x - 1) + 1 = x
    BY <1>2
  <1>4. <<x - 1, x>> \in OpToRel(<, Nat)
    BY <1>2, <1>3 DEF OpToRel
  <1>5. x - 1 \in T
    BY <1>1, <1>3, <1>4
  <1> QED BY <1>1, <1>3, <1>5

(* The greatest of some numbers.                                            *)
LEMMA MinMax ==
  ASSUME NEW a \in Int, NEW b \in Int
  PROVE  /\ Min({a, b}) = IF a <= b THEN a ELSE b
         /\ Max({a, b}) = IF a <= b THEN b ELSE a
  BY DEF Min, Max

LEMMA MaxIs ==
  ASSUME NEW n \in Nat, NEW s \in SUBSET (1..n), s # {}
  PROVE  Max(s) \in s /\ \A x \in s : x <= Max(s)
  <1> DEFINE Bounded(m) == \A t \in SUBSET (1..m) : t # {} => \E x \in t : \A y \in t : y <= x
             T == {m \in Nat : Bounded(m)}
  <1>1. 0 \in T
    <2>1. \A t \in SUBSET (1..0) : t = {}
      OBVIOUS
    <2> QED BY <2>1
  <1>2. ASSUME NEW m \in Nat, m \in T PROVE m + 1 \in T
    <2> SUFFICES ASSUME NEW t \in SUBSET (1..m + 1), t # {} PROVE \E x \in t : \A y \in t : y <= x
      OBVIOUS
    <2>1. CASE m + 1 \in t
      BY <2>1
    <2>2. CASE m + 1 \notin t
      <3>1. t \in SUBSET (1..m)
        BY <2>2
      <3> QED BY <1>2, <3>1
    <2> QED BY <2>1, <2>2
  <1>3. n \in T
    BY <1>1, <1>2, Induction
  <1>4. \E x \in s : \A y \in s : x >= y
    BY <1>3
  <1>5. Max(s) \in s /\ \A y \in s : Max(s) >= y
    BY <1>4 DEF Max
  <1> QED BY <1>5

LEMMA MaxIsTop ==
  ASSUME NEW n \in Nat, NEW s \in SUBSET (1..n + 1), n + 1 \in s
  PROVE  Max(s) = n + 1
  <1>1. n + 1 \in Nat /\ s # {}
    OBVIOUS
  <1>2. \A x \in s : x \in Int /\ x <= n + 1
    OBVIOUS
  <1>3. \E x \in s : \A y \in s : x >= y
    BY <1>2
  <1>4. Max(s) \in s /\ \A x \in s : Max(s) >= x
    BY <1>3 DEF Max
  <1>5. Max(s) \in Int /\ Max(s) <= n + 1 /\ Max(s) >= n + 1
    BY <1>2, <1>4
  <1> QED BY <1>5

(* What a fold over a sequence of length n is defined by exists, when its   *)
(* operation is a function Op of an index and a value.                      *)
Folding(g, n, V, base, Op) ==
  /\ g \in [SUBSET (1..n) -> V]
  /\ \A s \in SUBSET (1..n) : g[s] = IF s = {} THEN base ELSE Op[<<Max(s), g[s \ {Max(s)}]>>]

LEMMA FoldExists ==
  ASSUME NEW n \in Nat, NEW V, NEW base \in V, NEW Op \in [(1..n) \X V -> V]
  PROVE  \E g : Folding(g, n, V, base, Op)
  <1> DEFINE Folds(m, g) ==
               \A s \in SUBSET (1..m) :
                 g[s] = IF s = {} THEN base ELSE Op[<<Max(s), g[s \ {Max(s)}]>>]
             Foldable(m) == \E g \in [SUBSET (1..m) -> V] : Folds(m, g)
             T == {m \in Nat : m <= n => Foldable(m)}
  <1>1. 0 \in T
    <2> DEFINE g == [s \in SUBSET (1..0) |-> base]
    <2>1. \A s \in SUBSET (1..0) : s = {}
      OBVIOUS
    <2>2. g \in [SUBSET (1..0) -> V] /\ Folds(0, g)
      BY <2>1
    <2> QED BY <2>2
  <1>2. ASSUME NEW m \in Nat, m \in T PROVE m + 1 \in T
    <2> HIDE DEF Foldable
    <2> SUFFICES ASSUME m + 1 <= n PROVE Foldable(m + 1)
      OBVIOUS
    <2>0. Foldable(m)
      BY <1>2
    <2> USE DEF Foldable
    <2> HIDE DEF Folds
    <2>1. PICK f \in [SUBSET (1..m) -> V] : Folds(m, f)
      BY <2>0
    <2> USE DEF Folds
    <2> DEFINE g == [s \in SUBSET (1..m + 1) |->
                       IF m + 1 \in s THEN Op[<<m + 1, f[s \ {m + 1}]>>] ELSE f[s]]
    <2>2. ASSUME NEW s \in SUBSET (1..m + 1), m + 1 \in s
          PROVE  /\ s \ {m + 1} \in SUBSET (1..m) /\ Max(s) = m + 1
                 /\ g[s] = Op[<<m + 1, f[s \ {m + 1}]>>] /\ g[s \ {m + 1}] = f[s \ {m + 1}]
                 /\ g[s] \in V
      <3>1. s \ {m + 1} \in SUBSET (1..m)
        BY <2>2
      <3>3. Max(s) = m + 1
        BY <2>2, MaxIsTop
      <3>4. g[s] = Op[<<m + 1, f[s \ {m + 1}]>>] /\ g[s \ {m + 1}] = f[s \ {m + 1}]
        BY <2>2, <3>1
      <3>5. g[s] \in V
        BY <2>1, <3>1, <3>4
      <3> QED BY <3>1, <3>3, <3>4, <3>5
    <2>3. ASSUME NEW s \in SUBSET (1..m + 1), m + 1 \notin s
          PROVE  /\ s \in SUBSET (1..m) /\ g[s] = f[s] /\ g[s] \in V
                 /\ s # {} => g[s \ {Max(s)}] = f[s \ {Max(s)}]
      <3>1. s \in SUBSET (1..m)
        BY <2>3
      <3>2. s \ {Max(s)} \in SUBSET (1..m + 1) /\ m + 1 \notin s \ {Max(s)}
        BY <2>3, <3>1
      <3> QED BY <2>1, <2>3, <3>1, <3>2
    <2>4. g \in [SUBSET (1..m + 1) -> V]
      BY <2>2, <2>3
    <2>5. ASSUME NEW s \in SUBSET (1..m + 1)
          PROVE g[s] = IF s = {} THEN base ELSE Op[<<Max(s), g[s \ {Max(s)}]>>]
      <3>1. CASE m + 1 \in s
        <4> HIDE DEF g
        <4> QED BY <2>2, <3>1
      <3>2. CASE m + 1 \notin s
        <4> HIDE DEF g
        <4> QED BY <2>1, <2>3, <3>2
      <3> QED BY <3>1, <3>2
    <2>6. Folds(m + 1, g)
      BY <2>5
    <2> HIDE DEF g
    <2> QED BY <2>4, <2>6
  <1> HIDE DEF Foldable
  <1>3. Foldable(n)
    <2>1. \A m \in Nat : m \in T => m + 1 \in T
      BY <1>2
    <2> HIDE DEF T
    <2>2. n \in T
      BY <1>1, <2>1, Induction
    <2> USE DEF T
    <2> QED BY <2>2
  <1> QED BY <1>3 DEF Foldable, Folding


(* The first k indices, as the fold meets them.                             *)
LEMMA Firsts ==
  ASSUME NEW n \in Nat, NEW k \in 1..n
  PROVE  /\ 1..k \in SUBSET (1..n) /\ 1..k # {} /\ Max(1..k) = k
         /\ (1..k) \ {Max(1..k)} = 1..k - 1 /\ 1..k - 1 \in SUBSET (1..n)
  <1> DEFINE m == k - 1
  <1>1. m \in Nat /\ k = m + 1
    OBVIOUS
  <1>2. Max(1..m + 1) = m + 1
    <2>1. 1..m + 1 \in SUBSET (1..m + 1) /\ m + 1 \in 1..m + 1
      BY <1>1
    <2> HIDE DEF m
    <2> QED BY <1>1, <2>1, MaxIsTop
  <1>3. Max(1..k) = k
    BY <1>1, <1>2
  <1> QED BY <1>3

-----------------------------------------------------------------------------
(* Sums.                                                                    *)
LEMMA SumIs ==
  ASSUME NEW n \in Nat, NEW f \in [1..n -> Int]
  PROVE  \E r \in [0..n -> Int] :
           r[0] = 0 /\ (\A k \in 1..n : r[k] = r[k - 1] + f[k]) /\ Sum(f) = r[n]
  <1> DEFINE Op == [c \in (1..n) \X Int |-> c[2] + f[c[1]]]
             g == CHOOSE h : h = [s \in SUBSET (1..n) |->
                    IF s = {} THEN 0 ELSE h[s \ {Max(s)}] + f[Max(s)]]
             r == [k \in 0..n |-> g[1..k]]
  <1>1. Sum(f) = g[1..n]
    BY DEF Sum, FoldLeft, MapThenFoldSet
  <1>2. Op \in [(1..n) \X Int -> Int]
    OBVIOUS
  <1>3. PICK h \in [SUBSET (1..n) -> Int] :
          \A s \in SUBSET (1..n) : h[s] = IF s = {} THEN 0 ELSE Op[<<Max(s), h[s \ {Max(s)}]>>]
    <2>1. \E h : Folding(h, n, Int, 0, Op)
      <3>1. 0 \in Int /\ n \in Nat
        OBVIOUS
      <3> HIDE DEF Op
      <3> QED BY <1>2, <3>1, FoldExists, Zenon
    <2> HIDE DEF Op
    <2> QED BY <2>1 DEF Folding
  <1>4. ASSUME NEW s \in SUBSET (1..n), s # {}
        PROVE  Op[<<Max(s), h[s \ {Max(s)}]>>] = h[s \ {Max(s)}] + f[Max(s)]
    <2>1. Max(s) \in 1..n
      BY <1>4, MaxIs
    <2> QED BY <2>1
  <1>5. h = [s \in SUBSET (1..n) |-> IF s = {} THEN 0 ELSE h[s \ {Max(s)}] + f[Max(s)]]
    <2> HIDE DEF Op
    <2> QED BY <1>3, <1>4
  <1>6. g = [s \in SUBSET (1..n) |-> IF s = {} THEN 0 ELSE g[s \ {Max(s)}] + f[Max(s)]]
    BY <1>5
  <1> HIDE DEF g
  <1>7. r[0] = 0
    BY <1>6
  <1>8. ASSUME NEW k \in 1..n PROVE r[k] = r[k - 1] + f[k]
    <2>1. /\ 1..k \in SUBSET (1..n) /\ 1..k # {} /\ Max(1..k) = k
          /\ (1..k) \ {Max(1..k)} = 1..k - 1
      BY Firsts
    <2>2. g[1..k] = g[1..k - 1] + f[k]
      BY <1>6, <2>1
    <2> QED BY <2>2
  <1>9. \A k \in 0..n : r[k] \in Int
    <2> DEFINE T == {k \in Nat : k <= n => r[k] \in Int}
    <2> HIDE DEF r
    <2>1. 0 \in T
      BY <1>7
    <2>2. ASSUME NEW k \in Nat, k \in T PROVE k + 1 \in T
      <3> SUFFICES ASSUME k + 1 <= n PROVE r[k + 1] \in Int
        OBVIOUS
      <3>1. k + 1 \in 1..n /\ (k + 1) - 1 = k /\ r[k] \in Int
        BY <2>2
      <3> QED BY <1>8, <3>1
    <2>3. \A k \in Nat : k \in T => k + 1 \in T
      BY <2>2
    <2> HIDE DEF T
    <2>4. Nat \subseteq T
      BY <2>1, <2>3, Induction
    <2> QED BY <2>4 DEF T
  <1>10. r \in [0..n -> Int] /\ Sum(f) = r[n]
    BY <1>1, <1>9
  <1> HIDE DEF r
  <1> QED BY <1>7, <1>8, <1>10

(* The sums of the first k numbers, for every k.                            *)
LEMMA SumsAre ==
  ASSUME NEW n \in Nat, NEW f \in [1..n -> Int]
  PROVE  \E r \in [0..n -> Int] :
           /\ r[0] = 0 /\ \A k \in 1..n : r[k] = r[k - 1] + f[k]
           /\ \A k \in 0..n : Sum([i \in 1..k |-> f[i]]) = r[k]
  <1>1. PICK r \in [0..n -> Int] : r[0] = 0 /\ \A k \in 1..n : r[k] = r[k - 1] + f[k]
    BY SumIs
  <1>2. ASSUME NEW k \in 0..n PROVE Sum([i \in 1..k |-> f[i]]) = r[k]
    <2> DEFINE e == [i \in 1..k |-> f[i]]
    <2>1. k \in Nat /\ e \in [1..k -> Int]
      OBVIOUS
    <2> HIDE DEF e
    <2>2. PICK q \in [0..k -> Int] :
            q[0] = 0 /\ (\A j \in 1..k : q[j] = q[j - 1] + e[j]) /\ Sum(e) = q[k]
      BY <2>1, SumIs
    <2> DEFINE T == {j \in Nat : j <= k => q[j] = r[j]}
    <2>3. 0 \in T
      BY <1>1, <2>2
    <2>4. ASSUME NEW j \in Nat, j \in T PROVE j + 1 \in T
      <3> SUFFICES ASSUME j + 1 <= k PROVE q[j + 1] = r[j + 1]
        OBVIOUS
      <3>1. j + 1 \in 1..k /\ j + 1 \in 1..n /\ (j + 1) - 1 = j /\ q[j] = r[j]
        BY <2>4
      <3>2. e[j + 1] = f[j + 1]
        BY <3>1 DEF e
      <3> QED BY <1>1, <2>2, <3>1, <3>2
    <2>5. \A j \in Nat : j \in T => j + 1 \in T
      BY <2>4
    <2> HIDE DEF T
    <2>6. k \in T
      BY <2>1, <2>3, <2>5, Induction
    <2> QED BY <2>2, <2>6 DEF T, e
  <1> QED BY <1>1, <1>2

-----------------------------------------------------------------------------
(* Sorting: there is an order that sorts, so Order is one.                  *)
LEMMA AtMost ==
  ASSUME NEW a \in Int, NEW b \in Int, NEW P, a < b \/ (a = b /\ P)
  PROVE  a <= b
  OBVIOUS

LEMMA AtMostTwice ==
  ASSUME NEW a \in Int, NEW b \in Int, NEW c \in Int, a <= b, b <= c
  PROVE  a <= c
  OBVIOUS

LEMMA Inserted ==
  ASSUME NEW n \in Nat, NEW key \in [1..n + 1 -> Int], NEW order \in [1..n -> 1..n],
         Sorts(order, [i \in 1..n |-> key[i]])
  PROVE  \E p \in [1..n + 1 -> 1..n + 1] : Sorts(p, key)
  <1> DEFINE first == [i \in 1..n |-> key[i]]
             at == [i \in 1..n |-> key[order[i]]]
             top == key[n + 1]
             fits == {i \in 1..n : at[i] <= top}
             m == IF fits = {} THEN 0 ELSE Max(fits)
             p == [i \in 1..n + 1 |->
                     IF i <= m THEN order[i] ELSE IF i = m + 1 THEN n + 1 ELSE order[i - 1]]
  <1>n. n + 1 \in 1..n + 1 /\ \A a \in 1..n : a \in 1..n + 1
    OBVIOUS
  <1>t. top \in Int /\ at \in [1..n -> Int] /\ \A a \in 1..n : order[a] \in 1..n
    BY <1>n
  <1>s. /\ \A k \in 1..n : \E i \in 1..n : order[i] = k
        /\ \A i, j \in 1..n : i < j =>
             at[i] < at[j] \/ (at[i] = at[j] /\ order[i] < order[j])
    <2>1. DOMAIN first = 1..n /\ \A a \in 1..n : first[order[a]] = at[a]
      BY <1>t
    <2>2. Sorts(order, first)
      OBVIOUS
    <2> HIDE DEF first, at
    <2>3. /\ \A k \in 1..n : \E i \in 1..n : order[i] = k
          /\ \A i, j \in 1..n : i < j =>
               \/ first[order[i]] < first[order[j]]
               \/ first[order[i]] = first[order[j]] /\ order[i] < order[j]
      BY <2>1, <2>2 DEF Sorts
    <2> QED BY <2>1, <2>3
  <1> HIDE DEF at, top
  <1>o. ASSUME NEW i \in 1..n, NEW j \in 1..n, i < j
        PROVE  at[i] \in Int /\ at[j] \in Int /\ at[i] <= at[j]
               /\ (at[i] < at[j] \/ (at[i] = at[j] /\ order[i] < order[j]))
    <2>1. at[i] \in Int /\ at[j] \in Int
      BY <1>t
    <2>2. \A a, b \in 1..n : a < b => at[a] < at[b] \/ (at[a] = at[b] /\ order[a] < order[b])
      BY <1>s
    <2>3. at[i] < at[j] \/ (at[i] = at[j] /\ order[i] < order[j])
      BY <1>o, <2>2
    <2> DEFINE P == order[i] < order[j]
    <2>4. at[i] < at[j] \/ (at[i] = at[j] /\ P)
      BY <2>3
    <2> HIDE DEF P
    <2>5. at[i] <= at[j]
      BY <2>1, <2>4, AtMost
    <2> QED BY <2>1, <2>3, <2>5
  <1>1. m \in 0..n /\ (\A i \in 1..n : i <= m => at[i] <= top)
                   /\ (\A i \in 1..n : i > m => at[i] > top)
    <2>1. CASE fits = {}
      <3>1. m = 0 /\ \A i \in 1..n : ~(at[i] <= top)
        BY <2>1
      <3> HIDE DEF m, fits
      <3> QED BY <1>t, <3>1
    <2>2. CASE fits # {}
      <3>1. Max(fits) \in fits /\ \A x \in fits : x <= Max(fits)
        BY <2>2, MaxIs
      <3>2. m = Max(fits)
        BY <2>2
      <3>3. m \in 1..n /\ at[m] <= top /\ \A x \in 1..n : at[x] <= top => x <= m
        BY <3>1, <3>2
      <3> HIDE DEF m, fits
      <3>4. ASSUME NEW i \in 1..n, i <= m PROVE at[i] <= top
        <4>1. i = m \/ i < m
          BY <3>3, <3>4
        <4>2. i = m \/ at[i] <= at[m]
          BY <1>o, <3>3, <4>1
        <4>3. at[i] \in Int /\ at[m] \in Int /\ at[m] <= top /\ top \in Int
          BY <1>t, <3>3
        <4>4. at[i] <= at[m] => at[i] <= top
          BY <4>3, AtMostTwice
        <4> QED BY <4>2, <4>3, <4>4
      <3>5. ASSUME NEW i \in 1..n, i > m PROVE at[i] > top
        BY <1>t, <3>3, <3>5
      <3> QED BY <3>3, <3>4, <3>5
    <2> QED BY <2>1, <2>2
  <1>m. m \in 0..n
    BY <1>1
  <1> HIDE DEF m, fits
  <1>3. p \in [1..n + 1 -> 1..n + 1]
    BY <1>1, <1>t
  <1>p. /\ \A i \in 1..n + 1 : i <= m => i \in 1..n /\ p[i] = order[i]
        /\ m + 1 \in 1..n + 1 /\ p[m + 1] = n + 1
        /\ \A i \in 1..n : i > m => p[i + 1] = order[i]
        /\ \A i \in 1..n + 1 : i > m + 1 => i - 1 \in 1..n /\ i - 1 > m /\ p[i] = order[i - 1]
    BY <1>1
  <1> HIDE DEF p
  <1>4. ASSUME NEW k \in 1..n + 1 PROVE \E i \in 1..n + 1 : p[i] = k
    <2>1. CASE k = n + 1
      BY <1>p, <2>1
    <2>2. CASE k \in 1..n
      <3>1. PICK i \in 1..n : order[i] = k
        BY <1>s, <2>2
      <3>2. CASE i <= m
        BY <1>p, <1>n, <3>1, <3>2
      <3>3. CASE i > m
        <4>1. i + 1 \in 1..n + 1 /\ p[i + 1] = k
          BY <1>p, <3>1, <3>3
        <4> QED BY <4>1
      <3> QED BY <1>1, <3>2, <3>3
    <2>3. k = n + 1 \/ k \in 1..n
      OBVIOUS
    <2> QED BY <2>1, <2>2, <2>3
  <1>5. ASSUME NEW i \in 1..n + 1, NEW j \in 1..n + 1, i < j
        PROVE  \/ key[p[i]] < key[p[j]]
               \/ key[p[i]] = key[p[j]] /\ p[i] < p[j]
    <2>k. /\ \A a \in 1..n : key[order[a]] = at[a]
          /\ key[n + 1] = top
      BY DEF at, top
    <2>1. CASE j <= m
      <3>1. i <= m
        BY <1>m, <1>5, <2>1
      <3>2. i \in 1..n /\ j \in 1..n /\ p[i] = order[i] /\ p[j] = order[j]
        BY <1>p, <2>1, <3>1
      <3> QED BY <1>o, <1>5, <2>k, <3>2
    <2>2. CASE j = m + 1
      <3>1. i \in 1..n /\ i <= m /\ p[i] = order[i] /\ p[j] = n + 1
        BY <1>m, <1>5, <1>p, <2>2
      <3>2. at[i] <= top /\ order[i] < n + 1 /\ at[i] \in Int
        BY <1>1, <1>t, <3>1
      <3> QED BY <1>t, <2>k, <3>1, <3>2
    <2>3. CASE j > m + 1
      <3>1. j - 1 \in 1..n /\ j - 1 > m /\ p[j] = order[j - 1]
        BY <1>p, <2>3
      <3>2. CASE i <= m
        <4>1. i < j - 1
          BY <1>m, <3>1, <3>2
        <4>2. i \in 1..n /\ p[i] = order[i]
          BY <1>p, <3>2
        <4> DEFINE l == j - 1
        <4>3. l \in 1..n /\ i < l /\ p[j] = order[l]
          BY <3>1, <4>1
        <4> HIDE DEF l
        <4>4. at[i] < at[l] \/ (at[i] = at[l] /\ order[i] < order[l])
          BY <1>o, <4>2, <4>3
        <4> QED BY <2>k, <4>2, <4>3, <4>4
      <3>3. CASE i = m + 1
        <4>1. p[i] = n + 1 /\ at[j - 1] > top
          BY <1>1, <1>p, <3>1, <3>3
        <4> QED BY <1>t, <2>k, <3>1, <4>1
      <3>4. CASE i > m + 1
        <4>1. i - 1 \in 1..n /\ p[i] = order[i - 1] /\ i - 1 < j - 1
          BY <1>m, <1>5, <1>p, <3>4
        <4> QED BY <1>o, <2>k, <3>1, <4>1
      <3> QED BY <1>1, <3>2, <3>3, <3>4
    <2> QED BY <1>1, <2>1, <2>2, <2>3
  <1>6. Sorts(p, key)
    BY <1>4, <1>5 DEF Sorts
  <1> QED BY <1>3, <1>6

LEMMA OrderSorts ==
  ASSUME NEW n \in Nat, NEW key \in [1..n -> Int]
  PROVE  Order(key) \in [1..n -> 1..n] /\ Sorts(Order(key), key)
  <1> DEFINE Sortable(m) == \E p \in [1..m -> 1..m] : Sorts(p, [i \in 1..m |-> key[i]])
             T == {m \in Nat : m <= n => Sortable(m)}
  <1>1. 0 \in T
    <2> DEFINE p == [i \in 1..0 |-> 0]
    <2>1. p \in [1..0 -> 1..0] /\ Sorts(p, [i \in 1..0 |-> key[i]])
      BY DEF Sorts
    <2> QED BY <2>1
  <1>2. ASSUME NEW m \in Nat, m \in T PROVE m + 1 \in T
    <2> HIDE DEF Sortable
    <2> SUFFICES ASSUME m + 1 <= n PROVE Sortable(m + 1)
      OBVIOUS
    <2>0. Sortable(m)
      BY <1>2
    <2> USE DEF Sortable
    <2> DEFINE k == [i \in 1..m + 1 |-> key[i]]
    <2>1. k \in [1..m + 1 -> Int] /\ [i \in 1..m |-> k[i]] = [i \in 1..m |-> key[i]]
      OBVIOUS
    <2>2. PICK p \in [1..m -> 1..m] : Sorts(p, [i \in 1..m |-> k[i]])
      BY <2>0, <2>1
    <2> HIDE DEF k
    <2>3. \E q \in [1..m + 1 -> 1..m + 1] : Sorts(q, k)
      BY <2>1, <2>2, Inserted
    <2> QED BY <2>3 DEF k
  <1>3. \A m \in Nat : m \in T => m + 1 \in T
    BY <1>2
  <1>4. Sortable(n)
    <2> HIDE DEF T, Sortable
    <2>1. n \in T
      BY <1>1, <1>3, Induction
    <2> QED BY <2>1 DEF T
  <1>5. [i \in 1..n |-> key[i]] = key /\ DOMAIN key = 1..n
    OBVIOUS
  <1>6. \E p \in [DOMAIN key -> DOMAIN key] : Sorts(p, key)
    BY <1>4, <1>5
  <1> HIDE DEF Sortable, T
  <1> QED BY <1>5, <1>6 DEF Order

-----------------------------------------------------------------------------
(* What select_top_non_overlapping has chosen after the first k candidates, *)
(* best first.                                                              *)
Choice(candidates, most, least, chosen, i) ==
  IF \/ candidates[i].score < least
     \/ Len(chosen) >= most
     \/ \E k \in DOMAIN chosen : TooAlike(candidates[i], candidates[chosen[k]])
  THEN chosen ELSE Append(chosen, i)

GaveWay(candidates, most, least, chosen, i) ==
  \/ candidates[i].score < least
  \/ \E j \in Range(chosen) : /\ candidates[j].score >= candidates[i].score
                              /\ TooAlike(candidates[i], candidates[j])
  \/ Len(chosen) = most /\ \A j \in Range(chosen) : candidates[j].score >= candidates[i].score

ChosenWell(candidates, most, least, order, k, chosen) ==
  /\ chosen \in Seq(DOMAIN candidates) /\ Len(chosen) <= most
  /\ IsFiniteSet(Range(chosen)) /\ Cardinality(Range(chosen)) = Len(chosen)
  /\ \A j \in Range(chosen) : \E l \in 1..k : j = order[l]
  /\ \A j \in Range(chosen) : candidates[j].score >= least
  /\ \A i, j \in Range(chosen) : i # j => ~TooAlike(candidates[i], candidates[j])
  /\ \A l \in 1..k : order[l] \notin Range(chosen) =>
       GaveWay(candidates, most, least, chosen, order[l])

LEMMA AlikeIsMutual ==
  ASSUME NEW a \in CandidateRecords, NEW b \in CandidateRecords
  PROVE  TooAlike(a, b) <=> TooAlike(b, a)
  <1>1. a.start \in Int /\ a.end \in Int /\ b.start \in Int /\ b.end \in Int
    BY DEF CandidateRecords
  <1>2. Least(a.end, b.end) = Least(b.end, a.end) /\ Greatest(a.start, b.start) = Greatest(b.start, a.start)
    BY <1>1 DEF Least, Greatest
  <1>3. Intersection(a, b) = Intersection(b, a) /\ Intersection(a, b) \in Int
    BY <1>1, <1>2 DEF Intersection, Least, Greatest
  <1>4. Union(a, b) = Union(b, a)
    BY <1>1, <1>3 DEF Union
  <1> QED BY <1>3, <1>4 DEF TooAlike

LEMMA RangeOfAppended ==
  ASSUME NEW S, NEW chosen \in Seq(S), NEW i \in S
  PROVE  /\ Append(chosen, i) \in Seq(S) /\ Len(Append(chosen, i)) = Len(chosen) + 1
         /\ Range(Append(chosen, i)) = Range(chosen) \cup {i}
  <1>1. /\ Append(chosen, i) \in Seq(S) /\ Len(Append(chosen, i)) = Len(chosen) + 1
        /\ DOMAIN chosen = 1..Len(chosen) /\ DOMAIN Append(chosen, i) = 1..Len(chosen) + 1
        /\ \A k \in 1..Len(chosen) : Append(chosen, i)[k] = chosen[k]
        /\ Append(chosen, i)[Len(chosen) + 1] = i /\ Len(chosen) \in Nat
    OBVIOUS
  <1>2. \A k \in 1..Len(chosen) + 1 : k \in 1..Len(chosen) \/ k = Len(chosen) + 1
    BY <1>1
  <1> QED BY <1>1, <1>2 DEF Range

LEMMA ChoosesWell ==
  ASSUME NEW candidates \in Seq(CandidateRecords), NEW most \in Nat, NEW least \in Int,
         NEW order \in [DOMAIN candidates -> DOMAIN candidates],
         Sorts(order, [i \in DOMAIN candidates |-> -candidates[i].score]),
         NEW k \in 1..Len(candidates), NEW chosen,
         ChosenWell(candidates, most, least, order, k - 1, chosen)
  PROVE  ChosenWell(candidates, most, least, order, k,
                    Choice(candidates, most, least, chosen, order[k]))
  <1> DEFINE n == Len(candidates)
             i == order[k]
             picked == Choice(candidates, most, least, chosen, i)
             score(j) == candidates[j].score
  <1>1. n \in Nat /\ DOMAIN candidates = 1..n /\ i \in 1..n /\ \A l \in 1..n : order[l] \in 1..n
    OBVIOUS
  <1>2. \A j \in 1..n : candidates[j] \in CandidateRecords
    OBVIOUS
  <1>3. \A j \in 1..n : score(j) \in Int
    BY <1>2 DEF CandidateRecords
  <1>4. ASSUME NEW a \in 1..n, NEW b \in 1..n, a < b
        PROVE  score(order[a]) >= score(order[b]) /\ order[a] # order[b]
    <2> DEFINE key == [j \in DOMAIN candidates |-> -score(j)]
    <2>1. DOMAIN key = 1..n /\ \A j \in 1..n : key[j] = -score(j)
      BY <1>1
    <2> HIDE DEF key
    <2>2. Sorts(order, key)
      BY DEF key
    <2>3. \/ key[order[a]] < key[order[b]]
          \/ key[order[a]] = key[order[b]] /\ order[a] < order[b]
      BY <1>4, <2>1, <2>2 DEF Sorts
    <2>4. order[a] \in 1..n /\ order[b] \in 1..n
      BY <1>1
    <2>5. score(order[a]) \in Int /\ score(order[b]) \in Int
      BY <1>3, <2>4
    <2>6. key[order[a]] = -score(order[a]) /\ key[order[b]] = -score(order[b])
      BY <2>1, <2>4
    <2> HIDE DEF score
    <2>7. CASE key[order[a]] < key[order[b]]
      <3>1. score(order[a]) > score(order[b])
        BY <2>5, <2>6, <2>7
      <3> QED BY <2>5, <3>1
    <2>8. CASE key[order[a]] = key[order[b]] /\ order[a] < order[b]
      <3>1. score(order[a]) = score(order[b])
        BY <2>5, <2>6, <2>8
      <3> QED BY <2>4, <2>5, <2>8, <3>1
    <2> QED BY <2>3, <2>7, <2>8
  <1>5. /\ chosen \in Seq(1..n) /\ Len(chosen) <= most /\ Len(chosen) \in Nat
        /\ IsFiniteSet(Range(chosen)) /\ Cardinality(Range(chosen)) = Len(chosen)
        /\ \A j \in Range(chosen) : \E l \in 1..k - 1 : j = order[l]
        /\ \A j \in Range(chosen) : score(j) >= least
        /\ \A a, b \in Range(chosen) : a # b => ~TooAlike(candidates[a], candidates[b])
        /\ \A l \in 1..k - 1 : order[l] \notin Range(chosen) =>
             GaveWay(candidates, most, least, chosen, order[l])
    BY <1>1 DEF ChosenWell
  <1>6. k \in 1..n /\ k \in Nat /\ \A l \in 1..k - 1 : l \in 1..n /\ l < k
    BY <1>1
  <1>7. \A j \in Range(chosen) : j \in 1..n /\ score(j) >= score(i) /\ j # i
    BY <1>1, <1>4, <1>5, <1>6
  <1>8. \A l \in 1..k : l = k \/ l \in 1..k - 1
    BY <1>6
  <1>9. \A l \in 1..k - 1 : l \in 1..k
    BY <1>6
  <1>10. Range(chosen) = {chosen[j] : j \in DOMAIN chosen}
    BY DEF Range
  <1> HIDE DEF i, n
  <1>11. CASE score(i) < least \/ Len(chosen) >= most
              \/ \E j \in DOMAIN chosen : TooAlike(candidates[i], candidates[chosen[j]])
    <2>1. picked = chosen
      BY <1>11 DEF Choice
    <2>a. ASSUME score(i) < least PROVE GaveWay(candidates, most, least, chosen, i)
      BY <2>a DEF GaveWay
    <2>b. ASSUME Len(chosen) >= most PROVE GaveWay(candidates, most, least, chosen, i)
      <3>1. Len(chosen) = most
        BY <1>5, <2>b
      <3> QED BY <1>7, <3>1 DEF GaveWay
    <2>c. ASSUME \E j \in DOMAIN chosen : TooAlike(candidates[i], candidates[chosen[j]])
          PROVE  GaveWay(candidates, most, least, chosen, i)
      <3>1. PICK j \in Range(chosen) : TooAlike(candidates[i], candidates[j])
        BY <1>10, <2>c
      <3> QED BY <1>7, <3>1 DEF GaveWay
    <2>2. GaveWay(candidates, most, least, chosen, i)
      BY <1>11, <2>a, <2>b, <2>c
    <2>3. \A l \in 1..k : order[l] \notin Range(chosen) =>
            GaveWay(candidates, most, least, chosen, order[l])
      BY <1>5, <1>8, <2>2 DEF i
    <2>4. \A j \in Range(chosen) : \E l \in 1..k : j = order[l]
      BY <1>5, <1>9
    <2> QED BY <1>1, <1>5, <2>1, <2>3, <2>4 DEF ChosenWell, i
  <1>12. CASE ~(score(i) < least \/ Len(chosen) >= most
              \/ \E j \in DOMAIN chosen : TooAlike(candidates[i], candidates[chosen[j]]))
    <2>1. picked = Append(chosen, i)
      BY <1>12 DEF Choice
    <2> HIDE DEF picked
    <2>2. /\ picked \in Seq(1..n) /\ Len(picked) = Len(chosen) + 1
          /\ Range(picked) = Range(chosen) \cup {i}
      <3> DEFINE D == 1..n
      <3>1. chosen \in Seq(D) /\ i \in D
        BY <1>1, <1>5
      <3> HIDE DEF D
      <3>2. /\ Append(chosen, i) \in Seq(D) /\ Len(Append(chosen, i)) = Len(chosen) + 1
            /\ Range(Append(chosen, i)) = Range(chosen) \cup {i}
        BY <3>1, RangeOfAppended
      <3> QED BY <2>1, <3>2 DEF D
    <2>3. Len(picked) <= most
      BY <1>5, <1>12, <2>2
    <2>4. IsFiniteSet(Range(picked)) /\ Cardinality(Range(picked)) = Len(picked)
      <3>1. i \notin Range(chosen)
        BY <1>7
      <3>2. IsFiniteSet(Range(chosen))
        BY <1>5
      <3>3. IsFiniteSet(Range(chosen) \cup {i})
            /\ Cardinality(Range(chosen) \cup {i}) = Cardinality(Range(chosen)) + 1
        BY <3>1, <3>2, FS_AddElement
      <3> QED BY <1>5, <2>2, <3>3
    <2>5. \A j \in Range(picked) : \E l \in 1..k : j = order[l]
      <3>1. k \in 1..k
        BY <1>6
      <3> QED BY <1>5, <1>9, <2>2, <3>1 DEF i
    <2>6. \A j \in Range(picked) : score(j) >= least
      <3>1. score(i) >= least
        <4>1. ~(score(i) < least)
          BY <1>12
        <4>2. score(i) \in Int
          BY <1>1, <1>3
        <4> QED BY <4>1, <4>2
      <3> QED BY <1>5, <2>2, <3>1
    <2>7. \A j \in Range(chosen) : ~TooAlike(candidates[i], candidates[j])
                                   /\ ~TooAlike(candidates[j], candidates[i])
      BY <1>1, <1>2, <1>7, <1>10, <1>12, AlikeIsMutual
    <2>8. \A a, b \in Range(picked) : a # b => ~TooAlike(candidates[a], candidates[b])
      BY <1>5, <2>2, <2>7
    <2>9. ASSUME NEW l \in 1..k, order[l] \notin Range(picked)
          PROVE  GaveWay(candidates, most, least, picked, order[l])
      <3>1. l \in 1..k - 1
        BY <1>8, <2>2, <2>9 DEF i
      <3>2. GaveWay(candidates, most, least, chosen, order[l])
        BY <1>5, <2>2, <2>9, <3>1
      <3>3. Len(chosen) # most
        BY <1>5, <1>12
      <3> QED BY <2>2, <3>2, <3>3 DEF GaveWay
    <2> QED BY <1>1, <2>2, <2>3, <2>4, <2>5, <2>6, <2>8, <2>9 DEF ChosenWell, picked, i
  <1> QED BY <1>11, <1>12

(* What is selected is what is chosen after the last candidate, whatever    *)
(* the candidates are.                                                      *)
LEMMA SelectsWell ==
  ASSUME NEW candidates \in Seq(CandidateRecords), NEW most \in Nat, NEW least \in Int
  PROVE  \E order, chosen :
           /\ order \in [DOMAIN candidates -> DOMAIN candidates]
           /\ Sorts(order, [i \in DOMAIN candidates |-> -candidates[i].score])
           /\ ChosenWell(candidates, most, least, order, Len(candidates), chosen)
           /\ SelectTopNonOverlapping(candidates, most, least) = Range(chosen)
  <1> DEFINE n == Len(candidates)
             key == [i \in DOMAIN candidates |-> -candidates[i].score]
             order == Ranked(candidates)
             V == Seq(1..n)
             Op == [c \in (1..n) \X V |-> Choice(candidates, most, least, c[2], order[c[1]])]
             g == CHOOSE h : h = [s \in SUBSET (DOMAIN order) |->
                    IF s = {} THEN <<>>
                    ELSE Choice(candidates, most, least, h[s \ {Max(s)}], order[Max(s)])]
             r(k) == g[1..k]
  <1>1. n \in Nat /\ DOMAIN candidates = 1..n /\ \A j \in 1..n : candidates[j] \in CandidateRecords
    OBVIOUS
  <1>2. key \in [1..n -> Int]
    BY <1>1 DEF CandidateRecords
  <1>3. order \in [1..n -> 1..n] /\ Sorts(order, key)
    <2>1. order = Order(key)
      BY DEF Ranked
    <2> HIDE DEF order, key, n
    <2> QED BY <1>1, <1>2, <2>1, OrderSorts
  <1>4. SelectTopNonOverlapping(candidates, most, least) = Range(g[DOMAIN order])
    BY DEF SelectTopNonOverlapping, FoldLeft, MapThenFoldSet, Choice
  <1> HIDE DEF order, n, key
  <1>5. DOMAIN order = 1..n
    BY <1>3
  <1>6. ASSUME NEW chosen \in V, NEW i \in 1..n
        PROVE  Choice(candidates, most, least, chosen, i) \in V
    <2> DEFINE D == 1..n
    <2>1. chosen \in Seq(D) /\ i \in D
      BY <1>6
    <2> HIDE DEF D
    <2>2. Append(chosen, i) \in Seq(D)
      BY <2>1, RangeOfAppended
    <2> QED BY <1>6, <2>2 DEF Choice, D
  <1>7. Op \in [(1..n) \X V -> V]
    BY <1>3, <1>6
  <1>8. PICK h \in [SUBSET (1..n) -> V] :
          \A s \in SUBSET (1..n) : h[s] = IF s = {} THEN <<>> ELSE Op[<<Max(s), h[s \ {Max(s)}]>>]
    <2>1. \E h : Folding(h, n, V, <<>>, Op)
      <3>1. <<>> \in V /\ n \in Nat
        BY <1>1
      <3> HIDE DEF Op, V
      <3> QED BY <1>7, <3>1, FoldExists, Zenon
    <2> HIDE DEF Op, V
    <2> QED BY <2>1 DEF Folding
  <1>9. ASSUME NEW s \in SUBSET (1..n), s # {}
        PROVE  Op[<<Max(s), h[s \ {Max(s)}]>>]
               = Choice(candidates, most, least, h[s \ {Max(s)}], order[Max(s)])
    <2>1. Max(s) \in 1..n
      BY <1>1, <1>9, MaxIs
    <2> HIDE DEF V
    <2> QED BY <2>1
  <1>10. h = [s \in SUBSET (1..n) |->
                IF s = {} THEN <<>>
                ELSE Choice(candidates, most, least, h[s \ {Max(s)}], order[Max(s)])]
    <2> HIDE DEF Op, V
    <2> QED BY <1>8, <1>9
  <1>11. g = [s \in SUBSET (1..n) |->
                IF s = {} THEN <<>>
                ELSE Choice(candidates, most, least, g[s \ {Max(s)}], order[Max(s)])]
    BY <1>5, <1>10
  <1> HIDE DEF g
  <1>12. r(0) = <<>>
    BY <1>1, <1>11
  <1>13. ASSUME NEW k \in 1..n PROVE r(k) = Choice(candidates, most, least, r(k - 1), order[k])
    <2>1. /\ 1..k \in SUBSET (1..n) /\ 1..k # {} /\ Max(1..k) = k
          /\ (1..k) \ {Max(1..k)} = 1..k - 1
      BY <1>1, Firsts
    <2> QED BY <1>11, <2>1
  <1> HIDE DEF r
  <1> DEFINE Well(k) == ChosenWell(candidates, most, least, order, k, r(k))
             T == {k \in Nat : k <= n => Well(k)}
  <1>14. Well(0)
    <2>1. /\ <<>> \in Seq(DOMAIN candidates) /\ Len(<<>>) = 0 /\ Range(<<>>) = {}
          /\ IsFiniteSet({}) /\ Cardinality({}) = 0
      BY FS_EmptySet DEF Range
    <2>2. \A l \in 1..0 : FALSE
      OBVIOUS
    <2>3. /\ Len(<<>>) <= most
          /\ \A j \in {} : \E l \in 1..0 : j = order[l]
          /\ \A j \in {} : candidates[j].score >= least
          /\ \A i, j \in {} : i # j => ~TooAlike(candidates[i], candidates[j])
          /\ \A l \in 1..0 : order[l] \notin {} =>
               GaveWay(candidates, most, least, <<>>, order[l])
      BY <2>1, <2>2
    <2>4. ChosenWell(candidates, most, least, order, 0, <<>>)
      BY <2>1, <2>3, Zenon DEF ChosenWell
    <2> QED BY <1>12, <2>4
  <1>15. ASSUME NEW k \in Nat, k \in T PROVE k + 1 \in T
    <2> SUFFICES ASSUME k + 1 <= n PROVE Well(k + 1)
      OBVIOUS
    <2> DEFINE l == k + 1
    <2>0. Well(k)
      <3> HIDE DEF Well
      <3> QED BY <1>1, <1>15
    <2>1. l \in 1..n /\ l - 1 = k
      BY <1>1
    <2> HIDE DEF l
    <2>2. r(l) = Choice(candidates, most, least, r(k), order[l])
      BY <1>13, <2>1
    <2>3. /\ order \in [DOMAIN candidates -> DOMAIN candidates]
          /\ Sorts(order, [i \in DOMAIN candidates |-> -candidates[i].score])
          /\ l \in 1..Len(candidates)
          /\ ChosenWell(candidates, most, least, order, l - 1, r(k))
      BY <1>1, <1>3, <2>0, <2>1 DEF key, n
    <2>4. ChosenWell(candidates, most, least, order, l,
                     Choice(candidates, most, least, r(k), order[l]))
      BY <2>3, ChoosesWell
    <2>5. Well(l)
      BY <2>2, <2>4
    <2> QED BY <2>5 DEF l
  <1>16. Well(n)
    <2>1. \A k \in Nat : k \in T => k + 1 \in T
      BY <1>15
    <2>2. 0 \in T
      BY <1>14
    <2> HIDE DEF T, Well
    <2>3. n \in T
      BY <1>1, <2>1, <2>2, Induction
    <2> QED BY <1>1, <2>3 DEF T
  <1>17. SelectTopNonOverlapping(candidates, most, least) = Range(r(n))
    BY <1>4, <1>5 DEF r
  <1>18. /\ order \in [DOMAIN candidates -> DOMAIN candidates]
         /\ Sorts(order, [i \in DOMAIN candidates |-> -candidates[i].score])
         /\ ChosenWell(candidates, most, least, order, Len(candidates), r(n))
    BY <1>1, <1>3, <1>16 DEF key, n
  <1> QED BY <1>17, <1>18

(* What is rendered is few, good and different, and whatever was left out   *)
(* gave way to something at least as good: to one too like it or to a full  *)
(* list (select_top_non_overlapping).                                       *)
THEOREM BestAreSelected ==
  ASSUME NEW candidates \in Seq(CandidateRecords), NEW most \in Nat, NEW least \in Int
  PROVE  SelectionIsBest(candidates, most, least)
  <1> DEFINE n == Len(candidates)
             selected == SelectTopNonOverlapping(candidates, most, least)
             score(i) == candidates[i].score
  <1>1. PICK order, chosen :
           /\ order \in [DOMAIN candidates -> DOMAIN candidates]
           /\ Sorts(order, [i \in DOMAIN candidates |-> -candidates[i].score])
           /\ ChosenWell(candidates, most, least, order, n, chosen)
           /\ selected = Range(chosen)
    BY SelectsWell
  <1>2. n \in Nat /\ DOMAIN candidates = 1..n /\ \A j \in 1..n : score(j) \in Int
    <2>1. \A j \in 1..n : candidates[j] \in CandidateRecords
      OBVIOUS
    <2> QED BY <2>1 DEF CandidateRecords
  <1> HIDE DEF n, selected
  <1>3. /\ Len(chosen) <= most /\ Cardinality(selected) = Len(chosen)
        /\ \A j \in selected : score(j) >= least
        /\ \A i, j \in selected : i # j => ~TooAlike(candidates[i], candidates[j])
        /\ \A l \in 1..n : order[l] \notin selected =>
             GaveWay(candidates, most, least, chosen, order[l])
    BY <1>1 DEF ChosenWell
  <1>4. ASSUME NEW i \in (1..n) \ selected, score(i) >= least
        PROVE  \/ \E j \in selected : score(j) >= score(i) /\ TooAlike(candidates[i], candidates[j])
               \/ Cardinality(selected) = most /\ \A j \in selected : score(j) >= score(i)
    <2> DEFINE key == [j \in DOMAIN candidates |-> -score(j)]
    <2>1. DOMAIN key = 1..n
      BY <1>2
    <2>2. Sorts(order, key)
      BY <1>1
    <2> HIDE DEF key
    <2>3. PICK l \in 1..n : order[l] = i
      BY <2>1, <2>2 DEF Sorts
    <2>4. GaveWay(candidates, most, least, chosen, i)
      BY <1>3, <2>3
    <2>5. ~(score(i) < least)
      BY <1>2, <1>4
    <2> QED BY <1>1, <1>3, <2>4, <2>5 DEF GaveWay
  <1>5. /\ Cardinality(selected) <= most
        /\ \A i \in DOMAIN candidates \ selected : score(i) >= least =>
             \/ \E j \in selected : score(j) >= score(i) /\ TooAlike(candidates[i], candidates[j])
             \/ Cardinality(selected) = most /\ \A j \in selected : score(j) >= score(i)
    BY <1>2, <1>3, <1>4
  <1> QED BY <1>3, <1>5 DEF SelectionIsBest, selected

-----------------------------------------------------------------------------
(* Scores.  A sum grows with each of its numbers in the same way.           *)
LEMMA SumScales ==
  ASSUME NEW n \in Nat, NEW f \in [1..n -> Int], NEW g \in [1..n -> Int], NEW c \in Int,
         \A k \in 1..n : g[k] = c * f[k]
  PROVE  Sum(f) \in Int /\ Sum(g) \in Int /\ Sum(g) = c * Sum(f)
  <1>1. PICK r \in [0..n -> Int] :
          r[0] = 0 /\ (\A k \in 1..n : r[k] = r[k - 1] + f[k]) /\ Sum(f) = r[n]
    BY SumIs
  <1>2. PICK q \in [0..n -> Int] :
          q[0] = 0 /\ (\A k \in 1..n : q[k] = q[k - 1] + g[k]) /\ Sum(g) = q[n]
    BY SumIs
  <1> DEFINE T == {k \in Nat : k <= n => q[k] = c * r[k]}
  <1>3. 0 \in T
    <2>1. q[0] = c * r[0]
      <3>1. r[0] = 0 /\ q[0] = 0
        BY <1>1, <1>2
      <3> QED BY <3>1
    <2> QED BY <2>1
  <1>4. ASSUME NEW k \in Nat, k \in T PROVE k + 1 \in T
    <2> SUFFICES ASSUME k + 1 <= n PROVE q[k + 1] = c * r[k + 1]
      OBVIOUS
    <2>1. k + 1 \in 1..n /\ (k + 1) - 1 = k /\ k \in 0..n
      OBVIOUS
    <2>2. q[k] = c * r[k]
      BY <1>4
    <2>3. r[k + 1] = r[k] + f[k + 1] /\ q[k + 1] = q[k] + g[k + 1] /\ g[k + 1] = c * f[k + 1]
      BY <1>1, <1>2, <2>1
    <2>4. r[k] \in Int /\ f[k + 1] \in Int
      BY <2>1
    <2>5. c * (r[k] + f[k + 1]) = c * r[k] + c * f[k + 1]
      BY <2>4
    <2> QED BY <2>2, <2>3, <2>5
  <1>5. q[n] = c * r[n]
    <2>1. \A k \in Nat : k \in T => k + 1 \in T
      BY <1>4
    <2> HIDE DEF T
    <2>2. n \in T
      BY <1>3, <2>1, Induction
    <2> QED BY <2>2 DEF T
  <1> QED BY <1>1, <1>2, <1>5

LEMMA SumAtLeast ==
  ASSUME NEW n \in Nat, NEW f \in [1..n -> Nat]
  PROVE  Sum(f) \in Nat /\ \A k \in 1..n : f[k] <= Sum(f)
  <1>0. f \in [1..n -> Int]
    OBVIOUS
  <1>1. PICK r \in [0..n -> Int] :
          r[0] = 0 /\ (\A k \in 1..n : r[k] = r[k - 1] + f[k]) /\ Sum(f) = r[n]
    BY <1>0, SumIs
  <1> DEFINE T == {k \in Nat : k <= n => r[k] \in Nat /\ \A l \in 1..k : f[l] <= r[k]}
  <1>3. 0 \in T
    BY <1>1
  <1>4. ASSUME NEW k \in Nat, k \in T PROVE k + 1 \in T
    <2> SUFFICES ASSUME k + 1 <= n
                 PROVE r[k + 1] \in Nat /\ \A l \in 1..k + 1 : f[l] <= r[k + 1]
      OBVIOUS
    <2>1. k + 1 \in 1..n /\ (k + 1) - 1 = k /\ k \in 0..n
      OBVIOUS
    <2>2. r[k] \in Nat /\ \A l \in 1..k : f[l] <= r[k]
      BY <1>4
    <2>3. r[k + 1] = r[k] + f[k + 1] /\ f[k + 1] \in Nat
      BY <1>1, <2>1
    <2>4. \A l \in 1..k + 1 : l = k + 1 \/ l \in 1..k
      OBVIOUS
    <2>5. \A l \in 1..k : f[l] \in Nat
      BY <2>1
    <2> QED BY <2>2, <2>3, <2>4, <2>5
  <1>5. n \in T
    <2>1. \A k \in Nat : k \in T => k + 1 \in T
      BY <1>4
    <2> HIDE DEF T
    <2> QED BY <1>3, <2>1, Induction
  <1> QED BY <1>1, <1>5

LEMMA DivisionIs ==
  ASSUME NEW a \in Int, NEW b \in Nat \ {0}, NEW q \in Int, b * q <= a, a < b * q + b
  PROVE  a \div b = q
  <1> DEFINE d == a \div b
  <1>1. d \in Int /\ b * d <= a /\ a < b * d + b
    BY Division
  <1> HIDE DEF d
  <1>2. ~(d >= q + 1)
    <2>1. ASSUME d >= q + 1 PROVE b * (d - (q + 1)) >= 0
      BY <1>1, <2>1
    <2>2. b * (d - (q + 1)) = b * d - (b * q + b)
      BY <1>1
    <2>3. b * d \in Int /\ b * q \in Int
      BY <1>1
    <2> QED BY <1>1, <2>1, <2>2, <2>3
  <1>3. ~(d <= q - 1)
    <2>1. ASSUME d <= q - 1 PROVE b * ((q - 1) - d) >= 0
      BY <1>1, <2>1
    <2>2. b * ((q - 1) - d) = b * q - (b * d + b)
      BY <1>1
    <2>3. b * d \in Int /\ b * q \in Int
      BY <1>1
    <2> QED BY <1>1, <2>1, <2>2, <2>3
  <1> QED BY <1>1, <1>2, <1>3 DEF d

(* Of two sequences the one with the smaller numbers has the smaller sum.   *)
LEMMA SumGrows ==
  ASSUME NEW n \in Nat, NEW f \in [1..n -> Nat], NEW g \in [1..n -> Nat],
         \A k \in 1..n : f[k] <= g[k]
  PROVE  Sum(f) <= Sum(g)
  <1>0. f \in [1..n -> Int] /\ g \in [1..n -> Int]
    OBVIOUS
  <1>1. PICK r \in [0..n -> Int] :
          r[0] = 0 /\ (\A k \in 1..n : r[k] = r[k - 1] + f[k]) /\ Sum(f) = r[n]
    BY <1>0, SumIs
  <1>2. PICK q \in [0..n -> Int] :
          q[0] = 0 /\ (\A k \in 1..n : q[k] = q[k - 1] + g[k]) /\ Sum(g) = q[n]
    BY <1>0, SumIs
  <1> DEFINE T == {k \in Nat : k <= n => r[k] <= q[k]}
  <1>3. 0 \in T
    BY <1>1, <1>2
  <1>4. ASSUME NEW k \in Nat, k \in T PROVE k + 1 \in T
    <2> SUFFICES ASSUME k + 1 <= n PROVE r[k + 1] <= q[k + 1]
      OBVIOUS
    <2>1. k + 1 \in 1..n /\ (k + 1) - 1 = k /\ k \in 0..n
      OBVIOUS
    <2>2. r[k] <= q[k] /\ r[k] \in Int /\ q[k] \in Int
      BY <1>4, <2>1
    <2>3. r[k + 1] = r[k] + f[k + 1] /\ q[k + 1] = q[k] + g[k + 1] /\ f[k + 1] <= g[k + 1]
      BY <1>1, <1>2, <2>1
    <2>4. f[k + 1] \in Nat /\ g[k + 1] \in Nat
      BY <2>1
    <2> QED BY <2>2, <2>3, <2>4
  <1>5. n \in T
    <2>1. \A k \in Nat : k \in T => k + 1 \in T
      BY <1>4
    <2> HIDE DEF T
    <2> QED BY <1>3, <2>1, Induction
  <1> QED BY <1>1, <1>2, <1>5

(* The score of a part of the weight, to the nearest hundredth; of all the  *)
(* weight it is 10, of none 0.                                              *)
ShareScore(total, W, kept) ==
  Least(1000, (2000 * (W * kept) + total * W) \div (2 * total * W))

LEMMA ShareIsScored ==
  ASSUME NEW total \in Nat \ {0}, NEW W \in Nat \ {0}, NEW kept \in Nat, kept <= total
  PROVE  LET score == ShareScore(total, W, kept)
         IN /\ 2000 * kept <= 2 * total * score + total
            /\ 2 * total * score <= 2000 * kept + total
            /\ kept = total => score = 1000
            /\ kept = 0 => score = 0
  <1> DEFINE num == 2000 * (W * kept) + total * W
             den == 2 * total * W
             q == num \div den
             p == 2 * total
             m == 2000 * kept + total
  <1>1. p \in Nat \ {0} /\ m \in Nat /\ num = W * m /\ den = W * p
    OBVIOUS
  <1>2. W * m \in Int /\ W * p \in Nat \ {0}
    <2> HIDE DEF p, m
    <2> QED BY <1>1
  <1>3. q \in Int /\ den * q <= num /\ num < den * q + den
    <2>1. num \in Int /\ den \in Nat \ {0}
      <3> HIDE DEF num, den, p, m
      <3> QED BY <1>1, <1>2
    <2> HIDE DEF num, den
    <2> QED BY <2>1, Division
  <1> HIDE DEF num, den, q
  <1>4. p * q <= m /\ m < p * q + p
    <2> HIDE DEF p, m
    <2>1. W * (p * q) <= W * m
      BY <1>1, <1>3
    <2>2. p * q \in Int
      BY <1>1, <1>3
    <2>3. p * q <= m
      BY <1>1, <2>1, <2>2, Cancel
    <2>4. ASSUME p * q + p <= m PROVE FALSE
      <3>1. p * q + p \in Int
        BY <1>1, <2>2
      <3>2. W * (p * q + p) <= W * m
        BY <1>1, <2>4, <3>1, Times
      <3>3. W * (p * q + p) = W * (p * q) + W * p /\ W * (p * q) = (W * p) * q
        BY <1>1, <1>3, <2>2
      <3> QED BY <1>1, <1>2, <1>3, <3>2, <3>3
    <2> QED BY <1>1, <2>2, <2>3, <2>4
  <1>5. p * q \in Int /\ p = 2 * total
    <2> HIDE DEF p
    <2> QED BY <1>1, <1>3 DEF p
  <1>6. q <= 1000
    <2>1. SUFFICES ASSUME 1001 <= q PROVE FALSE
      BY <1>3
    <2>2. p * 1001 <= p * q
      BY <1>1, <1>3, <2>1, Times
    <2> QED BY <1>4, <1>5, <2>2
  <1>7. Least(1000, q) = q
    BY <1>3, <1>6 DEF Least
  <1>8. ASSUME kept = total PROVE q = 1000
    <2>1. SUFFICES ASSUME q <= 999 PROVE FALSE
      BY <1>3, <1>6
    <2>2. p * q <= p * 999
      BY <1>1, <1>3, <2>1, Times
    <2> QED BY <1>4, <1>5, <1>8, <2>2
  <1>9. ASSUME kept = 0 PROVE q = 0
    <2>1. ~(1 <= q)
      <3>1. SUFFICES ASSUME 1 <= q PROVE FALSE
        OBVIOUS
      <3>2. p * 1 <= p * q
        BY <1>1, <1>3, <3>1, Times
      <3> QED BY <1>4, <1>5, <1>9, <3>2
    <2>2. ~(q <= -1)
      <3>1. SUFFICES ASSUME q <= -1 PROVE FALSE
        OBVIOUS
      <3>2. p * q <= p * (-1)
        BY <1>1, <1>3, <3>1, Times
      <3> QED BY <1>4, <1>5, <1>9, <3>2
    <2> QED BY <1>3, <2>1, <2>2
  <1>10. 2 * total * q = p * q
    OBVIOUS
  <1> HIDE DEF p
  <1>11. /\ 2000 * kept <= 2 * total * q + total
         /\ 2 * total * q <= 2000 * kept + total
    BY <1>4, <1>5, <1>10
  <1> QED BY <1>7, <1>8, <1>9, <1>11 DEF ShareScore, q, num, den

(* A clip's score, when each feature is at its cap or at nothing.           *)
LEMMA ScoreIs ==
  ASSUME NEW weights \in AnyWeights, NEW has \in [Features -> BOOLEAN]
  PROVE  LET features == [f \in Features |-> IF has[f] THEN Whole ELSE 0]
             total == TotalWeight(weights)
             kept == TotalWeight([f \in Features |-> IF has[f] THEN weights[f] ELSE 0])
             score == ScoreOutOf10(features, weights)
         IN /\ total \in Nat /\ kept \in Nat /\ kept <= total
            /\ \A f \in Features : weights[f] <= total /\ (has[f] => weights[f] <= kept)
            /\ total = 0 => score = 0
            /\ total > 0 => score = ShareScore(total, Whole, kept)
  <1> DEFINE features == [f \in Features |-> IF has[f] THEN Whole ELSE 0]
             counts == [f \in Features |-> IF has[f] THEN weights[f] ELSE 0]
             all == [k \in 1..9 |-> weights[Listed[k]]]
             some == [k \in 1..9 |-> counts[Listed[k]]]
             earned == [k \in 1..9 |-> features[Listed[k]] * weights[Listed[k]]]
  <1>1. /\ DOMAIN Listed = 1..9 /\ \A k \in 1..9 : Listed[k] \in Features
        /\ \A f \in Features : \E k \in 1..9 : Listed[k] = f
    BY DEF Listed, Features, Counted, Heard
  <1>2. /\ Whole \in Nat \ {0}
        /\ \A f \in Features : weights[f] \in Nat /\ has[f] \in BOOLEAN
    BY ScoringAssumption DEF AnyWeights
  <1>3. /\ \A f \in Features : counts[f] \in Nat /\ counts[f] <= weights[f]
        /\ \A f \in Features : has[f] => counts[f] = weights[f]
        /\ \A f \in Features : features[f] * weights[f] = Whole * counts[f]
    <2> SUFFICES ASSUME NEW f \in Features
                 PROVE  /\ counts[f] \in Nat /\ counts[f] <= weights[f]
                        /\ has[f] => counts[f] = weights[f]
                        /\ features[f] * weights[f] = Whole * counts[f]
      BY Zenon
    <2>1. CASE has[f]
      <3>1. features[f] = Whole /\ counts[f] = weights[f]
        BY <2>1
      <3> QED BY <1>2, <3>1
    <2>2. CASE ~has[f]
      <3>1. features[f] = 0 /\ counts[f] = 0
        BY <2>2
      <3> QED BY <1>2, <2>2, <3>1
    <2> QED BY <2>1, <2>2
  <1>4. /\ TotalWeight(weights) = Sum(all) /\ TotalWeight(counts) = Sum(some)
        /\ Composite(features, weights) = Sum(earned)
    BY <1>1 DEF TotalWeight, Composite
  <1> HIDE DEF features, counts
  <1>5. /\ all \in [1..9 -> Nat] /\ \A k \in 1..9 : all[k] = weights[Listed[k]]
        /\ some \in [1..9 -> Nat] /\ \A k \in 1..9 : some[k] = counts[Listed[k]]
        /\ \A k \in 1..9 : some[k] <= all[k]
    BY <1>1, <1>2, <1>3
  <1>6. \A k \in 1..9 : earned[k] = Whole * some[k]
    BY <1>1, <1>3
  <1>7. earned \in [1..9 -> Int]
    <2>1. \A k \in 1..9 : earned[k] \in Int
      <3> HIDE DEF earned, some, all
      <3>1. ASSUME NEW k \in 1..9 PROVE earned[k] \in Int
        <4>1. some[k] \in Nat /\ earned[k] = Whole * some[k]
          BY <1>5, <1>6
        <4> QED BY <1>2, <4>1
      <3> QED BY <3>1
    <2> QED BY <2>1
  <1> HIDE DEF earned, some, all
  <1>8. /\ Sum(all) \in Nat /\ \A k \in 1..9 : all[k] <= Sum(all)
        /\ Sum(some) \in Nat /\ \A k \in 1..9 : some[k] <= Sum(some)
    BY <1>5, SumAtLeast
  <1>9. Sum(some) <= Sum(all)
    BY <1>5, SumGrows
  <1>10. Sum(earned) = Whole * Sum(some)
    <2>1. some \in [1..9 -> Int] /\ Whole \in Int /\ 9 \in Nat
      BY <1>2, <1>5
    <2> QED BY <1>6, <1>7, <2>1, SumScales
  <1>11. \A f \in Features : weights[f] <= Sum(all) /\ (has[f] => weights[f] <= Sum(some))
    <2> SUFFICES ASSUME NEW f \in Features
                 PROVE  weights[f] <= Sum(all) /\ (has[f] => weights[f] <= Sum(some))
      OBVIOUS
    <2>1. PICK k \in 1..9 : Listed[k] = f
      BY <1>1
    <2>2. all[k] = weights[f] /\ some[k] = counts[f]
      BY <1>5, <2>1
    <2> QED BY <1>3, <1>8, <2>2
  <1>12. /\ Sum(all) = 0 => ScoreOutOf10(features, weights) = 0
         /\ Sum(all) > 0 => ScoreOutOf10(features, weights) = ShareScore(Sum(all), Whole, Sum(some))
    BY <1>4, <1>8, <1>10 DEF ScoreOutOf10, ShareScore
  <1> QED BY <1>4, <1>8, <1>9, <1>11, <1>12 DEF features, counts

(* What the best clip and the worst one score, whatever the weights and     *)
(* whether audio events are scored and heard: nothing for the worst, for    *)
(* the best the share of the weight that can be earned, which is 10 unless  *)
(* weight is given to what cannot be had (score_out_of_10 with              *)
(* _weights_from_settings).                                                 *)
THEOREM ScoresRangeFully ==
  ASSUME NEW weights \in AnyWeights, NEW enabled \in BOOLEAN, NEW heard \in BOOLEAN
  PROVE  FullRange(weights, enabled, heard)
  <1> DEFINE inForce == WeightsInForce(weights, enabled)
             has == [f \in Features |-> CanBeHad(f, enabled, heard)]
             hasNone == [f \in Features |-> FALSE]
             total == TotalWeight(inForce)
             kept == WeightThatCounts(weights, enabled, heard)
             best == ScoreOutOf10(BestFeatures(enabled, heard), inForce)
             worst == ScoreOutOf10([f \in Features |-> 0], inForce)
             none == TotalWeight([f \in Features |-> 0])
  <1>1. inForce \in AnyWeights
    BY DEF WeightsInForce, AnyWeights
  <1>2. has \in [Features -> BOOLEAN] /\ hasNone \in [Features -> BOOLEAN]
    BY DEF CanBeHad
  <1>3. Whole \in Nat \ {0}
    BY ScoringAssumption
  <1>4. /\ BestFeatures(enabled, heard) = [f \in Features |-> IF has[f] THEN Whole ELSE 0]
        /\ kept = TotalWeight([f \in Features |-> IF has[f] THEN inForce[f] ELSE 0])
    BY DEF BestFeatures, WeightThatCounts
  <1>5. /\ [f \in Features |-> IF hasNone[f] THEN Whole ELSE 0] = [f \in Features |-> 0]
        /\ [f \in Features |-> IF hasNone[f] THEN inForce[f] ELSE 0] = [f \in Features |-> 0]
    OBVIOUS
  <1> HIDE DEF inForce, has, hasNone
  <1>6. /\ total \in Nat /\ kept \in Nat /\ kept <= total
        /\ \A f \in Features : inForce[f] <= total /\ (has[f] => inForce[f] <= kept)
        /\ total = 0 => best = 0
        /\ total > 0 => best = ShareScore(total, Whole, kept)
    BY <1>1, <1>2, <1>4, ScoreIs
  <1>7. /\ none \in Nat /\ none <= total
        /\ total = 0 => worst = 0
        /\ total > 0 => worst = ShareScore(total, Whole, none)
    BY <1>1, <1>2, <1>5, ScoreIs
  <1>8. none = 0
    <2>1. none = Sum([k \in 1..9 |-> 0])
      <3>1. DOMAIN Listed = 1..9 /\ \A k \in 1..9 : Listed[k] \in Features
        BY DEF Listed, Features, Counted, Heard
      <3> QED BY <3>1 DEF TotalWeight
    <2> DEFINE zeros == [k \in 1..9 |-> 0]
    <2>2. zeros \in [1..9 -> Int] /\ 0 \in Int /\ 9 \in Nat /\ \A k \in 1..9 : zeros[k] = 0 * zeros[k]
      OBVIOUS
    <2> HIDE DEF zeros
    <2>3. Sum(zeros) \in Int /\ Sum(zeros) = 0 * Sum(zeros)
      BY <2>2, SumScales
    <2>4. Sum(zeros) = 0
      BY <2>3
    <2> QED BY <2>1, <2>4 DEF zeros
  <1> HIDE DEF total, kept, best, worst, none
  <1>9. worst = 0
    <2>1. CASE total > 0
      BY <1>3, <1>6, <1>7, <1>8, <2>1, ShareIsScored
    <2> QED BY <1>6, <1>7, <2>1
  <1>10. ASSUME total > 0
         PROVE  /\ 2000 * kept <= 2 * total * best + total
                /\ 2 * total * best <= 2000 * kept + total
                /\ kept = total => best = 1000
    <2>1. total \in Nat \ {0} /\ kept \in Nat /\ kept <= total
      BY <1>6, <1>10
    <2>2. best = ShareScore(total, Whole, kept)
      BY <1>6, <1>10
    <2> QED BY <1>3, <2>1, <2>2, ShareIsScored
  <1>11. ASSUME \E f \in Features : CanBeHad(f, enabled, heard) /\ weights[f] > 0,
                weights["motion_proxy"] = 0,
                enabled /\ ~heard => \A f \in Heard : weights[f] = 0
         PROVE  total > 0 /\ kept = total
    <2>1. \A f \in Features : weights[f] \in Nat
      BY DEF AnyWeights
    <2>2. PICK f \in Features : CanBeHad(f, enabled, heard) /\ weights[f] > 0
      BY <1>11
    <2>3. inForce[f] = weights[f]
      BY <2>2 DEF inForce, WeightsInForce, CanBeHad
    <2>4. total > 0
      BY <1>6, <2>1, <2>2, <2>3
    <2>5. \A g \in Features : ~has[g] => inForce[g] = 0
      BY <1>11 DEF inForce, has, WeightsInForce, CanBeHad
    <2>6. [g \in Features |-> IF has[g] THEN inForce[g] ELSE 0] = inForce
      <3>1. inForce \in [Features -> Nat]
        BY <1>1 DEF AnyWeights
      <3> QED BY <2>5, <3>1
    <2>7. kept = total
      BY <1>4, <2>6 DEF kept, total
    <2> QED BY <2>4, <2>7
  <1>12. 2 * (1000 * kept) = 2000 * kept
    BY <1>6
  <1> QED BY <1>9, <1>10, <1>11, <1>12 DEF FullRange, total, kept, best, worst, inForce

LEMMA DivisionGrows ==
  ASSUME NEW a \in Int, NEW b \in Int, NEW c \in Nat \ {0}, a <= b
  PROVE  a \div c <= b \div c /\ a \div c \in Int /\ b \div c \in Int
  <1>1. /\ b \div c \in Int /\ b < c * (b \div c) + c
        /\ a \div c \in Int /\ c * (a \div c) <= a
    BY Division
  <1> DEFINE p == a \div c
             q == b \div c
  <1>2. p \in Int /\ q \in Int /\ b < c * q + c /\ c * p <= a
    BY <1>1
  <1> HIDE DEF p, q
  <1>3. ~(p >= q + 1)
    <2>1. ASSUME p >= q + 1 PROVE c * (p - (q + 1)) >= 0
      BY <1>2, <2>1
    <2>2. c * (p - (q + 1)) = c * p - (c * q + c)
      BY <1>2
    <2>3. c * p \in Int /\ c * q \in Int
      BY <1>2
    <2> QED BY <1>2, <2>1, <2>2, <2>3
  <1> QED BY <1>2, <1>3 DEF p, q

LEMMA CappedGrows ==
  ASSUME NEW a \in Int, NEW b \in Int, NEW cap \in Nat \ {0}, a <= b
  PROVE  Capped(a, cap, 1) <= Capped(b, cap, 1)
  <1>1. Whole \in Nat
    BY ScoringAssumption
  <1>2. cap * Greatest(1, 1) = cap
    BY DEF Greatest
  <1> DEFINE x == Whole * a
             y == Whole * b
  <1>3. x \in Int /\ y \in Int /\ x <= y
    <2>1. y - x = Whole * (b - a) /\ Whole * (b - a) >= 0
      BY <1>1
    <2>2. x \in Int /\ y \in Int
      BY <1>1
    <2> HIDE DEF x, y
    <2> QED BY <2>1, <2>2
  <1>4. Capped(a, cap, 1) = Least(Whole, x \div cap) /\ Capped(b, cap, 1) = Least(Whole, y \div cap)
    BY <1>2 DEF Capped
  <1> HIDE DEF x, y
  <1>5. x \div cap <= y \div cap /\ x \div cap \in Int /\ y \div cap \in Int
    BY <1>3, DivisionGrows
  <1> QED BY <1>1, <1>4, <1>5 DEF Least

(* The least of a number that each of some indices has.                     *)
LEMMA MinOf ==
  ASSUME NEW n \in Nat, NEW f \in [1..n -> Int], NEW s \in SUBSET (1..n), s # {}
  PROVE  LET low == Min({f[i] : i \in s})
         IN low \in Int /\ (\E i \in s : low = f[i]) /\ \A i \in s : low <= f[i]
  <1> DEFINE Bounded(m) == \A t \in SUBSET (1..m) : t # {} => \E i \in t : \A j \in t : f[i] <= f[j]
             T == {m \in Nat : m <= n => Bounded(m)}
  <1>1. 0 \in T
    <2>1. \A t \in SUBSET (1..0) : t = {}
      OBVIOUS
    <2> QED BY <2>1
  <1>2. ASSUME NEW m \in Nat, m \in T PROVE m + 1 \in T
    <2>b. SUFFICES ASSUME m + 1 <= n PROVE Bounded(m + 1)
      <3> HIDE DEF Bounded
      <3> QED OBVIOUS
    <2> SUFFICES ASSUME NEW t \in SUBSET (1..m + 1), t # {}
                 PROVE  \E i \in t : \A j \in t : f[i] <= f[j]
      OBVIOUS
    <2>0. Bounded(m)
      <3> HIDE DEF Bounded
      <3> QED BY <1>2, <2>b
    <2>a. \A i \in 1..m + 1 : f[i] \in Int
      BY <2>b
    <2> DEFINE u == t \ {m + 1}
    <2>1. u \in SUBSET (1..m)
      OBVIOUS
    <2>2. CASE u = {}
      <3>1. t = {m + 1}
        BY <2>2
      <3> QED BY <2>a, <3>1
    <2>3. CASE u # {}
      <3>1. PICK i \in u : \A j \in u : f[i] <= f[j]
        BY <2>0, <2>1, <2>3
      <3>2. CASE m + 1 \notin t
        BY <3>1, <3>2
      <3>3. CASE m + 1 \in t /\ f[i] <= f[m + 1]
        BY <3>1, <3>3
      <3>4. CASE m + 1 \in t /\ ~(f[i] <= f[m + 1])
        <4>1. f[i] \in Int /\ f[m + 1] \in Int /\ f[m + 1] <= f[i]
          BY <2>a, <3>4
        <4>2. \A j \in u : f[j] \in Int /\ f[i] <= f[j]
          BY <2>a, <3>1
        <4>3. \A j \in u : f[m + 1] <= f[j]
          BY <4>1, <4>2
        <4>4. f[m + 1] <= f[m + 1] /\ \A j \in t : j \in u \/ j = m + 1
          BY <4>1
        <4> QED BY <3>4, <4>3, <4>4
      <3> QED BY <3>2, <3>3, <3>4
    <2> QED BY <2>2, <2>3
  <1>3. \A m \in Nat : m \in T => m + 1 \in T
    BY <1>2
  <1>4. Bounded(n)
    <2> HIDE DEF T, Bounded
    <2>1. n \in T
      BY <1>1, <1>3, Induction
    <2> QED BY <2>1 DEF T
  <1>5. PICK i \in s : \A j \in s : f[i] <= f[j]
    BY <1>4
  <1> DEFINE numbers == {f[j] : j \in s}
  <1>6. \E x \in numbers : \A y \in numbers : x <= y
    BY <1>5
  <1>7. Min(numbers) \in numbers /\ \A y \in numbers : Min(numbers) <= y
    BY <1>6 DEF Min
  <1> QED BY <1>7

(* Sets without a common member, within another.                            *)
LEMMA DisjointSum ==
  ASSUME NEW n \in Nat, NEW B, IsFiniteSet(B), NEW A \in [1..n -> SUBSET B],
         \A k, l \in 1..n : k < l => A[k] \cap A[l] = {}
  PROVE  LET f == [k \in 1..n |-> Cardinality(A[k])]
         IN Sum(f) \in Int /\ Sum(f) <= Cardinality(B)
  <1> DEFINE f == [k \in 1..n |-> Cardinality(A[k])]
             U(k) == {x \in B : \E j \in 1..k : x \in A[j]}
  <1>1. \A k \in 1..n : IsFiniteSet(A[k]) /\ Cardinality(A[k]) \in Nat /\ A[k] \subseteq B
    BY FS_Subset, FS_CardinalityType
  <1>2. f \in [1..n -> Int] /\ \A k \in 1..n : f[k] = Cardinality(A[k])
    BY <1>1
  <1> HIDE DEF f
  <1>3. PICK r \in [0..n -> Int] :
          r[0] = 0 /\ (\A k \in 1..n : r[k] = r[k - 1] + f[k]) /\ Sum(f) = r[n]
    BY <1>2, SumIs
  <1> DEFINE T == {k \in Nat : k <= n => IsFiniteSet(U(k)) /\ Cardinality(U(k)) = r[k]}
  <1>4. 0 \in T
    <2>1. U(0) = {}
      OBVIOUS
    <2> QED BY <1>3, <2>1, FS_EmptySet
  <1>5. ASSUME NEW k \in Nat, k \in T PROVE k + 1 \in T
    <2> DEFINE m == k + 1
    <2> SUFFICES ASSUME m <= n PROVE IsFiniteSet(U(m)) /\ Cardinality(U(m)) = r[m]
      OBVIOUS
    <2>1. m \in 1..n /\ m - 1 = k /\ k <= n /\ \A j \in 1..m : j \in 1..n /\ (j = m \/ (j \in 1..k /\ j < m))
      OBVIOUS
    <2>2. IsFiniteSet(U(k)) /\ Cardinality(U(k)) = r[k]
      BY <1>5, <2>1
    <2>6. \A j \in 1..k : j \in 1..m
      OBVIOUS
    <2>7. \A j \in 1..k : j < m /\ j \in 1..n
      BY <2>1
    <2> HIDE DEF m
    <2>3. U(m) = U(k) \cup A[m]
      <3>1. A[m] \subseteq B /\ m \in 1..m
        BY <1>1, <2>1
      <3> QED BY <2>1, <2>6, <3>1
    <2>4. U(k) \cap A[m] = {}
      BY <2>1, <2>7
    <2>5. IsFiniteSet(A[m]) /\ f[m] = Cardinality(A[m]) /\ f[m] \in Int /\ r[k] \in Int
      BY <1>1, <1>2, <2>1
    <2> DEFINE V == U(k)
               W == A[m]
    <2>8. IsFiniteSet(V) /\ IsFiniteSet(W) /\ V \cap W = {} /\ Cardinality({}) = 0
      BY <2>2, <2>4, <2>5, FS_EmptySet
    <2> HIDE DEF V, W
    <2>9. IsFiniteSet(V \cup W)
          /\ Cardinality(V \cup W) = Cardinality(V) + Cardinality(W) - Cardinality(V \cap W)
      BY <2>8, FS_Union
    <2>10. IsFiniteSet(U(m)) /\ Cardinality(U(m)) = Cardinality(V) + Cardinality(W) - 0
      BY <2>3, <2>8, <2>9 DEF V, W
    <2>11. Cardinality(V) = r[k] /\ Cardinality(W) = f[m] /\ r[m] = r[k] + f[m]
      BY <1>3, <2>1, <2>2, <2>5 DEF V, W
    <2> HIDE DEF U
    <2> QED BY <2>5, <2>10, <2>11
  <1>6. IsFiniteSet(U(n)) /\ Cardinality(U(n)) = r[n]
    <2>1. \A k \in Nat : k \in T => k + 1 \in T
      BY <1>5
    <2> HIDE DEF T
    <2>2. n \in T
      BY <1>4, <2>1, Induction
    <2> QED BY <2>2 DEF T
  <1>7. Cardinality(U(n)) <= Cardinality(B)
    BY FS_Subset
  <1> QED BY <1>3, <1>6, <1>7 DEF f

LEMMA Elements ==
  ASSUME NEW S, NEW s \in Seq(S)
  PROVE  Len(s) \in Nat /\ DOMAIN s = 1..Len(s) /\ \A k \in DOMAIN s : s[k] \in S
  OBVIOUS

LEMMA ScoredIs ==
  ASSUME NEW segments, Scored(segments)
  PROVE  /\ Len(segments) \in Nat /\ DOMAIN segments = 1..Len(segments)
         /\ \A k \in DOMAIN segments :
              /\ segments[k].start \in Int /\ segments[k].end \in Int
              /\ segments[k].asks \in Nat /\ segments[k].hits \in Nat
         /\ \A k, l \in DOMAIN segments : k < l => segments[k].start <= segments[l].start
  <1> DEFINE S == [start : Int, end : Int, words : Nat, asks : Nat, hits : Nat]
  <1>1. segments \in Seq(S)
    BY DEF Scored
  <1> HIDE DEF S
  <1>2. Len(segments) \in Nat /\ DOMAIN segments = 1..Len(segments)
        /\ \A k \in DOMAIN segments : segments[k] \in S
    BY <1>1, Elements
  <1> QED BY <1>2 DEF Scored, S

(* A part of a clip, and a window that has all of it.                       *)
LEMMA PauseIsInSpan ==
  ASSUME NEW segments, Scored(segments), NEW p \in WindowTimes, NEW s \in WindowTimes,
         s[1] <= p[1], p[2] <= s[2],
         NEW i \in InWindow(segments, p), NEW j \in InWindow(segments, p),
         j < i, \A k \in InWindow(segments, p) : k <= j \/ i <= k,
         segments[i].start - segments[j].end >= PauseBeat
  PROVE  \E x \in InWindow(segments, s) :
           /\ x < i /\ \A k \in InWindow(segments, s) : k <= x \/ i <= k
           /\ segments[i].start - segments[x].end >= PauseBeat
  <1> DEFINE n == Len(segments)
             before == {k \in InWindow(segments, s) : k < i}
             x == Max(before)
             start(k) == segments[k].start
             end(k) == segments[k].end
  <1>1. /\ n \in Nat /\ DOMAIN segments = 1..n
        /\ \A k, l \in 1..n : k < l => start(k) <= start(l)
    BY ScoredIs
  <1>2. \A k \in 1..n : start(k) \in Int /\ end(k) \in Int
    BY ScoredIs
  <1>3. p[1] \in Int /\ p[2] \in Int /\ s[1] \in Int /\ s[2] \in Int
    BY DEF WindowTimes
  <1>p. PauseBeat \in Nat
    BY ScoringAssumption
  <1> HIDE DEF n, start, end
  <1>4. /\ \A k : k \in InWindow(segments, p) <=> k \in 1..n /\ end(k) > p[1] /\ start(k) < p[2]
        /\ \A k : k \in InWindow(segments, s) <=> k \in 1..n /\ end(k) > s[1] /\ start(k) < s[2]
    BY <1>1 DEF InWindow, start, end
  <1>5. InWindow(segments, p) \subseteq InWindow(segments, s)
    BY <1>2, <1>3, <1>4
  <1>6. before \in SUBSET (1..n) /\ j \in before
    BY <1>4, <1>5
  <1> DEFINE y == x
  <1>7. x \in before /\ \A k \in before : k <= x
    <2> HIDE DEF before
    <2> QED BY <1>1, <1>6, MaxIs
  <1> HIDE DEF x
  <1>8. i \in 1..n /\ j \in 1..n /\ x \in 1..n /\ x \in InWindow(segments, s) /\ j <= x /\ x < i
    BY <1>4, <1>6, <1>7
  <1>9. \A k \in InWindow(segments, s) : k <= x \/ i <= k
    BY <1>4, <1>7, <1>8
  <1>10. end(x) <= end(j)
    <2>1. CASE x = j
      BY <1>2, <1>8, <2>1
    <2>2. CASE j < x
      <3>1. x \notin InWindow(segments, p)
        BY <1>8, <2>2
      <3>2. start(x) <= start(i) /\ start(i) < p[2] /\ end(j) > p[1]
        BY <1>1, <1>4, <1>8 DEF start
      <3>3. start(x) < p[2]
        BY <1>2, <1>3, <1>8, <3>2
      <3>4. end(x) <= p[1]
        BY <1>2, <1>3, <1>4, <1>8, <3>1, <3>3
      <3> QED BY <1>2, <1>3, <1>8, <3>2, <3>4
    <2> QED BY <1>8, <2>1, <2>2
  <1>11. start(i) - end(j) >= PauseBeat
    BY DEF start, end
  <1>12. start(i) - end(x) >= PauseBeat
    BY <1>2, <1>p, <1>8, <1>10, <1>11
  <1> QED BY <1>8, <1>9, <1>12 DEF start, end

Pauses(segments, w) ==
  {i \in InWindow(segments, w) : \E j \in InWindow(segments, w) :
     /\ j < i /\ \A k \in InWindow(segments, w) : k <= j \/ i <= k
     /\ segments[i].start - segments[j].end >= PauseBeat}

LEMMA PausesOfSpan ==
  ASSUME NEW segments, Scored(segments), NEW p \in WindowTimes, NEW s \in WindowTimes,
         s[1] <= p[1], p[2] <= s[2]
  PROVE  Pauses(segments, p) \subseteq Pauses(segments, s)
  <1> SUFFICES ASSUME NEW i \in Pauses(segments, p) PROVE i \in Pauses(segments, s)
    OBVIOUS
  <1>1. PICK j \in InWindow(segments, p) :
          /\ j < i /\ \A k \in InWindow(segments, p) : k <= j \/ i <= k
          /\ segments[i].start - segments[j].end >= PauseBeat
    BY DEF Pauses
  <1>2. i \in InWindow(segments, p)
    BY DEF Pauses
  <1>3. \E x \in InWindow(segments, s) :
           /\ x < i /\ \A k \in InWindow(segments, s) : k <= x \/ i <= k
           /\ segments[i].start - segments[x].end >= PauseBeat
    BY <1>1, <1>2, PauseIsInSpan
  <1>4. i \in InWindow(segments, s)
    <2>1. \A k \in DOMAIN segments : segments[k].start \in Int /\ segments[k].end \in Int
      BY ScoredIs
    <2>2. p[1] \in Int /\ p[2] \in Int /\ s[1] \in Int /\ s[2] \in Int
      BY DEF WindowTimes
    <2> QED BY <1>2, <2>1, <2>2 DEF InWindow
  <1> QED BY <1>3, <1>4 DEF Pauses

LEMMA PausesApart ==
  ASSUME NEW segments, Scored(segments), NEW p \in WindowTimes, NEW q \in WindowTimes, p[2] <= q[1]
  PROVE  Pauses(segments, p) \cap Pauses(segments, q) = {}
  <1> SUFFICES ASSUME NEW i \in Pauses(segments, p), i \in Pauses(segments, q) PROVE FALSE
    OBVIOUS
  <1>1. PICK j \in InWindow(segments, q) :
          j < i /\ segments[i].start - segments[j].end >= PauseBeat
    BY DEF Pauses
  <1>2. i \in InWindow(segments, p) /\ i \in DOMAIN segments /\ j \in DOMAIN segments
    BY <1>1 DEF Pauses, InWindow
  <1>3. /\ segments[i].start \in Int /\ segments[j].end \in Int /\ PauseBeat \in Nat
        /\ p[2] \in Int /\ q[1] \in Int
    BY <1>2, ScoredIs, ScoringAssumption DEF WindowTimes
  <1>4. segments[i].start < p[2] /\ segments[j].end > q[1]
    BY <1>1, <1>2 DEF InWindow
  <1> QED BY <1>1, <1>3, <1>4

LEMMA NormalizedIs ==
  ASSUME NEW segments, NEW parts, NEW cuts, NEW events
  PROVE  LET features == Normalized(segments, parts, cuts, events)
         IN /\ features["pause_count"] =
                 Capped(Sum([k \in DOMAIN parts |-> PauseCount(segments, parts[k])]), Caps["pause_count"], 1)
            /\ features["scene_changes"] =
                 Capped(Sum([k \in DOMAIN parts |-> SceneChangeCount(cuts, parts[k])]), Caps["scene_changes"], 1)
            /\ features["hook_strength"] = HookStrength(segments, parts[1])
  <1> DEFINE features == Normalized(segments, parts, cuts, events)
  <1>1. "pause_count" \in Counted /\ "scene_changes" \in Counted /\ "hook_strength" \in Features
        /\ "pause_count" \in Features /\ "scene_changes" \in Features
        /\ "pause_count" \notin Heard /\ "scene_changes" \notin Heard
        /\ "pause_count" # "speech_density" /\ "scene_changes" # "speech_density"
        /\ "hook_strength" \notin Counted /\ "hook_strength" \notin Heard
    BY DEF Counted, Features, Heard
  <1>2. features["pause_count"] =
          Capped(Sum([k \in DOMAIN parts |-> PauseCount(segments, parts[k])]), Caps["pause_count"], 1)
    <2> DEFINE per(f) == IF f = "speech_density" THEN Sum([k \in DOMAIN parts |-> Duration(parts[k])]) ELSE 1
    <2>0. per("pause_count") = 1
      BY <1>1
    <2> HIDE DEF per
    <2>1. features["pause_count"] =
            Capped(Sum(Raw(segments, parts, cuts, "pause_count")), Caps["pause_count"], per("pause_count"))
      BY <1>1, Zenon DEF Normalized, per
    <2>2. Raw(segments, parts, cuts, "pause_count")
            = [k \in DOMAIN parts |-> PauseCount(segments, parts[k])]
      BY DEF Raw
    <2> QED BY <2>0, <2>1, <2>2
  <1>3. features["scene_changes"] =
          Capped(Sum([k \in DOMAIN parts |-> SceneChangeCount(cuts, parts[k])]), Caps["scene_changes"], 1)
    <2> DEFINE per(f) == IF f = "speech_density" THEN Sum([k \in DOMAIN parts |-> Duration(parts[k])]) ELSE 1
    <2>0. per("scene_changes") = 1
      BY <1>1
    <2> HIDE DEF per
    <2>1. features["scene_changes"] =
            Capped(Sum(Raw(segments, parts, cuts, "scene_changes")), Caps["scene_changes"], per("scene_changes"))
      BY <1>1, Zenon DEF Normalized, per
    <2>2. Raw(segments, parts, cuts, "scene_changes")
            = [k \in DOMAIN parts |-> SceneChangeCount(cuts, parts[k])]
      BY DEF Raw
    <2> QED BY <2>0, <2>1, <2>2
  <1>4. features["hook_strength"] = HookStrength(segments, parts[1])
    BY <1>1 DEF Normalized
  <1> QED BY <1>2, <1>3, <1>4

LEMMA SumOfOne ==
  ASSUME NEW x \in Int
  PROVE  Sum([k \in 1..1 |-> x]) = x
  <1> DEFINE f == [k \in 1..1 |-> x]
  <1>1. f \in [1..1 -> Int] /\ f[1] = x /\ 1 \in Nat
    OBVIOUS
  <1> HIDE DEF f
  <1>2. PICK r \in [0..1 -> Int] : r[0] = 0 /\ (\A k \in 1..1 : r[k] = r[k - 1] + f[k]) /\ Sum(f) = r[1]
    BY <1>1, SumIs
  <1>3. r[1] = r[1 - 1] + f[1] /\ 1 - 1 = 0
    BY <1>2
  <1>4. Sum(f) = x
    BY <1>1, <1>2, <1>3
  <1> QED BY <1>4 DEF f

(* An earlier start in the window strikes more.                             *)
LEMMA ImmediacyFalls ==
  ASSUME NEW d \in Nat, NEW e \in Nat, d <= e
  PROVE  /\ Greatest(0, Whole - (Whole * d) \div HookWindow) \in Nat
         /\ Greatest(0, Whole - (Whole * e) \div HookWindow) \in Nat
         /\ Greatest(0, Whole - (Whole * e) \div HookWindow)
              <= Greatest(0, Whole - (Whole * d) \div HookWindow)
  <1>1. Whole \in Nat /\ HookWindow \in Nat \ {0}
    BY ScoringAssumption
  <1> DEFINE x == Whole * d
             y == Whole * e
  <1>2. x \in Int /\ y \in Int /\ x <= y
    <2>1. y - x = Whole * (e - d) /\ Whole * (e - d) >= 0
      BY <1>1
    <2>2. x \in Int /\ y \in Int
      BY <1>1
    <2> HIDE DEF x, y
    <2> QED BY <2>1, <2>2
  <1> HIDE DEF x, y
  <1>3. x \div HookWindow <= y \div HookWindow /\ x \div HookWindow \in Int /\ y \div HookWindow \in Int
    BY <1>1, <1>2, DivisionGrows
  <1>4. /\ Greatest(0, Whole - x \div HookWindow) \in Nat
        /\ Greatest(0, Whole - y \div HookWindow) \in Nat
        /\ Greatest(0, Whole - y \div HookWindow) <= Greatest(0, Whole - x \div HookWindow)
    BY <1>1, <1>3 DEF Greatest
  <1> QED BY <1>4 DEF x, y

Opening(segments, w) == InWindow(segments, <<w[1], Least(w[1] + HookWindow, w[2])>>)
DeadAir(segments, w) == Greatest(0, Min({segments[i].start : i \in Opening(segments, w)}) - w[1])
Immediacy(segments, w) == Greatest(0, Whole - (Whole * DeadAir(segments, w)) \div HookWindow)
Grabs(segments, w) == \E i \in Opening(segments, w) : segments[i].asks > 0 \/ segments[i].hits > 0

LEMMA HookIs ==
  ASSUME NEW segments, NEW w
  PROVE  HookStrength(segments, w) =
           IF w[2] <= w[1] \/ Opening(segments, w) = {} THEN 0
           ELSE Least(Whole, (7 * Immediacy(segments, w)) \div 10
                             + IF Grabs(segments, w) THEN (3 * Whole) \div 10 ELSE 0)
  BY DEF HookStrength, Opening, DeadAir, Immediacy, Grabs

LEMMA OpeningIs ==
  ASSUME NEW segments, Scored(segments), NEW w \in WindowTimes, Opening(segments, w) # {}
  PROVE  /\ DeadAir(segments, w) \in Nat /\ Immediacy(segments, w) \in Nat
         /\ (7 * Immediacy(segments, w)) \div 10 \in Nat
         /\ \E i \in Opening(segments, w) : DeadAir(segments, w) = Greatest(0, segments[i].start - w[1])
         /\ \A i \in Opening(segments, w) : DeadAir(segments, w) <= Greatest(0, segments[i].start - w[1])
  <1> DEFINE n == Len(segments)
             f == [i \in 1..n |-> segments[i].start]
             O == Opening(segments, w)
             low == Min({segments[i].start : i \in O})
  <1>1. n \in Nat /\ DOMAIN segments = 1..n /\ f \in [1..n -> Int] /\ w[1] \in Int
    BY ScoredIs DEF WindowTimes
  <1>2. O \in SUBSET (1..n)
    BY <1>1 DEF Opening, InWindow
  <1>3. \A i \in O : f[i] = segments[i].start /\ f[i] \in Int
    BY <1>1, <1>2
  <1>4. {segments[i].start : i \in O} = {f[i] : i \in O}
    BY <1>3
  <1>a. O # {}
    OBVIOUS
  <1> HIDE DEF f, O, n
  <1>5. low \in Int /\ (\E i \in O : low = f[i]) /\ \A i \in O : low <= f[i]
    <2>1. LET l == Min({f[i] : i \in O})
          IN l \in Int /\ (\E i \in O : l = f[i]) /\ \A i \in O : l <= f[i]
      BY <1>1, <1>2, <1>a, MinOf
    <2> QED BY <1>4, <2>1
  <1> HIDE DEF low
  <1>6. DeadAir(segments, w) = Greatest(0, low - w[1])
    BY DEF DeadAir, low, O
  <1>7. DeadAir(segments, w) \in Nat
    BY <1>1, <1>5, <1>6 DEF Greatest
  <1>8. \E i \in O : DeadAir(segments, w) = Greatest(0, segments[i].start - w[1])
    BY <1>3, <1>5, <1>6
  <1>9. \A i \in O : DeadAir(segments, w) <= Greatest(0, segments[i].start - w[1])
    BY <1>1, <1>3, <1>5, <1>6 DEF Greatest
  <1>10. Immediacy(segments, w) \in Nat
    BY <1>7, ImmediacyFalls DEF Immediacy
  <1>11. (7 * Immediacy(segments, w)) \div 10 \in Nat
    BY <1>10
  <1> QED BY <1>7, <1>8, <1>9, <1>10, <1>11 DEF O

LEMMA HookGrows ==
  ASSUME NEW segments, Scored(segments), NEW p \in WindowTimes, NEW s \in WindowTimes,
         p[1] < p[2], s[1] = p[1], p[2] <= s[2]
  PROVE  HookStrength(segments, p) <= HookStrength(segments, s)
  <1>1. /\ p[1] \in Int /\ p[2] \in Int /\ s[1] \in Int /\ s[2] \in Int
        /\ Whole \in Nat /\ HookWindow \in Nat \ {0}
    BY ScoringAssumption DEF WindowTimes
  <1>2. Opening(segments, p) \subseteq Opening(segments, s)
    <2>1. Least(p[1] + HookWindow, p[2]) \in Int /\ Least(s[1] + HookWindow, s[2]) \in Int
          /\ Least(p[1] + HookWindow, p[2]) <= Least(s[1] + HookWindow, s[2])
      BY <1>1 DEF Least
    <2>2. \A k \in DOMAIN segments : segments[k].start \in Int
      BY ScoredIs
    <2> QED BY <2>1, <2>2 DEF Opening, InWindow
  <1> DEFINE extra(w) == IF Grabs(segments, w) THEN (3 * Whole) \div 10 ELSE 0
  <1>3. extra(p) \in Nat /\ extra(s) \in Nat /\ extra(p) <= extra(s)
    <2>1. Grabs(segments, p) => Grabs(segments, s)
      BY <1>2 DEF Grabs
    <2>2. (3 * Whole) \div 10 \in Nat
      BY <1>1
    <2> QED BY <2>1, <2>2
  <1> HIDE DEF extra
  <1>4. CASE Opening(segments, p) = {}
    <2>1. HookStrength(segments, p) = 0
      BY <1>4, HookIs
    <2>2. CASE Opening(segments, s) = {}
      BY <2>1, <2>2, HookIs
    <2>3. CASE Opening(segments, s) # {}
      <3>1. (7 * Immediacy(segments, s)) \div 10 \in Nat
        BY <2>3, OpeningIs
      <3>2. HookStrength(segments, s) \in {0, Least(Whole, (7 * Immediacy(segments, s)) \div 10 + extra(s))}
        BY HookIs DEF extra
      <3> QED BY <1>1, <1>3, <2>1, <3>1, <3>2 DEF Least
    <2> QED BY <2>2, <2>3
  <1>5. CASE Opening(segments, p) # {}
    <2>0. Opening(segments, s) # {} /\ ~(p[2] <= p[1]) /\ ~(s[2] <= s[1])
      BY <1>1, <1>2, <1>5
    <2>1. DeadAir(segments, s) <= DeadAir(segments, p)
          /\ DeadAir(segments, s) \in Nat /\ DeadAir(segments, p) \in Nat
      <3>1. PICK i \in Opening(segments, p) :
              DeadAir(segments, p) = Greatest(0, segments[i].start - p[1])
        BY <1>5, OpeningIs
      <3>2. DeadAir(segments, s) <= Greatest(0, segments[i].start - s[1])
        BY <1>2, <2>0, OpeningIs
      <3>3. DeadAir(segments, s) \in Nat /\ DeadAir(segments, p) \in Nat
        BY <1>5, <2>0, OpeningIs
      <3> QED BY <3>1, <3>2, <3>3
    <2>2. Immediacy(segments, p) <= Immediacy(segments, s)
          /\ Immediacy(segments, p) \in Nat /\ Immediacy(segments, s) \in Nat
      BY <2>1, ImmediacyFalls DEF Immediacy
    <2>3. /\ (7 * Immediacy(segments, p)) \div 10 <= (7 * Immediacy(segments, s)) \div 10
          /\ (7 * Immediacy(segments, p)) \div 10 \in Int /\ (7 * Immediacy(segments, s)) \div 10 \in Int
      BY <2>2
    <2>4. /\ HookStrength(segments, p) = Least(Whole, (7 * Immediacy(segments, p)) \div 10 + extra(p))
          /\ HookStrength(segments, s) = Least(Whole, (7 * Immediacy(segments, s)) \div 10 + extra(s))
      BY <1>5, <2>0, HookIs DEF extra
    <2> QED BY <1>1, <1>3, <2>3, <2>4 DEF Least
  <1> QED BY <1>4, <1>5

(* What is counted in a window is of the segments in it.                    *)
LEMMA Unseen ==
  ASSUME NEW segments, NEW w, NEW shown \in SUBSET (DOMAIN segments),
         InWindow(segments, w) \subseteq shown
  PROVE  LET heard == Restrict(segments, shown)
         IN /\ InWindow(heard, w) = InWindow(segments, w)
            /\ Words(heard, w) = Words(segments, w) /\ Asks(heard, w) = Asks(segments, w)
            /\ Hits(heard, w) = Hits(segments, w) /\ PauseCount(heard, w) = PauseCount(segments, w)
  <1> DEFINE heard == Restrict(segments, shown)
             inside == InWindow(segments, w)
  <1>1. DOMAIN heard = shown /\ \A i \in shown : heard[i] = segments[i]
    BY DEF Restrict
  <1>2. InWindow(heard, w) = inside
    BY <1>1 DEF InWindow
  <1>3. \A i \in inside : heard[i] = segments[i]
    BY <1>1
  <1> HIDE DEF heard, inside
  <1>4. /\ [i \in inside |-> heard[i].words] = [i \in inside |-> segments[i].words]
        /\ [i \in inside |-> heard[i].asks] = [i \in inside |-> segments[i].asks]
        /\ [i \in inside |-> heard[i].hits] = [i \in inside |-> segments[i].hits]
    BY <1>3
  <1>5. /\ Words(heard, w) = Words(segments, w) /\ Asks(heard, w) = Asks(segments, w)
        /\ Hits(heard, w) = Hits(segments, w)
    BY <1>2, <1>4 DEF Words, Asks, Hits, inside
  <1>6. Pauses(heard, w) = Pauses(segments, w)
    BY <1>2, <1>3 DEF Pauses, inside
  <1>7. PauseCount(heard, w) = PauseCount(segments, w)
    BY <1>6 DEF PauseCount, Pauses
  <1> QED BY <1>2, <1>5, <1>7 DEF heard, inside

LEMMA OpeningUnseen ==
  ASSUME NEW segments, Scored(segments), NEW w \in WindowTimes, NEW shown \in SUBSET (DOMAIN segments),
         InWindow(segments, w) \subseteq shown
  PROVE  HookStrength(Restrict(segments, shown), w) = HookStrength(segments, w)
  <1> DEFINE heard == Restrict(segments, shown)
             opening == <<w[1], Least(w[1] + HookWindow, w[2])>>
  <1>1. /\ w[1] \in Int /\ w[2] \in Int /\ HookWindow \in Nat \ {0}
        /\ \A k \in DOMAIN segments : segments[k].start \in Int /\ segments[k].end \in Int
    BY ScoredIs, ScoringAssumption DEF WindowTimes
  <1>2. InWindow(segments, opening) \subseteq InWindow(segments, w)
    BY <1>1 DEF InWindow, Least
  <1>3. InWindow(heard, opening) = InWindow(segments, opening)
    BY <1>2, Unseen
  <1>4. \A i \in InWindow(segments, opening) : heard[i] = segments[i]
    BY <1>2 DEF Restrict
  <1> HIDE DEF heard
  <1>5. Opening(heard, w) = Opening(segments, w)
        /\ \A i \in Opening(segments, w) : heard[i] = segments[i]
    BY <1>3, <1>4 DEF Opening
  <1>6. {heard[i].start : i \in Opening(segments, w)} = {segments[i].start : i \in Opening(segments, w)}
    BY <1>5
  <1>7. Immediacy(heard, w) = Immediacy(segments, w)
    BY <1>5, <1>6 DEF Immediacy, DeadAir
  <1>8. Grabs(heard, w) <=> Grabs(segments, w)
    BY <1>5 DEF Grabs
  <1>9. HookStrength(heard, w) = HookStrength(segments, w)
    BY <1>5, <1>7, <1>8, HookIs
  <1> QED BY <1>9 DEF heard

LEMMA OnlyShownCounts ==
  ASSUME NEW segments, Scored(segments), NEW parts, InOrder(parts), NEW cuts, NEW events
  PROVE  LET shown == UNION {InWindow(segments, parts[k]) : k \in DOMAIN parts}
         IN Normalized(Restrict(segments, shown), parts, cuts, events)
              = Normalized(segments, parts, cuts, events)
  <1> DEFINE shown == UNION {InWindow(segments, parts[k]) : k \in DOMAIN parts}
             heard == Restrict(segments, shown)
  <1>1. shown \in SUBSET (DOMAIN segments)
    BY DEF InWindow
  <1>2. \A k \in DOMAIN parts : InWindow(segments, parts[k]) \subseteq shown
    OBVIOUS
  <1> HIDE DEF shown
  <1>3. \A k \in DOMAIN parts :
          /\ Words(heard, parts[k]) = Words(segments, parts[k])
          /\ Asks(heard, parts[k]) = Asks(segments, parts[k])
          /\ Hits(heard, parts[k]) = Hits(segments, parts[k])
          /\ PauseCount(heard, parts[k]) = PauseCount(segments, parts[k])
    BY <1>1, <1>2, Unseen
  <1>4. 1 \in DOMAIN parts /\ parts[1] \in WindowTimes
    BY DEF InOrder
  <1>5. HookStrength(heard, parts[1]) = HookStrength(segments, parts[1])
    BY <1>1, <1>2, <1>4, OpeningUnseen
  <1> HIDE DEF heard
  <1>6. ASSUME NEW f PROVE Raw(heard, parts, cuts, f) = Raw(segments, parts, cuts, f)
    BY <1>3 DEF Raw
  <1>7. Normalized(heard, parts, cuts, events) = Normalized(segments, parts, cuts, events)
    BY <1>5, <1>6 DEF Normalized
  <1> QED BY <1>7 DEF heard, shown

(* A number that disjoint parts have of something is at most the span's.    *)
LEMMA PartsAre ==
  ASSUME NEW parts, InOrder(parts)
  PROVE  LET n == Len(parts)
             span == <<parts[1][1], parts[n][2]>>
         IN /\ n \in Nat \ {0} /\ DOMAIN parts = 1..n /\ span \in WindowTimes
            /\ \A k \in 1..n : /\ parts[k] \in WindowTimes /\ parts[k][1] < parts[k][2]
                               /\ span[1] <= parts[k][1] /\ parts[k][2] <= span[2]
            /\ \A k, l \in 1..n : k < l => parts[k][2] <= parts[l][1]
  <1> DEFINE n == Len(parts)
             span == <<parts[1][1], parts[n][2]>>
  <1>1. parts \in Seq(WindowTimes) /\ parts # <<>>
    BY DEF InOrder
  <1>2. n \in Nat \ {0} /\ DOMAIN parts = 1..n /\ \A k \in 1..n : parts[k] \in WindowTimes
    <2>1. n \in Nat /\ DOMAIN parts = 1..n /\ \A k \in DOMAIN parts : parts[k] \in WindowTimes
      BY <1>1, Elements
    <2> QED BY <1>1, <2>1
  <1>3. /\ \A k \in 1..n : parts[k][1] < parts[k][2]
        /\ \A k, l \in 1..n : k < l => parts[k][2] <= parts[l][1]
    BY <1>2 DEF InOrder
  <1> HIDE DEF n
  <1>4. \A k \in 1..n : parts[k][1] \in Int /\ parts[k][2] \in Int
    BY <1>2 DEF WindowTimes
  <1>5. 1 \in 1..n /\ n \in 1..n
    BY <1>2
  <1>6. span \in WindowTimes /\ span[1] = parts[1][1] /\ span[2] = parts[n][2]
    BY <1>4, <1>5 DEF WindowTimes
  <1>7. ASSUME NEW k \in 1..n PROVE span[1] <= parts[k][1] /\ parts[k][2] <= span[2]
    <2>1. parts[1][1] <= parts[k][1]
      <3>1. k = 1 \/ 1 < k
        BY <1>2
      <3>2. CASE 1 < k
        <4>1. parts[1][2] <= parts[k][1] /\ parts[1][1] < parts[1][2]
          BY <1>3, <1>5, <3>2
        <4>2. parts[1][1] \in Int /\ parts[1][2] \in Int /\ parts[k][1] \in Int
          BY <1>4, <1>5
        <4> QED BY <4>1, <4>2
      <3> QED BY <1>4, <1>5, <3>1, <3>2
    <2>2. parts[k][2] <= parts[n][2]
      <3>1. k = n \/ k < n
        BY <1>2
      <3>2. CASE k < n
        <4>1. parts[k][2] <= parts[n][1] /\ parts[n][1] < parts[n][2]
          BY <1>3, <1>5, <3>2
        <4>2. parts[n][1] \in Int /\ parts[n][2] \in Int /\ parts[k][2] \in Int
          BY <1>4, <1>5
        <4> QED BY <4>1, <4>2
      <3> QED BY <1>4, <1>5, <3>1, <3>2
    <2> QED BY <1>6, <2>1, <2>2
  <1> QED BY <1>2, <1>3, <1>6, <1>7 DEF n

LEMMA OnePart ==
  ASSUME NEW segments, NEW span, NEW cuts, NEW events,
         PauseCount(segments, span) \in Int, SceneChangeCount(cuts, span) \in Int
  PROVE  LET whole == Normalized(segments, <<span>>, cuts, events)
         IN /\ whole["pause_count"] = Capped(PauseCount(segments, span), Caps["pause_count"], 1)
            /\ whole["scene_changes"] = Capped(SceneChangeCount(cuts, span), Caps["scene_changes"], 1)
            /\ whole["hook_strength"] = HookStrength(segments, span)
  <1> DEFINE parts == <<span>>
             p == PauseCount(segments, span)
             c == SceneChangeCount(cuts, span)
  <1>1. DOMAIN parts = 1..1 /\ parts[1] = span /\ \A k \in 1..1 : parts[k] = span
    OBVIOUS
  <1> HIDE DEF parts
  <1>2. /\ [k \in DOMAIN parts |-> PauseCount(segments, parts[k])] = [k \in 1..1 |-> p]
        /\ [k \in DOMAIN parts |-> SceneChangeCount(cuts, parts[k])] = [k \in 1..1 |-> c]
    BY <1>1
  <1>3. p \in Int /\ c \in Int
    OBVIOUS
  <1> HIDE DEF p, c
  <1>4. Sum([k \in 1..1 |-> p]) = p /\ Sum([k \in 1..1 |-> c]) = c
    BY <1>3, SumOfOne
  <1> DEFINE whole == Normalized(segments, parts, cuts, events)
  <1>5. /\ whole["pause_count"] = Capped(p, Caps["pause_count"], 1)
        /\ whole["scene_changes"] = Capped(c, Caps["scene_changes"], 1)
        /\ whole["hook_strength"] = HookStrength(segments, span)
    <2> HIDE DEF whole
    <2> QED BY <1>1, <1>2, <1>4, NormalizedIs DEF whole
  <1> QED BY <1>5 DEF parts, p, c

(* A stitched clip has no more pauses and cuts and no better a hook than    *)
(* all that it spans, and what is between its parts counts for nothing,     *)
(* whatever the transcript, the parts and the cuts                          *)
(* (score_multipart_window).                                                *)
THEOREM NothingIsEarned ==
  ASSUME NEW segments, Scored(segments), NEW parts, InOrder(parts),
         NEW cuts \in SUBSET Int, IsFiniteSet(cuts)
  PROVE  StitchingEarnsNothing(segments, parts, cuts)
  <1> DEFINE n == Len(parts)
             span == <<parts[1][1], parts[n][2]>>
             silent == [f \in Heard |-> 0]
             stitched == Normalized(segments, parts, cuts, silent)
             whole == Normalized(segments, <<span>>, cuts, silent)
             shown == UNION {InWindow(segments, parts[k]) : k \in DOMAIN parts}
             Cuts(w) == {c \in cuts : w[1] < c /\ c < w[2]}
  <1>1. /\ n \in Nat \ {0} /\ DOMAIN parts = 1..n /\ span \in WindowTimes
        /\ \A k \in 1..n : /\ parts[k] \in WindowTimes /\ parts[k][1] < parts[k][2]
                           /\ span[1] <= parts[k][1] /\ parts[k][2] <= span[2]
        /\ \A k, l \in 1..n : k < l => parts[k][2] <= parts[l][1]
    BY PartsAre
  <1>2. span[1] = parts[1][1]
    OBVIOUS
  <1>3. stitched = Normalized(Restrict(segments, shown), parts, cuts, silent)
    BY OnlyShownCounts
  <1> HIDE DEF n, span, silent, shown
  <1>4. Caps["pause_count"] \in Nat \ {0} /\ Caps["scene_changes"] \in Nat \ {0}
    BY ScoringAssumption DEF Counted
  <1>5. Len(segments) \in Nat /\ DOMAIN segments = 1..Len(segments)
    BY ScoredIs
  <1>6. \A w : PauseCount(segments, w) = Cardinality(Pauses(segments, w))
               /\ SceneChangeCount(cuts, w) = Cardinality(Cuts(w))
    BY DEF PauseCount, Pauses, SceneChangeCount
  <1>7. \A w : IsFiniteSet(Pauses(segments, w)) /\ Cardinality(Pauses(segments, w)) \in Nat
    <2>1. IsFiniteSet(1..Len(segments))
      BY <1>5, FS_Interval
    <2>2. \A w : Pauses(segments, w) \in SUBSET (1..Len(segments))
      BY <1>5 DEF Pauses, InWindow
    <2> QED BY <2>1, <2>2, FS_Subset, FS_CardinalityType
  <1>8. \A w : IsFiniteSet(Cuts(w)) /\ Cardinality(Cuts(w)) \in Nat
    <2>1. \A w : Cuts(w) \in SUBSET cuts
      OBVIOUS
    <2> HIDE DEF Cuts
    <2> QED BY <2>1, FS_Subset, FS_CardinalityType
  <1>9. n \in Nat
    BY <1>1
  <1>a. Sum([k \in 1..n |-> PauseCount(segments, parts[k])]) \in Int
        /\ Sum([k \in 1..n |-> PauseCount(segments, parts[k])]) <= PauseCount(segments, span)
    <2> DEFINE B == Pauses(segments, span)
               A == [k \in 1..n |-> Pauses(segments, parts[k])]
    <2>1. A \in [1..n -> SUBSET B]
      BY <1>1, PausesOfSpan
    <2>2. \A k, l \in 1..n : k < l => A[k] \cap A[l] = {}
      BY <1>1, PausesApart
    <2>3. IsFiniteSet(B)
      BY <1>7
    <2>4. \A k \in 1..n : Cardinality(A[k]) = PauseCount(segments, parts[k])
      BY <1>6
    <2> HIDE DEF A, B
    <2>5. LET f == [k \in 1..n |-> Cardinality(A[k])]
          IN Sum(f) \in Int /\ Sum(f) <= Cardinality(B)
      BY <1>9, <2>1, <2>2, <2>3, DisjointSum
    <2>6. [k \in 1..n |-> Cardinality(A[k])] = [k \in 1..n |-> PauseCount(segments, parts[k])]
      BY <2>4
    <2> QED BY <1>6, <2>5, <2>6 DEF B
  <1>b. Sum([k \in 1..n |-> SceneChangeCount(cuts, parts[k])]) \in Int
        /\ Sum([k \in 1..n |-> SceneChangeCount(cuts, parts[k])]) <= SceneChangeCount(cuts, span)
    <2> DEFINE B == Cuts(span)
               A == [k \in 1..n |-> Cuts(parts[k])]
    <2>a. \A k \in 1..n : parts[k][1] \in Int /\ parts[k][2] \in Int
      BY <1>1 DEF WindowTimes
    <2>b. span[1] \in Int /\ span[2] \in Int
      BY <1>1 DEF WindowTimes
    <2>1. A \in [1..n -> SUBSET B]
      <3>1. ASSUME NEW k \in 1..n PROVE Cuts(parts[k]) \subseteq B
        <4>1. /\ parts[k][1] \in Int /\ parts[k][2] \in Int
              /\ span[1] <= parts[k][1] /\ parts[k][2] <= span[2]
          BY <1>1, <2>a
        <4>2. ASSUME NEW c \in cuts, parts[k][1] < c, c < parts[k][2] PROVE span[1] < c /\ c < span[2]
          <5>1. c \in Int
            OBVIOUS
          <5> QED BY <2>b, <4>1, <4>2, <5>1
        <4> QED BY <4>2
      <3> HIDE DEF Cuts
      <3> QED BY <3>1
    <2>2. \A k, l \in 1..n : k < l => A[k] \cap A[l] = {}
      <3> SUFFICES ASSUME NEW k \in 1..n, NEW l \in 1..n, k < l
                   PROVE  Cuts(parts[k]) \cap Cuts(parts[l]) = {}
        OBVIOUS
      <3>1. parts[k][2] \in Int /\ parts[l][1] \in Int /\ parts[k][2] <= parts[l][1]
        BY <1>1, <2>a
      <3>2. ASSUME NEW c \in cuts, c < parts[k][2], parts[l][1] < c PROVE FALSE
        <4>1. c \in Int
          OBVIOUS
        <4> QED BY <3>1, <3>2, <4>1
      <3> QED BY <3>2
    <2>3. IsFiniteSet(B)
      <3> HIDE DEF Cuts
      <3> QED BY <1>8
    <2>4. \A k \in 1..n : Cardinality(A[k]) = SceneChangeCount(cuts, parts[k])
      <3> HIDE DEF Cuts
      <3> QED BY <1>6
    <2>c. Cardinality(B) = SceneChangeCount(cuts, span)
      <3> HIDE DEF Cuts
      <3> QED BY <1>6
    <2> HIDE DEF A, B
    <2>5. LET f == [k \in 1..n |-> Cardinality(A[k])]
          IN Sum(f) \in Int /\ Sum(f) <= Cardinality(B)
      BY <1>9, <2>1, <2>2, <2>3, DisjointSum
    <2>6. [k \in 1..n |-> Cardinality(A[k])] = [k \in 1..n |-> SceneChangeCount(cuts, parts[k])]
      BY <2>4
    <2> QED BY <2>5, <2>6, <2>c
  <1> HIDE DEF Cuts
  <1>c. PauseCount(segments, span) \in Int /\ SceneChangeCount(cuts, span) \in Int
    BY <1>6, <1>7, <1>8
  <1>d. /\ whole["pause_count"] = Capped(PauseCount(segments, span), Caps["pause_count"], 1)
        /\ whole["scene_changes"] = Capped(SceneChangeCount(cuts, span), Caps["scene_changes"], 1)
        /\ whole["hook_strength"] = HookStrength(segments, span)
    BY <1>c, OnePart
  <1>e. /\ stitched["pause_count"] =
             Capped(Sum([k \in 1..n |-> PauseCount(segments, parts[k])]), Caps["pause_count"], 1)
        /\ stitched["scene_changes"] =
             Capped(Sum([k \in 1..n |-> SceneChangeCount(cuts, parts[k])]), Caps["scene_changes"], 1)
        /\ stitched["hook_strength"] = HookStrength(segments, parts[1])
    BY <1>1, NormalizedIs
  <1> HIDE DEF stitched, whole
  <1>f. stitched["pause_count"] <= whole["pause_count"]
    BY <1>4, <1>a, <1>c, <1>d, <1>e, CappedGrows
  <1>g. stitched["scene_changes"] <= whole["scene_changes"]
    BY <1>4, <1>b, <1>c, <1>d, <1>e, CappedGrows
  <1>h. stitched["hook_strength"] <= whole["hook_strength"]
    <2>1. 1 \in 1..n
      BY <1>1
    <2> QED BY <1>1, <1>2, <1>d, <1>e, <2>1, HookGrows
  <1> QED BY <1>3, <1>f, <1>g, <1>h DEF StitchingEarnsNothing, stitched, whole, span, n, silent, shown

-----------------------------------------------------------------------------
(* Captions: the stitched timeline.                                         *)
Lasting(parts) ==
  parts \in Seq(WindowTimes) /\ \A k \in DOMAIN parts : parts[k][1] <= parts[k][2]

LEMMA TimelineIs ==
  ASSUME NEW parts, Lasting(parts)
  PROVE  LET n == Len(parts)
             lasts(k) == parts[k][2] - parts[k][1]
         IN /\ n \in Nat /\ DOMAIN parts = 1..n /\ PartsDuration(parts) \in Int
            /\ \A k \in 1..n : parts[k][1] \in Int /\ parts[k][2] \in Int /\ Elapsed(parts, k) \in Nat
            /\ \A k \in 1..n : Elapsed(parts, k) + lasts(k) <= PartsDuration(parts)
            /\ \A j, k \in 1..n : j < k => Elapsed(parts, j) + lasts(j) <= Elapsed(parts, k)
  <1> DEFINE n == Len(parts)
             lasts(k) == parts[k][2] - parts[k][1]
             f == [k \in 1..n |-> lasts(k)]
  <1>1. n \in Nat /\ DOMAIN parts = 1..n /\ \A k \in 1..n : parts[k] \in WindowTimes
    <2>1. parts \in Seq(WindowTimes)
      BY DEF Lasting
    <2>2. n \in Nat /\ DOMAIN parts = 1..n /\ \A k \in DOMAIN parts : parts[k] \in WindowTimes
      BY <2>1, Elements
    <2> QED BY <2>2
  <1> HIDE DEF n
  <1>2. \A k \in 1..n : parts[k][1] \in Int /\ parts[k][2] \in Int /\ lasts(k) \in Nat
    <2>1. \A k \in 1..n : parts[k][1] \in Int /\ parts[k][2] \in Int
      BY <1>1 DEF WindowTimes
    <2>2. \A k \in 1..n : parts[k][1] <= parts[k][2]
      BY <1>1 DEF Lasting
    <2> QED BY <2>1, <2>2
  <1>3. f \in [1..n -> Int] /\ \A k \in 1..n : f[k] = lasts(k) /\ f[k] \in Nat
    BY <1>2
  <1> HIDE DEF f
  <1>4. PICK r \in [0..n -> Int] :
           /\ r[0] = 0 /\ \A k \in 1..n : r[k] = r[k - 1] + f[k]
           /\ \A k \in 0..n : Sum([i \in 1..k |-> f[i]]) = r[k]
    BY <1>1, <1>3, SumsAre
  <1>5. ASSUME NEW k \in 0..n PROVE Sum([i \in 1..k |-> lasts(i)]) = r[k]
    <2>a. \A i \in 1..k : f[i] = lasts(i)
      BY <1>1, <1>3
    <2> HIDE DEF lasts
    <2>1. [i \in 1..k |-> lasts(i)] = [i \in 1..k |-> f[i]]
      BY <2>a
    <2> QED BY <1>4, <2>1
  <1>6. PartsDuration(parts) = r[n]
    BY <1>1, <1>5 DEF PartsDuration
  <1>7. \A k \in 1..n : Elapsed(parts, k) = r[k - 1] /\ r[k] = r[k - 1] + lasts(k)
    BY <1>1, <1>3, <1>4, <1>5 DEF Elapsed
  <1>8. \A a, b \in 0..n : a <= b => r[a] <= r[b]
    <2> SUFFICES ASSUME NEW a \in 0..n PROVE \A b \in 0..n : a <= b => r[a] <= r[b]
      OBVIOUS
    <2> DEFINE T == {b \in Nat : a <= b /\ b <= n => r[a] <= r[b]}
    <2>1. 0 \in T
      BY <1>1
    <2>2. ASSUME NEW b \in Nat, b \in T PROVE b + 1 \in T
      <3> SUFFICES ASSUME a <= b + 1, b + 1 <= n PROVE r[a] <= r[b + 1]
        OBVIOUS
      <3>1. b + 1 \in 1..n /\ (b + 1) - 1 = b /\ b \in 0..n
        BY <1>1
      <3>2. r[b + 1] = r[b] + f[b + 1] /\ f[b + 1] \in Nat /\ r[b] \in Int /\ r[a] \in Int
        BY <1>3, <1>4, <3>1
      <3>3. a = b + 1 \/ r[a] <= r[b]
        BY <2>2, <3>1
      <3> QED BY <3>2, <3>3
    <2>3. \A b \in Nat : b \in T => b + 1 \in T
      BY <2>2
    <2> HIDE DEF T
    <2>4. Nat \subseteq T
      BY <2>1, <2>3, Induction
    <2> QED BY <2>4 DEF T
  <1>9. \A k \in 1..n : k - 1 \in 0..n /\ k \in 0..n /\ r[k - 1] >= 0 /\ r[k - 1] \in Int
    <2>1. \A k \in 1..n : k - 1 \in 0..n /\ k \in 0..n /\ 0 \in 0..n
      BY <1>1
    <2> QED BY <1>4, <1>8, <2>1
  <1>10. \A k \in 1..n : Elapsed(parts, k) \in Nat
    BY <1>7, <1>9
  <1>11. \A k \in 1..n : Elapsed(parts, k) + lasts(k) <= PartsDuration(parts)
    BY <1>1, <1>6, <1>7, <1>8, <1>9
  <1>12. \A j, k \in 1..n : j < k => Elapsed(parts, j) + lasts(j) <= Elapsed(parts, k)
    <2>1. \A j, k \in 1..n : j < k => j <= k - 1
      BY <1>1
    <2> HIDE DEF lasts
    <2> QED BY <1>7, <1>8, <1>9, <2>1
  <1>13. PartsDuration(parts) \in Int
    BY <1>1, <1>6
  <1> QED BY <1>1, <1>2, <1>10, <1>11, <1>12, <1>13 DEF n

(* What plays within part k is part k.                                      *)
LEMMA PlaysThePart ==
  ASSUME NEW parts, Lasting(parts), NEW k \in DOMAIN parts, NEW t \in Int,
         Elapsed(parts, k) <= t, t < Elapsed(parts, k) + (parts[k][2] - parts[k][1])
  PROVE  Playing(parts, t) = parts[k][1] + t - Elapsed(parts, k)
  <1> DEFINE n == Len(parts)
             plays(m) == Elapsed(parts, m) <= t /\ t < Elapsed(parts, m) + parts[m][2] - parts[m][1]
             chosen == CHOOSE m \in DOMAIN parts : plays(m)
  <1>1. /\ DOMAIN parts = 1..n /\ n \in Nat
        /\ \A m \in 1..n : parts[m][1] \in Int /\ parts[m][2] \in Int /\ Elapsed(parts, m) \in Nat
        /\ \A j, m \in 1..n : j < m => Elapsed(parts, j) + (parts[j][2] - parts[j][1]) <= Elapsed(parts, m)
    BY TimelineIs
  <1> HIDE DEF n
  <1>2. plays(k)
    BY <1>1
  <1>3. ASSUME NEW m \in 1..n, plays(m) PROVE m = k
    <2>1. ~(m < k)
      BY <1>1, <1>3
    <2>2. ~(k < m)
      <3> SUFFICES ASSUME k < m PROVE FALSE
        OBVIOUS
      <3>1. Elapsed(parts, k) + (parts[k][2] - parts[k][1]) <= Elapsed(parts, m)
            /\ Elapsed(parts, k) \in Int /\ parts[k][2] \in Int /\ parts[k][1] \in Int
            /\ Elapsed(parts, m) \in Int /\ Elapsed(parts, m) <= t
        BY <1>1, <1>3
      <3> QED BY <3>1
    <2> QED BY <1>1, <2>1, <2>2
  <1>4. chosen = k
    <2> HIDE DEF plays
    <2> QED BY <1>1, <1>2, <1>3
  <1> QED BY <1>4 DEF Playing

LEMMA InStep ==
  ASSUME NEW segments,
         \A i \in DOMAIN segments : segments[i].start \in Int /\ segments[i].end \in Int,
         NEW parts, Lasting(parts)
  PROVE  Synchronous(segments, parts)
  <1> SUFFICES ASSUME NEW c \in Cues(segments, parts)
               PROVE  /\ 0 <= c.from /\ c.to <= PartsDuration(parts)
                      /\ \A t \in c.from..c.to - 1 :
                           segments[c.seg].start <= Playing(parts, t) /\ Playing(parts, t) < segments[c.seg].end
    BY DEF Synchronous
  <1>1. PICK k \in DOMAIN parts, i \in DOMAIN segments :
          c = [part |-> k, seg |-> i,
               from |-> Elapsed(parts, k) + Greatest(segments[i].start, parts[k][1]) - parts[k][1],
               to |-> Elapsed(parts, k) + Least(segments[i].end, parts[k][2]) - parts[k][1]]
    BY DEF Cues
  <1> DEFINE begin == segments[i].start
             finish == segments[i].end
             p == parts[k][1]
             q == parts[k][2]
             e == Elapsed(parts, k)
  <1>2. begin \in Int /\ finish \in Int
    OBVIOUS
  <1>3. /\ p \in Int /\ q \in Int /\ e \in Nat /\ PartsDuration(parts) \in Int
        /\ e + (q - p) <= PartsDuration(parts)
    BY TimelineIs
  <1>4. c.seg = i /\ c.from = e + Greatest(begin, p) - p /\ c.to = e + Least(finish, q) - p
    BY <1>1
  <1> HIDE DEF begin, finish, p, q, e
  <1>5. /\ Greatest(begin, p) \in Int /\ Greatest(begin, p) >= begin /\ Greatest(begin, p) >= p
        /\ Least(finish, q) \in Int /\ Least(finish, q) <= finish /\ Least(finish, q) <= q
    BY <1>2, <1>3 DEF Greatest, Least
  <1>6. 0 <= c.from /\ c.to <= PartsDuration(parts) /\ c.from \in Int /\ c.to \in Int
    BY <1>3, <1>4, <1>5
  <1>7. ASSUME NEW t \in c.from..c.to - 1
        PROVE  begin <= Playing(parts, t) /\ Playing(parts, t) < finish
    <2>1. t \in Int /\ c.from <= t /\ t < c.to
      BY <1>6
    <2>2. e <= t /\ t < e + (q - p)
      BY <1>3, <1>4, <1>5, <2>1
    <2>3. Playing(parts, t) = p + t - e
      BY <2>1, <2>2, PlaysThePart DEF p, q, e
    <2> QED BY <1>2, <1>3, <1>4, <1>5, <2>1, <2>3
  <1> QED BY <1>4, <1>6, <1>7 DEF begin, finish

(* What is played of a clip lasts, whatever parts are stored for it.        *)
LEMMA PlayedLasts ==
  ASSUME NEW window \in WindowTimes, window[1] <= window[2], NEW raw \in Seq(WindowTimes)
  PROVE  Lasting(Played(window, raw))
  <1> DEFINE n == Len(raw)
             key == [i \in DOMAIN raw |-> raw[i][1]]
             order == Order(key)
             sorted == [i \in DOMAIN raw |-> raw[order[i]]]
  <1>1. n \in Nat /\ DOMAIN raw = 1..n /\ \A i \in 1..n : raw[i] \in WindowTimes
    BY Elements
  <1>2. key \in [1..n -> Int]
    BY <1>1 DEF WindowTimes
  <1>3. order \in [1..n -> 1..n]
    <2> HIDE DEF key, n
    <2> QED BY <1>1, <1>2, OrderSorts
  <1>4. NormalizeParts(raw) = <<>> \/ NormalizeParts(raw) = sorted
    BY DEF NormalizeParts
  <1> HIDE DEF order, n
  <1>5. CASE NormalizeParts(raw) = <<>>
    <2>1. Played(window, raw) = <<window>>
      BY <1>5 DEF Played
    <2>2. <<window>> \in Seq(WindowTimes) /\ DOMAIN <<window>> = {1} /\ <<window>>[1] = window
      OBVIOUS
    <2> QED BY <2>1, <2>2 DEF Lasting
  <1>6. CASE NormalizeParts(raw) # <<>>
    <2>1. Played(window, raw) = sorted
      BY <1>4, <1>6 DEF Played
    <2>2. \A i \in 1..n : ~(raw[i][2] <= raw[i][1])
      BY <1>1, <1>6 DEF NormalizeParts
    <2>3. \A i \in 1..n : sorted[i] = raw[order[i]] /\ order[i] \in 1..n
      BY <1>1, <1>3
    <2>4. \A i \in 1..n : raw[i][1] \in Int /\ raw[i][2] \in Int /\ raw[i][1] <= raw[i][2]
      BY <1>1, <2>2 DEF WindowTimes
    <2>5. sorted \in [1..n -> WindowTimes] /\ DOMAIN sorted = 1..n
      BY <1>1, <2>3
    <2> HIDE DEF sorted
    <2>6. sorted \in Seq(WindowTimes)
      BY <1>1, <2>5
    <2>7. \A i \in DOMAIN sorted : sorted[i][1] <= sorted[i][2]
      BY <2>3, <2>4, <2>5
    <2> QED BY <2>1, <2>6, <2>7 DEF Lasting
  <1> QED BY <1>5, <1>6

(* Captions: a long one is split.                                           *)
LEMMA CharsAre ==
  ASSUME NEW words \in Seq(Word), NEW i \in 1..Len(words), NEW j \in i..Len(words)
  PROVE  Chars(words, i, j) \in Nat \ {0}
  <1> DEFINE n == j - i + 1
             f == [k \in 1..n |-> words[i + k - 1].chars]
  <1>1. n \in Nat \ {0} /\ \A k \in 1..n : i + k - 1 \in 1..Len(words)
    OBVIOUS
  <1>2. \A k \in 1..Len(words) : words[k] \in Word
    OBVIOUS
  <1>3. \A k \in 1..n : words[i + k - 1].chars \in Nat \ {0}
    BY <1>1, <1>2 DEF Word
  <1>4. f \in [1..n -> Nat] /\ f[1] \in Nat \ {0} /\ 1 \in 1..n
    <2>1. \A k \in 1..n : f[k] \in Nat \ {0}
      BY <1>3
    <2>2. 1 \in 1..n
      BY <1>1
    <2>3. DOMAIN f = 1..n /\ f = [k \in 1..n |-> f[k]]
      OBVIOUS
    <2> HIDE DEF f, n
    <2> QED BY <2>1, <2>2, <2>3
  <1>5. Chars(words, i, j) = Sum(f) + (j - i)
    BY DEF Chars
  <1>6. j - i \in Nat
    OBVIOUS
  <1> HIDE DEF f, n
  <1>7. Sum(f) \in Nat /\ f[1] <= Sum(f)
    BY <1>1, <1>4, SumAtLeast
  <1> QED BY <1>4, <1>5, <1>6, <1>7

(* The piece that starts with word i fits or is a single word.              *)
PieceFits(words, i, j, most) ==
  /\ j \in i..Len(words)
  /\ Chars(words, i, j) <= most \/ j = i

LEMMA CutFits ==
  ASSUME NEW words \in Seq(Word), NEW i \in 1..Len(words), NEW most \in Int
  PROVE  PieceFits(words, i, CutAfter(words, i, most), most)
  <1> DEFINE n == Len(words)
             fitting == {j \in i..n - 1 : Chars(words, i, j) <= most}
             ending(marks) == {j \in fitting : words[j].ends \in marks}
             last(S) == CHOOSE j \in S : \A k \in S : k <= j
             cut == CutAfter(words, i, most)
  <1>1. n \in Nat /\ i \in 1..n /\ n \in i..n /\ i \in i..n /\ fitting \in SUBSET (1..n)
    OBVIOUS
  <1>2. Chars(words, i, n) \in Int
    BY <1>1, CharsAre
  <1>3. ASSUME NEW S \in SUBSET fitting, S # {} PROVE last(S) \in fitting
    <2>1. S \in SUBSET (1..n)
      OBVIOUS
    <2> HIDE DEF n, fitting
    <2>2. Max(S) \in S /\ \A x \in S : x <= Max(S)
      BY <1>1, <1>3, <2>1, MaxIs
    <2>3. last(S) \in S
      BY <2>2
    <2> QED BY <2>3
  <1>4. ASSUME NEW j \in fitting PROVE PieceFits(words, i, j, most)
    BY DEF PieceFits
  <1>5. CASE Chars(words, i, n) <= most
    <2>1. cut = n
      BY <1>2, <1>5 DEF CutAfter
    <2> QED BY <1>1, <1>5, <2>1 DEF PieceFits
  <1>6. CASE Chars(words, i, n) > most
    <2>0. ~(Chars(words, i, n) <= most)
      BY <1>2, <1>6
    <2>1. cut = IF ending({"sentence"}) # {} THEN last(ending({"sentence"}))
                ELSE IF ending({"clause"}) # {} THEN last(ending({"clause"}))
                ELSE IF fitting # {} THEN last(fitting) ELSE i
      BY <1>6, <2>0 DEF CutAfter
    <2>2. \A marks : ending(marks) \in SUBSET fitting
      OBVIOUS
    <2>3. fitting \in SUBSET fitting
      OBVIOUS
    <2> HIDE DEF ending, fitting, last
    <2>4. cut \in fitting \/ cut = i
      BY <1>3, <2>1, <2>2, <2>3
    <2>5. PieceFits(words, i, i, most)
      BY <1>1 DEF PieceFits
    <2> QED BY <1>4, <2>4, <2>5
  <1> QED BY <1>2, <1>5, <1>6

(* Pieces that hold words i and on.                                         *)
PiecesFrom(words, i, most, pieces) ==
  /\ pieces \in Seq(Nat \X Nat) /\ pieces # <<>>
  /\ pieces[1][1] = i /\ pieces[Len(pieces)][2] = Len(words)
  /\ \A k \in 2..Len(pieces) : pieces[k][1] = pieces[k - 1][2] + 1
  /\ \A k \in DOMAIN pieces :
       pieces[k][1] \in 1..Len(words) /\ PieceFits(words, pieces[k][1], pieces[k][2], most)

LEMMA LastPiece ==
  ASSUME NEW words \in Seq(Word), NEW most \in Int, NEW i \in 1..Len(words),
         PieceFits(words, i, Len(words), most)
  PROVE  PiecesFrom(words, i, most, <<<<i, Len(words)>>>>)
  <1> DEFINE pieces == <<<<i, Len(words)>>>>
  <1>1. Len(words) \in Nat /\ i \in Nat
    OBVIOUS
  <1>2. /\ pieces \in Seq(Nat \X Nat) /\ pieces # <<>> /\ Len(pieces) = 1 /\ DOMAIN pieces = {1}
        /\ pieces[1][1] = i /\ pieces[1][2] = Len(words) /\ 2..1 = {}
    BY <1>1
  <1> HIDE DEF pieces
  <1>3. PiecesFrom(words, i, most, pieces)
    BY <1>2 DEF PiecesFrom
  <1> QED BY <1>3 DEF pieces

LEMMA PieceBefore ==
  ASSUME NEW words \in Seq(Word), NEW most \in Int, NEW i \in 1..Len(words), NEW j \in Int,
         PieceFits(words, i, j, most), NEW rest, PiecesFrom(words, j + 1, most, rest)
  PROVE  PiecesFrom(words, i, most, <<<<i, j>>>> \o rest)
  <1> DEFINE pieces == <<<<i, j>>>> \o rest
             m == Len(rest)
  <1>1. /\ rest \in Seq(Nat \X Nat) /\ rest # <<>>
        /\ rest[1][1] = j + 1 /\ rest[m][2] = Len(words)
        /\ \A k \in 2..m : rest[k][1] = rest[k - 1][2] + 1
        /\ \A k \in DOMAIN rest :
             rest[k][1] \in 1..Len(words) /\ PieceFits(words, rest[k][1], rest[k][2], most)
    BY DEF PiecesFrom
  <1>2. m \in Nat /\ DOMAIN rest = 1..m /\ m >= 1
    BY <1>1
  <1>3. j \in Nat /\ i \in Nat
    BY DEF PieceFits
  <1>4. /\ pieces \in Seq(Nat \X Nat) /\ Len(pieces) = m + 1 /\ DOMAIN pieces = 1..m + 1
        /\ pieces[1] = <<i, j>> /\ \A k \in 2..m + 1 : pieces[k] = rest[k - 1]
    <2>1. <<<<i, j>>>> \in Seq(Nat \X Nat) /\ Len(<<<<i, j>>>>) = 1
      BY <1>3
    <2> QED BY <1>1, <1>2, <2>1
  <1> HIDE DEF pieces, m
  <1>5. /\ pieces[1][1] = i /\ pieces[1][2] = j /\ pieces # <<>>
        /\ pieces[m + 1][2] = Len(words)
    <2>1. m + 1 \in 2..m + 1 /\ (m + 1) - 1 = m
      BY <1>2
    <2>2. pieces[m + 1] = rest[m]
      BY <1>4, <2>1
    <2> QED BY <1>1, <1>2, <1>4, <2>2
  <1>6. ASSUME NEW k \in 2..m + 1 PROVE pieces[k][1] = pieces[k - 1][2] + 1
    <2>1. CASE k = 2
      <3>1. pieces[2] = rest[1] /\ pieces[2 - 1] = <<i, j>>
        BY <1>4, <1>6, <2>1
      <3> QED BY <1>1, <2>1, <3>1
    <2>2. CASE k # 2
      <3>1. k - 1 \in 2..m /\ k - 1 \in 2..m + 1
        BY <1>2, <2>2
      <3>2. pieces[k] = rest[k - 1] /\ pieces[k - 1] = rest[(k - 1) - 1]
        BY <1>4, <1>6, <3>1
      <3> QED BY <1>1, <3>1, <3>2
    <2> QED BY <2>1, <2>2
  <1>7. ASSUME NEW k \in 1..m + 1
        PROVE  pieces[k][1] \in 1..Len(words) /\ PieceFits(words, pieces[k][1], pieces[k][2], most)
    <2>1. CASE k = 1
      BY <1>5, <2>1
    <2>2. CASE k # 1
      <3>1. k \in 2..m + 1 /\ k - 1 \in 1..m
        BY <1>2, <2>2
      <3> QED BY <1>1, <1>2, <1>4, <3>1
    <2> QED BY <2>1, <2>2
  <1>8. PiecesFrom(words, i, most, pieces)
    BY <1>4, <1>5, <1>6, <1>7 DEF PiecesFrom
  <1> QED BY <1>8 DEF pieces

LEMMA SplitExists ==
  ASSUME NEW words \in Seq(Word), NEW most \in Int
  PROVE  LET n == Len(words)
         IN \E f : f = [i \in 1..n + 1 |->
                          IF i > n THEN <<>>
                          ELSE LET j == CutAfter(words, i, most) IN <<<<i, j>>>> \o f[j + 1]]
  <1> DEFINE n == Len(words)
             cut(i) == CutAfter(words, i, most)
             Body(f, i) == IF i > n THEN <<>> ELSE <<<<i, cut(i)>>>> \o f[cut(i) + 1]
             SplitsFrom(f, m) == \A i \in 1..n + 1 : i >= m => f[i] = Body(f, i)
             T == {d \in Nat : d <= n =>
                     \E f : f = [i \in 1..n + 1 |-> f[i]] /\ SplitsFrom(f, n + 1 - d)}
  <1>1. n \in Nat
    OBVIOUS
  <1>2. \A i \in 1..n : cut(i) \in Int /\ cut(i) >= i /\ cut(i) <= n
    <2> SUFFICES ASSUME NEW i \in 1..n PROVE cut(i) \in Int /\ cut(i) >= i /\ cut(i) <= n
      OBVIOUS
    <2>1. PieceFits(words, i, cut(i), most)
      BY CutFits
    <2> HIDE DEF cut
    <2> QED BY <1>1, <2>1 DEF PieceFits
  <1> HIDE DEF n, cut
  <1>3. 0 \in T
    <2> DEFINE f == [i \in 1..n + 1 |-> <<>>]
    <2>1. \A i \in 1..n + 1 : i >= n + 1 - 0 => i > n
      BY <1>1
    <2>2. f = [i \in 1..n + 1 |-> f[i]] /\ SplitsFrom(f, n + 1 - 0)
      BY <2>1
    <2> HIDE DEF f, SplitsFrom
    <2> QED BY <2>2
  <1>4. ASSUME NEW d \in Nat, d \in T PROVE d + 1 \in T
    <2> DEFINE Splits(m) == \E f : f = [i \in 1..n + 1 |-> f[i]] /\ SplitsFrom(f, m)
    <2> SUFFICES ASSUME d + 1 <= n PROVE Splits(n + 1 - (d + 1))
      OBVIOUS
    <2> DEFINE a == n + 1 - (d + 1)
    <2>1. a \in 1..n /\ a + 1 = n + 1 - d /\ a \in 1..n + 1 /\ a \in Int
      BY <1>1
    <2>2. Splits(n + 1 - d)
      <3> HIDE DEF Splits
      <3>1. d <= n
        BY <1>1
      <3> QED BY <1>4, <3>1 DEF Splits
    <2>3. PICK f : f = [i \in 1..n + 1 |-> f[i]] /\ SplitsFrom(f, a + 1)
      <3> HIDE DEF SplitsFrom, a
      <3> QED BY <2>1, <2>2
    <2> HIDE DEF a
    <2> DEFINE g == [i \in 1..n + 1 |-> IF i = a THEN Body(f, a) ELSE f[i]]
    <2>4. \A i \in 1..n + 1 : i # a => g[i] = f[i]
      OBVIOUS
    <2>5. g[a] = Body(f, a) /\ g = [i \in 1..n + 1 |-> g[i]]
      BY <2>1
    <2>6. \A i \in 1..n : i >= a => cut(i) + 1 \in 1..n + 1 /\ cut(i) + 1 # a
      BY <1>1, <1>2, <2>1
    <2> HIDE DEF g
    <2>7. ASSUME NEW i \in 1..n + 1, i >= a PROVE g[i] = Body(g, i)
      <3>0. i > n \/ i \in 1..n
        BY <1>1
      <3>1. Body(g, i) = Body(f, i)
        <4>1. CASE i > n
          BY <4>1
        <4>2. CASE ~(i > n)
          <5>1. g[cut(i) + 1] = f[cut(i) + 1]
            BY <2>4, <2>6, <2>7, <3>0, <4>2
          <5> QED BY <5>1
        <4> QED BY <4>1, <4>2
      <3>2. CASE i = a
        <4> HIDE DEF Body
        <4> QED BY <2>5, <3>1, <3>2
      <3>3. CASE i # a
        <4>1. i >= a + 1
          BY <2>1, <2>7, <3>3
        <4>2. f[i] = Body(f, i)
          BY <2>3, <4>1
        <4> HIDE DEF Body
        <4> QED BY <2>4, <3>1, <3>3, <4>2
      <3> QED BY <3>2, <3>3
    <2>8. SplitsFrom(g, a)
      <3> HIDE DEF Body
      <3> QED BY <2>7
    <2>9. Splits(a)
      <3> HIDE DEF SplitsFrom
      <3> QED BY <2>5, <2>8
    <2> HIDE DEF Splits
    <2> QED BY <2>9 DEF a
  <1>5. \A d \in Nat : d \in T => d + 1 \in T
    BY <1>4
  <1>6. \E f : f = [i \in 1..n + 1 |-> f[i]] /\ SplitsFrom(f, n + 1 - n)
    <2> HIDE DEF T, SplitsFrom
    <2>1. n \in T
      BY <1>1, <1>3, <1>5, Induction
    <2> QED BY <1>1, <2>1 DEF T
  <1>7. PICK f : f = [i \in 1..n + 1 |-> f[i]] /\ SplitsFrom(f, n + 1 - n)
    <2> HIDE DEF SplitsFrom
    <2> QED BY <1>6
  <1>8. \A i \in 1..n + 1 : f[i] = Body(f, i)
    <2>1. \A i \in 1..n + 1 : i >= n + 1 - n
      BY <1>1
    <2> HIDE DEF Body
    <2> QED BY <1>7, <2>1
  <1>9. f = [i \in 1..n + 1 |-> Body(f, i)]
    <2> HIDE DEF Body, SplitsFrom
    <2> QED BY <1>7, <1>8
  <1> QED BY <1>9 DEF n, cut

LEMMA SplitIs ==
  ASSUME NEW words \in Seq(Word), words # <<>>, NEW most \in Int
  PROVE  PiecesFrom(words, 1, most, SplitCaption(words, most))
  <1> DEFINE n == Len(words)
             cut(i) == CutAfter(words, i, most)
             f == CHOOSE g : g = [i \in 1..n + 1 |->
                                    IF i > n THEN <<>>
                                    ELSE LET j == CutAfter(words, i, most) IN <<<<i, j>>>> \o g[j + 1]]
  <1>1. n \in Nat /\ n >= 1
    OBVIOUS
  <1>2. \A i \in 1..n : cut(i) \in Int /\ PieceFits(words, i, cut(i), most)
                        /\ cut(i) >= i /\ cut(i) <= n
    <2> SUFFICES ASSUME NEW i \in 1..n
                 PROVE  /\ cut(i) \in Int /\ PieceFits(words, i, cut(i), most)
                        /\ cut(i) >= i /\ cut(i) <= n
      OBVIOUS
    <2>1. PieceFits(words, i, cut(i), most)
      BY CutFits
    <2> HIDE DEF cut
    <2> QED BY <1>1, <2>1 DEF PieceFits
  <1>3. f = [i \in 1..n + 1 |->
               IF i > n THEN <<>> ELSE LET j == CutAfter(words, i, most) IN <<<<i, j>>>> \o f[j + 1]]
    BY SplitExists
  <1>4. SplitCaption(words, most) = f[1]
    BY DEF SplitCaption
  <1> HIDE DEF n, cut, f
  <1>5. /\ f[n + 1] = <<>>
        /\ \A i \in 1..n : f[i] = <<<<i, cut(i)>>>> \o f[cut(i) + 1]
    <2>1. n + 1 \in 1..n + 1 /\ n + 1 > n /\ \A i \in 1..n : i \in 1..n + 1 /\ ~(i > n)
      BY <1>1
    <2> QED BY <1>3, <2>1 DEF cut
  <1> DEFINE Fine(i) == PiecesFrom(words, i, most, f[i])
             T == {d \in Nat : \A i \in 1..n : n - i <= d => Fine(i)}
  <1>6. ASSUME NEW i \in 1..n, cut(i) = n PROVE Fine(i)
    <2>1. f[i] = <<<<i, n>>>> \o <<>>
      BY <1>5, <1>6
    <2>2. f[i] = <<<<i, n>>>>
      BY <2>1
    <2>3. PieceFits(words, i, n, most)
      BY <1>2, <1>6
    <2> QED BY <2>2, <2>3, LastPiece DEF n
  <1>7. ASSUME NEW i \in 1..n, cut(i) < n, Fine(cut(i) + 1) PROVE Fine(i)
    <2> DEFINE j == cut(i)
               rest == f[cut(i) + 1]
    <2>1. f[i] = <<<<i, j>>>> \o rest /\ PiecesFrom(words, j + 1, most, rest)
      BY <1>5, <1>7
    <2>2. j \in Int /\ PieceFits(words, i, j, most) /\ i \in 1..Len(words)
      BY <1>2 DEF n
    <2> HIDE DEF j, rest
    <2> QED BY <2>1, <2>2, PieceBefore
  <1> HIDE DEF Fine
  <1>8. 0 \in T
    <2> SUFFICES ASSUME NEW i \in 1..n, n - i <= 0 PROVE Fine(i)
      OBVIOUS
    <2>1. i = n /\ cut(i) = n
      BY <1>1, <1>2
    <2> QED BY <1>6, <2>1
  <1>9. ASSUME NEW d \in Nat, d \in T PROVE d + 1 \in T
    <2> SUFFICES ASSUME NEW i \in 1..n, n - i <= d + 1 PROVE Fine(i)
      OBVIOUS
    <2>1. CASE cut(i) = n
      BY <1>6, <2>1
    <2>2. CASE cut(i) # n
      <3>1. cut(i) < n /\ cut(i) + 1 \in 1..n /\ n - (cut(i) + 1) <= d
        BY <1>1, <1>2, <2>2
      <3>2. Fine(cut(i) + 1)
        BY <1>9, <3>1
      <3> QED BY <1>7, <3>1, <3>2
    <2> QED BY <2>1, <2>2
  <1>10. Fine(1)
    <2>1. \A d \in Nat : d \in T => d + 1 \in T
      BY <1>9
    <2> HIDE DEF T
    <2>2. n \in T
      BY <1>1, <1>8, <2>1, Induction
    <2>3. 1 \in 1..n /\ n - 1 <= n
      BY <1>1
    <2> QED BY <2>2, <2>3 DEF T
  <1> QED BY <1>4, <1>10 DEF Fine

(* The moments of the pieces of a caption.                                  *)
LEMMA ShareOut ==
  ASSUME NEW from \in Int, NEW to \in Int, from < to, NEW a \in Int, NEW b \in Int, a < b, NEW total \in Int
  PROVE  /\ from * total + (to - from) * a \in Int /\ from * total + (to - from) * b \in Int
         /\ from * total + (to - from) * a < from * total + (to - from) * b
         /\ from * total + (to - from) * total = to * total
         /\ from * total + (to - from) * 0 = from * total
  <1> DEFINE c == to - from
             x == from * total
  <1>1. c \in Int /\ c > 0 /\ x \in Int
    OBVIOUS
  <1>2. x + c * total = to * total /\ x + c * 0 = x
    OBVIOUS
  <1> HIDE DEF c, x
  <1>3. c * a \in Int /\ c * b \in Int /\ c * b - c * a = c * (b - a)
    BY <1>1
  <1>4. c * (b - a) > 0
    BY <1>1
  <1>5. x + c * a \in Int /\ x + c * b \in Int /\ x + c * a < x + c * b
    BY <1>1, <1>3, <1>4
  <1> QED BY <1>2, <1>5 DEF x, c

LEMMA ReadsWell ==
  ASSUME NEW words \in Seq(Word), words # <<>>, NEW most \in Int, NEW from \in Int, NEW to \in Int, from < to
  PROVE  Readable(words, most, from, to)
  <1> DEFINE pieces == SplitCaption(words, most)
             n == Len(pieces)
             times == TimedChunks(words, pieces, from, to)
             total == Total(words, pieces)
             width(k) == Chars(words, pieces[k][1], pieces[k][2])
             f == [k \in 1..n |-> width(k)]
  <1>1. /\ pieces \in Seq(Nat \X Nat) /\ pieces # <<>>
        /\ pieces[1][1] = 1 /\ pieces[n][2] = Len(words)
        /\ \A k \in 2..n : pieces[k][1] = pieces[k - 1][2] + 1
        /\ \A k \in DOMAIN pieces :
             pieces[k][1] \in 1..Len(words) /\ PieceFits(words, pieces[k][1], pieces[k][2], most)
    BY SplitIs DEF PiecesFrom
  <1>2. n \in Nat /\ n >= 1 /\ DOMAIN pieces = 1..n
    BY <1>1
  <1>3. \A k \in 1..n : /\ pieces[k][1] \in 1..Len(words) /\ pieces[k][2] \in pieces[k][1]..Len(words)
                        /\ width(k) <= most \/ pieces[k][1] = pieces[k][2]
    BY <1>1, <1>2 DEF PieceFits
  <1>4. \A k \in 1..n : width(k) \in Nat \ {0}
    BY <1>3, CharsAre
  <1>5. f \in [1..n -> Int] /\ \A k \in 1..n : f[k] = width(k) /\ f[k] > 0 /\ f[k] \in Int
    BY <1>4
  <1> HIDE DEF f, n, pieces
  <1>6. PICK r \in [0..n -> Int] :
           /\ r[0] = 0 /\ \A k \in 1..n : r[k] = r[k - 1] + f[k]
           /\ \A k \in 0..n : Sum([i \in 1..k |-> f[i]]) = r[k]
    BY <1>2, <1>5, SumsAre
  <1>7. ASSUME NEW k \in 0..n PROVE UpTo(words, pieces, k) = r[k]
    <2>1. \A i \in 1..k : f[i] = width(i)
      BY <1>2, <1>5
    <2> HIDE DEF width
    <2>2. [i \in 1..k |-> width(i)] = [i \in 1..k |-> f[i]]
      BY <2>1
    <2>3. UpTo(words, pieces, k) = Sum([i \in 1..k |-> width(i)])
      BY DEF UpTo, width
    <2> QED BY <1>6, <2>2, <2>3
  <1>8. total = r[n] /\ total \in Int
    BY <1>2, <1>7 DEF Total, n
  <1> HIDE DEF total, width
  <1> DEFINE at(k) == from * total + (to - from) * r[k]
  <1>9. \A k \in 1..n : k \in 0..n /\ k - 1 \in 0..n
    BY <1>2
  <1>10. ASSUME NEW k \in 1..n PROVE r[k - 1] \in Int /\ r[k] \in Int /\ r[k - 1] < r[k]
    <2>1. r[k] = r[k - 1] + f[k] /\ r[k - 1] \in Int /\ f[k] > 0 /\ f[k] \in Int
      BY <1>5, <1>6, <1>9
    <2> QED BY <2>1
  <1>11. ASSUME NEW k \in 1..n PROVE at(k - 1) < at(k)
    BY <1>8, <1>10, ShareOut
  <1>12. at(n) = to * total /\ at(0) = from * total
    <2>1. 0 \in Int /\ 1 \in Int /\ 0 < 1
      OBVIOUS
    <2>2. /\ from * total + (to - from) * total = to * total
          /\ from * total + (to - from) * 0 = from * total
      BY <1>8, <2>1, ShareOut
    <2>3. r[n] = total /\ r[0] = 0
      BY <1>6, <1>8
    <2> QED BY <2>2, <2>3
  <1>13. /\ DOMAIN times = 1..n
         /\ \A k \in 1..n :
              /\ times[k].from = from * total + (to - from) * UpTo(words, pieces, k - 1)
              /\ times[k].to = IF k = n THEN to * total
                               ELSE from * total + (to - from) * UpTo(words, pieces, k)
    BY <1>2 DEF TimedChunks, total, n
  <1>14. \A k \in 1..n : times[k].from = at(k - 1)
    BY <1>7, <1>9, <1>13
  <1>15. \A k \in 1..n : times[k].to = at(k)
    <2> SUFFICES ASSUME NEW k \in 1..n PROVE times[k].to = at(k)
      OBVIOUS
    <2>1. CASE k = n
      <3> HIDE DEF at, times
      <3> QED BY <1>12, <1>13, <2>1
    <2>2. CASE k # n
      <3>1. UpTo(words, pieces, k) = r[k]
        BY <1>7, <1>9
      <3> HIDE DEF times
      <3> QED BY <1>13, <2>2, <3>1
    <2> QED BY <2>1, <2>2
  <1> HIDE DEF at, times
  <1>16. \A k \in DOMAIN pieces : times[k].from < times[k].to
    BY <1>2, <1>11, <1>14, <1>15
  <1>17. \A k \in 2..n : times[k].from = times[k - 1].to
    <2>1. \A k \in 2..n : k \in 1..n /\ k - 1 \in 1..n
      BY <1>2
    <2> QED BY <1>14, <1>15, <2>1
  <1>18. times[1].from = from * total /\ times[n].to = to * total
    <2>1. 1 \in 1..n /\ n \in 1..n /\ 1 - 1 = 0
      BY <1>2
    <2>2. times[1].from = at(1 - 1) /\ times[n].to = at(n)
      BY <1>14, <1>15, <2>1
    <2> QED BY <1>12, <2>1, <2>2
  <1>19. \A k \in DOMAIN pieces : Chars(words, pieces[k][1], pieces[k][2]) <= most
                                  \/ pieces[k][1] = pieces[k][2]
    BY <1>2, <1>3 DEF width
  <1> QED BY <1>1, <1>16, <1>17, <1>18, <1>19 DEF Readable, pieces, times, total, n

(* Captions show what is said while it is said, in stitched clips too, and  *)
(* a long one is split without losing a word or a moment, whatever is said  *)
(* and whatever is shown of it (build_srt, build_multipart_srt,             *)
(* normalize_parts, split_caption_text, _timed_caption_chunks).             *)
THEOREM CaptionsKeepStep ==
  /\ \A segments :
       (\A i \in DOMAIN segments : segments[i].start \in Int /\ segments[i].end \in Int) =>
       \A window \in WindowTimes, parts \in Seq(WindowTimes) :
         window[1] <= window[2] => Synchronous(segments, Played(window, parts))
  /\ \A words \in Seq(Word), most, from, to \in Int :
       words # <<>> /\ from < to => Readable(words, most, from, to)
  <1>1. ASSUME NEW segments,
               \A i \in DOMAIN segments : segments[i].start \in Int /\ segments[i].end \in Int,
               NEW window \in WindowTimes, NEW parts \in Seq(WindowTimes), window[1] <= window[2]
        PROVE  Synchronous(segments, Played(window, parts))
    <2>1. Lasting(Played(window, parts))
      BY <1>1, PlayedLasts
    <2> QED BY <1>1, <2>1, InStep
  <1>2. ASSUME NEW words \in Seq(Word), NEW most \in Int, NEW from \in Int, NEW to \in Int,
               words # <<>>, from < to
        PROVE  Readable(words, most, from, to)
    BY <1>2, ReadsWell
  <1> QED BY <1>1, <1>2

-----------------------------------------------------------------------------
(* Windows: the greatest of a number that each of some indices has, and a   *)
(* nearest number.                                                          *)
LEMMA MaxOf ==
  ASSUME NEW n \in Nat, NEW f \in [1..n -> Int], NEW s \in SUBSET (1..n), s # {}
  PROVE  LET top == Max({f[i] : i \in s})
         IN top \in Int /\ (\E i \in s : top = f[i]) /\ \A i \in s : f[i] <= top
  <1> DEFINE g == [i \in 1..n |-> -f[i]]
             numbers == {f[i] : i \in s}
  <1>1. g \in [1..n -> Int] /\ \A i \in 1..n : g[i] = -f[i] /\ f[i] \in Int
    OBVIOUS
  <1> HIDE DEF g
  <1>2. PICK i \in s : \A j \in s : g[i] <= g[j]
    <2>1. LET low == Min({g[i] : i \in s})
          IN low \in Int /\ (\E i \in s : low = g[i]) /\ \A i \in s : low <= g[i]
      BY <1>1, MinOf
    <2> QED BY <2>1
  <1>3. \A j \in s : f[i] >= f[j]
    <2> SUFFICES ASSUME NEW j \in s PROVE f[i] >= f[j]
      OBVIOUS
    <2>1. f[i] \in Int /\ f[j] \in Int /\ g[i] = -f[i] /\ g[j] = -f[j] /\ g[i] <= g[j]
      BY <1>1, <1>2
    <2> QED BY <2>1
  <1>4. \E x \in numbers : \A y \in numbers : x >= y
    BY <1>3
  <1>5. Max(numbers) \in numbers /\ \A y \in numbers : Max(numbers) >= y
    BY <1>4 DEF Max
  <1>6. \A j \in s : f[j] \in Int
    BY <1>1
  <1> QED BY <1>5, <1>6

LEMMA NearestIs ==
  ASSUME NEW S \in SUBSET Int, IsFiniteSet(S), S # {}, NEW far \in [S -> Int]
  PROVE  Min({c \in S : \A d \in S : far[c] <= far[d]}) \in S
  <1> DEFINE n == Cardinality(S)
             nearest == {c \in S : \A d \in S : far[c] <= far[d]}
  <1>1. n \in Nat /\ ExistsBijection(1..n, S)
    BY FS_CardinalityType
  <1>2. PICK b \in [1..n -> S] : \A c \in S : \E i \in 1..n : b[i] = c
    BY <1>1 DEF ExistsBijection, Bijection, Surjection
  <1> HIDE DEF n
  <1> DEFINE f == [i \in 1..n |-> far[b[i]]]
             g == [i \in 1..n |-> b[i]]
             s == {i \in 1..n : b[i] \in nearest}
  <1>3. f \in [1..n -> Int] /\ g \in [1..n -> Int] /\ 1..n # {}
    BY <1>2
  <1>4. \E i \in 1..n : \A j \in 1..n : f[i] <= f[j]
    <2> DEFINE all == 1..n
    <2>1. all \in SUBSET (1..n) /\ all # {}
      BY <1>3
    <2> HIDE DEF f, all
    <2>2. LET low == Min({f[i] : i \in all})
          IN low \in Int /\ (\E i \in all : low = f[i]) /\ \A i \in all : low <= f[i]
      BY <1>1, <1>3, <2>1, MinOf
    <2> QED BY <2>2 DEF all
  <1>5. \E c \in S : \A d \in S : far[c] <= far[d]
    BY <1>2, <1>4
  <1>6. s \in SUBSET (1..n) /\ s # {}
    BY <1>2, <1>5
  <1>7. {g[i] : i \in s} = nearest
    BY <1>2
  <1> HIDE DEF s, g, nearest
  <1>8. LET low == Min({g[i] : i \in s})
        IN low \in Int /\ (\E i \in s : low = g[i]) /\ \A i \in s : low <= g[i]
    BY <1>1, <1>3, <1>6, MinOf
  <1>9. Min(nearest) \in nearest
    BY <1>7, <1>8
  <1> QED BY <1>9 DEF nearest

LEMMA SnapIs ==
  ASSUME NEW cursor \in Int, NEW target \in Int, NEW limit \in Int,
         target < limit, NEW cuts \in SUBSET Int, IsFiniteSet(cuts)
  PROVE  LET end == Snap(cursor, target, limit, cuts)
         IN /\ end \in Int /\ end < limit
            /\ target - SearchWindow <= end /\ end <= target + SearchWindow
            /\ end = target \/ end \in cuts
  <1> DEFINE near == {c \in cuts : /\ cursor + Second < c /\ c < limit
                                   /\ Distance(c, target) <= SearchWindow}
             far == [c \in near |-> Distance(c, target)]
             end == Snap(cursor, target, limit, cuts)
  <1>0. SearchWindow \in Nat
    BY ProposingAssumption
  <1>1. CASE near = {}
    <2>1. end = target
      BY <1>1 DEF Snap
    <2> QED BY <1>0, <2>1
  <1>2. CASE near # {}
    <2>1. near \in SUBSET Int /\ near \in SUBSET cuts
      OBVIOUS
    <2>2. IsFiniteSet(near)
      <3>1. IsFiniteSet(cuts) /\ near \in SUBSET cuts
        BY <2>1
      <3> HIDE DEF near
      <3> QED BY <3>1, FS_Subset
    <2>3. far \in [near -> Int]
      <3>1. ASSUME NEW c \in near PROVE Distance(c, target) \in Int
        <4>1. c \in Int
          BY <2>1
        <4> QED BY <4>1 DEF Distance
      <3> HIDE DEF near
      <3> QED BY <3>1
    <2>4. end = Min({c \in near : \A d \in near : far[c] <= far[d]})
      <3>1. end = Min({c \in near : \A d \in near : Distance(c, target) <= Distance(d, target)})
        BY <1>2 DEF Snap
      <3>2. \A c \in near : far[c] = Distance(c, target)
        OBVIOUS
      <3> HIDE DEF far, near
      <3>3. {c \in near : \A d \in near : Distance(c, target) <= Distance(d, target)}
              = {c \in near : \A d \in near : far[c] <= far[d]}
        BY <3>2
      <3> QED BY <3>1, <3>3
    <2> HIDE DEF far
    <2>5. end \in near
      <3> HIDE DEF near, end
      <3> QED BY <1>2, <2>1, <2>2, <2>3, <2>4, NearestIs
    <2>6. end \in Int /\ end < limit /\ Distance(end, target) <= SearchWindow /\ end \in cuts
      BY <2>5
    <2> HIDE DEF end
    <2> QED BY <1>0, <2>6 DEF Distance, end
  <1> QED BY <1>1, <1>2

LEMMA StepIs ==
  ASSUME NEW minLen \in Nat \ {0}, NEW maxLen \in Nat
  PROVE  /\ Step(minLen, maxLen) \in Nat \ {0}
         /\ minLen <= Step(minLen, maxLen) /\ maxLen \div 3 <= Step(minLen, maxLen)
  <1> DEFINE third == maxLen \div 3
  <1>1. third \in Int /\ minLen \in Int
    OBVIOUS
  <1>2. Step(minLen, maxLen) = Max({third, minLen})
    BY DEF Step
  <1> HIDE DEF third
  <1>3. Max({third, minLen}) \in Int /\ Max({third, minLen}) >= third /\ Max({third, minLen}) >= minLen
    BY <1>1, MinMax
  <1> QED BY <1>1, <1>2, <1>3 DEF third

(* The windows of a block that is too long.                                 *)
LEMMA SubwindowsFit ==
  ASSUME NEW block \in WindowTimes, NEW cuts \in SUBSET Int, IsFiniteSet(cuts),
         NEW minLen \in Nat \ {0}, NEW maxLen \in Nat, Length(block) > maxLen,
         NEW w \in SlidingSubwindows(block, cuts, minLen, maxLen)
  PROVE  /\ w \in WindowTimes /\ block[1] <= w[1] /\ w[2] <= block[2]
         /\ Length(w) = maxLen \/ (w[2] \in cuts /\ Distance(Length(w), maxLen) <= SearchWindow)
  <1> DEFINE step == Step(minLen, maxLen)
             cursor(k) == block[1] + k * step
             slides == {k \in 0..MaxSubwindows - 1 : cursor(k) + maxLen < block[2]}
             window(k) == <<cursor(k), Snap(cursor(k), cursor(k) + maxLen, block[2], cuts)>>
             tail == <<Max({block[1], block[2] - maxLen}), block[2]>>
  <1>1. block[1] \in Int /\ block[2] \in Int /\ block[2] - block[1] > maxLen
        /\ SearchWindow \in Nat /\ MaxSubwindows \in Nat
    BY ProposingAssumption DEF WindowTimes, Length
  <1>2. step \in Nat \ {0}
    BY StepIs
  <1>3. w = tail \/ \E k \in slides : w = window(k)
    BY DEF SlidingSubwindows
  <1> HIDE DEF step
  <1>4. CASE w = tail
    <2> DEFINE from == block[2] - maxLen
               first == block[1]
    <2>1. from \in Int /\ first \in Int /\ from > first
          /\ Max({block[1], block[2] - maxLen}) = Max({first, from})
      BY <1>1
    <2> HIDE DEF from, first
    <2>2. Max({first, from}) = from
      <3>1. Max({first, from}) = IF first <= from THEN from ELSE first
        BY <2>1, MinMax, Zenon
      <3> HIDE DEF tail
      <3> QED BY <2>1, <3>1
    <2>3. w = <<from, block[2]>>
      BY <1>4, <2>1, <2>2 DEF from
    <2>4. Length(w) = maxLen
      BY <1>1, <2>3 DEF Length, from
    <2>5. w \in WindowTimes /\ block[1] <= w[1] /\ w[2] <= block[2]
      BY <1>1, <2>1, <2>3 DEF WindowTimes, from, first
    <2> HIDE DEF tail
    <2> QED BY <2>4, <2>5
  <1>5. ASSUME NEW k \in slides, w = window(k)
        PROVE  /\ w \in WindowTimes /\ block[1] <= w[1] /\ w[2] <= block[2]
               /\ Length(w) = maxLen \/ (w[2] \in cuts /\ Distance(Length(w), maxLen) <= SearchWindow)
    <2> DEFINE c == cursor(k)
               target == c + maxLen
               end == Snap(c, target, block[2], cuts)
    <2>1. k \in Nat /\ c + maxLen < block[2]
      BY <1>1, <1>5
    <2>2. c \in Int /\ block[1] <= c
      <3>1. k * step \in Nat
        BY <1>2, <2>1
      <3> QED BY <1>1, <3>1
    <2>3. w = <<c, end>>
      BY <1>5
    <2> HIDE DEF c
    <2>4. target \in Int /\ target = c + maxLen /\ target < block[2]
      BY <2>1, <2>2
    <2> HIDE DEF target
    <2>5. /\ end \in Int /\ end < block[2]
          /\ target - SearchWindow <= end /\ end <= target + SearchWindow
          /\ end = target \/ end \in cuts
      BY <1>1, <2>2, <2>4, SnapIs
    <2> HIDE DEF end
    <2>6. Length(w) = end - c /\ w[2] = end
      BY <2>3 DEF Length
    <2>7. Length(w) \in Int /\ Length(w) - maxLen = end - target
      BY <2>2, <2>4, <2>5, <2>6
    <2>8. Distance(Length(w), maxLen) <= SearchWindow
      BY <1>1, <2>4, <2>5, <2>7 DEF Distance
    <2>9. end = target => Length(w) = maxLen
      BY <2>7, <2>4
    <2>10. w \in WindowTimes /\ block[1] <= w[1] /\ w[2] <= block[2]
      BY <1>1, <2>2, <2>3, <2>5 DEF WindowTimes
    <2> QED BY <2>5, <2>6, <2>8, <2>9, <2>10
  <1> QED BY <1>3, <1>4, <1>5

(* A block that is too long is covered but for its last second, when each   *)
(* window reaches the next and there are windows enough.                    *)
LEMMA GreatestBelow ==
  ASSUME NEW n \in Nat, NEW s \in SUBSET (0..n - 1), s # {}
  PROVE  Max(s) \in s
  <1> DEFINE f == [i \in 1..n |-> i - 1]
             up == {i \in 1..n : f[i] \in s}
  <1>1. f \in [1..n -> Int] /\ up \in SUBSET (1..n)
    OBVIOUS
  <1>2. \A k \in s : k \in Int /\ k + 1 \in 1..n /\ f[k + 1] = k
    OBVIOUS
  <1>3. up # {}
    BY <1>2
  <1>4. {f[i] : i \in up} = s
    <2>1. \A k \in s : \E i \in up : f[i] = k
      BY <1>2
    <2>2. \A i \in up : f[i] \in s
      OBVIOUS
    <2> HIDE DEF f, up
    <2> QED BY <2>1, <2>2
  <1> HIDE DEF f, up
  <1>5. LET top == Max({f[i] : i \in up})
        IN top \in Int /\ (\E i \in up : top = f[i]) /\ \A i \in up : f[i] <= top
    BY <1>1, <1>3, MaxOf
  <1> QED BY <1>4, <1>5

LEMMA TimesGrows ==
  ASSUME NEW a \in Int, NEW b \in Int, a <= b, NEW s \in Nat
  PROVE  a * s <= b * s
  <1>1. (b - a) * s \in Nat
    OBVIOUS
  <1>2. (b - a) * s = b * s - a * s
    OBVIOUS
  <1> QED BY <1>1, <1>2

LEMMA SubwindowsCover ==
  ASSUME NEW block \in WindowTimes, NEW cuts \in SUBSET Int, IsFiniteSet(cuts),
         NEW minLen \in Nat \ {0}, NEW maxLen \in Nat, Length(block) > maxLen,
         maxLen - SearchWindow >= Step(minLen, maxLen),
         Length(block) <= maxLen + (MaxSubwindows - 1) * Step(minLen, maxLen),
         NEW t \in block[1]..block[2] - Second - 1
  PROVE  \E w \in SlidingSubwindows(block, cuts, minLen, maxLen) : w[1] <= t /\ t < w[2]
  <1> DEFINE windows == SlidingSubwindows(block, cuts, minLen, maxLen)
             step == Step(minLen, maxLen)
             cursor(k) == block[1] + k * step
             slides == {k \in 0..MaxSubwindows - 1 : cursor(k) + maxLen < block[2]}
             window(k) == <<cursor(k), Snap(cursor(k), cursor(k) + maxLen, block[2], cuts)>>
             tail == <<Max({block[1], block[2] - maxLen}), block[2]>>
             first == block[1]
             limit == block[2]
             d == t - first
             k == d \div step
  <1>1. first \in Int /\ limit \in Int /\ limit - first > maxLen /\ t \in Int
        /\ first <= t /\ t < limit - Second /\ Second \in Nat \ {0}
        /\ SearchWindow \in Nat /\ MaxSubwindows \in Nat \ {0}
    BY ProposingAssumption DEF WindowTimes, Length
  <1>2. step \in Nat \ {0}
    BY StepIs
  <1>3. windows = {window(j) : j \in slides} \cup
                  {w \in {tail} : slides # {} => Distance(window(Max(slides))[2], limit) > Second}
    BY DEF SlidingSubwindows
  <1>4. maxLen - SearchWindow >= step /\ limit - first <= maxLen + (MaxSubwindows - 1) * step
    BY DEF Length
  <1>5. ASSUME NEW j \in Nat, cursor(j) + maxLen < limit
        PROVE  /\ cursor(j) \in Int /\ window(j)[1] = cursor(j)
               /\ window(j)[2] \in Int /\ window(j)[2] < limit
               /\ window(j)[2] >= cursor(j) + maxLen - SearchWindow
    <2> DEFINE c == cursor(j)
               target == c + maxLen
               end == Snap(c, target, limit, cuts)
    <2>1. c \in Int
      <3>1. j * step \in Nat
        BY <1>2
      <3> QED BY <1>1, <3>1
    <2>2. target \in Int /\ target < limit /\ window(j) = <<c, end>>
      BY <1>5, <2>1
    <2>3. target = c + maxLen
      OBVIOUS
    <2> HIDE DEF target, c, limit
    <2>4. end \in Int /\ end < limit /\ target - SearchWindow <= end
      BY <1>1, <2>1, <2>2, SnapIs
    <2>5. window(j)[1] = c /\ window(j)[2] = end
      BY <2>2
    <2> HIDE DEF end, window
    <2>6. c + maxLen - SearchWindow <= end
      BY <1>1, <2>1, <2>3, <2>4
    <2> QED BY <2>1, <2>4, <2>5, <2>6 DEF c
  <1>6. k \in Nat /\ k * step <= d /\ d < k * step + step
    <2>1. d \in Nat
      BY <1>1
    <2> HIDE DEF d, step
    <2> DEFINE q == d \div step
    <2>2. q \in Int /\ step * q <= d /\ d < step * q + step
      BY <1>2, <2>1, Division
    <2>3. k = q
      OBVIOUS
    <2> HIDE DEF q, k
    <2>4. q >= 0
      <3>1. q < 0 => step * (q + 1) <= 0
        BY <1>2, <2>2
      <3>2. step * (q + 1) = step * q + step /\ step * q \in Int
        BY <1>2, <2>2
      <3> QED BY <1>2, <2>1, <2>2, <3>1, <3>2
    <2>5. step * q = q * step /\ step * q \in Int
      BY <1>2, <2>2
    <2> QED BY <2>2, <2>3, <2>4, <2>5
  <1> HIDE DEF k, step, window
  <1>7. cursor(k) \in Int /\ cursor(k) <= t /\ t < cursor(k) + step
    <2>1. k * step \in Int
      BY <1>2, <1>6
    <2> QED BY <1>1, <1>2, <1>6, <2>1
  <1>8. CASE cursor(k) + maxLen < limit
    <2>1. k <= MaxSubwindows - 1
      <3> SUFFICES ASSUME k > MaxSubwindows - 1 PROVE FALSE
        BY <1>1, <1>6
      <3> DEFINE most == MaxSubwindows - 1
      <3>1. most \in Int /\ most <= k /\ k \in Int /\ step \in Nat
        BY <1>1, <1>2, <1>6
      <3>2. limit - first <= maxLen + most * step
        BY <1>4
      <3> HIDE DEF most
      <3>3. most * step <= k * step
        BY <3>1, TimesGrows
      <3>4. most * step \in Int /\ k * step \in Int
        BY <3>1
      <3>5. first + k * step + maxLen < limit
        BY <1>8
      <3> HIDE DEF first, limit
      <3> QED BY <1>1, <3>2, <3>3, <3>4, <3>5
    <2>2. k \in slides
      BY <1>1, <1>6, <1>8, <2>1
    <2>3. window(k) \in windows
      BY <1>3, <2>2
    <2>4. /\ cursor(k) \in Int /\ window(k)[1] = cursor(k)
          /\ window(k)[2] \in Int /\ window(k)[2] < limit
          /\ window(k)[2] >= cursor(k) + maxLen - SearchWindow
      BY <1>5, <1>6, <1>8
    <2>5. window(k)[1] <= t /\ t < window(k)[2]
      BY <1>1, <1>2, <1>4, <1>7, <2>4
    <2> QED BY <2>3, <2>5
  <1>9. CASE ~(cursor(k) + maxLen < limit)
    <2>1. limit - maxLen <= t
      BY <1>1, <1>7, <1>9
    <2>2. CASE tail \in windows
      <3> DEFINE from == limit - maxLen
      <3>1. from \in Int /\ first \in Int /\ from > first /\ tail = <<Max({first, from}), limit>>
        BY <1>1
      <3>2. Max({first, from}) = from
        <4> HIDE DEF from, first, tail
        <4>1. Max({first, from}) = IF first <= from THEN from ELSE first
          BY <3>1, MinMax, Zenon
        <4> QED BY <3>1, <4>1
      <3>3. tail[1] = limit - maxLen /\ tail[2] = limit
        BY <3>1, <3>2
      <3>4. t < limit
        BY <1>1
      <3> QED BY <2>1, <2>2, <3>3, <3>4
    <2>3. CASE tail \notin windows
      <3> DEFINE last == Max(slides)
      <3>1. slides # {} /\ ~(Distance(window(last)[2], limit) > Second)
        BY <1>3, <2>3
      <3>2. last \in slides
        <4>1. slides \in SUBSET (0..MaxSubwindows - 1) /\ MaxSubwindows \in Nat
          BY <1>1
        <4> HIDE DEF slides
        <4> QED BY <3>1, <4>1, GreatestBelow
      <3> HIDE DEF last
      <3>3. last \in Nat /\ cursor(last) + maxLen < limit
        BY <1>1, <3>2
      <3>4. window(last) \in windows
        BY <1>3, <3>2
      <3>5. /\ cursor(last) \in Int /\ window(last)[1] = cursor(last)
            /\ window(last)[2] \in Int /\ window(last)[2] < limit
        BY <1>5, <3>3
      <3>6. window(last)[1] <= t
        BY <1>1, <2>1, <3>3, <3>5
      <3>7. t < window(last)[2]
        BY <1>1, <3>1, <3>5 DEF Distance
      <3> QED BY <3>4, <3>6, <3>7
    <2> QED BY <2>2, <2>3
  <1> QED BY <1>8, <1>9

(* A transcript of speech.                                                  *)
LEMMA BlocksAre ==
  ASSUME NEW segments, Spoken(segments), NEW b \in SpeechBlocks(segments)
  PROVE  b \in WindowTimes
  <1> DEFINE n == Len(segments)
             f == [j \in 1..n |-> segments[j].end]
  <1>1. n \in Nat /\ \A i \in 1..n : segments[i].start \in Int /\ segments[i].end \in Int
    <2> DEFINE S == [start : Int, end : Int]
    <2>1. segments \in Seq(S)
      BY DEF Spoken
    <2> HIDE DEF S
    <2>2. Len(segments) \in Nat /\ DOMAIN segments = 1..Len(segments)
          /\ \A k \in DOMAIN segments : segments[k] \in S
      BY <2>1, Elements
    <2> QED BY <2>2 DEF S
  <1>2. PICK p \in (1..n) \X (1..n) : b = <<segments[p[1]].start, LastEnd(segments, p[2])>>
    BY DEF SpeechBlocks
  <1>3. p[1] \in 1..n /\ p[2] \in 1..n
    OBVIOUS
  <1>4. LastEnd(segments, p[2]) \in Int
    <2> DEFINE s == 1..p[2]
    <2>1. f \in [1..n -> Int] /\ s \in SUBSET (1..n) /\ s # {} /\ \A j \in s : f[j] = segments[j].end
      BY <1>1, <1>3
    <2> HIDE DEF f, n
    <2>2. {f[j] : j \in s} = {segments[j].end : j \in s}
      BY <2>1
    <2> HIDE DEF s
    <2>3. LET top == Max({f[i] : i \in s})
          IN top \in Int /\ (\E i \in s : top = f[i]) /\ \A i \in s : f[i] <= top
      BY <1>1, <2>1, MaxOf
    <2> QED BY <2>2, <2>3 DEF LastEnd, s
  <1> QED BY <1>1, <1>2, <1>3, <1>4 DEF WindowTimes

(* The windows fit, whatever is said and wherever the scene is cut: only    *)
(* one that ends at a cut is out of the limits (build_candidate_windows).   *)
THEOREM WindowsOfSpeechFit ==
  ASSUME NEW segments, Spoken(segments), NEW cuts \in SUBSET Int, IsFiniteSet(cuts),
         NEW minLen \in Nat \ {0}, NEW maxLen \in Nat, minLen <= maxLen
  PROVE  WindowsFit(segments, cuts, minLen, maxLen)
  <1> DEFINE windows == BuildCandidateWindows(segments, cuts, minLen, maxLen)
             blocks == SpeechBlocks(segments)
             sliding(b) == SlidingSubwindows(b, cuts, minLen, maxLen)
  <1>1. SearchWindow \in Nat /\ Second \in Nat \ {0}
    BY ProposingAssumption
  <1>2. \A b \in blocks : b \in WindowTimes /\ b[1] \in Int /\ b[2] \in Int /\ Length(b) = b[2] - b[1]
    BY BlocksAre DEF Length, WindowTimes
  <1>3. windows = {b \in blocks : minLen <= Length(b) /\ Length(b) <= maxLen} \cup
                  UNION {sliding(b) : b \in {c \in blocks : Length(c) > maxLen}}
    BY DEF BuildCandidateWindows
  <1> HIDE DEF windows, blocks
  <1>5. ASSUME NEW w \in windows
        PROVE  /\ \E b \in blocks : b[1] <= w[1] /\ w[2] <= b[2]
               /\ \/ minLen <= Length(w) /\ Length(w) <= maxLen
                  \/ w[2] \in cuts /\ Distance(Length(w), maxLen) <= SearchWindow
    <2>1. CASE w \in {b \in blocks : minLen <= Length(b) /\ Length(b) <= maxLen}
      <3>1. w \in blocks /\ minLen <= Length(w) /\ Length(w) <= maxLen
        BY <2>1
      <3>2. w[1] \in Int /\ w[2] \in Int
        BY <1>2, <3>1
      <3> QED BY <3>1, <3>2
    <2>2. CASE w \in UNION {sliding(b) : b \in {c \in blocks : Length(c) > maxLen}}
      <3>1. PICK b \in blocks : Length(b) > maxLen /\ w \in sliding(b)
        BY <2>2
      <3>2. b \in WindowTimes
        BY <1>2
      <3>3. /\ w \in WindowTimes /\ b[1] <= w[1] /\ w[2] <= b[2]
            /\ Length(w) = maxLen \/ (w[2] \in cuts /\ Distance(Length(w), maxLen) <= SearchWindow)
        BY <3>1, <3>2, SubwindowsFit
      <3>4. Length(w) = maxLen => minLen <= Length(w) /\ Length(w) <= maxLen
        OBVIOUS
      <3> QED BY <3>1, <3>3, <3>4
    <2> QED BY <1>3, <2>1, <2>2
  <1>6. ASSUME NEW b \in blocks, Length(b) >= minLen,
               maxLen - SearchWindow >= Step(minLen, maxLen),
               Length(b) <= maxLen + (MaxSubwindows - 1) * Step(minLen, maxLen),
               NEW t \in b[1]..b[2] - Second - 1
        PROVE  \E w \in windows : w[1] <= t /\ t < w[2]
    <2>1. CASE Length(b) <= maxLen
      <3>1. b \in windows
        BY <1>3, <1>6, <2>1
      <3>2. b[1] <= t /\ t < b[2]
        BY <1>1, <1>2
      <3> QED BY <3>1, <3>2
    <2>2. CASE Length(b) > maxLen
      <3>1. b \in WindowTimes
        BY <1>2
      <3>2. \E w \in sliding(b) : w[1] <= t /\ t < w[2]
        BY <1>6, <2>2, <3>1, SubwindowsCover
      <3>3. sliding(b) \subseteq windows
        BY <1>3, <2>2
      <3> QED BY <3>2, <3>3
    <2>3. Length(b) \in Int
      BY <1>2
    <2> QED BY <2>1, <2>2, <2>3
  <1> QED BY <1>5, <1>6 DEF WindowsFit, windows, blocks

(* Suggestions: parts in their order stay as they are when they are sorted. *)
LEMMA InPlace ==
  ASSUME NEW n \in Nat, NEW key \in [1..n -> Int],
         \A i \in 2..n : key[i - 1] < key[i]
  PROVE  \A i \in 1..n : Order(key)[i] = i
  <1> DEFINE order == Order(key)
             Rising(m) == \A i \in 1..n : i < m => key[i] < key[m]
             T == {m \in Nat : m \in 1..n => Rising(m)}
  <1>1. 0 \in T
    OBVIOUS
  <1>2. ASSUME NEW m \in Nat, m \in T PROVE m + 1 \in T
    <2> SUFFICES ASSUME m + 1 \in 1..n, NEW i \in 1..n, i < m + 1 PROVE key[i] < key[m + 1]
      OBVIOUS
    <2>1. m \in 1..n /\ m + 1 \in 2..n /\ (m + 1) - 1 = m
      OBVIOUS
    <2>2. key[m] < key[m + 1]
      BY <2>1
    <2>3. key[i] \in Int /\ key[m] \in Int /\ key[m + 1] \in Int
      BY <2>1
    <2>4. CASE i = m
      BY <2>2, <2>4
    <2>5. CASE i < m
      BY <1>2, <2>1, <2>2, <2>3, <2>5
    <2> QED BY <2>1, <2>4, <2>5
  <1>3. ASSUME NEW j \in 1..n PROVE Rising(j)
    <2>1. \A m \in Nat : m \in T => m + 1 \in T
      BY <1>2
    <2> HIDE DEF T, Rising
    <2>2. j \in T
      <3>1. j \in Nat
        OBVIOUS
      <3> QED BY <1>1, <2>1, <3>1, Induction
    <2> QED BY <2>2 DEF T
  <1>4. DOMAIN key = 1..n /\ order \in [1..n -> 1..n] /\ Sorts(order, key)
    <2> HIDE DEF order
    <2> QED BY OrderSorts DEF order
  <1> HIDE DEF order, T
  <1>5. ASSUME NEW i \in 1..n, NEW j \in 1..n, i < j PROVE order[i] < order[j]
    <2>1. order[i] \in 1..n /\ order[j] \in 1..n
      BY <1>4
    <2>2. \/ key[order[i]] < key[order[j]]
          \/ key[order[i]] = key[order[j]] /\ order[i] < order[j]
      BY <1>4, <1>5 DEF Sorts
    <2>3. order[j] < order[i] => key[order[j]] < key[order[i]]
      BY <1>3, <2>1
    <2>4. order[j] = order[i] => key[order[j]] = key[order[i]]
      OBVIOUS
    <2>5. key[order[i]] \in Int /\ key[order[j]] \in Int
      BY <2>1
    <2> QED BY <2>1, <2>2, <2>3, <2>4, <2>5
  <1> HIDE DEF Rising
  <1>6. ASSUME NEW j \in 1..n PROVE order[j] >= j
    <2> DEFINE U == {m \in Nat : m + 1 \in 1..n => order[m + 1] >= m + 1}
    <2>1. 0 \in U
      BY <1>4
    <2>2. ASSUME NEW m \in Nat, m \in U PROVE m + 1 \in U
      <3> SUFFICES ASSUME (m + 1) + 1 \in 1..n PROVE order[(m + 1) + 1] >= (m + 1) + 1
        OBVIOUS
      <3> DEFINE l == m + 1
      <3>1. l \in 1..n /\ l + 1 \in 1..n /\ l < l + 1 /\ order[l] >= l
        BY <2>2
      <3> HIDE DEF l
      <3>2. order[l] < order[l + 1] /\ order[l] \in Int /\ order[l + 1] \in Int /\ l \in Int
        BY <1>4, <1>5, <3>1
      <3>3. order[l + 1] >= l + 1
        BY <3>1, <3>2
      <3> QED BY <3>3 DEF l
    <2>3. \A m \in Nat : m \in U => m + 1 \in U
      BY <2>2
    <2>4. j - 1 \in Nat /\ (j - 1) + 1 = j
      OBVIOUS
    <2> HIDE DEF U
    <2>5. j - 1 \in U
      BY <2>1, <2>3, <2>4, Induction
    <2> QED BY <2>4, <2>5 DEF U
  <1>7. ASSUME NEW j \in 1..n PROVE order[j] <= j
    <2> DEFINE U == {m \in Nat : n - m \in 1..n => order[n - m] <= n - m}
    <2>1. 0 \in U
      BY <1>4
    <2>2. ASSUME NEW m \in Nat, m \in U PROVE m + 1 \in U
      <3> SUFFICES ASSUME n - (m + 1) \in 1..n PROVE order[n - (m + 1)] <= n - (m + 1)
        OBVIOUS
      <3> DEFINE l == n - (m + 1)
      <3>1. l \in 1..n /\ l + 1 \in 1..n /\ l < l + 1 /\ n - m = l + 1
        OBVIOUS
      <3>2. order[l + 1] <= l + 1
        BY <2>2, <3>1
      <3> HIDE DEF l
      <3>3. order[l] < order[l + 1] /\ order[l] \in Int /\ order[l + 1] \in Int /\ l \in Int
        BY <1>4, <1>5, <3>1
      <3>4. order[l] <= l
        BY <3>2, <3>3
      <3> QED BY <3>4 DEF l
    <2>3. \A m \in Nat : m \in U => m + 1 \in U
      BY <2>2
    <2>4. n - j \in Nat /\ n - (n - j) = j
      OBVIOUS
    <2> HIDE DEF U
    <2>5. n - j \in U
      BY <2>1, <2>3, <2>4, Induction
    <2> QED BY <2>4, <2>5 DEF U
  <1> QED
    <2> TAKE i \in 1..n
    <2>1. order[i] \in Int /\ order[i] >= i /\ order[i] <= i
      BY <1>4, <1>6, <1>7
    <2> QED BY <2>1 DEF order

(* What is kept of an item can be shown as it is.                           *)
Showable(s, minLen, maxLen) ==
  /\ s \in Seq(WindowTimes) /\ s # <<>>
  /\ \A i \in DOMAIN s : 0 <= s[i][1] /\ s[i][1] < s[i][2]
  /\ \A i \in 2..Len(s) : s[i][1] >= s[i - 1][2]
  /\ WithinLimits(s, minLen, maxLen)

LEMMA ToldIs ==
  ASSUME NEW segments, Told(segments)
  PROVE  /\ Len(segments) \in Nat
         /\ \A i \in 1..Len(segments) : /\ segments[i].start \in Nat /\ segments[i].end \in Nat
                                        /\ segments[i].start < segments[i].end
         /\ \A i, j \in 1..Len(segments) : i < j => segments[i].start <= segments[j].start
  <1> DEFINE S == [start : Nat, end : Nat]
  <1>1. segments \in Seq(S)
    BY DEF Told
  <1> HIDE DEF S
  <1>2. Len(segments) \in Nat /\ DOMAIN segments = 1..Len(segments)
        /\ \A k \in DOMAIN segments : segments[k] \in S
    BY <1>1, Elements
  <1> QED BY <1>2 DEF S, Told

LEMMA RangeIs ==
  ASSUME NEW segments, Told(segments), NEW from \in Int, NEW to \in Int, InRange(segments, from, to)
  PROVE  LET w == Window(segments, from, to)
         IN w \in WindowTimes /\ 0 <= w[1] /\ w[1] < w[2]
  <1> DEFINE n == Len(segments)
             i == from + 1
             j == to + 1
  <1>1. n \in Nat /\ i \in 1..n /\ j \in 1..n /\ i <= j
    BY ToldIs DEF InRange
  <1>2. Window(segments, from, to) = <<segments[i].start, segments[j].end>>
    BY DEF Window
  <1> HIDE DEF i, j
  <1>3. segments[i].start \in Nat /\ segments[j].start \in Nat /\ segments[j].end \in Nat
        /\ segments[j].start < segments[j].end /\ segments[i].start <= segments[j].start
    BY <1>1, ToldIs
  <1> QED BY <1>2, <1>3 DEF WindowTimes

LEMMA SuggestionIs ==
  ASSUME NEW segments, Told(segments), NEW item \in ReplyItems, NEW minLen \in Int, NEW maxLen \in Int,
         Suggestion(item, segments, minLen, maxLen) # <<>>
  PROVE  Showable(Suggestion(item, segments, minLen, maxLen), minLen, maxLen)
  <1> DEFINE raw == item.parts
             n == Len(raw)
             windows == [i \in DOMAIN raw |-> Window(segments, raw[i][1], raw[i][2])]
             parts == ParseParts(raw, segments, minLen, maxLen)
             whole == Window(segments, item.from, item.to)
             s == Suggestion(item, segments, minLen, maxLen)
  <1>1. item.from \in Int /\ item.to \in Int /\ raw \in Seq(Int \X Int)
    BY DEF ReplyItems
  <1>2. n \in Nat /\ DOMAIN raw = 1..n /\ \A k \in DOMAIN raw : raw[k] \in Int \X Int
    <2> DEFINE P == Int \X Int
    <2>1. raw \in Seq(P)
      BY <1>1
    <2> HIDE DEF P, raw
    <2> QED BY <2>1, Elements DEF P
  <1> HIDE DEF raw, n
  <1>3. CASE parts # <<>>
    <2>1. s = parts
      BY <1>3 DEF Suggestion, raw
    <2>2. /\ parts = windows
          /\ Len(raw) \in 2..MaxParts
          /\ \A i \in DOMAIN raw : InRange(segments, raw[i][1], raw[i][2])
          /\ \A i \in 2..Len(raw) : windows[i][1] >= windows[i - 1][2]
          /\ WithinLimits(windows, minLen, maxLen)
      BY <1>3 DEF ParseParts
    <2>3. ASSUME NEW i \in DOMAIN raw
          PROVE  windows[i] \in WindowTimes /\ 0 <= windows[i][1] /\ windows[i][1] < windows[i][2]
      <3>1. raw[i][1] \in Int /\ raw[i][2] \in Int /\ InRange(segments, raw[i][1], raw[i][2])
        BY <1>2, <2>2
      <3>2. windows[i] = Window(segments, raw[i][1], raw[i][2])
        OBVIOUS
      <3> HIDE DEF windows
      <3> QED BY <3>1, <3>2, RangeIs
    <2>4. DOMAIN windows = 1..n /\ windows = [i \in 1..n |-> windows[i]]
      BY <1>2
    <2> HIDE DEF windows, parts
    <2>5. windows \in Seq(WindowTimes)
      <3> HIDE DEF windows
      <3> DEFINE W == WindowTimes
      <3>1. windows \in [1..n -> W]
        BY <1>2, <2>3, <2>4
      <3> HIDE DEF W
      <3>2. windows \in Seq(W)
        BY <1>2, <3>1
      <3> QED BY <3>2 DEF W
    <2>6. Len(windows) = n
      BY <1>2, <2>4, <2>5
    <2> QED BY <1>2, <1>3, <2>1, <2>2, <2>3, <2>4, <2>5, <2>6 DEF Showable, n
  <1>4. CASE parts = <<>>
    <2>1. InRange(segments, item.from, item.to) /\ WithinLimits(<<whole>>, minLen, maxLen) /\ s = <<whole>>
      BY <1>4 DEF Suggestion, raw
    <2>2. whole \in WindowTimes /\ 0 <= whole[1] /\ whole[1] < whole[2]
      BY <1>1, <2>1, RangeIs
    <2> HIDE DEF whole, parts, windows
    <2> DEFINE W == WindowTimes
    <2>3. <<whole>> \in Seq(W) /\ Len(<<whole>>) = 1 /\ DOMAIN <<whole>> = 1..1 /\ <<whole>>[1] = whole
          /\ <<whole>> # <<>>
      <3>1. whole \in W
        BY <2>2
      <3> HIDE DEF W
      <3> QED BY <3>1
    <2>4. \A i \in 2..1 : FALSE
      OBVIOUS
    <2> QED BY <2>1, <2>2, <2>3, <2>4 DEF Showable
  <1> QED BY <1>3, <1>4

LEMMA ShownAsProposed ==
  ASSUME NEW s, NEW minLen \in Int, NEW maxLen \in Int, Showable(s, minLen, maxLen)
  PROVE  Played(Outer(s), IF Len(s) = 1 THEN <<>> ELSE s) = s
  <1> DEFINE n == Len(s)
             key == [i \in DOMAIN s |-> s[i][1]]
             sorted == [i \in DOMAIN s |-> s[Order(key)[i]]]
  <1>1. /\ n \in Nat /\ DOMAIN s = 1..n /\ n # 0
        /\ \A k \in DOMAIN s : s[k] \in WindowTimes
    <2>1. s \in Seq(WindowTimes) /\ s # <<>>
      BY DEF Showable
    <2> QED BY <2>1, Elements
  <1>2. \A k \in 1..n : s[k] = <<s[k][1], s[k][2]>> /\ s[k][1] \in Int /\ s[k][2] \in Int
    BY <1>1 DEF WindowTimes
  <1>3. s = [i \in 1..n |-> s[i]]
    BY <1>1 DEF Showable
  <1> HIDE DEF n
  <1>4. CASE n = 1
    <2>1. NormalizeParts(<<>>) = <<>>
      BY DEF NormalizeParts
    <2>2. Played(Outer(s), <<>>) = <<Outer(s)>>
      BY <2>1 DEF Played
    <2>3. Outer(s) = s[1]
      BY <1>2, <1>4 DEF Outer, n
    <2>4. <<s[1]>> = s
      BY <1>3, <1>4
    <2> QED BY <1>4, <2>2, <2>3, <2>4 DEF n
  <1>5. CASE n # 1
    <2>1. \A i \in 1..n : 0 <= s[i][1] /\ s[i][1] < s[i][2]
      BY <1>1 DEF Showable
    <2>2. \A i \in 2..n : i - 1 \in 1..n /\ i \in 1..n /\ s[i][1] >= s[i - 1][2]
      BY <1>1 DEF Showable, n
    <2>3. key \in [1..n -> Int]
      BY <1>1, <1>2
    <2>4. \A i \in 1..n : key[i] = s[i][1]
      BY <1>1
    <2>5. \A i \in 2..n : key[i - 1] < key[i]
      <3> TAKE i \in 2..n
      <3>1. /\ key[i - 1] = s[i - 1][1] /\ key[i] = s[i][1] /\ s[i - 1][1] < s[i - 1][2]
            /\ s[i][1] >= s[i - 1][2]
        BY <2>1, <2>2, <2>4
      <3>2. s[i][1] \in Int /\ s[i - 1][1] \in Int /\ s[i - 1][2] \in Int
        BY <1>2, <2>2
      <3> QED BY <3>1, <3>2
    <2> HIDE DEF key
    <2>6. \A i \in 1..n : Order(key)[i] = i
      BY <1>1, <2>3, <2>5, InPlace
    <2>7. sorted = s
      BY <1>1, <1>3, <2>6
    <2>8. ~Overlap(s)
      <3> SUFFICES ASSUME NEW i \in 2..n, s[i][1] < s[i - 1][2] PROVE FALSE
        BY DEF Overlap, n
      <3>1. s[i][1] \in Int /\ s[i - 1][2] \in Int /\ s[i][1] >= s[i - 1][2]
        BY <1>2, <2>2
      <3> QED BY <3>1
    <2>9. ~(Len(s) < 2) /\ ~(\E i \in DOMAIN s : s[i][2] <= s[i][1] \/ s[i][1] < 0)
      <3>1. ~(Len(s) < 2)
        BY <1>1, <1>5 DEF n
      <3>2. ASSUME NEW i \in 1..n PROVE ~(s[i][2] <= s[i][1] \/ s[i][1] < 0)
        <4>1. s[i][1] \in Int /\ s[i][2] \in Int /\ 0 <= s[i][1] /\ s[i][1] < s[i][2]
          BY <1>2, <2>1
        <4> QED BY <4>1
      <3> QED BY <1>1, <3>1, <3>2
    <2>10. NormalizeParts(s) = sorted
      <3>1. NormalizeParts(s) = IF \/ Len(s) < 2
                                   \/ \E i \in DOMAIN s : s[i][2] <= s[i][1] \/ s[i][1] < 0
                                   \/ Overlap(sorted)
                                THEN <<>> ELSE sorted
        BY DEF NormalizeParts, key
      <3> HIDE DEF sorted
      <3> QED BY <2>7, <2>8, <2>9, <3>1
    <2>11. s # <<>>
      BY DEF Showable
    <2>12. Played(Outer(s), s) = s
      BY <2>7, <2>10, <2>11 DEF Played
    <2> QED BY <1>5, <2>12 DEF n
  <1> QED BY <1>4, <1>5

(* What is kept of a reply after its first k items.                         *)
Kept(kept, s) ==
  IF \/ Len(kept) = MaxSuggestions
     \/ s = <<>>
     \/ \E i \in DOMAIN kept : Key(kept[i]) = Key(s)
  THEN kept ELSE Append(kept, s)

KeptWell(kept, minLen, maxLen) ==
  /\ kept \in Seq(Seq(WindowTimes)) /\ Len(kept) <= MaxSuggestions
  /\ \A i \in DOMAIN kept : Showable(kept[i], minLen, maxLen)
  /\ \A i, j \in DOMAIN kept : Key(kept[i]) = Key(kept[j]) => i = j

LEMMA KeepsWell ==
  ASSUME NEW kept, NEW s, NEW minLen \in Int, NEW maxLen \in Int,
         KeptWell(kept, minLen, maxLen), s # <<>> => Showable(s, minLen, maxLen)
  PROVE  KeptWell(Kept(kept, s), minLen, maxLen)
  <1> DEFINE n == Len(kept)
             more == Append(kept, s)
             W == Seq(WindowTimes)
  <1> SUFFICES ASSUME Len(kept) # MaxSuggestions, s # <<>>,
                      ~\E i \in DOMAIN kept : Key(kept[i]) = Key(s)
               PROVE  KeptWell(more, minLen, maxLen)
    BY DEF Kept
  <1>1. kept \in Seq(W) /\ s \in W
    BY DEF KeptWell, Showable
  <1>2. n \in Nat /\ n < MaxSuggestions /\ MaxSuggestions \in Nat /\ DOMAIN kept = 1..n
    <2>1. Len(kept) <= MaxSuggestions /\ MaxSuggestions \in Nat
      BY ProposingAssumption DEF KeptWell
    <2> HIDE DEF W
    <2>2. Len(kept) \in Nat /\ DOMAIN kept = 1..Len(kept)
      BY <1>1, Elements
    <2>3. n \in Nat /\ n <= MaxSuggestions /\ n # MaxSuggestions
      BY <2>1, <2>2
    <2> HIDE DEF n
    <2>4. n < MaxSuggestions
      BY <2>1, <2>3
    <2> QED BY <2>1, <2>2, <2>3, <2>4 DEF n
  <1> HIDE DEF W
  <1>3. /\ more \in Seq(W) /\ Len(more) = n + 1 /\ DOMAIN more = 1..n + 1
        /\ more[n + 1] = s /\ \A i \in 1..n : more[i] = kept[i]
    <2>1. more \in Seq(W)
      BY <1>1
    <2>2. Len(more) = Len(kept) + 1
      BY <1>1
    <2>3. more[Len(kept) + 1] = s /\ \A i \in 1..Len(kept) : more[i] = kept[i]
      BY <1>1
    <2>4. DOMAIN more = 1..Len(kept) + 1
      BY <1>1
    <2> QED BY <2>1, <2>2, <2>3, <2>4
  <1> HIDE DEF more, n
  <1>4. \A i \in DOMAIN more : Showable(more[i], minLen, maxLen)
    <2> SUFFICES ASSUME NEW i \in 1..n + 1 PROVE Showable(more[i], minLen, maxLen)
      BY <1>3
    <2>1. CASE i = n + 1
      BY <1>3, <2>1
    <2>2. CASE i # n + 1
      <3>1. i \in 1..n
        BY <1>2, <2>2
      <3> QED BY <1>2, <1>3, <3>1 DEF KeptWell
    <2> QED BY <2>1, <2>2
  <1>5. ASSUME NEW i \in 1..n + 1, NEW j \in 1..n + 1, Key(more[i]) = Key(more[j])
        PROVE  i = j
    <2>1. \A k \in 1..n : Key(kept[k]) # Key(s)
      BY <1>2
    <2>2. CASE i = n + 1 /\ j # n + 1
      <3>1. j \in 1..n
        BY <1>2, <2>2
      <3> QED BY <1>3, <1>5, <2>1, <2>2, <3>1
    <2>3. CASE i # n + 1 /\ j = n + 1
      <3>1. i \in 1..n
        BY <1>2, <2>3
      <3> QED BY <1>3, <1>5, <2>1, <2>3, <3>1
    <2>4. CASE i # n + 1 /\ j # n + 1
      <3>1. i \in 1..n /\ j \in 1..n
        BY <1>2, <2>4
      <3> QED BY <1>2, <1>3, <1>5, <3>1 DEF KeptWell
    <2> QED BY <2>2, <2>3, <2>4
  <1>6. Len(more) <= MaxSuggestions
    BY <1>2, <1>3
  <1> QED BY <1>3, <1>4, <1>5, <1>6 DEF KeptWell, W

LEMMA ReplyIsKeptWell ==
  ASSUME NEW segments, Told(segments), NEW reply \in Seq(ReplyItems),
         NEW minLen \in Int, NEW maxLen \in Int
  PROVE  KeptWell(ParseSegmentSuggestions(reply, segments, minLen, maxLen), minLen, maxLen)
  <1> DEFINE n == Len(reply)
             told(i) == Suggestion(reply[i], segments, minLen, maxLen)
             V == {kept \in Seq(Seq(WindowTimes)) : KeptWell(kept, minLen, maxLen)}
             Op == [c \in (1..n) \X V |-> Kept(c[2], told(c[1]))]
             g == CHOOSE h : h = [s \in SUBSET (DOMAIN reply) |->
                    IF s = {} THEN <<>>
                    ELSE Kept(h[s \ {Max(s)}], told(Max(s)))]
  <1>1. n \in Nat /\ DOMAIN reply = 1..n /\ \A j \in 1..n : reply[j] \in ReplyItems
    <2> DEFINE P == ReplyItems
    <2>1. reply \in Seq(P)
      OBVIOUS
    <2> HIDE DEF P
    <2>2. Len(reply) \in Nat /\ DOMAIN reply = 1..Len(reply) /\ \A k \in DOMAIN reply : reply[k] \in P
      BY <2>1, Elements
    <2> QED BY <2>2 DEF P
  <1>2. ParseSegmentSuggestions(reply, segments, minLen, maxLen) = g[DOMAIN reply]
    BY DEF ParseSegmentSuggestions, FoldLeft, MapThenFoldSet, Kept
  <1> HIDE DEF n
  <1>3. \A i \in 1..n : told(i) # <<>> => Showable(told(i), minLen, maxLen)
    BY <1>1, SuggestionIs
  <1> HIDE DEF told
  <1>4. <<>> \in V
    <2>1. <<>> \in Seq(Seq(WindowTimes)) /\ Len(<<>>) = 0 /\ DOMAIN <<>> = {}
      OBVIOUS
    <2>2. 0 <= MaxSuggestions
      BY ProposingAssumption
    <2>3. KeptWell(<<>>, minLen, maxLen)
      BY <2>1, <2>2 DEF KeptWell
    <2> QED BY <2>1, <2>3
  <1>5. ASSUME NEW kept \in V, NEW i \in 1..n PROVE Kept(kept, told(i)) \in V
    <2>1. KeptWell(Kept(kept, told(i)), minLen, maxLen)
      BY <1>3, KeepsWell
    <2> QED BY <2>1 DEF KeptWell
  <1> HIDE DEF V
  <1>6. Op \in [(1..n) \X V -> V]
    BY <1>5
  <1>7. PICK h \in [SUBSET (1..n) -> V] :
          \A s \in SUBSET (1..n) : h[s] = IF s = {} THEN <<>> ELSE Op[<<Max(s), h[s \ {Max(s)}]>>]
    <2>1. \E h : Folding(h, n, V, <<>>, Op)
      <3> HIDE DEF Op
      <3> QED BY <1>1, <1>4, <1>6, FoldExists, Zenon
    <2> HIDE DEF Op
    <2> QED BY <2>1 DEF Folding
  <1>8. ASSUME NEW s \in SUBSET (1..n), s # {}
        PROVE  Op[<<Max(s), h[s \ {Max(s)}]>>] = Kept(h[s \ {Max(s)}], told(Max(s)))
    <2>1. Max(s) \in 1..n
      BY <1>1, <1>8, MaxIs
    <2> QED BY <2>1
  <1>9. h = [s \in SUBSET (1..n) |->
               IF s = {} THEN <<>> ELSE Kept(h[s \ {Max(s)}], told(Max(s)))]
    <2> HIDE DEF Op
    <2> QED BY <1>7, <1>8
  <1>10. g = [s \in SUBSET (1..n) |->
                IF s = {} THEN <<>> ELSE Kept(g[s \ {Max(s)}], told(Max(s)))]
    BY <1>1, <1>9
  <1> HIDE DEF g
  <1>11. g[1..n] \in V
    <2> DEFINE T == {k \in Nat : k <= n => g[1..k] \in V}
    <2>1. 0 \in T
      <3>1. 1..0 = {} /\ 1..0 \in SUBSET (1..n)
        BY <1>1
      <3>2. g[1..0] = <<>>
        BY <1>10, <3>1
      <3> QED BY <1>4, <3>2
    <2>2. ASSUME NEW k \in Nat, k \in T PROVE k + 1 \in T
      <3> SUFFICES ASSUME k + 1 <= n PROVE g[1..k + 1] \in V
        OBVIOUS
      <3> DEFINE l == k + 1
      <3>1. l \in 1..n /\ l - 1 = k /\ g[1..k] \in V
        BY <1>1, <2>2
      <3> HIDE DEF l
      <3>2. /\ 1..l \in SUBSET (1..n) /\ 1..l # {} /\ Max(1..l) = l
            /\ (1..l) \ {Max(1..l)} = 1..l - 1
        BY <1>1, <3>1, Firsts
      <3>3. g[1..l] = Kept(g[1..k], told(l))
        BY <1>10, <3>1, <3>2
      <3>4. g[1..l] \in V
        BY <1>5, <3>1, <3>3
      <3> QED BY <3>4 DEF l
    <2>3. \A k \in Nat : k \in T => k + 1 \in T
      BY <2>2
    <2> HIDE DEF T
    <2>4. n \in T
      BY <1>1, <2>1, <2>3, Induction
    <2> QED BY <1>1, <2>4 DEF T
  <1> QED BY <1>1, <1>2, <1>11 DEF V

(* What is kept of a reply is shown as it was proposed, no two suggestions  *)
(* with the same ends, whatever the model said (parse_segment_suggestions,  *)
(* _parse_parts and normalize_parts).                                       *)
THEOREM RepliesAreShown ==
  ASSUME NEW segments, Told(segments), NEW reply \in Seq(ReplyItems),
         NEW minLen \in Int, NEW maxLen \in Int
  PROVE  SuggestionsFit(reply, segments, minLen, maxLen, Played)
  <1> DEFINE kept == ParseSegmentSuggestions(reply, segments, minLen, maxLen)
  <1>1. KeptWell(kept, minLen, maxLen)
    BY ReplyIsKeptWell
  <1> HIDE DEF kept
  <1>2. Len(kept) <= MaxSuggestions
    BY <1>1 DEF KeptWell
  <1>3. ASSUME NEW i \in DOMAIN kept
        PROVE  /\ Played(Outer(kept[i]), IF Len(kept[i]) = 1 THEN <<>> ELSE kept[i]) = kept[i]
               /\ WithinLimits(kept[i], minLen, maxLen)
    <2>1. Showable(kept[i], minLen, maxLen)
      BY <1>1 DEF KeptWell
    <2> QED BY <2>1, ShownAsProposed DEF Showable
  <1>4. ASSUME NEW i \in DOMAIN kept, NEW j \in DOMAIN kept, Outer(kept[i]) = Outer(kept[j])
        PROVE  i = j
    <2>1. Key(kept[i]) = Key(kept[j])
      BY <1>4 DEF Key
    <2> QED BY <1>1, <2>1 DEF KeptWell
  <1> QED BY <1>2, <1>3, <1>4 DEF SuggestionsFit, kept

-----------------------------------------------------------------------------
(* The chunks of an upload: n are just enough, one less would not hold the  *)
(* file.                                                                    *)
Enough(size, chunk, n) ==
  /\ chunk \in Nat \ {0} /\ n \in Nat \ {0}
  /\ (n - 1) * chunk < size /\ size <= n * chunk

LEMMA PlanIsEnough ==
  ASSUME NEW size \in Nat \ {0}, NEW preferred \in Int
  PROVE  /\ PlanChunks(size, preferred) =
              <<PlanChunks(size, preferred)[1], PlanChunks(size, preferred)[2]>>
         /\ Enough(size, PlanChunks(size, preferred)[1], PlanChunks(size, preferred)[2])
  <1>1. CASE size <= preferred
    <2>1. PlanChunks(size, preferred) = <<size, 1>>
      BY <1>1 DEF PlanChunks
    <2> QED BY <2>1 DEF Enough
  <1>2. CASE ~(size <= preferred)
    <2> DEFINE chunk == Max({MinChunk, Min({preferred, MaxChunk})})
               n == (size + chunk - 1) \div chunk
    <2>1. PlanChunks(size, preferred) = <<chunk, n>>
      BY <1>2 DEF PlanChunks
    <2>2. chunk \in Nat \ {0}
      <3> DEFINE low == Min({preferred, MaxChunk})
      <3>1. low \in Int
        BY ChunksAssumption, MinMax
      <3> HIDE DEF low
      <3>2. Max({MinChunk, low}) = IF MinChunk <= low THEN low ELSE MinChunk
        BY <3>1, ChunksAssumption, MinMax
      <3>3. chunk = Max({MinChunk, low})
        BY DEF low
      <3> QED BY <3>1, <3>2, <3>3, ChunksAssumption
    <2> HIDE DEF chunk
    <2>3. n \in Int /\ chunk * n <= size + chunk - 1 /\ size + chunk - 1 < chunk * n + chunk
      BY <2>2, Division
    <2> HIDE DEF n
    <2>4. size <= n * chunk
      BY <2>2, <2>3
    <2>5. n >= 1
      <3>1. ASSUME n <= 0 PROVE FALSE
        <4>1. n * chunk <= 0
          BY <2>2, <2>3, <3>1
        <4>2. n * chunk \in Int
          BY <2>2, <2>3
        <4> QED BY <2>4, <4>1, <4>2
      <3> QED BY <2>3, <3>1
    <2>6. (n - 1) * chunk < size
      BY <2>2, <2>3
    <2> QED BY <2>1, <2>2, <2>3, <2>4, <2>5, <2>6 DEF Enough
  <1> QED BY <1>1, <1>2

(* Where the k-th chunk begins and ends.                                    *)
LEMMA KthRange ==
  ASSUME NEW size \in Nat \ {0}, NEW chunk, NEW n, Enough(size, chunk, n), NEW k \in 1..n
  PROVE  LET range == SentRanges(size, <<chunk, n>>)[k]
         IN /\ range[1] = (k - 1) * chunk /\ range[1] \in Nat /\ range[2] \in Nat
            /\ k < n => range[2] = k * chunk - 1
            /\ k = n => range[2] = size - 1
            /\ range[1] <= range[2] /\ range[2] - range[1] + 1 <= chunk
  <1> DEFINE offset == (k - 1) * chunk
             left == size - offset
             range == SentRanges(size, <<chunk, n>>)[k]
  <1>1. chunk \in Nat \ {0} /\ n \in Nat \ {0} /\ (n - 1) * chunk < size /\ size <= n * chunk
    BY DEF Enough
  <1>2. range = <<offset, offset + Min({chunk, size - offset}) - 1>>
    BY DEF SentRanges
  <1>3. offset \in Nat
    BY <1>1
  <1>4. offset <= (n - 1) * chunk
    <2>1. (n - 1) * chunk - offset = (n - k) * chunk
      BY <1>1
    <2>2. (n - k) * chunk >= 0
      BY <1>1
    <2> QED BY <1>1, <1>3, <2>1, <2>2
  <1>5. k < n => k * chunk <= (n - 1) * chunk
    <2>1. ASSUME k < n PROVE (n - 1 - k) * chunk >= 0
      BY <1>1, <2>1
    <2>2. (n - 1) * chunk - k * chunk = (n - 1 - k) * chunk
      BY <1>1
    <2> QED BY <1>1, <2>1, <2>2
  <1>6. k * chunk = offset + chunk
    BY <1>1
  <1>7. /\ k * chunk \in Int /\ n * chunk \in Int /\ (n - 1) * chunk \in Int
        /\ k = n => k * chunk = n * chunk
    BY <1>1
  <1> HIDE DEF offset
  <1>8. Min({chunk, size - offset}) = IF chunk <= size - offset THEN chunk ELSE size - offset
    BY <1>1, <1>3, MinMax
  <1> DEFINE sent == Min({chunk, size - offset})
  <1>9. /\ sent \in Nat /\ sent >= 1 /\ sent <= chunk
        /\ k < n => offset + sent = k * chunk
        /\ k = n => offset + sent = size
    BY <1>1, <1>3, <1>4, <1>5, <1>6, <1>7, <1>8
  <1> HIDE DEF sent
  <1>10. range = <<offset, offset + sent - 1>>
    BY <1>2 DEF sent
  <1> HIDE DEF range
  <1>11. /\ range[1] = offset /\ range[1] \in Nat /\ range[2] \in Nat
         /\ k < n => range[2] = k * chunk - 1
         /\ k = n => range[2] = size - 1
         /\ range[1] <= range[2] /\ range[2] - range[1] + 1 <= chunk
    BY <1>1, <1>3, <1>7, <1>9, <1>10
  <1> QED BY <1>11 DEF range, offset

(* The chunks of an upload are the file, whole, in order and without a gap, *)
(* and none is larger than the size that TikTok was told (plan_chunks and   *)
(* the loop over upload_video_chunk in workers/upload.py).                  *)
THEOREM ChunksArriveWhole ==
  ASSUME NEW size \in Nat \ {0}, NEW preferred \in Int
  PROVE  ChunksAreTheFile(size, preferred)
  <1> DEFINE plan == PlanChunks(size, preferred)
             chunk == plan[1]
             n == plan[2]
             sent == SentRanges(size, plan)
  <1>1. plan = <<chunk, n>> /\ Enough(size, chunk, n)
    BY PlanIsEnough
  <1> HIDE DEF plan
  <1> HIDE DEF chunk, n
  <1>2. chunk \in Nat \ {0} /\ n \in Nat \ {0}
    BY <1>1 DEF Enough
  <1>3. sent = SentRanges(size, <<chunk, n>>)
    BY <1>1
  <1>4. DOMAIN sent = 1..n /\ Len(sent) = n
    BY <1>1, <1>2, <1>3 DEF SentRanges
  <1>5. \A k \in 1..n :
          /\ sent[k][1] = (k - 1) * chunk /\ sent[k][1] \in Nat /\ sent[k][2] \in Nat
          /\ k < n => sent[k][2] = k * chunk - 1
          /\ k = n => sent[k][2] = size - 1
          /\ sent[k][1] <= sent[k][2] /\ sent[k][2] - sent[k][1] + 1 <= chunk
    BY <1>1, <1>3, KthRange
  <1> HIDE DEF sent
  <1>6. sent[1][1] = 0 /\ sent[n][2] = size - 1
    <2>1. 1 \in 1..n /\ n \in 1..n /\ (1 - 1) * chunk = 0
      BY <1>2
    <2>2. sent[1][1] = (1 - 1) * chunk
      BY <1>5, <2>1
    <2> QED BY <1>5, <2>1, <2>2
  <1>7. ASSUME NEW k \in 2..n PROVE sent[k][1] = sent[k - 1][2] + 1
    <2>1. k - 1 \in 1..n /\ k - 1 < n /\ k \in 1..n
      BY <1>2
    <2>2. sent[k - 1][2] = (k - 1) * chunk - 1 /\ sent[k][1] = (k - 1) * chunk
      BY <1>5, <2>1
    <2>3. (k - 1) * chunk \in Int
      BY <1>2
    <2> QED BY <2>2, <2>3
  <1>8. \A k \in DOMAIN sent : sent[k][2] >= sent[k][1] /\ sent[k][2] - sent[k][1] + 1 <= chunk
    BY <1>4, <1>5
  <1>9. /\ Len(sent) >= 1 /\ sent[1][1] = 0 /\ sent[Len(sent)][2] = size - 1
        /\ \A k \in 2..Len(sent) : sent[k][1] = sent[k - 1][2] + 1
        /\ \A k \in DOMAIN sent : sent[k][2] >= sent[k][1]
        /\ \A k \in DOMAIN sent : sent[k][2] - sent[k][1] + 1 <= chunk
    BY <1>2, <1>4, <1>6, <1>7, <1>8
  <1> USE DEF sent, chunk, plan
  <1> QED BY <1>9 DEF ChunksAreTheFile

-----------------------------------------------------------------------------
(* The pieces of a sound track: a cut is near its target and in the sound.  *)
Quiet(silences, duration) ==
  silences \in SUBSET (Nat \X Nat) /\ \A s \in silences : s[1] <= s[2] /\ s[2] < duration

LEMMA CutIs ==
  ASSUME NEW duration \in Nat, NEW silences, Quiet(silences, duration),
         NEW target \in Nat, target < duration
  PROVE  LET cut == CutNear(silences, target)
         IN /\ cut \in Nat /\ cut < duration
            /\ target - CutSearch <= cut /\ cut <= target + CutSearch
  <1> DEFINE here == {q \in silences : Away(Middle(q), target) <= CutSearch}
             near == {Middle(s) : s \in here}
             far == [m \in near |-> Away(m, target)]
             cut == CutNear(silences, target)
  <1>1. CutSearch \in Nat
    BY ChunksAssumption
  <1>2. ASSUME NEW s \in silences PROVE Middle(s) \in Nat /\ Middle(s) < duration
    <2>1. s[1] \in Nat /\ s[2] \in Nat /\ s[1] <= s[2] /\ s[2] < duration
      BY DEF Quiet
    <2> DEFINE a == s[1] + s[2]
    <2>2. a \in Int /\ 0 <= a /\ a <= 2 * s[2] /\ Middle(s) = a \div 2
      BY <2>1 DEF Middle
    <2> HIDE DEF a
    <2>3. a \div 2 \in Int /\ 2 * (a \div 2) <= a /\ a <= 2 * (a \div 2) + 1
      BY <2>2, Halves
    <2> DEFINE m == a \div 2
    <2>4. m \in Int /\ 2 * m <= a /\ a <= 2 * m + 1 /\ Middle(s) = m
      BY <2>2, <2>3
    <2> HIDE DEF m
    <2> QED BY <2>1, <2>2, <2>4
  <1>3. ASSUME NEW m \in near
        PROVE  /\ m \in Nat /\ m < duration
               /\ target - CutSearch <= m /\ m <= target + CutSearch
    <2>1. PICK s \in silences : m = Middle(s) /\ Away(Middle(s), target) <= CutSearch
      OBVIOUS
    <2>2. m \in Nat /\ m < duration
      BY <1>2, <2>1
    <2>3. Away(m, target) <= CutSearch
      BY <2>1
    <2> HIDE DEF near
    <2> QED BY <1>1, <2>2, <2>3 DEF Away
  <1>4. CASE near = {}
    <2>1. cut = target
      BY <1>4 DEF CutNear
    <2> QED BY <1>1, <2>1
  <1>5. CASE near # {}
    <2>1. cut = Min({m \in near : \A n \in near : Away(m, target) <= Away(n, target)})
      BY <1>5 DEF CutNear
    <2> HIDE DEF near
    <2>2. \A m \in near : far[m] = Away(m, target) /\ far[m] \in Int
      BY <1>3 DEF Away
    <2>3. far \in [near -> Int]
      BY <2>2
    <2> HIDE DEF far
    <2>4. {m \in near : \A n \in near : Away(m, target) <= Away(n, target)}
            = {m \in near : \A n \in near : far[m] <= far[n]}
      BY <2>2
    <2>5. near \in SUBSET Int /\ IsFiniteSet(near)
      <3> DEFINE some == target - CutSearch..target + CutSearch
      <3>1. near \in SUBSET some /\ near \in SUBSET Int
        BY <1>1, <1>3
      <3>2. IsFiniteSet(some)
        <4>1. target - CutSearch \in Int /\ target + CutSearch \in Int
          BY <1>1
        <4> QED BY <4>1, FS_Interval
      <3> HIDE DEF some
      <3> QED BY <3>1, <3>2, FS_Subset
    <2> HIDE DEF cut
    <2>6. cut \in near
      BY <1>5, <2>1, <2>3, <2>4, <2>5, NearestIs
    <2> QED BY <1>3, <2>6 DEF cut
  <1> QED BY <1>4, <1>5

(* The cuts from a target on, as the search makes them.                     *)
Cutting(f, silences, duration, piece) ==
  f = [target \in Nat |->
         IF target >= duration THEN <<>>
         ELSE LET cut == CutNear(silences, target) IN <<cut>> \o f[cut + piece]]

LEMMA CutsExist ==
  ASSUME NEW duration \in Nat, NEW silences, Quiet(silences, duration),
         NEW piece \in Nat, piece > CutSearch
  PROVE  \E f : Cutting(f, silences, duration, piece)
  <1> DEFINE cut(t) == CutNear(silences, t)
             Body(f, t) == IF t >= duration THEN <<>> ELSE <<cut(t)>> \o f[cut(t) + piece]
             CutsFrom(f, m) == \A t \in Nat : t >= m => f[t] = Body(f, t)
             Cuts(m) == \E f : f = [t \in Nat |-> f[t]] /\ CutsFrom(f, m)
             T == {d \in Nat : d <= duration => Cuts(duration - d)}
  <1>1. \A t \in Nat : t < duration => cut(t) + piece \in Nat /\ cut(t) + piece > t
    <2> TAKE t \in Nat
    <2> HAVE t < duration
    <2>1. cut(t) \in Nat /\ t - CutSearch <= cut(t)
      BY CutIs
    <2>2. CutSearch \in Nat
      BY ChunksAssumption
    <2> HIDE DEF cut
    <2> QED BY <2>1, <2>2
  <1> HIDE DEF cut
  <1>2. 0 \in T
    <2> DEFINE f == [t \in Nat |-> <<>>]
    <2>1. f = [t \in Nat |-> f[t]] /\ CutsFrom(f, duration - 0)
      OBVIOUS
    <2> HIDE DEF f, CutsFrom
    <2> QED BY <2>1
  <1>3. ASSUME NEW d \in Nat, d \in T PROVE d + 1 \in T
    <2> SUFFICES ASSUME d + 1 <= duration PROVE Cuts(duration - (d + 1))
      OBVIOUS
    <2> DEFINE a == duration - (d + 1)
    <2>1. a \in Nat /\ a + 1 = duration - d /\ a < duration
      OBVIOUS
    <2>2. Cuts(duration - d)
      <3> HIDE DEF Cuts
      <3> QED BY <1>3
    <2>3. PICK f : f = [t \in Nat |-> f[t]] /\ CutsFrom(f, a + 1)
      <3> HIDE DEF CutsFrom, a
      <3> QED BY <2>1, <2>2
    <2> HIDE DEF a
    <2> DEFINE g == [t \in Nat |-> IF t = a THEN Body(f, a) ELSE f[t]]
    <2>4. \A t \in Nat : t # a => g[t] = f[t]
      OBVIOUS
    <2>5. g[a] = Body(f, a) /\ g = [t \in Nat |-> g[t]]
      BY <2>1
    <2> HIDE DEF g
    <2>6. ASSUME NEW t \in Nat, t >= a PROVE g[t] = Body(g, t)
      <3>1. Body(g, t) = Body(f, t)
        <4>1. CASE t >= duration
          BY <4>1
        <4>2. CASE ~(t >= duration)
          <5>1. cut(t) + piece \in Nat /\ cut(t) + piece # a
            BY <1>1, <2>1, <2>6, <4>2
          <5>2. g[cut(t) + piece] = f[cut(t) + piece]
            BY <2>4, <5>1
          <5> QED BY <5>2
        <4> QED BY <4>1, <4>2
      <3>2. CASE t = a
        <4> HIDE DEF Body
        <4> QED BY <2>5, <3>1, <3>2
      <3>3. CASE t # a
        <4>1. t >= a + 1
          BY <2>1, <2>6, <3>3
        <4>2. f[t] = Body(f, t)
          BY <2>3, <4>1
        <4> HIDE DEF Body
        <4> QED BY <2>4, <3>1, <3>3, <4>2
      <3> QED BY <3>2, <3>3
    <2>7. CutsFrom(g, a)
      <3> HIDE DEF Body
      <3> QED BY <2>6
    <2>8. Cuts(a)
      <3> HIDE DEF CutsFrom
      <3> QED BY <2>5, <2>7
    <2> HIDE DEF Cuts
    <2> QED BY <2>8 DEF a
  <1>4. \A d \in Nat : d \in T => d + 1 \in T
    BY <1>3
  <1>5. Cuts(duration - duration)
    <2> HIDE DEF T, Cuts
    <2>1. duration \in T
      BY <1>2, <1>4, Induction
    <2> QED BY <2>1 DEF T
  <1>6. PICK f : f = [t \in Nat |-> f[t]] /\ CutsFrom(f, duration - duration)
    <2> HIDE DEF CutsFrom
    <2> QED BY <1>5
  <1>7. \A t \in Nat : f[t] = Body(f, t)
    <2>1. \A t \in Nat : t >= duration - duration
      OBVIOUS
    <2> HIDE DEF Body
    <2> QED BY <1>6, <2>1
  <1>8. f = [t \in Nat |-> Body(f, t)]
    <2> HIDE DEF Body, CutsFrom
    <2> QED BY <1>6, <1>7
  <1> QED BY <1>8 DEF cut, Cutting

(* Cuts from a target on: each as far from the one before as a piece is     *)
(* long, give or take the search, up to where the rest is one piece.        *)
Chained(cuts, target, duration, piece) ==
  /\ cuts \in Seq(Nat)
  /\ target >= duration => cuts = <<>>
  /\ target < duration =>
       /\ cuts # <<>> /\ target - CutSearch <= cuts[1] /\ cuts[1] <= target + CutSearch
       /\ duration <= cuts[Len(cuts)] + piece
  /\ \A i \in DOMAIN cuts : cuts[i] < duration
  /\ \A i \in 2..Len(cuts) : /\ cuts[i - 1] + piece - CutSearch <= cuts[i]
                             /\ cuts[i] <= cuts[i - 1] + piece + CutSearch

LEMMA OneMoreCut ==
  ASSUME NEW duration \in Nat, NEW piece \in Nat, NEW target \in Nat, target < duration,
         NEW cut \in Nat, cut < duration,
         target - CutSearch <= cut, cut <= target + CutSearch,
         NEW rest, Chained(rest, cut + piece, duration, piece)
  PROVE  Chained(<<cut>> \o rest, target, duration, piece)
  <1> DEFINE all == <<cut>> \o rest
             n == Len(rest)
  <1>1. rest \in Seq(Nat) /\ n \in Nat /\ DOMAIN rest = 1..n /\ \A k \in 1..n : rest[k] \in Nat
    <2>1. rest \in Seq(Nat)
      BY DEF Chained
    <2> QED BY <2>1, Elements
  <1>2. /\ all \in Seq(Nat) /\ Len(all) = n + 1 /\ DOMAIN all = 1..n + 1
        /\ all[1] = cut /\ \A i \in 2..n + 1 : all[i] = rest[i - 1]
    BY <1>1
  <1>3. CutSearch \in Nat
    BY ChunksAssumption
  <1> HIDE DEF all, n
  <1>4. all # <<>>
    <2>1. Len(all) # 0
      BY <1>1, <1>2
    <2> QED BY <2>1
  <1>5. duration <= all[n + 1] + piece
    <2>1. CASE n = 0
      <3>1. rest = <<>>
        BY <1>1, <2>1 DEF n
      <3>2. cut + piece >= duration
        BY <3>1 DEF Chained
      <3> QED BY <1>2, <2>1, <3>2
    <2>2. CASE n # 0
      <3>1. rest # <<>>
        BY <1>1, <2>2 DEF n
      <3>2. duration <= rest[n] + piece
        BY <3>1 DEF Chained, n
      <3>3. all[n + 1] = rest[n]
        BY <1>1, <1>2, <2>2
      <3> QED BY <3>2, <3>3
    <2> QED BY <2>1, <2>2
  <1>6. ASSUME NEW i \in 1..n + 1 PROVE all[i] < duration
    <2>1. CASE i = 1
      BY <1>2, <2>1
    <2>2. CASE i # 1
      <3>1. i - 1 \in 1..n /\ all[i] = rest[i - 1]
        BY <1>1, <1>2, <2>2
      <3>2. rest[i - 1] < duration
        BY <1>1, <3>1 DEF Chained
      <3> QED BY <3>1, <3>2
    <2> QED BY <2>1, <2>2
  <1>7. ASSUME NEW i \in 2..n + 1
        PROVE  /\ all[i - 1] + piece - CutSearch <= all[i]
               /\ all[i] <= all[i - 1] + piece + CutSearch
    <2>1. CASE i = 2
      <3>1. n # 0 /\ rest # <<>> /\ all[2] = rest[1] /\ all[1] = cut
        BY <1>1, <1>2, <2>1 DEF n
      <3> DEFINE t == cut + piece
      <3>2. t \in Nat /\ t = cut + piece /\ Chained(rest, t, duration, piece)
        OBVIOUS
      <3> HIDE DEF t
      <3>3. t < duration
        BY <3>1, <3>2 DEF Chained
      <3>4. t - CutSearch <= rest[1] /\ rest[1] <= t + CutSearch
        BY <3>2, <3>3 DEF Chained
      <3>5. rest[1] \in Nat /\ i - 1 = 1
        BY <1>1, <2>1, <3>1
      <3> QED BY <1>3, <2>1, <3>1, <3>2, <3>4, <3>5
    <2>2. CASE i # 2
      <3> DEFINE j == i - 1
      <3>1. j \in 2..n /\ j \in 2..n + 1 /\ j = i - 1
        BY <1>1, <2>2
      <3> HIDE DEF j
      <3>2. all[i] = rest[j] /\ all[j] = rest[j - 1]
        BY <1>2, <3>1
      <3>3. rest[j - 1] + piece - CutSearch <= rest[j] /\ rest[j] <= rest[j - 1] + piece + CutSearch
        BY <3>1 DEF Chained, n
      <3> QED BY <3>1, <3>2, <3>3
    <2> QED BY <2>1, <2>2
  <1>8. Chained(all, target, duration, piece)
    BY <1>2, <1>4, <1>5, <1>6, <1>7 DEF Chained
  <1> QED BY <1>8 DEF all

LEMMA CutsAreChained ==
  ASSUME NEW duration \in Nat, NEW silences, Quiet(silences, duration),
         NEW piece \in Nat, piece > CutSearch,
         NEW f, Cutting(f, silences, duration, piece), NEW target \in Nat
  PROVE  Chained(f[target], target, duration, piece)
  <1> DEFINE cut(t) == CutNear(silences, t)
             Good(d) == \A t \in Nat : t >= duration - d => Chained(f[t], t, duration, piece)
             T == {d \in Nat : Good(d)}
  <1>1. \A t \in Nat : f[t] = IF t >= duration THEN <<>> ELSE <<cut(t)>> \o f[cut(t) + piece]
    BY DEF Cutting
  <1>2. ASSUME NEW t \in Nat, t < duration
        PROVE  /\ cut(t) \in Nat /\ cut(t) < duration
               /\ t - CutSearch <= cut(t) /\ cut(t) <= t + CutSearch
               /\ cut(t) + piece \in Nat /\ cut(t) + piece > t
    <2>1. /\ cut(t) \in Nat /\ cut(t) < duration
          /\ t - CutSearch <= cut(t) /\ cut(t) <= t + CutSearch
      BY <1>2, CutIs
    <2>2. CutSearch \in Nat
      BY ChunksAssumption
    <2> HIDE DEF cut
    <2> QED BY <2>1, <2>2
  <1> HIDE DEF cut
  <1>3. ASSUME NEW t \in Nat, t >= duration PROVE Chained(f[t], t, duration, piece)
    <2>1. f[t] = <<>>
      BY <1>1, <1>3
    <2> DEFINE c == f[t]
    <2>2. c \in Seq(Nat) /\ Len(c) = 0 /\ DOMAIN c = {} /\ 2..Len(c) = {}
      BY <2>1
    <2>3. c = <<>>
      BY <2>1
    <2>4. ~(t < duration)
      BY <1>3
    <2> HIDE DEF c
    <2>5. Chained(c, t, duration, piece)
      BY <2>2, <2>3, <2>4 DEF Chained
    <2> QED BY <2>5 DEF c
  <1>4. 0 \in T
    BY <1>3
  <1>5. ASSUME NEW d \in Nat, d \in T PROVE d + 1 \in T
    <2> SUFFICES ASSUME NEW t \in Nat, t >= duration - (d + 1)
                 PROVE  Chained(f[t], t, duration, piece)
      OBVIOUS
    <2>1. CASE t >= duration
      BY <1>3, <2>1
    <2>2. CASE ~(t >= duration)
      <3>1. t < duration
        BY <2>2
      <3>2. /\ cut(t) \in Nat /\ cut(t) < duration
            /\ t - CutSearch <= cut(t) /\ cut(t) <= t + CutSearch
            /\ cut(t) + piece \in Nat /\ cut(t) + piece > t
        BY <1>2, <3>1
      <3>3. cut(t) + piece >= duration - d
        BY <3>2
      <3>4. Chained(f[cut(t) + piece], cut(t) + piece, duration, piece)
        BY <1>5, <3>2, <3>3
      <3>5. f[t] = <<cut(t)>> \o f[cut(t) + piece]
        BY <1>1, <2>2
      <3>6. Chained(<<cut(t)>> \o f[cut(t) + piece], t, duration, piece)
        BY <3>1, <3>2, <3>4, OneMoreCut
      <3> QED BY <3>5, <3>6
    <2> QED BY <2>1, <2>2
  <1>6. \A d \in Nat : d \in T => d + 1 \in T
    BY <1>5
  <1>7. Good(duration)
    <2> HIDE DEF T, Good
    <2>1. duration \in T
      BY <1>4, <1>6, Induction
    <2> QED BY <2>1 DEF T
  <1>8. target >= duration - duration
    OBVIOUS
  <1> QED BY <1>7, <1>8

(* All the cuts are kept.                                                   *)
Keeping(kept, cut, second) ==
  IF kept = <<>> \/ cut > Last(kept) + second THEN Append(kept, cut) ELSE kept

LEMMA AllAreKept ==
  ASSUME NEW cuts \in Seq(Nat), NEW second \in Nat,
         \A i \in 2..Len(cuts) : cuts[i] > cuts[i - 1] + second
  PROVE  FoldLeft(LAMBDA kept, cut : Keeping(kept, cut, second), <<>>, cuts) = cuts
  <1> DEFINE n == Len(cuts)
             V == Seq(Nat)
             first(k) == [i \in 1..k |-> cuts[i]]
             Op == [c \in (1..n) \X V |-> Keeping(c[2], cuts[c[1]], second)]
             g == CHOOSE h : h = [s \in SUBSET (DOMAIN cuts) |->
                    IF s = {} THEN <<>>
                    ELSE Keeping(h[s \ {Max(s)}], cuts[Max(s)], second)]
  <1>1. n \in Nat /\ DOMAIN cuts = 1..n /\ \A j \in 1..n : cuts[j] \in Nat
    BY Elements
  <1>2. FoldLeft(LAMBDA kept, cut : Keeping(kept, cut, second), <<>>, cuts) = g[DOMAIN cuts]
    BY DEF FoldLeft, MapThenFoldSet
  <1>3. first(n) = cuts
    BY <1>1
  <1>4. \A i \in 2..n : cuts[i] > cuts[i - 1] + second
    OBVIOUS
  <1> HIDE DEF n
  <1>5. <<>> \in V
    OBVIOUS
  <1>6. ASSUME NEW kept \in V, NEW i \in 1..n PROVE Keeping(kept, cuts[i], second) \in V
    <2>1. cuts[i] \in Nat
      BY <1>1
    <2>2. Append(kept, cuts[i]) \in V
      BY <2>1
    <2> HIDE DEF V
    <2> QED BY <2>2 DEF Keeping
  <1> HIDE DEF V
  <1>7. Op \in [(1..n) \X V -> V]
    BY <1>6
  <1>8. PICK h \in [SUBSET (1..n) -> V] :
          \A s \in SUBSET (1..n) : h[s] = IF s = {} THEN <<>> ELSE Op[<<Max(s), h[s \ {Max(s)}]>>]
    <2>1. \E h : Folding(h, n, V, <<>>, Op)
      <3> HIDE DEF Op
      <3> QED BY <1>1, <1>5, <1>7, FoldExists, Zenon
    <2> HIDE DEF Op
    <2> QED BY <2>1 DEF Folding
  <1>9. ASSUME NEW s \in SUBSET (1..n), s # {}
        PROVE  Op[<<Max(s), h[s \ {Max(s)}]>>] = Keeping(h[s \ {Max(s)}], cuts[Max(s)], second)
    <2>1. Max(s) \in 1..n
      BY <1>1, <1>9, MaxIs
    <2> QED BY <2>1
  <1>10. h = [s \in SUBSET (1..n) |->
               IF s = {} THEN <<>> ELSE Keeping(h[s \ {Max(s)}], cuts[Max(s)], second)]
    <2> HIDE DEF Op
    <2> QED BY <1>8, <1>9
  <1>11. g = [s \in SUBSET (1..n) |->
                IF s = {} THEN <<>> ELSE Keeping(g[s \ {Max(s)}], cuts[Max(s)], second)]
    BY <1>1, <1>10
  <1> HIDE DEF g
  <1>12. ASSUME NEW k \in 1..n PROVE Keeping(first(k - 1), cuts[k], second) = first(k)
    <2>1. k - 1 \in Nat /\ cuts[k] \in Nat /\ \A i \in 1..k - 1 : cuts[i] \in Nat
      BY <1>1
    <2>2. first(k - 1) \in Seq(Nat) /\ Len(first(k - 1)) = k - 1
      BY <2>1
    <2>3. Append(first(k - 1), cuts[k]) = first(k)
      BY <2>1, <2>2
    <2>4. CASE k = 1
      <3>1. first(k - 1) = <<>>
        BY <2>4
      <3> HIDE DEF first
      <3> QED BY <2>3, <3>1 DEF Keeping
    <2>5. CASE k # 1
      <3>1. k \in 2..n /\ k - 1 \in 1..k - 1
        BY <1>1, <2>5
      <3>2. Last(first(k - 1)) = cuts[k - 1]
        BY <2>2, <3>1 DEF Last
      <3>3. cuts[k] > cuts[k - 1] + second
        BY <1>4, <3>1
      <3> HIDE DEF first
      <3> QED BY <2>3, <3>2, <3>3 DEF Keeping
    <2> QED BY <2>4, <2>5
  <1>13. first(0) = <<>>
    OBVIOUS
  <1> HIDE DEF first
  <1>14. g[1..n] = first(n)
    <2> DEFINE T == {k \in Nat : k <= n => g[1..k] = first(k)}
    <2>1. 0 \in T
      <3>1. 1..0 = {} /\ 1..0 \in SUBSET (1..n)
        BY <1>1
      <3>2. g[1..0] = <<>>
        BY <1>11, <3>1
      <3> QED BY <1>13, <3>2
    <2>2. ASSUME NEW k \in Nat, k \in T PROVE k + 1 \in T
      <3> SUFFICES ASSUME k + 1 <= n PROVE g[1..k + 1] = first(k + 1)
        OBVIOUS
      <3> DEFINE l == k + 1
      <3>1. l \in 1..n /\ l - 1 = k /\ g[1..k] = first(k)
        BY <1>1, <2>2
      <3> HIDE DEF l
      <3>2. /\ 1..l \in SUBSET (1..n) /\ 1..l # {} /\ Max(1..l) = l
            /\ (1..l) \ {Max(1..l)} = 1..l - 1
        BY <1>1, <3>1, Firsts
      <3>3. g[1..l] = Keeping(g[1..k], cuts[l], second)
        BY <1>11, <3>1, <3>2
      <3>4. g[1..l] = first(l)
        BY <1>12, <3>1, <3>3
      <3> QED BY <3>4 DEF l
    <2>3. \A k \in Nat : k \in T => k + 1 \in T
      BY <2>2
    <2> HIDE DEF T
    <2>4. n \in T
      BY <1>1, <2>1, <2>3, Induction
    <2> QED BY <1>1, <2>4 DEF T
  <1> QED BY <1>1, <1>2, <1>3, <1>14

(* So the cuts are chained from the first target on.                        *)
LEMMA BoundariesAre ==
  ASSUME NEW duration \in Nat, NEW silences, Quiet(silences, duration), NEW second \in Nat,
         NEW piece \in Nat, piece > CutSearch + second
  PROVE  Chained(Boundaries(silences, duration, piece, second), piece, duration, piece)
  <1> DEFINE b == Boundaries(silences, duration, piece, second)
             f == CHOOSE h : h = [target \in Nat |->
                    IF target >= duration THEN <<>>
                    ELSE LET cut == CutNear(silences, target) IN <<cut>> \o h[cut + piece]]
  <1>1. CutSearch \in Nat /\ piece > CutSearch
    BY ChunksAssumption
  <1>2. Cutting(f, silences, duration, piece)
    <2>1. \E h : Cutting(h, silences, duration, piece)
      BY <1>1, CutsExist
    <2> QED BY <2>1 DEF Cutting
  <1>3. b = IF duration <= piece THEN <<>>
            ELSE FoldLeft(LAMBDA kept, cut : Keeping(kept, cut, second), <<>>, f[piece])
    BY DEF Boundaries, Keeping
  <1> HIDE DEF f, b
  <1>4. Chained(f[piece], piece, duration, piece)
    BY <1>1, <1>2, CutsAreChained
  <1>5. CASE duration <= piece
    <2>1. f[piece] = <<>> /\ b = <<>>
      BY <1>3, <1>4, <1>5 DEF Chained
    <2> QED BY <1>4, <2>1 DEF b
  <1>6. CASE ~(duration <= piece)
    <2> DEFINE c == f[piece]
    <2>1. c \in Seq(Nat) /\ \A i \in 2..Len(c) : c[i - 1] + piece - CutSearch <= c[i]
      BY <1>4 DEF Chained
    <2> HIDE DEF c
    <2>2. \A i \in 2..Len(c) : c[i] > c[i - 1] + second
      <3> TAKE i \in 2..Len(c)
      <3>1. c[i] \in Nat /\ c[i - 1] \in Nat /\ c[i - 1] + piece - CutSearch <= c[i]
        <4>1. Len(c) \in Nat /\ DOMAIN c = 1..Len(c) /\ \A k \in DOMAIN c : c[k] \in Nat
          BY <2>1, Elements
        <4>2. i \in 1..Len(c) /\ i - 1 \in 1..Len(c)
          BY <4>1
        <4> QED BY <2>1, <4>1, <4>2
      <3> QED BY <1>1, <3>1
    <2>3. FoldLeft(LAMBDA kept, cut : Keeping(kept, cut, second), <<>>, c) = c
      BY <2>1, <2>2, AllAreKept
    <2>4. b = c
      BY <1>3, <1>6, <2>3 DEF c
    <2> QED BY <1>4, <2>4 DEF b, c
  <1> QED BY <1>5, <1>6

(* What is said in some windows, one thing said after the other.            *)
Speech == Nat \X Nat
Hearing(F, said, windows) ==
  /\ F \in [0..Len(said) -> Seq(Speech)] /\ F[0] = <<>>
  /\ \A k \in 1..Len(said) :
       F[k] = IF Lies(said[k], windows) THEN Append(F[k - 1], said[k]) ELSE F[k - 1]

LEMMA WithinIs ==
  ASSUME NEW said \in Seq(Speech), NEW windows
  PROVE  \E F : Hearing(F, said, windows) /\ Within(said, windows) = F[Len(said)]
  <1> DEFINE n == Len(said)
             V == Seq(Speech)
             More(heard, w) == IF Lies(w, windows) THEN Append(heard, w) ELSE heard
             Op == [c \in (1..n) \X V |-> More(c[2], said[c[1]])]
             g == CHOOSE h : h = [s \in SUBSET (DOMAIN said) |->
                    IF s = {} THEN <<>> ELSE More(h[s \ {Max(s)}], said[Max(s)])]
             F == [k \in 0..n |-> g[1..k]]
  <1>1. n \in Nat /\ DOMAIN said = 1..n /\ \A j \in 1..n : said[j] \in Speech
    <2> HIDE DEF Speech
    <2> QED BY Elements
  <1>2. Within(said, windows) = g[DOMAIN said]
    BY DEF Within, FoldLeft, MapThenFoldSet
  <1> HIDE DEF n
  <1>3. <<>> \in V
    OBVIOUS
  <1>4. ASSUME NEW heard \in V, NEW i \in 1..n PROVE More(heard, said[i]) \in V
    <2> DEFINE S == Speech
    <2>1. said[i] \in S /\ heard \in Seq(S)
      BY <1>1
    <2> HIDE DEF S
    <2>2. Append(heard, said[i]) \in Seq(S)
      BY <2>1
    <2> QED BY <2>2 DEF S
  <1> HIDE DEF More, V
  <1>5. Op \in [(1..n) \X V -> V]
    BY <1>4
  <1>6. PICK h \in [SUBSET (1..n) -> V] :
          \A s \in SUBSET (1..n) : h[s] = IF s = {} THEN <<>> ELSE Op[<<Max(s), h[s \ {Max(s)}]>>]
    <2>1. \E h : Folding(h, n, V, <<>>, Op)
      <3> HIDE DEF Op
      <3> QED BY <1>1, <1>3, <1>5, FoldExists, Zenon
    <2> HIDE DEF Op
    <2> QED BY <2>1 DEF Folding
  <1>7. ASSUME NEW s \in SUBSET (1..n), s # {}
        PROVE  Op[<<Max(s), h[s \ {Max(s)}]>>] = More(h[s \ {Max(s)}], said[Max(s)])
    <2>1. Max(s) \in 1..n
      BY <1>1, <1>7, MaxIs
    <2> QED BY <2>1
  <1>8. h = [s \in SUBSET (1..n) |-> IF s = {} THEN <<>> ELSE More(h[s \ {Max(s)}], said[Max(s)])]
    <2> HIDE DEF Op
    <2> QED BY <1>6, <1>7
  <1>9. g = [s \in SUBSET (1..n) |-> IF s = {} THEN <<>> ELSE More(g[s \ {Max(s)}], said[Max(s)])]
    BY <1>1, <1>8
  <1> HIDE DEF g
  <1>10. F[0] = <<>>
    <2>1. 1..0 = {} /\ 1..0 \in SUBSET (1..n) /\ 0 \in 0..n
      BY <1>1
    <2> QED BY <1>9, <2>1
  <1>11. ASSUME NEW k \in 1..n PROVE F[k] = More(F[k - 1], said[k])
    <2>1. /\ 1..k \in SUBSET (1..n) /\ 1..k # {} /\ Max(1..k) = k
          /\ (1..k) \ {Max(1..k)} = 1..k - 1
      BY <1>1, Firsts
    <2>2. k \in 0..n /\ k - 1 \in 0..n
      BY <1>1
    <2> QED BY <1>9, <2>1, <2>2
  <1>12. F[n] = g[1..n] /\ F = [k \in 0..n |-> F[k]]
    BY <1>1
  <1> HIDE DEF F
  <1>13. \A k \in 0..n : F[k] \in V
    <2> DEFINE T == {k \in Nat : k <= n => F[k] \in V}
    <2>1. 0 \in T
      BY <1>3, <1>10
    <2>2. ASSUME NEW k \in Nat, k \in T PROVE k + 1 \in T
      <3> SUFFICES ASSUME k + 1 <= n PROVE F[k + 1] \in V
        OBVIOUS
      <3> DEFINE l == k + 1
      <3>1. l \in 1..n /\ l - 1 = k /\ F[k] \in V
        BY <1>1, <2>2
      <3> HIDE DEF l
      <3>2. F[l] \in V
        BY <1>4, <1>11, <3>1
      <3> QED BY <3>2 DEF l
    <2>3. \A k \in Nat : k \in T => k + 1 \in T
      BY <2>2
    <2> HIDE DEF T
    <2> TAKE k \in 0..n
    <2>4. k \in Nat /\ k <= n
      BY <1>1
    <2>5. k \in T
      BY <2>1, <2>3, <2>4, Induction
    <2> QED BY <2>4, <2>5 DEF T
  <1>14. F \in [0..n -> V]
    BY <1>12, <1>13
  <1>15. Hearing(F, said, windows)
    BY <1>10, <1>11, <1>14 DEF Hearing, More, V, n
  <1>16. Within(said, windows) = F[n]
    BY <1>1, <1>2, <1>12
  <1> QED BY <1>15, <1>16 DEF n

Joins(a, b, x) == Append(a \o b, x) = a \o Append(b, x)
LEMMA AppendJoins ==
  \A S : \A a, b \in Seq(S) : \A x \in S : Joins(a, b, x)
  <1> SUFFICES ASSUME NEW S, NEW a \in Seq(S), NEW b \in Seq(S), NEW x \in S
               PROVE  Joins(a, b, x)
    OBVIOUS
  <1> QED BY DEF Joins

(* Two parts of what is said, one before the other, make up the whole.      *)
LEMMA WithinJoins ==
  ASSUME NEW said \in Seq(Speech), NEW A, NEW B,
         \A k, l \in 1..Len(said) : Lies(said[k], A) /\ Lies(said[l], B) => k < l
  PROVE  Within(said, A \cup B) = Within(said, A) \o Within(said, B)
  <1> DEFINE n == Len(said)
             S == Speech
  <1>1. n \in Nat /\ \A k \in 1..n : said[k] \in S
    <2> HIDE DEF S
    <2>1. said \in Seq(S)
      BY DEF S
    <2> QED BY <2>1, Elements
  <1>2. PICK F : Hearing(F, said, A) /\ Within(said, A) = F[n]
    BY WithinIs
  <1>3. PICK G : Hearing(G, said, B) /\ Within(said, B) = G[n]
    BY WithinIs
  <1>4. PICK H : Hearing(H, said, A \cup B) /\ Within(said, A \cup B) = H[n]
    BY WithinIs
  <1>5. /\ F \in [0..n -> Seq(S)] /\ F[0] = <<>>
        /\ \A k \in 1..n : F[k] = IF Lies(said[k], A) THEN Append(F[k - 1], said[k]) ELSE F[k - 1]
    BY <1>2 DEF Hearing
  <1>6. /\ G \in [0..n -> Seq(S)] /\ G[0] = <<>>
        /\ \A k \in 1..n : G[k] = IF Lies(said[k], B) THEN Append(G[k - 1], said[k]) ELSE G[k - 1]
    BY <1>3 DEF Hearing
  <1>7. /\ H[0] = <<>>
        /\ \A k \in 1..n : H[k] = IF Lies(said[k], A) \/ Lies(said[k], B)
                                  THEN Append(H[k - 1], said[k]) ELSE H[k - 1]
    <2>1. \A w : Lies(w, A \cup B) <=> (Lies(w, A) \/ Lies(w, B))
      BY DEF Lies
    <2> QED BY <1>4, <2>1 DEF Hearing
  <1>8. \A k, l \in 1..n : Lies(said[k], A) /\ Lies(said[l], B) => k < l
    OBVIOUS
  <1> HIDE DEF n, S
  <1> DEFINE None(k) == (\A l \in 1..k : ~Lies(said[l], B)) => G[k] = <<>>
             Joined(k) == H[k] = F[k] \o G[k]
             T == {k \in Nat : k <= n => None(k)}
             U == {k \in Nat : k <= n => Joined(k)}
  <1>9. 0 \in T /\ 0 \in U
    BY <1>5, <1>6, <1>7
  <1>10. ASSUME NEW k \in Nat, k \in T PROVE k + 1 \in T
    <2> SUFFICES ASSUME k + 1 <= n, \A l \in 1..k + 1 : ~Lies(said[l], B) PROVE G[k + 1] = <<>>
      OBVIOUS
    <2>1. k + 1 \in 1..n /\ (k + 1) - 1 = k /\ k + 1 \in 1..k + 1 /\ \A l \in 1..k : l \in 1..k + 1
      BY <1>1
    <2>2. G[k] = <<>>
      BY <1>1, <1>10, <2>1
    <2> QED BY <1>6, <2>1, <2>2
  <1>11. ASSUME NEW k \in 0..n PROVE None(k)
    <2>1. \A j \in Nat : j \in T => j + 1 \in T
      BY <1>10
    <2>2. k \in Nat /\ k <= n
      BY <1>1
    <2> HIDE DEF T, None
    <2>3. k \in T
      BY <1>9, <2>1, <2>2, Induction
    <2> QED BY <2>2, <2>3 DEF T
  <1> HIDE DEF T
  <1>12. ASSUME NEW k \in Nat, k \in U PROVE k + 1 \in U
    <2> HIDE DEF Joined
    <2> SUFFICES ASSUME k + 1 <= n PROVE Joined(k + 1)
      OBVIOUS
    <2>0. Joined(k)
      BY <1>1, <1>12
    <2> USE DEF Joined
    <2> DEFINE j == k + 1
               x == said[j]
    <2>1. j \in 1..n /\ j - 1 = k /\ k \in 0..n /\ j \in 0..n /\ H[k] = F[k] \o G[k]
      <3>1. j \in 1..n /\ j - 1 = k /\ k \in 0..n /\ j \in 0..n
        BY <1>1
      <3>2. H[k] = F[k] \o G[k]
        BY <2>0
      <3> HIDE DEF j
      <3> QED BY <3>1, <3>2
    <2> HIDE DEF j
    <2>2. x \in S /\ F[k] \in Seq(S) /\ G[k] \in Seq(S)
      BY <1>1, <1>5, <1>6, <2>1
    <2>3. /\ F[j] = IF Lies(x, A) THEN Append(F[k], x) ELSE F[k]
          /\ G[j] = IF Lies(x, B) THEN Append(G[k], x) ELSE G[k]
          /\ H[j] = IF Lies(x, A) \/ Lies(x, B) THEN Append(H[k], x) ELSE H[k]
      BY <1>5, <1>6, <1>7, <2>1
    <2>4. Lies(x, A) => G[k] = <<>> /\ ~Lies(x, B)
      <3> SUFFICES ASSUME Lies(x, A) PROVE G[k] = <<>> /\ ~Lies(x, B)
        OBVIOUS
      <3>1. ASSUME NEW l \in 1..k PROVE ~Lies(said[l], B)
        <4>1. l \in 1..n /\ l \in Int /\ j \in Int /\ ~(j < l)
          BY <1>1, <2>1
        <4> QED BY <1>8, <2>1, <4>1
      <3>2. ~Lies(x, B)
        <4>1. j \in Int /\ ~(j < j)
          BY <2>1
        <4> QED BY <1>8, <2>1, <4>1
      <3> QED BY <1>11, <2>1, <3>1, <3>2
    <2> HIDE DEF x
    <2>5. CASE Lies(x, A)
      <3>1. F[j] = Append(F[k], x) /\ G[k] = <<>> /\ G[j] = <<>> /\ H[j] = Append(H[k], x)
        BY <2>3, <2>4, <2>5
      <3>2. F[k] \o <<>> = F[k]
        BY <2>2
      <3>3. H[j] = Append(F[k], x)
        BY <2>1, <3>1, <3>2
      <3>4. F[j] \in Seq(S)
        BY <2>2, <3>1
      <3>5. F[j] \o <<>> = F[j]
        BY <3>4
      <3>6. Joined(j)
        BY <3>1, <3>3, <3>5
      <3> QED BY <3>6 DEF j
    <2>6. CASE ~Lies(x, A) /\ Lies(x, B)
      <3>1. F[j] = F[k] /\ G[j] = Append(G[k], x) /\ H[j] = Append(F[k] \o G[k], x)
        BY <2>1, <2>3, <2>6
      <3>2. Append(F[k] \o G[k], x) = F[k] \o Append(G[k], x)
        <4>1. Joins(F[k], G[k], x)
          BY <2>2, AppendJoins
        <4> QED BY <4>1, Zenon DEF Joins
      <3>3. Joined(j)
        BY <3>1, <3>2
      <3> QED BY <3>3 DEF j
    <2>7. CASE ~Lies(x, A) /\ ~Lies(x, B)
      <3>1. Joined(j)
        BY <2>1, <2>3, <2>7
      <3> QED BY <3>1 DEF j
    <2> QED BY <2>5, <2>6, <2>7
  <1>13. Joined(n)
    <2>1. \A k \in Nat : k \in U => k + 1 \in U
      BY <1>12
    <2> HIDE DEF U, Joined
    <2>2. n \in U
      BY <1>1, <1>9, <2>1, Induction
    <2> QED BY <1>1, <2>2 DEF U
  <1> QED BY <1>2, <1>3, <1>4, <1>13

(* Windows one after the other.                                             *)
LEMMA FlattenIs ==
  ASSUME NEW said \in Seq(Speech),
         \A k \in 1..Len(said) : said[k][1] < said[k][2],
         \A k, l \in 1..Len(said) : k < l => said[k][2] <= said[l][1],
         NEW m \in Nat \ {0}, NEW pieces \in [1..m -> Speech],
         \A i, j \in 1..m : i < j => pieces[i][2] <= pieces[j][1]
  PROVE  FlattenSeq([i \in 1..m |-> Within(said, {pieces[i]})]) = Within(said, Range(pieces))
  <1> DEFINE n == Len(said)
             each == [i \in 1..m |-> Within(said, {pieces[i]})]
             first(i) == {pieces[j] : j \in 1..i}
             h == [i \in 1..m |-> Within(said, first(i))]
             flatten == CHOOSE f : f = [i \in 1..m |-> IF i = 1 THEN each[i] ELSE f[i - 1] \o each[i]]
  <1>1. n \in Nat /\ \A k \in 1..n : said[k][1] \in Nat /\ said[k][2] \in Nat
    <2> DEFINE S == Speech
    <2>1. said \in Seq(S)
      OBVIOUS
    <2> HIDE DEF S
    <2>2. Len(said) \in Nat /\ DOMAIN said = 1..Len(said) /\ \A k \in DOMAIN said : said[k] \in S
      BY <2>1, Elements
    <2> QED BY <2>2 DEF S, Speech
  <1>2. \A i \in 1..m : pieces[i][1] \in Nat /\ pieces[i][2] \in Nat
    BY DEF Speech
  <1>3. Len(each) = m /\ DOMAIN each = 1..m
    OBVIOUS
  <1>4. FlattenSeq(each) = flatten[m]
    BY <1>3 DEF FlattenSeq
  <1>5. ASSUME NEW i \in 2..m PROVE h[i] = h[i - 1] \o each[i]
    <2> DEFINE A == first(i - 1)
               B == {pieces[i]}
    <2>1. i \in 1..m /\ i - 1 \in 1..m /\ 1..i = (1..i - 1) \cup {i}
      OBVIOUS
    <2>2. first(i) = A \cup B
      BY <2>1
    <2>3. ASSUME NEW k \in 1..n, NEW l \in 1..n, Lies(said[k], A), Lies(said[l], B) PROVE k < l
      <3>1. PICK j \in 1..i - 1 : pieces[j][1] <= said[k][1] /\ said[k][2] <= pieces[j][2]
        BY <2>3 DEF Lies
      <3>2. pieces[i][1] <= said[l][1]
        BY <2>3 DEF Lies
      <3>3. j \in 1..m /\ pieces[j][2] <= pieces[i][1]
        BY <2>1
      <3>4. said[k][2] <= said[l][1]
        BY <1>1, <1>2, <2>1, <3>1, <3>2, <3>3
      <3>5. said[k][1] < said[k][2] /\ said[l][1] < said[l][2]
        OBVIOUS
      <3>6. CASE k = l
        BY <1>1, <3>4, <3>5, <3>6
      <3>7. CASE l < k
        <4>1. said[l][2] <= said[k][1]
          BY <3>7
        <4> QED BY <1>1, <3>4, <3>5, <4>1
      <3> QED BY <1>1, <3>6, <3>7
    <2>4. h[i] = Within(said, A \cup B) /\ h[i - 1] = Within(said, A) /\ each[i] = Within(said, B)
      BY <2>1, <2>2
    <2> HIDE DEF A, B, h, each
    <2>5. Within(said, A \cup B) = Within(said, A) \o Within(said, B)
      BY <2>3, WithinJoins DEF n
    <2> QED BY <2>4, <2>5
  <1>6. h[1] = each[1]
    <2>1. first(1) = {pieces[1]} /\ 1 \in 1..m
      OBVIOUS
    <2> QED BY <2>1
  <1>7. h = [i \in 1..m |-> h[i]]
    OBVIOUS
  <1>8. h[m] = Within(said, Range(pieces))
    <2>1. first(m) = Range(pieces) /\ m \in 1..m
      BY DEF Range
    <2> QED BY <2>1
  <1> HIDE DEF h, each
  <1>9. h = [i \in 1..m |-> IF i = 1 THEN each[i] ELSE h[i - 1] \o each[i]]
    <2>1. \A i \in 1..m : i = 1 \/ i \in 2..m
      OBVIOUS
    <2>2. \A i \in 1..m : h[i] = IF i = 1 THEN each[i] ELSE h[i - 1] \o each[i]
      BY <1>5, <1>6, <2>1
    <2> QED BY <1>7, <2>2
  <1>10. flatten = [i \in 1..m |-> IF i = 1 THEN each[i] ELSE flatten[i - 1] \o each[i]]
    BY <1>9
  <1> HIDE DEF flatten
  <1> DEFINE T == {k \in Nat : k + 1 <= m => flatten[k + 1] = h[k + 1]}
  <1>11. 0 \in T
    BY <1>9, <1>10
  <1>12. ASSUME NEW k \in Nat, k \in T PROVE k + 1 \in T
    <2> SUFFICES ASSUME (k + 1) + 1 <= m PROVE flatten[(k + 1) + 1] = h[(k + 1) + 1]
      OBVIOUS
    <2> DEFINE j == (k + 1) + 1
    <2>1. j \in 1..m /\ j # 1 /\ j - 1 = k + 1 /\ flatten[k + 1] = h[k + 1]
      BY <1>12
    <2> HIDE DEF j
    <2>2. flatten[j] = flatten[j - 1] \o each[j]
      BY <1>10, <2>1
    <2>3. h[j] = h[j - 1] \o each[j]
      BY <1>9, <2>1
    <2>4. flatten[j] = h[j]
      BY <2>1, <2>2, <2>3
    <2> QED BY <2>4 DEF j
  <1>13. flatten[m] = h[m]
    <2>1. \A k \in Nat : k \in T => k + 1 \in T
      BY <1>12
    <2>2. m - 1 \in Nat /\ (m - 1) + 1 = m
      OBVIOUS
    <2> HIDE DEF T
    <2>3. m - 1 \in T
      BY <1>11, <2>1, <2>2, Induction
    <2> QED BY <2>2, <2>3 DEF T
  <1> QED BY <1>4, <1>8, <1>13 DEF each

(* The pieces, between the points where the sound is cut.                   *)
LEMMA PointsAre ==
  ASSUME NEW duration \in Nat \ {0}, NEW b \in Seq(Nat)
  PROVE  LET points == <<0>> \o b \o <<duration>>
         IN /\ Len(points) = Len(b) + 2 /\ points[1] = 0 /\ points[Len(b) + 2] = duration
            /\ \A i \in 1..Len(b) : points[i + 1] = b[i]
            /\ \A i \in 1..Len(b) + 2 : points[i] \in Nat
  <1> DEFINE n == Len(b)
             start == <<0>> \o b
             points == start \o <<duration>>
  <1>1. n \in Nat /\ \A i \in 1..n : b[i] \in Nat
    BY Elements
  <1>2. /\ start \in Seq(Nat) /\ Len(start) = n + 1 /\ start[1] = 0
        /\ \A i \in 1..n : start[i + 1] = b[i]
    BY <1>1
  <1> HIDE DEF start, n
  <1>3. /\ points \in Seq(Nat) /\ Len(points) = n + 2 /\ points[n + 2] = duration
        /\ \A i \in 1..n + 1 : points[i] = start[i]
    BY <1>1, <1>2
  <1> HIDE DEF points
  <1>4. \A i \in 1..n + 2 : points[i] \in Nat
    BY <1>3, Elements
  <1>5. points[1] = 0 /\ \A i \in 1..n : points[i + 1] = b[i]
    <2>1. 1 \in 1..n + 1 /\ \A i \in 1..n : i + 1 \in 1..n + 1
      BY <1>1
    <2> QED BY <1>2, <1>3, <2>1
  <1> QED BY <1>3, <1>4, <1>5 DEF points, start, n

LEMMA PointsRise ==
  ASSUME NEW n \in Nat, NEW points, \A i \in 1..n + 2 : points[i] \in Nat,
         \A i \in 1..n + 1 : points[i] < points[i + 1]
  PROVE  \A i, j \in 1..n + 1 : i < j => points[i + 1] <= points[j]
  <1> DEFINE Rising(m) == \A i \in 1..n + 1 : i < m => points[i + 1] <= points[m]
             T == {m \in Nat : m \in 1..n + 1 => Rising(m)}
  <1>1. 0 \in T
    OBVIOUS
  <1>2. ASSUME NEW m \in Nat, m \in T PROVE m + 1 \in T
    <2> SUFFICES ASSUME m + 1 \in 1..n + 1, NEW i \in 1..n + 1, i < m + 1
                 PROVE  points[i + 1] <= points[m + 1]
      OBVIOUS
    <2>1. m \in 1..n + 1
      OBVIOUS
    <2>2. points[m] < points[m + 1]
      BY <2>1
    <2>3. points[m] \in Nat /\ points[m + 1] \in Nat /\ points[i + 1] \in Nat
      BY <2>1
    <2>4. CASE i = m
      BY <2>3, <2>4
    <2>5. CASE i < m
      <3>1. points[i + 1] <= points[m]
        BY <1>2, <2>1, <2>5
      <3> QED BY <2>2, <2>3, <3>1
    <2> QED BY <2>1, <2>4, <2>5
  <1>3. ASSUME NEW j \in 1..n + 1 PROVE Rising(j)
    <2>1. \A m \in Nat : m \in T => m + 1 \in T
      BY <1>2
    <2>2. j \in Nat
      OBVIOUS
    <2> HIDE DEF T, Rising
    <2>3. j \in T
      BY <1>1, <2>1, <2>2, Induction
    <2> QED BY <2>3 DEF T
  <1> QED BY <1>3

PiecesFollow(pieces, duration, longest) ==
  /\ Len(pieces) \in Nat \ {0} /\ pieces \in [1..Len(pieces) -> Speech]
  /\ pieces[1][1] = 0 /\ pieces[Len(pieces)][2] = duration
  /\ \A i \in 2..Len(pieces) : pieces[i][1] = pieces[i - 1][2]
  /\ \A i \in 1..Len(pieces) : pieces[i][1] < pieces[i][2] /\ pieces[i][2] - pieces[i][1] <= longest
  /\ \A i, j \in 1..Len(pieces) : i < j => pieces[i][2] <= pieces[j][1]

LEMMA PiecesAre ==
  ASSUME NEW duration \in Nat \ {0}, NEW silences, Quiet(silences, duration), NEW second \in Nat,
         NEW piece \in Nat, piece > CutSearch + second
  PROVE  PiecesFollow(Pieces(Boundaries(silences, duration, piece, second), duration),
                      duration, piece + CutSearch)
  <1> DEFINE b == Boundaries(silences, duration, piece, second)
             n == Len(b)
             points == <<0>> \o b \o <<duration>>
             pieces == Pieces(b, duration)
  <1>1. CutSearch \in Nat
    BY ChunksAssumption
  <1>2. Chained(b, piece, duration, piece)
    BY BoundariesAre
  <1> HIDE DEF b
  <1>3. b \in Seq(Nat)
    BY <1>2 DEF Chained
  <1>4. n \in Nat /\ DOMAIN b = 1..n /\ \A i \in 1..n : b[i] \in Nat
    BY <1>3, Elements
  <1>5. /\ Len(points) = n + 2 /\ points[1] = 0 /\ points[n + 2] = duration
        /\ \A i \in 1..n : points[i + 1] = b[i]
        /\ \A i \in 1..n + 2 : points[i] \in Nat
    BY <1>3, PointsAre
  <1>6. pieces = [i \in 1..Len(points) - 1 |-> <<points[i], points[i + 1]>>]
    BY DEF Pieces
  <1>7. n = 0 => b = <<>>
    BY <1>3
  <1>8. n # 0 => b # <<>>
    BY <1>3
  <1> HIDE DEF n, points
  <1>9. Len(points) - 1 = n + 1
    BY <1>4, <1>5
  <1>10. pieces = [i \in 1..n + 1 |-> <<points[i], points[i + 1]>>]
    BY <1>6, <1>9
  <1>11. ASSUME NEW i \in 1..n + 1
         PROVE  points[i] < points[i + 1] /\ points[i + 1] <= points[i] + piece + CutSearch
    <2>1. CASE n = 0
      <3>1. ~(piece < duration)
        BY <1>2, <1>7, <2>1 DEF Chained
      <3>2. i = 1 /\ points[1] = 0 /\ points[2] = duration
        BY <1>5, <2>1
      <3> QED BY <1>1, <3>1, <3>2
    <2>2. CASE n # 0 /\ i = 1
      <3>1. ~(piece >= duration)
        BY <1>2, <1>8, <2>2 DEF Chained
      <3>2. piece < duration
        BY <3>1
      <3>3. piece - CutSearch <= b[1] /\ b[1] <= piece + CutSearch
        BY <1>2, <3>2 DEF Chained
      <3>4. points[1] = 0 /\ points[2] = b[1] /\ b[1] \in Nat
        <4>1. 1 \in 1..n /\ 1 + 1 = 2
          BY <1>4, <2>2
        <4> QED BY <1>4, <1>5, <4>1
      <3> QED BY <1>1, <2>2, <3>3, <3>4
    <2>3. CASE n # 0 /\ i # 1 /\ i # n + 1
      <3>1. i \in 2..n /\ i \in 1..n /\ i - 1 \in 1..n /\ (i - 1) + 1 = i
        BY <1>4, <2>3
      <3>2. b[i - 1] + piece - CutSearch <= b[i] /\ b[i] <= b[i - 1] + piece + CutSearch
        BY <1>2, <3>1 DEF Chained, n
      <3>3. points[i] = b[i - 1] /\ points[i + 1] = b[i] /\ b[i] \in Nat /\ b[i - 1] \in Nat
        BY <1>4, <1>5, <3>1
      <3> QED BY <1>1, <3>2, <3>3
    <2>4. CASE n # 0 /\ i = n + 1
      <3>1. ~(piece >= duration)
        BY <1>2, <1>8, <2>4 DEF Chained
      <3>2. piece < duration
        BY <3>1
      <3>3. duration <= b[n] + piece
        BY <1>2, <3>2 DEF Chained, n
      <3>4. n \in 1..n /\ i + 1 = n + 2
        BY <1>4, <2>4
      <3>5. b[n] < duration
        BY <1>2, <1>4, <3>4 DEF Chained
      <3>6. points[i] = b[n] /\ points[i + 1] = duration /\ b[n] \in Nat
        BY <1>4, <1>5, <2>4, <3>4
      <3> QED BY <1>1, <3>3, <3>5, <3>6
    <2> QED BY <2>1, <2>2, <2>3, <2>4
  <1>12. ASSUME NEW i \in 1..n + 1
         PROVE  pieces[i] = <<points[i], points[i + 1]>> /\ points[i] \in Nat /\ points[i + 1] \in Nat
    <2>1. i \in 1..n + 2 /\ i + 1 \in 1..n + 2
      BY <1>4
    <2> QED BY <1>5, <1>10, <2>1
  <1>13. \A i, j \in 1..n + 1 : i < j => points[i + 1] <= points[j]
    BY <1>4, <1>5, <1>11, PointsRise
  <1>14. Len(pieces) = n + 1 /\ n + 1 \in Nat \ {0}
    BY <1>4, <1>10
  <1>15. pieces \in [1..n + 1 -> Speech]
    <2>1. \A i \in 1..n + 1 : <<points[i], points[i + 1]>> \in Speech
      BY <1>12 DEF Speech
    <2> HIDE DEF pieces
    <2> QED BY <1>10, <2>1
  <1> HIDE DEF pieces
  <1>16. pieces[1][1] = 0 /\ pieces[n + 1][2] = duration
    <2>1. 1 \in 1..n + 1 /\ n + 1 \in 1..n + 1 /\ (n + 1) + 1 = n + 2
      BY <1>4
    <2> QED BY <1>5, <1>12, <2>1
  <1>17. \A i \in 2..n + 1 : pieces[i][1] = pieces[i - 1][2]
    <2> TAKE i \in 2..n + 1
    <2>1. i \in 1..n + 1 /\ i - 1 \in 1..n + 1 /\ (i - 1) + 1 = i
      BY <1>4
    <2> QED BY <1>12, <2>1
  <1>18. \A i \in 1..n + 1 : pieces[i][1] < pieces[i][2] /\ pieces[i][2] - pieces[i][1] <= piece + CutSearch
    <2> TAKE i \in 1..n + 1
    <2>1. pieces[i][1] = points[i] /\ pieces[i][2] = points[i + 1]
          /\ points[i] \in Nat /\ points[i + 1] \in Nat
      BY <1>12
    <2>2. points[i] < points[i + 1] /\ points[i + 1] <= points[i] + piece + CutSearch
      BY <1>11
    <2> QED BY <1>1, <2>1, <2>2
  <1>19. \A i, j \in 1..n + 1 : i < j => pieces[i][2] <= pieces[j][1]
    <2> TAKE i, j \in 1..n + 1
    <2>1. pieces[i][2] = points[i + 1] /\ pieces[j][1] = points[j]
      BY <1>12
    <2> QED BY <1>13, <2>1
  <1>20. PiecesFollow(pieces, duration, piece + CutSearch)
    BY <1>14, <1>15, <1>16, <1>17, <1>18, <1>19 DEF PiecesFollow
  <1> QED BY <1>20 DEF pieces, b

(* The pieces are all of the sound and what is said keeps its place,        *)
(* wherever it is silent (plan_chunk_boundaries, split_audio and            *)
(* transcribe).                                                             *)
THEOREM SoundIsWhole ==
  ASSUME NEW silences, NEW duration, NEW piece, NEW second, NEW said,
         Sounding(silences, duration, piece, second, said)
  PROVE  PiecesAreTheSound(silences, duration, piece, second, said)
  <1> DEFINE pieces == Pieces(Boundaries(silences, duration, piece, second), duration)
             m == Len(pieces)
             inside(i) == Within(said, {pieces[i]})
             heard == [i \in DOMAIN pieces |->
                         [k \in DOMAIN inside(i) |-> <<inside(i)[k][1] - pieces[i][1],
                                                     inside(i)[k][2] - pieces[i][1]>>]]
             timed == [i \in DOMAIN pieces |->
                         [k \in DOMAIN heard[i] |-> Offset(heard[i][k], pieces[i][1])]]
  <1>1. /\ duration \in Nat \ {0} /\ second \in Nat /\ piece \in Nat /\ piece > CutSearch + second
        /\ Quiet(silences, duration) /\ said \in Seq(Speech)
    BY DEF Sounding, Quiet, Speech
  <1>2. DOMAIN said = 1..Len(said)
    BY <1>1, Elements
  <1>3. /\ \A k \in 1..Len(said) : said[k][1] < said[k][2]
        /\ \A k, l \in 1..Len(said) : k < l => said[k][2] <= said[l][1]
    BY <1>2 DEF Sounding
  <1>4. PiecesFollow(pieces, duration, piece + CutSearch)
    BY <1>1, PiecesAre
  <1>5. Transcribed(pieces, heard) = FlattenSeq(timed)
    BY DEF Transcribed
  <1> HIDE DEF pieces
  <1>6. m \in Nat \ {0} /\ pieces \in [1..m -> Speech] /\ DOMAIN pieces = 1..m
    BY <1>4 DEF PiecesFollow
  <1>7. \A i \in 1..m : inside(i) \in Seq(Speech)
    <2> TAKE i \in 1..m
    <2>1. PICK F : Hearing(F, said, {pieces[i]}) /\ inside(i) = F[Len(said)]
      BY <1>1, WithinIs
    <2>2. Len(said) \in Nat /\ F \in [0..Len(said) -> Seq(Speech)]
      BY <1>1, <2>1 DEF Hearing
    <2> HIDE DEF inside
    <2> QED BY <2>1, <2>2
  <1> HIDE DEF inside
  <1>8. ASSUME NEW i \in 1..m PROVE timed[i] = inside(i)
    <2> DEFINE s == inside(i)
               at == pieces[i][1]
    <2>1. at \in Nat
      BY <1>6 DEF Speech
    <2>2. s \in Seq(Speech)
      BY <1>7
    <2>3. heard[i] = [k \in DOMAIN s |-> <<s[k][1] - at, s[k][2] - at>>]
      BY <1>6
    <2>4. timed[i] = [k \in DOMAIN heard[i] |-> Offset(heard[i][k], at)]
      BY <1>6
    <2> HIDE DEF heard, timed, s, at
    <2>5. ASSUME NEW k \in DOMAIN s PROVE Offset(heard[i][k], at) = s[k]
      <3>1. s[k] \in Speech
        BY <2>2, Elements
      <3>2. s[k] = <<s[k][1], s[k][2]>> /\ s[k][1] \in Nat /\ s[k][2] \in Nat
        BY <3>1 DEF Speech
      <3>3. heard[i][k] = <<s[k][1] - at, s[k][2] - at>>
        BY <2>3
      <3>4. Offset(heard[i][k], at) = <<(s[k][1] - at) + at, (s[k][2] - at) + at>>
        BY <3>3 DEF Offset
      <3>5. (s[k][1] - at) + at = s[k][1] /\ (s[k][2] - at) + at = s[k][2]
        BY <2>1, <3>2
      <3> QED BY <3>2, <3>4, <3>5
    <2>6. DOMAIN heard[i] = DOMAIN s
      BY <2>3
    <2>7. timed[i] = [k \in DOMAIN s |-> s[k]]
      BY <2>4, <2>5, <2>6
    <2>8. s = [k \in DOMAIN s |-> s[k]]
      BY <2>2
    <2> QED BY <2>7, <2>8 DEF s
  <1>9. timed = [i \in 1..m |-> Within(said, {pieces[i]})]
    <2>1. timed = [i \in 1..m |-> timed[i]]
      BY <1>6
    <2> HIDE DEF timed
    <2>2. \A i \in 1..m : timed[i] = Within(said, {pieces[i]})
      BY <1>8 DEF inside
    <2> QED BY <2>1, <2>2
  <1> HIDE DEF timed, heard
  <1>10. \A i, j \in 1..m : i < j => pieces[i][2] <= pieces[j][1]
    BY <1>4 DEF PiecesFollow
  <1> DEFINE each == [i \in 1..m |-> Within(said, {pieces[i]})]
  <1>11. FlattenSeq(each) = Within(said, Range(pieces))
    <2> HIDE DEF m
    <2> QED BY <1>1, <1>3, <1>6, <1>10, FlattenIs
  <1>12. Transcribed(pieces, heard) = Within(said, Range(pieces))
    BY <1>5, <1>9, <1>11
  <1> QED BY <1>4, <1>6, <1>12 DEF PiecesAreTheSound, PiecesFollow, pieces, heard, inside
=============================================================================
