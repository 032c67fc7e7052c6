--------------------------- MODULE UnitPropProofs ---------------------------
(***************************************************************************)
(* Proofs about UnitProp and UnitHints, for every instance, in three parts:   *)
(* the watch lists and the trail of the propagation engine; propagation       *)
(* misses no clause, so a step that is given up did not follow; the hint that   *)
(* is written is a proof in the order in which a checker reads it, and a hint   *)
(* of one clause makes the step a copy of it.                               *)
(***************************************************************************)
EXTENDS UnitHints, FiniteSetTheorems, SequenceTheorems, TLAPS

Literals == Lits \ {0}
Watches == [BOOLEAN -> [Lits -> Seq(Ids)]]

-----------------------------------------------------------------------------
(* Lemmas about sequences without repetition.                              *)

(* The least element principle, with a set in the place of a predicate.     *)
LEMMA Least ==
  ASSUME NEW T, T \subseteq Nat, T # {}
  PROVE  \E x \in T : \A y \in T : x <= y
<1> DEFINE Below == {x \in Nat \X Nat : x[1] < x[2]}
<1>1. IsWellFoundedOn(Below, Nat)
  <2>1. IsWellFoundedOn(OpToRel(<, Nat), Nat)  BY NatLessThanWellFounded
  <2>2. OpToRel(<, Nat) = Below  BY DEF OpToRel
  <2> HIDE DEF Below
  <2> QED  BY <2>1, <2>2
<1>2. \A y, x \in Nat : y < x => <<y, x>> \in Below  OBVIOUS
<1> HIDE DEF Below
<1>3. PICK x \in T : \A y \in T : ~ (<<y, x>> \in Below)  BY <1>1, WFMin
<1>4. \A y \in T : ~(y < x)  BY <1>2, <1>3
<1> QED  BY <1>3, <1>4

LEMMA InRange ==
  ASSUME NEW S, NEW s \in Seq(S)
  PROVE  /\ \A x : x \in Range(s) <=> \E k \in 1..Len(s) : s[k] = x
         /\ Range(s) \subseteq S
         /\ IsInjective(s) <=> \A k, h \in 1..Len(s) : s[k] = s[h] => k = h
  BY DEF Range, IsInjective

LEMMA SwapFacts ==
  ASSUME NEW S, NEW s \in Seq(S), IsInjective(s),
         NEW m \in 1..Len(s), NEW n \in 1..Len(s)
  PROVE  /\ Swap(s, m, n) \in Seq(S) /\ Len(Swap(s, m, n)) = Len(s)
         /\ IsInjective(Swap(s, m, n)) /\ Range(Swap(s, m, n)) = Range(s)
         /\ \A k \in 1..Len(s) :
              Swap(s, m, n)[k] = IF k = m THEN s[n] ELSE IF k = n THEN s[m] ELSE s[k]
<1> DEFINE t == Swap(s, m, n)
<1>1. t \in Seq(S) /\ Len(t) = Len(s)  BY DEF Swap
<1>2. \A k \in 1..Len(s) : t[k] = IF k = m THEN s[n] ELSE IF k = n THEN s[m] ELSE s[k]
  BY DEF Swap
<1> HIDE DEF t
<1>3. IsInjective(t)  BY <1>1, <1>2, InRange
<1>4. \A x : x \in Range(t) <=> x \in Range(s)
  <2> TAKE x
  <2>1. ASSUME NEW k \in 1..Len(s), t[k] = x PROVE \E h \in 1..Len(s) : s[h] = x
    BY <1>2, <2>1
  <2>2. ASSUME NEW k \in 1..Len(s), s[k] = x PROVE \E h \in 1..Len(s) : t[h] = x
    <3>1. CASE k = m  BY <1>2, <2>2, <3>1
    <3>2. CASE k = n  BY <1>2, <2>2, <3>2
    <3>3. CASE k # m /\ k # n  BY <1>2, <2>2, <3>3
    <3> QED  BY <3>1, <3>2, <3>3
  <2> QED  BY <1>1, <2>1, <2>2, InRange
<1> QED  BY <1>1, <1>2, <1>3, <1>4 DEF t

LEMMA AppendFacts ==
  ASSUME NEW S, NEW s \in Seq(S), IsInjective(s), NEW x \in S, x \notin Range(s)
  PROVE  /\ Append(s, x) \in Seq(S) /\ IsInjective(Append(s, x))
         /\ Range(Append(s, x)) = Range(s) \union {x}
<1> DEFINE t == Append(s, x)
<1>1. /\ t \in Seq(S) /\ Len(t) = Len(s) + 1 /\ t[Len(s) + 1] = x
      /\ \A k \in 1..Len(s) : t[k] = s[k]
  OBVIOUS
<1> HIDE DEF t
<1>2. IsInjective(t)  BY <1>1, InRange
<1>3. \A y : y \in Range(t) <=> y \in Range(s) \/ y = x
  <2> TAKE y
  <2>1. (\E k \in 1..Len(t) : t[k] = y) <=> (\E k \in 1..Len(s) : s[k] = y) \/ y = x
    BY <1>1
  <2> QED  BY <1>1, <2>1, InRange
<1> QED  BY <1>1, <1>2, <1>3 DEF t

LEMMA RemoveFacts ==
  ASSUME NEW S, NEW s \in Seq(S), IsInjective(s), NEW n \in 1..Len(s)
  PROVE  LET r == SwapRemove(s, s[n]) IN
         /\ r \in Seq(S) /\ Len(r) = Len(s) - 1
         /\ \A k \in 1..Len(s)-1 : r[k] = IF k = n THEN s[Len(s)] ELSE s[k]
         /\ IsInjective(r) /\ Range(r) = Range(s) \ {s[n]}
<1> DEFINE r == SwapRemove(s, s[n])
           N == Len(s)
<1>0. N \in Nat /\ n \in 1..N  OBVIOUS
<1>1. DOMAIN s = 1..N /\ N \in Nat /\ N >= 1  OBVIOUS
<1>2. \A m \in 1..N : s[m] = s[n] => m = n  BY InRange
<1>3. (CHOOSE m \in DOMAIN s : s[m] = s[n]) = n  BY <1>1, <1>2
<1>4. r = [k \in 1..N-1 |-> IF k = n THEN s[N] ELSE s[k]]  BY <1>3 DEF SwapRemove
<1>5. \A k \in 1..N-1 : (IF k = n THEN s[N] ELSE s[k]) \in S  BY <1>1
<1>6. r \in Seq(S) /\ Len(r) = N - 1  BY <1>1, <1>4, <1>5
<1>7. \A k \in 1..N-1 : r[k] = IF k = n THEN s[N] ELSE s[k]  BY <1>4
<1> HIDE DEF r
<1>8. IsInjective(r)
  <2>1. \A k, h \in 1..N : s[k] = s[h] => k = h  BY InRange
  <2>2. \A k, h \in 1..N-1 : r[k] = r[h] => k = h  BY <1>1, <1>7, <2>1
  <2> QED  BY <1>6, <2>2, InRange
<1> HIDE DEF N
<1>9. \A x : x \in Range(r) <=> x \in Range(s) /\ x # s[n]
  <2> TAKE x
  <2>1. ASSUME NEW k \in 1..N-1, r[k] = x PROVE \E h \in 1..N : s[h] = x /\ h # n
    BY <1>1, <1>7, <2>1
  <2>2. ASSUME NEW h \in 1..N, s[h] = x, h # n PROVE \E k \in 1..N-1 : r[k] = x
    <3>1. CASE h = N
      <4>1. n \in 1..N-1  BY <1>0, <2>2, <3>1
      <4>2. r[n] = s[N]  BY <1>7, <4>1
      <4> QED  BY <2>2, <3>1, <4>1, <4>2
    <3>2. CASE h # N
      <4>1. h \in 1..N-1  BY <1>0, <3>2
      <4>2. r[h] = s[h]  BY <1>7, <2>2, <4>1
      <4> QED  BY <2>2, <4>1, <4>2
    <3> QED  BY <3>1, <3>2
  <2> QED  BY <1>1, <1>2, <1>6, <2>1, <2>2, InRange DEF N
<1> QED  BY <1>6, <1>7, <1>8, <1>9 DEF r, N

-----------------------------------------------------------------------------
(* Watch lists.                                                            *)

AllOnce(w) == \A m \in BOOLEAN, l \in Lits : IsInjective(w[m][l])

(* From the lists w to the lists v clause i joins, or leaves, those of T.    *)
Joins(v, w, m, T, i) ==
  /\ v \in Watches /\ AllOnce(v)
  /\ \A p \in BOOLEAN, x \in Lits :
       IF p = m /\ x \in T THEN Range(v[p][x]) = Range(w[p][x]) \union {i}
       ELSE v[p][x] = w[p][x]
Leaves(v, w, m, T, i) ==
  /\ v \in Watches /\ AllOnce(v)
  /\ \A p \in BOOLEAN, x \in Lits :
       IF p = m /\ x \in T THEN Range(v[p][x]) = Range(w[p][x]) \ {i}
       ELSE v[p][x] = w[p][x]

LEMMA DelWatch ==
  ASSUME NEW w \in Watches, AllOnce(w), NEW m \in BOOLEAN, NEW l \in Lits,
         NEW i, i \in Range(w[m][l])
  PROVE  /\ Leaves(WatchDel(w, m, l, i), w, m, {l}, i)
         /\ WatchDel(w, m, l, i)[m][l] = SwapRemove(w[m][l], i)
<1> DEFINE v == WatchDel(w, m, l, i)
<1>1. w[m][l] \in Seq(Ids)  BY DEF Watches
<1>2. PICK n \in 1..Len(w[m][l]) : w[m][l][n] = i  BY <1>1, InRange
<1>3. IsInjective(w[m][l])  BY DEF AllOnce
<1>4. /\ SwapRemove(w[m][l], i) \in Seq(Ids) /\ IsInjective(SwapRemove(w[m][l], i))
      /\ Range(SwapRemove(w[m][l], i)) = Range(w[m][l]) \ {i}
  BY <1>1, <1>2, <1>3, RemoveFacts
<1>5. \A p \in BOOLEAN, x \in Lits :
        v[p][x] = IF p = m /\ x = l THEN SwapRemove(w[m][l], i) ELSE w[p][x]
  BY DEF WatchDel, Watches
<1>6. v \in Watches  BY <1>4 DEF WatchDel, Watches
<1> HIDE DEF v
<1>7. AllOnce(v)  BY <1>4, <1>5 DEF AllOnce
<1>8. \A p \in BOOLEAN, x \in Lits :
        IF p = m /\ x \in {l} THEN Range(v[p][x]) = Range(w[p][x]) \ {i} ELSE v[p][x] = w[p][x]
  BY <1>4, <1>5
<1>9. v[m][l] = SwapRemove(w[m][l], i)  BY <1>5
<1> QED  BY <1>6, <1>7, <1>8, <1>9 DEF v, Leaves

LEMMA AddWatch ==
  ASSUME NEW w \in Watches, AllOnce(w), NEW m \in BOOLEAN, NEW l \in Lits,
         NEW i \in Ids, i \notin Range(w[m][l])
  PROVE  Joins(WatchAdd(w, m, l, i), w, m, {l}, i)
<1> DEFINE v == WatchAdd(w, m, l, i)
<1>1. w[m][l] \in Seq(Ids)  BY DEF Watches
<1>3. IsInjective(w[m][l])  BY DEF AllOnce
<1>4. /\ Append(w[m][l], i) \in Seq(Ids) /\ IsInjective(Append(w[m][l], i))
      /\ Range(Append(w[m][l], i)) = Range(w[m][l]) \union {i}
  BY <1>1, <1>3, AppendFacts
<1>5. \A p \in BOOLEAN, x \in Lits :
        v[p][x] = IF p = m /\ x = l THEN Append(w[m][l], i) ELSE w[p][x]
  BY DEF WatchAdd, Watches
<1>6. v \in Watches  BY <1>4 DEF WatchAdd, Watches
<1> HIDE DEF v
<1>7. AllOnce(v)  BY <1>4, <1>5 DEF AllOnce
<1>8. \A p \in BOOLEAN, x \in Lits :
        IF p = m /\ x \in {l} THEN Range(v[p][x]) = Range(w[p][x]) \union {i}
        ELSE v[p][x] = w[p][x]
  BY <1>4, <1>5
<1> QED  BY <1>6, <1>7, <1>8 DEF v, Joins

(* A clause enters, or leaves, the lists of two literals of its class.      *)
LEMMA AddTwo ==
  ASSUME NEW w \in Watches, AllOnce(w), NEW m \in BOOLEAN, NEW a \in Lits, NEW b \in Lits,
         a # b, NEW i \in Ids, i \notin Range(w[m][a]), i \notin Range(w[m][b])
  PROVE  Joins(WatchAdd(WatchAdd(w, m, a, i), m, b, i), w, m, {a, b}, i)
<1> DEFINE v == WatchAdd(w, m, a, i)
<1>1. Joins(v, w, m, {a}, i)  BY AddWatch
<1> HIDE DEF v
<1>2. v \in Watches /\ AllOnce(v) /\ i \notin Range(v[m][b])  BY <1>1 DEF Joins
<1> DEFINE u == WatchAdd(v, m, b, i)
<1>3. Joins(u, v, m, {b}, i)  BY <1>2, AddWatch
<1> HIDE DEF u
<1>4. Joins(u, w, m, {a, b}, i)  BY <1>1, <1>3 DEF Joins
<1> QED  BY <1>4 DEF u, v

LEMMA DelTwo ==
  ASSUME NEW w \in Watches, AllOnce(w), NEW m \in BOOLEAN, NEW a \in Lits, NEW b \in Lits,
         a # b, NEW i, i \in Range(w[m][a]), i \in Range(w[m][b])
  PROVE  Leaves(WatchDel(WatchDel(w, m, a, i), m, b, i), w, m, {a, b}, i)
<1> DEFINE v == WatchDel(w, m, a, i)
<1>1. Leaves(v, w, m, {a}, i)  BY DelWatch
<1> HIDE DEF v
<1>2. v \in Watches /\ AllOnce(v) /\ i \in Range(v[m][b])  BY <1>1 DEF Leaves
<1> DEFINE u == WatchDel(v, m, b, i)
<1>3. Leaves(u, v, m, {b}, i)  BY <1>2, DelWatch
<1> HIDE DEF u
<1>4. Leaves(u, w, m, {a, b}, i)  BY <1>1, <1>3 DEF Leaves
<1> QED  BY <1>4 DEF u, v

(* It leaves the list of one literal for that of another.                   *)
Moves(v, w, m, a, b, i) ==
  /\ v \in Watches /\ AllOnce(v)
  /\ \A p \in BOOLEAN, x \in Lits :
       IF p = m /\ x = a THEN v[p][x] = SwapRemove(w[p][x], i)
                              /\ Range(v[p][x]) = Range(w[p][x]) \ {i}
       ELSE IF p = m /\ x = b THEN Range(v[p][x]) = Range(w[p][x]) \union {i}
       ELSE v[p][x] = w[p][x]

LEMMA MoveWatch ==
  ASSUME NEW w \in Watches, AllOnce(w), NEW m \in BOOLEAN, NEW a \in Lits, NEW b \in Lits,
         a # b, NEW i \in Ids, i \in Range(w[m][a]), i \notin Range(w[m][b])
  PROVE  Moves(WatchAdd(WatchDel(w, m, a, i), m, b, i), w, m, a, b, i)
<1> DEFINE v == WatchDel(w, m, a, i)
<1>1. Leaves(v, w, m, {a}, i) /\ v[m][a] = SwapRemove(w[m][a], i)  BY DelWatch
<1> HIDE DEF v
<1>2. v \in Watches /\ AllOnce(v) /\ i \notin Range(v[m][b])  BY <1>1 DEF Leaves
<1> DEFINE u == WatchAdd(v, m, b, i)
<1>3. Joins(u, v, m, {b}, i)  BY <1>2, AddWatch
<1> HIDE DEF u
<1>4. Moves(u, w, m, a, b, i)  BY <1>1, <1>3 DEF Joins, Leaves, Moves
<1> QED  BY <1>4 DEF u, v
-----------------------------------------------------------------------------
(* What sort_unit() returns.                                               *)

SortStep(s, c, n) ==
  IF IsFalse(c[n]) THEN s
  ELSE [lits |-> Swap(s.lits, n, s.size + 1), size |-> s.size + 1]

SortEq(g, c, n) ==
  g = [m \in 0..n |-> IF m = 0 THEN [lits |-> c, size |-> 0] ELSE SortStep(g[m - 1], c, m)]

LEMMA SortExists ==
  ASSUME NEW c, NEW n \in Nat
  PROVE  \E g : SortEq(g, c, n)
<1> DEFINE Bad == {m \in Nat : ~ \E g : SortEq(g, c, m)}
<1>1. SUFFICES ASSUME Bad # {} PROVE FALSE  OBVIOUS
<1>2. PICK m \in Bad : \A y \in Bad : m <= y  BY <1>1, Least
<1>3. m \in Nat  OBVIOUS
<1> DEFINE base == [lits |-> c, size |-> 0]
<1>4. m # 0
  <2> DEFINE g == [x \in 0..0 |-> base]
  <2>1. \A x \in 0..0 : x = 0  OBVIOUS
  <2>2. g = [x \in 0..0 |-> IF x = 0 THEN base ELSE SortStep(g[x - 1], c, x)]  BY <2>1
  <2>3. SortEq(g, c, 0)  BY <2>2 DEF SortEq
  <2> QED  BY <2>3
<1>5. m - 1 \in Nat /\ m - 1 \notin Bad  BY <1>2, <1>3, <1>4
<1>6. PICK g : SortEq(g, c, m - 1)  BY <1>5
<1> DEFINE h == [x \in 0..m |-> IF x = m THEN SortStep(g[m - 1], c, m) ELSE g[x]]
<1>7. \A x \in 0..m-1 : g[x] = IF x = 0 THEN base ELSE SortStep(g[x - 1], c, x)
  BY <1>6 DEF SortEq
<1>8. \A x \in 0..m : h[x] = IF x = 0 THEN base ELSE SortStep(h[x - 1], c, x)
  <2> TAKE x \in 0..m
  <2>1. CASE x = m
    <3>1. h[m] = SortStep(g[m - 1], c, m) /\ h[m - 1] = g[m - 1]  BY <1>3, <1>4
    <3> QED  BY <1>4, <2>1, <3>1
  <2>2. CASE x # m /\ x # 0
    <3>1. x \in 0..m-1 /\ h[x] = g[x] /\ h[x - 1] = g[x - 1]  BY <1>3, <2>2
    <3> QED  BY <1>7, <2>2, <3>1
  <2>3. CASE x # m /\ x = 0
    <3>1. 0 \in 0..m-1 /\ h[0] = g[0]  BY <1>3, <1>5, <2>3
    <3> QED  BY <1>7, <2>3, <3>1
  <2> QED  BY <2>1, <2>2, <2>3
<1>9. h = [x \in 0..m |-> h[x]]  OBVIOUS
<1> HIDE DEF h
<1>10. SortEq(h, c, m)  BY <1>8, <1>9 DEF SortEq
<1> QED  BY <1>10

(* The state of the sort after n literals of c.                            *)
SortedTo(s, c, n) ==
  /\ s.lits \in Seq(Literals) /\ IsInjective(s.lits)
  /\ Len(s.lits) = Len(c) /\ Range(s.lits) = Range(c)
  /\ s.size \in 0..n
  /\ \A k \in 1..s.size : ~IsFalse(s.lits[k])
  /\ \A k \in s.size+1..n : IsFalse(s.lits[k])
  /\ \A k \in n+1..Len(c) : s.lits[k] = c[k]

LEMMA SortStepSorts ==
  ASSUME NEW c \in Seq(Literals), NEW n \in 1..Len(c), NEW s, SortedTo(s, c, n - 1)
  PROVE  SortedTo(SortStep(s, c, n), c, n)
<1> DEFINE t == s.lits
           z == s.size
           N == Len(c)
<1>1. /\ t \in Seq(Literals) /\ IsInjective(t) /\ Len(t) = N /\ Range(t) = Range(c)
      /\ z \in 0..n-1
      /\ \A k \in 1..z : ~IsFalse(t[k])
      /\ \A k \in z+1..n-1 : IsFalse(t[k])
      /\ \A k \in (n-1)+1..N : t[k] = c[k]
  BY DEF SortedTo
<1>2. N \in Nat /\ n \in 1..N /\ n \in Nat  OBVIOUS
<1> HIDE DEF t, z, N
<1>3. t[n] = c[n]  BY <1>1, <1>2
<1>4. CASE IsFalse(c[n])
  <2>1. SortStep(s, c, n) = s  BY <1>4 DEF SortStep
  <2>2. \A k \in z+1..n : IsFalse(t[k])
    <3> TAKE k \in z+1..n
    <3>1. k = n \/ k \in z+1..n-1  BY <1>1, <1>2
    <3> QED  BY <1>1, <1>3, <1>4, <3>1
  <2>3. \A k \in n+1..N : t[k] = c[k]  BY <1>1, <1>2
  <2>4. z \in 0..n  BY <1>1, <1>2
  <2> QED  BY <1>1, <2>1, <2>2, <2>3, <2>4 DEF SortedTo, t, z, N
<1>5. CASE ~IsFalse(c[n])
  <2> DEFINE p == z + 1
             u == Swap(t, n, p)
  <2>1. SortStep(s, c, n) = [lits |-> u, size |-> z + 1]  BY <1>5 DEF SortStep, t, z
  <2>2. p \in 1..N /\ z + 1 \in 0..n  BY <1>1, <1>2
  <2>a. p = z + 1  OBVIOUS
  <2> HIDE DEF p
  <2>b. /\ t \in Seq(Literals) /\ IsInjective(t) /\ Len(t) = N /\ Range(t) = Range(c)
        /\ p \in 1..Len(t) /\ n \in 1..Len(t)
    BY <1>1, <1>2, <2>2
  <2>c. /\ u \in Seq(Literals) /\ Len(u) = Len(t) /\ IsInjective(u) /\ Range(u) = Range(t)
        /\ \A k \in 1..Len(t) : u[k] = IF k = n THEN t[p] ELSE IF k = p THEN t[n] ELSE t[k]
    <3>1. t \in Seq(Literals)  BY <2>b
    <3>2. IsInjective(t) /\ p \in 1..Len(t) /\ n \in 1..Len(t)  BY <2>b
    <3> HIDE DEF u
    <3> QED  BY ONLY <3>1, <3>2, SwapFacts DEF u
  <2> HIDE DEF u
  <2>3. /\ u \in Seq(Literals) /\ Len(u) = N /\ IsInjective(u) /\ Range(u) = Range(c)
        /\ \A k \in 1..N : u[k] = IF k = n THEN t[z+1] ELSE IF k = z + 1 THEN t[n] ELSE t[k]
    BY <2>a, <2>b, <2>c
  <2>4. \A k \in 1..z+1 : ~IsFalse(u[k])
    <3> TAKE k \in 1..z+1
    <3>1. k \in 1..N /\ (k = z + 1 \/ (k \in 1..z /\ k # n /\ k # z + 1))  BY <1>1, <1>2
    <3>2. u[k] = IF k = z + 1 THEN t[n] ELSE t[k]  BY <2>3, <3>1
    <3> QED  BY <1>1, <1>3, <1>5, <3>1, <3>2
  <2>5. \A k \in (z+1)+1..n : IsFalse(u[k])
    <3> TAKE k \in (z+1)+1..n
    <3>1. k \in 1..N /\ k # z + 1 /\ (k = n => z + 1 \in z+1..n-1) /\ (k # n => k \in z+1..n-1)
      BY <1>1, <1>2
    <3>2. u[k] = IF k = n THEN t[z+1] ELSE t[k]  BY <2>3, <3>1
    <3> QED  BY <1>1, <3>1, <3>2
  <2>6. \A k \in n+1..N : u[k] = c[k]
    <3> TAKE k \in n+1..N
    <3>1. k \in 1..N /\ k # n /\ k # z + 1 /\ k \in (n-1)+1..N  BY <1>1, <1>2
    <3> QED  BY <1>1, <2>3, <3>1
  <2> QED  BY <2>1, <2>2, <2>3, <2>4, <2>5, <2>6 DEF SortedTo, N
<1> QED  BY <1>4, <1>5

LEMMA SortedFacts ==
  ASSUME NEW c \in Seq(Literals), IsInjective(c)
  PROVE  /\ Sorted(c) \in Seq(Literals) /\ IsInjective(Sorted(c))
         /\ Len(Sorted(c)) = Len(c) /\ Range(Sorted(c)) = Range(c)
         /\ \A j, k \in 1..Len(c) : j <= k /\ IsFalse(Sorted(c)[j]) => IsFalse(Sorted(c)[k])
<1> DEFINE N == Len(c)
           sort == CHOOSE g : SortEq(g, c, N)
<1>1. N \in Nat  OBVIOUS
<1>2. SortEq(sort, c, N)  BY <1>1, SortExists
<1>3. Sorted(c) = sort[N].lits  BY DEF Sorted, SortEq, SortStep
<1> HIDE DEF N, sort
<1>4. \A m \in 0..N : sort[m] = IF m = 0 THEN [lits |-> c, size |-> 0]
                                 ELSE SortStep(sort[m - 1], c, m)
  BY <1>2 DEF SortEq
<1> DEFINE Bad == {m \in 0..N : ~SortedTo(sort[m], c, m)}
<1>5. Bad = {}
  <2> SUFFICES ASSUME Bad # {} PROVE FALSE  OBVIOUS
  <2>0. Bad \subseteq Nat  BY <1>1
  <2>1. PICK m \in Bad : \A y \in Bad : m <= y
    <3> HIDE DEF Bad
    <3> QED  BY <2>0, Least
  <2>2. m \in 0..N /\ ~SortedTo(sort[m], c, m)  OBVIOUS
  <2>3. m # 0
    <3> SUFFICES ASSUME m = 0 PROVE FALSE  OBVIOUS
    <3>1. sort[m] = [lits |-> c, size |-> 0]  BY <1>4, <2>2
    <3>2. \A k \in 0+1..0 : FALSE  OBVIOUS
    <3>3. 0 \in 0..0 /\ (\A k \in 1..0 : FALSE)  OBVIOUS
    <3>4. SortedTo(sort[m], c, 0)  BY <3>1, <3>2, <3>3 DEF SortedTo
    <3> QED  BY <2>2, <3>4
  <2>4. m \in 1..N /\ m - 1 \in 0..N /\ ~(m <= m - 1)  BY <1>1, <2>2, <2>3
  <2>5. SortedTo(sort[m - 1], c, m - 1)  BY <2>1, <2>4
  <2>6. SortedTo(SortStep(sort[m - 1], c, m), c, m)  BY <2>4, <2>5, SortStepSorts DEF N
  <2>7. sort[m] = SortStep(sort[m - 1], c, m)  BY <1>4, <2>2, <2>3
  <2> QED  BY <2>2, <2>6, <2>7
<1>6. N \in 0..N  BY <1>1
<1>7. SortedTo(sort[N], c, N)  BY <1>5, <1>6
<1> DEFINE t == sort[N].lits
           z == sort[N].size
<1>8. /\ t \in Seq(Literals) /\ IsInjective(t) /\ Len(t) = Len(c) /\ Range(t) = Range(c)
      /\ z \in 0..N
      /\ \A k \in 1..z : ~IsFalse(t[k])
      /\ \A k \in z+1..N : IsFalse(t[k])
  BY <1>7 DEF SortedTo
<1> HIDE DEF t, z
<1>9. \A j, k \in 1..N : j <= k /\ IsFalse(t[j]) => IsFalse(t[k])
  <2> SUFFICES ASSUME NEW j \in 1..N, NEW k \in 1..N, j <= k, IsFalse(t[j])
               PROVE  IsFalse(t[k])
    OBVIOUS
  <2>1. j \notin 1..z  BY <1>8
  <2>2. k \in z+1..N  BY <1>1, <1>8, <2>1
  <2> QED  BY <1>8, <2>2
<1> QED  BY <1>3, <1>8, <1>9 DEF t, N

-----------------------------------------------------------------------------
(* The inductive invariant.                                                *)

TypedContext ==
  /\ names \subseteq Ids /\ marked \subseteq names
  /\ clauses \in [Ids -> Seq(Literals)] /\ \A i \in Ids : IsInjective(clauses[i])
  /\ watch \in Watches

TypedTrail ==
  /\ truStack \in Seq(Lits) /\ IsInjective(truStack)
  /\ reasons \in [Lits -> Ids \union {None}]
  /\ firstHyp \in 0..Len(truStack) /\ firstUnprocessed \in 0..Len(truStack)
  /\ unitsProcessed \in BOOLEAN

Places == {"idle", "hint", "units", "assume", "hints", "propagate", "prop", "visit",
           "found", "stuck"}
TypedControl ==
  /\ pc \in Places /\ stage \in {"hint", "empty", "root", "goal"}
  /\ goal \in Seq(Literals) /\ rest \in Seq(Literals) /\ Range(rest) \subseteq Range(goal)
  /\ unprocessed \in [BOOLEAN -> Nat]
  /\ cur \in [class : BOOLEAN, lit : Lits, at : Nat \ {0}]
  /\ root \in BOOLEAN /\ conflict \in Lits
  /\ hints \in Seq(names) /\ queue \in Seq(names) /\ progress \in BOOLEAN

(* WatchesOk without numbers: no list has a clause twice.                   *)
Watchers(m, l) ==
  {i \in names : /\ m = (i \in marked) /\ Len(clauses[i]) >= 2
                 /\ l \in {clauses[i][1], clauses[i][2]}}
Lists == AllOnce(watch) /\ \A m \in BOOLEAN, l \in Lits : Range(watch[m][l]) = Watchers(m, l)

(* Literal n of the trail follows from its reason and the literals before.  *)
Forced(n) ==
  LET i == reasons[truStack[n]] IN
  /\ i \in names
  /\ truStack[n] = UnitLit(clauses[i])
  /\ \A k \in 2..Len(clauses[i]) : \E m \in 1..n-1 : truStack[m] = -clauses[i][k]

(* A literal without a reason is a hypothesis: the step's goal is false.     *)
Hypothesis(n) == n > firstHyp /\ truStack[n] \in Negated(goal)

Derivation ==
  \A n \in 1..Len(truStack) : IF reasons[truStack[n]] = None THEN Hypothesis(n) ELSE Forced(n)
ConflictLast == \A n \in 1..Len(truStack)-1 : ~UnsatAt(n)

(* Where the engine may be in which stage of a step.                        *)
Stages ==
  /\ pc \in {"hint", "hints"} => Hinted
  /\ pc \in {"prop", "visit", "stuck"} => ~Hinted
  /\ pc = "assume" => stage # "root"
  /\ pc = "units" => stage # "goal" /\ (Hinted \/ root)
  /\ pc = "idle" => hints = <<>> /\ queue = <<>> /\ rest = <<>>

(* What holds of the trail at the places of the engine.                     *)
Consistently ==
  /\ pc \in {"idle", "hint", "units"} => firstHyp = Len(truStack)
  /\ pc \in {"units", "assume", "hints", "prop", "visit", "stuck"} => ~Unsat
  /\ pc \in {"prop", "visit"} /\ root =>
       \A n \in 1..Len(truStack) : reasons[truStack[n]] # None
  /\ pc = "visit" => IsTrue(cur.lit)
  /\ pc = "found" => IsTrue(conflict) /\ IsFalse(conflict)

Typed == TypedContext /\ TypedTrail /\ TypedControl
TrailInv == Derivation /\ ConflictLast
IInv == Typed /\ Lists /\ TrailInv /\ Stages /\ Consistently

-----------------------------------------------------------------------------
(* The trail.                                                              *)

LEMMA Negation == \A l \in Lits : -l \in Lits /\ -(-l) = l /\ (l = -l <=> l = 0)
  BY Sizes DEF Lits

LEMMA NoneApart == \A i \in names : names \subseteq Ids => i # None
  BY NoneIsNoId

LEMMA OnTrail ==
  ASSUME truStack \in Seq(Lits)
  PROVE  /\ \A x : IsTrue(x) <=> \E n \in 1..Len(truStack) : truStack[n] = x
         /\ \A x : IsFalse(x) <=> \E n \in 1..Len(truStack) : truStack[n] = -x
         /\ \A x : IsTrue(x) => x \in Lits
  BY InRange DEF IsTrue, IsFalse

(* No conflict: the trail is consistent.                                   *)
LEMMA Consistent ==
  ASSUME truStack \in Seq(Lits), ConflictLast, ~Unsat, NEW l \in Lits, IsTrue(l)
  PROVE  ~IsFalse(l)
<1> SUFFICES ASSUME IsFalse(l) PROVE FALSE  OBVIOUS
<1>1. PICK a \in 1..Len(truStack) : truStack[a] = l  BY OnTrail
<1>2. PICK b \in 1..Len(truStack) : truStack[b] = -l  BY OnTrail
<1>3. Len(truStack) \in Nat  OBVIOUS
<1>4. -(-l) = l  BY Negation
<1>5. \A n \in 1..Len(truStack) : ~UnsatAt(n)  BY <1>3 DEF ConflictLast, Unsat
<1>6. CASE a <= b
  <2>1. truStack[a] = -truStack[b] /\ a \in 1..b  BY <1>1, <1>2, <1>3, <1>4, <1>6
  <2> QED  BY <1>2, <1>3, <1>5, <2>1 DEF UnsatAt
<1>7. CASE b <= a
  <2>1. truStack[b] = -truStack[a] /\ b \in 1..a  BY <1>1, <1>2, <1>3, <1>4, <1>7
  <2> QED  BY <1>1, <1>3, <1>5, <2>1 DEF UnsatAt
<1> QED  BY <1>3, <1>6, <1>7

LEMMA Assigned ==
  ASSUME TypedTrail, NEW l \in Lits, NEW r \in Ids \union {None}, Assign(l, r)
  PROVE  /\ truStack' \in Seq(Lits) /\ IsInjective(truStack')
         /\ reasons' \in [Lits -> Ids \union {None}]
         /\ \A k \in 1..Len(truStack) :
              truStack'[k] = truStack[k] /\ reasons'[truStack[k]] = reasons[truStack[k]]
         /\ IsTrue(l) => truStack' = truStack /\ reasons' = reasons
         /\ ~IsTrue(l) => /\ Len(truStack') = Len(truStack) + 1
                          /\ truStack'[Len(truStack) + 1] = l /\ reasons'[l] = r
<1>1. CASE IsTrue(l)  BY <1>1 DEF Assign, TypedTrail
<1>2. CASE ~IsTrue(l)
  <2>1. truStack' = Append(truStack, l) /\ reasons' = [reasons EXCEPT ![l] = r]
    BY <1>2 DEF Assign
  <2>2. truStack \in Seq(Lits) /\ IsInjective(truStack)  BY DEF TypedTrail
  <2>3. l \notin Range(truStack)  BY <1>2 DEF IsTrue
  <2>4. truStack' \in Seq(Lits) /\ IsInjective(truStack')  BY <2>1, <2>2, <2>3, AppendFacts
  <2>5. /\ Len(truStack') = Len(truStack) + 1 /\ truStack'[Len(truStack) + 1] = l
        /\ \A k \in 1..Len(truStack) : truStack'[k] = truStack[k]
    BY <2>1, <2>2
  <2>6. reasons' \in [Lits -> Ids \union {None}] /\ reasons'[l] = r
    BY <2>1 DEF TypedTrail
  <2>7. \A k \in 1..Len(truStack) : truStack[k] \in Lits /\ truStack[k] # l
    BY <2>2, <2>3, InRange
  <2>8. \A k \in 1..Len(truStack) : reasons'[truStack[k]] = reasons[truStack[k]]
    BY <2>1, <2>7 DEF TypedTrail
  <2> QED  BY <1>2, <2>4, <2>5, <2>6, <2>8
<1> QED  BY <1>1, <1>2

(* The trail cut after its first n literals.                               *)
CutTo(n) ==
  /\ truStack' = SubSeq(truStack, 1, n)
  /\ reasons' = [l \in Lits |-> IF \E m \in n+1..Len(truStack) : truStack[m] = l
                                THEN None ELSE reasons[l]]

LEMMA Cut ==
  ASSUME TypedTrail, NEW n \in 0..Len(truStack), CutTo(n)
  PROVE  /\ truStack' \in Seq(Lits) /\ IsInjective(truStack') /\ Len(truStack') = n
         /\ reasons' \in [Lits -> Ids \union {None}]
         /\ \A k \in 1..n :
              truStack'[k] = truStack[k] /\ reasons'[truStack[k]] = reasons[truStack[k]]
<1>1. truStack \in Seq(Lits) /\ IsInjective(truStack)  BY DEF TypedTrail
<1>2. Len(truStack) \in Nat  BY <1>1
<1>3. /\ truStack' \in Seq(Lits) /\ Len(truStack') = n
      /\ \A k \in 1..n : truStack'[k] = truStack[k]
  BY <1>1 DEF CutTo
<1>4. \A k, h \in 1..Len(truStack) : truStack[k] = truStack[h] => k = h  BY <1>1, InRange
<1>5. IsInjective(truStack')
  <2>1. \A k, h \in 1..n : truStack'[k] = truStack'[h] => k = h  BY <1>2, <1>3, <1>4
  <2> QED  BY <1>3, <2>1, InRange
<1>6. reasons' \in [Lits -> Ids \union {None}]  BY DEF CutTo, TypedTrail
<1>7. \A k \in 1..n : reasons'[truStack[k]] = reasons[truStack[k]]
  <2> TAKE k \in 1..n
  <2>1. truStack[k] \in Lits  BY <1>1, <1>2
  <2>2. ~ \E m \in n+1..Len(truStack) : truStack[m] = truStack[k]  BY <1>2, <1>4
  <2> QED  BY <2>1, <2>2 DEF CutTo
<1> QED  BY <1>3, <1>5, <1>6, <1>7

LEMMA ClearCuts ==
  ASSUME NEW n, ClearTo(n)
  PROVE  CutTo(n) /\ firstUnprocessed' = IF n < firstUnprocessed THEN n ELSE firstUnprocessed
  BY DEF ClearTo, CutTo

(* The first m literals of the trail stay, and what they rest on.           *)
KeepsTo(m) ==
  /\ m \in 0..Len(truStack)
  /\ truStack' \in Seq(Lits)
  /\ \A k \in 1..m :
       /\ truStack'[k] = truStack[k] /\ reasons'[truStack[k]] = reasons[truStack[k]]
       /\ IF reasons[truStack[k]] = None THEN k > firstHyp' /\ truStack[k] \in Negated(goal')
          ELSE /\ reasons[truStack[k]] \in names'
               /\ clauses'[reasons[truStack[k]]] = clauses[reasons[truStack[k]]]

(* The literal after them has a place in the derivation.                    *)
Adds(m) ==
  LET l == truStack'[m + 1]
      r == reasons'[truStack'[m + 1]]
  IN /\ Len(truStack') = m + 1
     /\ ~UnsatAt(m)
     /\ IF r = None THEN m + 1 > firstHyp' /\ l \in Negated(goal')
        ELSE /\ r \in names' /\ l = UnitLit(clauses'[r])
             /\ \A k \in 2..Len(clauses'[r]) : \E j \in 1..m : truStack'[j] = -clauses'[r][k]

LEMMA TrailStep ==
  ASSUME TypedTrail, TrailInv, NEW m, KeepsTo(m), Len(truStack') = m \/ Adds(m)
  PROVE  TrailInv'
<1>1. m \in 0..Len(truStack) /\ Len(truStack) \in Nat /\ m \in Nat  BY DEF KeepsTo, TypedTrail
<1>2. Len(truStack') = m \/ Len(truStack') = m + 1  BY DEF Adds
<1>3. \A k \in 1..m :
        /\ truStack'[k] = truStack[k] /\ reasons'[truStack[k]] = reasons[truStack[k]]
        /\ IF reasons[truStack[k]] = None THEN k > firstHyp' /\ truStack[k] \in Negated(goal')
           ELSE /\ reasons[truStack[k]] \in names'
                /\ clauses'[reasons[truStack[k]]] = clauses[reasons[truStack[k]]]
  BY DEF KeepsTo
<1>4. ASSUME NEW n \in 1..m
      PROVE  IF reasons'[truStack'[n]] = None THEN Hypothesis(n)' ELSE Forced(n)'
  <2>1. n \in 1..Len(truStack)  BY <1>1
  <2>2. CASE reasons[truStack[n]] = None  BY <1>3, <2>2 DEF Hypothesis, Negated
  <2>3. CASE reasons[truStack[n]] # None
    <3> DEFINE i == reasons[truStack[n]]
    <3>1. Forced(n)  BY <2>1, <2>3 DEF TrailInv, Derivation
    <3>2. i \in names' /\ clauses'[i] = clauses[i] /\ reasons'[truStack'[n]] = i
          /\ truStack'[n] = truStack[n]
      BY <1>3, <2>3
    <3>3. \A k \in 2..Len(clauses[i]) : \E j \in 1..n-1 : truStack'[j] = -clauses[i][k]
      <4> TAKE k \in 2..Len(clauses[i])
      <4>1. PICK j \in 1..n-1 : truStack[j] = -clauses[i][k]  BY <3>1 DEF Forced
      <4>2. j \in 1..m  BY <1>1
      <4> QED  BY <1>3, <4>1, <4>2
    <3>4. truStack[n] = UnitLit(clauses[i])  BY <3>1 DEF Forced
    <3> HIDE DEF i
    <3>5. Forced(n)'  BY <3>2, <3>3, <3>4 DEF Forced, UnitLit
    <3> QED  BY <2>3, <3>2, <3>5 DEF i
  <2> QED  BY <2>2, <2>3
<1>5. ASSUME Len(truStack') = m + 1
      PROVE  IF reasons'[truStack'[m + 1]] = None THEN Hypothesis(m + 1)' ELSE Forced(m + 1)'
  <2>1. Adds(m)  BY <1>1, <1>5
  <2> DEFINE r == reasons'[truStack'[m + 1]]
  <2>2. IF r = None THEN m + 1 > firstHyp' /\ truStack'[m + 1] \in Negated(goal')
        ELSE /\ r \in names' /\ truStack'[m + 1] = UnitLit(clauses'[r])
             /\ \A k \in 2..Len(clauses'[r]) : \E j \in 1..m : truStack'[j] = -clauses'[r][k]
    BY <2>1 DEF Adds
  <2>3. (m + 1) - 1 = m  BY <1>1
  <2> HIDE DEF r
  <2>4. CASE r = None  BY <2>2, <2>4 DEF Hypothesis, Negated, r
  <2>5. CASE r # None
    <3>1. Forced(m + 1)'  BY <2>2, <2>3, <2>5 DEF Forced, UnitLit, r
    <3> QED  BY <2>5, <3>1 DEF r
  <2> QED  BY <2>4, <2>5
<1>6. Derivation'
  <2> SUFFICES ASSUME NEW n \in 1..Len(truStack')
               PROVE  IF reasons'[truStack'[n]] = None THEN Hypothesis(n)' ELSE Forced(n)'
    BY DEF Derivation
  <2>1. n \in 1..m \/ (n = m + 1 /\ Len(truStack') = m + 1)  BY <1>1, <1>2
  <2> QED  BY <1>4, <1>5, <2>1
<1>7. ConflictLast'
  <2> SUFFICES ASSUME NEW n \in 1..Len(truStack')-1 PROVE ~UnsatAt(n)'
    BY DEF ConflictLast
  <2>1. n \in 1..m /\ (n = m => Len(truStack') = m + 1)  BY <1>1, <1>2
  <2>2. ~UnsatAt(n)
    <3>1. CASE n = m  BY <1>1, <2>1, <3>1 DEF Adds
    <3>2. CASE n # m
      <4>1. n \in 1..Len(truStack)-1  BY <1>1, <2>1, <3>2
      <4> QED  BY <4>1 DEF TrailInv, ConflictLast
    <3> QED  BY <3>1, <3>2
  <2>3. \A k \in 1..n : k \in 1..m  BY <1>1, <2>1
  <2>4. \A k \in 1..n : truStack'[k] = truStack[k]  BY <1>3, <2>3
  <2> QED  BY <1>1, <2>1, <2>2, <2>4 DEF UnsatAt
<1> QED  BY <1>6, <1>7 DEF TrailInv


-----------------------------------------------------------------------------
(* The invariant is at least WatchesOk and TrailOk.                        *)

LEMMA ListsWatch ==
  ASSUME TypedContext, Lists
  PROVE  WatchesOk
<1> SUFFICES ASSUME NEW i \in Ids, NEW m \in BOOLEAN, NEW l \in Lits
             PROVE  Cardinality({n \in DOMAIN watch[m][l] : watch[m][l][n] = i}) =
                      IF i \in names /\ m = (i \in marked) /\ Len(clauses[i]) >= 2
                         /\ l \in {clauses[i][1], clauses[i][2]}
                      THEN 1 ELSE 0
  BY DEF WatchesOk
<1> DEFINE w == watch[m][l]
           At == {n \in DOMAIN w : w[n] = i}
<1>1. w \in Seq(Ids) /\ IsInjective(w)  BY DEF TypedContext, Watches, Lists, AllOnce
<1>2. Range(w) = Watchers(m, l)  BY DEF Lists
<1> HIDE DEF w
<1>3. i \in Range(w) <=> \E n \in 1..Len(w) : w[n] = i  BY <1>1, InRange
<1>4. CASE i \in Range(w)
  <2>1. PICK n \in 1..Len(w) : w[n] = i  BY <1>3, <1>4
  <2>2. \A k \in 1..Len(w) : w[k] = i => k = n  BY <1>1, <2>1, InRange
  <2>3. At = {n}  BY <1>1, <2>1, <2>2
  <2>4. Cardinality(At) = 1  BY <2>3, FS_Singleton
  <2> QED  BY <1>2, <1>4, <2>4 DEF Watchers, w
<1>5. CASE i \notin Range(w)
  <2>1. At = {}  BY <1>1, <1>3, <1>5
  <2>2. Cardinality(At) = 0  BY <2>1, FS_EmptySet
  <2> QED  BY <1>2, <1>5, <2>2 DEF Watchers, w
<1> QED  BY <1>4, <1>5

LEMMA InvTrail ==
  ASSUME IInv
  PROVE  TrailOk
<1>1. TypedContext /\ TypedTrail /\ Derivation /\ ConflictLast  BY DEF IInv, Typed, TrailInv
<1>2. truStack \in Seq(Lits) /\ DOMAIN truStack = 1..Len(truStack)  BY <1>1 DEF TypedTrail
<1>3. pc = "idle" => firstHyp = Len(truStack)  BY DEF IInv, Consistently
<1>4. ASSUME NEW n \in DOMAIN truStack
      PROVE  LET l == truStack[n]
                 i == reasons[l]
             IN /\ IF i = None THEN n > firstHyp
                   ELSE /\ i \in names
                        /\ l = UnitLit(clauses[i])
                        /\ \A k \in 2..Len(clauses[i]) :
                             \E m \in 1..n-1 : truStack[m] = -clauses[i][k]
                /\ n < Len(truStack) => ~UnsatAt(n)
  <2>1. IF reasons[truStack[n]] = None THEN n > firstHyp ELSE Forced(n)
    BY <1>1, <1>2 DEF Derivation, Hypothesis
  <2>2. n < Len(truStack) => ~UnsatAt(n)  BY <1>1, <1>2 DEF ConflictLast
  <2> QED  BY <2>1, <2>2 DEF Forced
<1> QED  BY <1>1, <1>3, <1>4 DEF TrailOk, TypedTrail

-----------------------------------------------------------------------------
(* Lemmas that the actions share.                                          *)

LEMMA GoalClauses == \A c \in Inputs \union Goals : c \in Seq(Literals) /\ IsInjective(c)
  BY InputsAreClauses DEF Literals

LEMMA AtMostOne ==
  ASSUME NEW T, IsFiniteSet(T), Cardinality(T) <= 1, NEW a \in T, NEW b \in T
  PROVE  a = b
<1> SUFFICES ASSUME a # b PROVE FALSE  OBVIOUS
<1>1. IsFiniteSet({a}) /\ Cardinality({a}) = 1  BY FS_Singleton
<1>2. Cardinality({a} \union {b}) = Cardinality({a}) + 1  BY <1>1, FS_AddElement
<1>3. Cardinality({a} \union {b}) <= Cardinality(T)  BY FS_Subset
<1>4. Cardinality(T) \in Nat  BY FS_CardinalityType
<1> QED  BY <1>1, <1>2, <1>3, <1>4

LEMMA FiniteLits == IsFiniteSet(Lits) /\ \A T : T \subseteq Lits => IsFiniteSet(T)
<1>1. IsFiniteSet(Lits)  BY Sizes, FS_Interval DEF Lits
<1> QED  BY <1>1, FS_Subset

LEMMA Held ==
  ASSUME TypedTrail, Derivation, NEW n \in 1..firstHyp
  PROVE  n \in 1..Len(truStack) /\ reasons[truStack[n]] # None /\ Forced(n)
<1>1. firstHyp \in 0..Len(truStack) /\ Len(truStack) \in Nat  BY DEF TypedTrail
<1>2. n \in 1..Len(truStack) /\ ~(n > firstHyp)  BY <1>1
<1> QED  BY <1>2 DEF Derivation, Hypothesis

(* A clause whose first literal is not true is no reason.                   *)
LEMMA NoReason ==
  ASSUME Derivation, TypedTrail, NEW i \in Ids, ~IsTrue(UnitLit(clauses[i]))
  PROVE  \A k \in 1..Len(truStack) : reasons[truStack[k]] # i
<1> SUFFICES ASSUME NEW k \in 1..Len(truStack), reasons[truStack[k]] = i PROVE FALSE
  OBVIOUS
<1>1. Forced(k)  BY NoneIsNoId DEF Derivation
<1>2. truStack[k] = UnitLit(clauses[i])  BY <1>1 DEF Forced
<1>3. IsTrue(truStack[k])  BY OnTrail DEF TypedTrail
<1> QED  BY <1>2, <1>3

LEMMA ZeroOff ==
  ASSUME TypedTrail, ConflictLast, ~Unsat
  PROVE  ~IsTrue(0)
<1>a. 0 \in Lits  BY Sizes DEF Lits
<1>1. 0 \in Lits /\ -0 = 0  BY <1>a, Negation
<1>2. IsTrue(0) => IsFalse(0)  BY <1>1 DEF IsFalse
<1> QED  BY <1>1, <1>2, Consistent DEF TypedTrail

LEMMA SameTrail ==
  ASSUME TrailInv, UNCHANGED <<truStack, reasons, names, clauses>>,
         UNCHANGED <<firstHyp, goal>> \/ \A n \in 1..Len(truStack) : reasons[truStack[n]] # None
  PROVE  TrailInv'
<1>1. ConflictLast'  BY DEF TrailInv, ConflictLast, UnsatAt
<1>2. ASSUME NEW n \in 1..Len(truStack)
      PROVE  IF reasons[truStack[n]] = None THEN Hypothesis(n)' ELSE Forced(n)'
  <2>1. IF reasons[truStack[n]] = None THEN Hypothesis(n) ELSE Forced(n)
    BY DEF TrailInv, Derivation
  <2>2. Forced(n) => Forced(n)'  BY DEF Forced, UnitLit
  <2>3. CASE reasons[truStack[n]] = None
    <3>1. UNCHANGED <<firstHyp, goal>>  BY <2>3
    <3> QED  BY <2>1, <2>3, <3>1 DEF Hypothesis, Negated
  <2> QED  BY <2>1, <2>2, <2>3
<1> QED  BY <1>1, <1>2 DEF TrailInv, Derivation

(* The trail cut back to literals that hold without hypotheses.             *)
LEMMA CutTrail ==
  ASSUME TypedTrail, TrailInv, NEW n \in 0..firstHyp, CutTo(n),
         \A k \in 1..n : /\ reasons[truStack[k]] \in names'
                         /\ clauses'[reasons[truStack[k]]] = clauses[reasons[truStack[k]]]
  PROVE  /\ TrailInv' /\ Len(truStack') = n
         /\ truStack' \in Seq(Lits) /\ IsInjective(truStack')
         /\ reasons' \in [Lits -> Ids \union {None}]
         /\ \A k \in 1..n : truStack'[k] = truStack[k]
<1>1. n \in 0..Len(truStack)  BY DEF TypedTrail
<1>2. /\ truStack' \in Seq(Lits) /\ IsInjective(truStack') /\ Len(truStack') = n
      /\ reasons' \in [Lits -> Ids \union {None}]
      /\ \A k \in 1..n :
           truStack'[k] = truStack[k] /\ reasons'[truStack[k]] = reasons[truStack[k]]
  BY <1>1, Cut
<1>3. \A k \in 1..n : reasons[truStack[k]] # None
  <2> TAKE k \in 1..n
  <2>1. k \in 1..firstHyp  BY DEF TypedTrail
  <2> QED  BY <2>1, Held DEF TrailInv
<1>4. KeepsTo(n)  BY <1>1, <1>2, <1>3 DEF KeepsTo
<1>5. TrailInv'  BY <1>2, <1>4, TrailStep
<1> QED  BY <1>2, <1>5

(* One more literal on the trail, with the clause it follows from.          *)
LEMMA ImpliedTrail ==
  ASSUME TypedTrail, TrailInv, ~Unsat, NEW l \in Lits, NEW i \in Ids,
         ~IsTrue(l), Assign(l, i),
         i \in names', l = UnitLit(clauses'[i]),
         \A k \in 2..Len(clauses'[i]) : IsFalse(clauses'[i][k]),
         names \subseteq names', \A j \in names : j # i => clauses'[j] = clauses[j],
         clauses'[i] = clauses[i] \/ \A k \in 1..Len(truStack) : reasons[truStack[k]] # i,
         UNCHANGED <<goal, firstHyp>>
           \/ \A n \in 1..Len(truStack) : reasons[truStack[n]] # None
  PROVE  /\ TrailInv' /\ Len(truStack') = Len(truStack) + 1
         /\ truStack' \in Seq(Lits) /\ IsInjective(truStack')
         /\ reasons' \in [Lits -> Ids \union {None}]
         /\ \A k \in 1..Len(truStack) :
              truStack'[k] = truStack[k] /\ reasons'[truStack[k]] = reasons[truStack[k]]
         /\ truStack'[Len(truStack) + 1] = l /\ reasons'[l] = i
<1> DEFINE N == Len(truStack)
<1>1. N \in Nat /\ N \in 0..N /\ truStack \in Seq(Lits)  BY DEF TypedTrail
<1>2. /\ truStack' \in Seq(Lits) /\ IsInjective(truStack')
      /\ reasons' \in [Lits -> Ids \union {None}]
      /\ \A k \in 1..N :
           truStack'[k] = truStack[k] /\ reasons'[truStack[k]] = reasons[truStack[k]]
      /\ Len(truStack') = N + 1
      /\ truStack'[N + 1] = l /\ reasons'[l] = i
  BY Assigned
<1>3. ASSUME NEW k \in 1..N
      PROVE  IF reasons[truStack[k]] = None THEN k > firstHyp' /\ truStack[k] \in Negated(goal')
             ELSE /\ reasons[truStack[k]] \in names'
                  /\ clauses'[reasons[truStack[k]]] = clauses[reasons[truStack[k]]]
  <2>1. IF reasons[truStack[k]] = None THEN Hypothesis(k) ELSE Forced(k)
    BY DEF TrailInv, Derivation
  <2>2. CASE reasons[truStack[k]] = None  BY <2>1, <2>2 DEF Hypothesis, Negated
  <2>3. CASE reasons[truStack[k]] # None
    <3>1. reasons[truStack[k]] \in names  BY <2>1, <2>3 DEF Forced
    <3>2. reasons[truStack[k]] = i => clauses'[i] = clauses[i]  OBVIOUS
    <3>3. reasons[truStack[k]] # i => clauses'[reasons[truStack[k]]] = clauses[reasons[truStack[k]]]
      BY <3>1
    <3> QED  BY <2>3, <3>1, <3>2, <3>3
  <2> QED  BY <2>2, <2>3
<1>4. KeepsTo(N)  BY <1>1, <1>2, <1>3 DEF KeepsTo
<1>5. \A k \in 2..Len(clauses'[i]) : \E j \in 1..N : truStack'[j] = -clauses'[i][k]
  BY <1>1, <1>2, OnTrail
<1>6. Adds(N)  BY <1>2, <1>5, NoneIsNoId DEF Adds, Unsat
<1>7. TrailInv'  BY <1>4, <1>6, TrailStep
<1> QED  BY <1>2, <1>7

-----------------------------------------------------------------------------
(* The actions between steps.                                              *)

(* Only the clause i is watched otherwise.                                 *)
LEMMA ListsStep ==
  ASSUME Lists, NEW i, AllOnce(watch'),
         \A j : j # i => /\ j \in names' <=> j \in names
                         /\ j \in marked' <=> j \in marked
                         /\ clauses'[j] = clauses[j],
         \A p \in BOOLEAN, x \in Lits :
           /\ \A j : j # i => (j \in Range(watch'[p][x]) <=> j \in Range(watch[p][x]))
           /\ i \in Range(watch'[p][x]) <=> i \in Watchers(p, x)'
  PROVE  Lists'
<1>1. ASSUME NEW p \in BOOLEAN, NEW x \in Lits PROVE Range(watch'[p][x]) = Watchers(p, x)'
  <2>1. Range(watch[p][x]) = Watchers(p, x)  BY DEF Lists
  <2>2. ASSUME NEW j, j # i PROVE j \in Range(watch'[p][x]) <=> j \in Watchers(p, x)'
    <3>1. j \in Watchers(p, x)' <=> j \in Watchers(p, x)
      <4>1. (p = (j \in marked')) <=> (p = (j \in marked))  BY <2>2
      <4> QED  BY <2>2, <4>1 DEF Watchers
    <3> QED  BY <2>1, <2>2, <3>1
  <2>3. \A j : j \in Range(watch'[p][x]) <=> j \in Watchers(p, x)'  BY <2>2
  <2> QED  BY <2>3
<1> QED  BY <1>1 DEF Lists, AllOnce

LEMMA InitInv == Init => IInv
<1> SUFFICES ASSUME Init PROVE IInv  OBVIOUS
<1>1. <<>> \in Seq(Literals) /\ <<>> \in Seq(Ids) /\ <<>> \in Seq(Lits)  OBVIOUS
<1>2. IsInjective(<<>>) /\ Range(<<>>) = {}  BY DEF IsInjective, Range
<1>3. TypedContext  BY <1>1, <1>2 DEF Init, TypedContext, Watches
<1>4. TypedTrail
  <2>1. truStack = <<>> /\ Len(truStack) = 0 /\ firstHyp = 0 /\ firstUnprocessed = 0
    BY DEF Init
  <2>2. reasons \in [Lits -> Ids \union {None}]  BY DEF Init
  <2>3. unitsProcessed \in BOOLEAN  BY DEF Init
  <2> QED  BY <1>1, <1>2, <2>1, <2>2, <2>3 DEF TypedTrail
<1>5. 0 \in Lits  BY Sizes DEF Lits
<1>6. TypedControl
  <2>1. pc \in Places /\ stage \in {"hint", "empty", "root", "goal"}  BY DEF Init, Places
  <2>2. goal = <<>> /\ rest = <<>> /\ hints = <<>> /\ queue = <<>>  BY DEF Init
  <2>3. unprocessed \in [BOOLEAN -> Nat]  BY DEF Init
  <2>4. cur \in [class : BOOLEAN, lit : Lits, at : Nat \ {0}]  BY <1>5 DEF Init
  <2>5. root \in BOOLEAN /\ conflict \in Lits /\ progress \in BOOLEAN  BY <1>5 DEF Init
  <2>6. hints \in Seq(names) /\ queue \in Seq(names)  BY <2>2
  <2> QED  BY <1>1, <1>2, <2>1, <2>2, <2>3, <2>4, <2>5, <2>6 DEF TypedControl
<1>7. Lists
  <2>1. \A m \in BOOLEAN, l \in Lits : watch[m][l] = <<>>  BY DEF Init
  <2>2. \A m \in BOOLEAN, l \in Lits : Watchers(m, l) = {}  BY DEF Init, Watchers
  <2> QED  BY <1>2, <2>1, <2>2 DEF Lists, AllOnce
<1>8. TrailInv  BY DEF Init, TrailInv, Derivation, ConflictLast
<1>9. Stages /\ Consistently  BY DEF Init, Stages, Consistently
<1> QED  BY <1>3, <1>4, <1>6, <1>7, <1>8, <1>9 DEF IInv, Typed

LEMMA InsertInv ==
  ASSUME IInv, NEW i \in Ids, NEW c \in Inputs, NEW m \in BOOLEAN, InsertClause(i, c, m)
  PROVE  IInv'
<1> DEFINE s == Sorted(c)
<1>1. TypedContext /\ TypedTrail /\ TypedControl /\ Lists /\ TrailInv  BY DEF IInv, Typed
<1>2. pc = "idle" /\ i \notin names /\ i \notin marked
  BY <1>1 DEF InsertClause, TypedContext
<1>3. c \in Seq(Literals) /\ IsInjective(c)  BY GoalClauses
<1>4. /\ s \in Seq(Literals) /\ IsInjective(s) /\ Len(s) = Len(c) /\ Range(s) = Range(c)
      /\ \A j, k \in 1..Len(c) : j <= k /\ IsFalse(s[j]) => IsFalse(s[k])
  BY <1>3, SortedFacts
<1>5. /\ names' = names \union {i}
      /\ clauses' = [clauses EXCEPT ![i] = s]
      /\ marked' = IF m THEN marked \union {i} ELSE marked
      /\ watch' = IF Len(s) >= 2 THEN WatchAdd(WatchAdd(watch, m, s[1], i), m, s[2], i)
                  ELSE watch
      /\ IF IsUnit(c) /\ ~Unsat THEN AddUnit(UnitLit(s), i)
         ELSE UNCHANGED <<truStack, reasons, firstHyp>>
      /\ UNCHANGED <<firstUnprocessed, unitsProcessed, pc, control>>
  BY DEF InsertClause
<1> HIDE DEF s
<1>6. clauses'[i] = s /\ \A j : j # i /\ j \in Ids => clauses'[j] = clauses[j]
  BY <1>1, <1>5 DEF TypedContext
<1>7. i \in marked' <=> m  BY <1>2, <1>5
<1>8. \A p \in BOOLEAN, x \in Lits : i \notin Range(watch[p][x])
  BY <1>1, <1>2 DEF Lists, Watchers
<1>9. watch' \in Watches /\ Lists'
  <2>0. \A j : j # i => /\ j \in names' <=> j \in names
                        /\ j \in marked' <=> j \in marked
                        /\ clauses'[j] = clauses[j]
    BY <1>1, <1>5 DEF TypedContext
  <2>1. CASE Len(s) >= 2
    <3>1. /\ s[1] \in Lits /\ s[2] \in Lits /\ s[1] # s[2]
          /\ 1 \in 1..Len(s) /\ 2 \in 1..Len(s)
      BY <1>4, <2>1, InRange DEF Literals
    <3>2. i \notin Range(watch[m][s[1]]) /\ i \notin Range(watch[m][s[2]])  BY <1>8, <3>1
    <3>3. watch \in Watches /\ AllOnce(watch)  BY <1>1 DEF TypedContext, Lists
    <3>4. Joins(WatchAdd(WatchAdd(watch, m, s[1], i), m, s[2], i), watch, m, {s[1], s[2]}, i)
      BY <3>1, <3>2, <3>3, AddTwo
    <3>5. Joins(watch', watch, m, {s[1], s[2]}, i)  BY <1>5, <2>1, <3>4
    <3>6. ASSUME NEW p \in BOOLEAN, NEW x \in Lits
          PROVE  /\ \A j : j # i => (j \in Range(watch'[p][x]) <=> j \in Range(watch[p][x]))
                 /\ i \in Range(watch'[p][x]) <=> i \in Watchers(p, x)'
      <4>1. Range(watch'[p][x]) = IF p = m /\ x \in {s[1], s[2]}
                                  THEN Range(watch[p][x]) \union {i} ELSE Range(watch[p][x])
        BY <3>5 DEF Joins
      <4>2. i \in Watchers(p, x)' <=> p = m /\ x \in {s[1], s[2]}
        BY <1>5, <1>6, <1>7, <2>1 DEF Watchers
      <4> QED  BY <1>8, <4>1, <4>2
    <3> QED  BY <1>1, <2>0, <3>5, <3>6, ListsStep DEF Joins
  <2>2. CASE ~(Len(s) >= 2)
    <3>1. watch' = watch  BY <1>5, <2>2
    <3>2. \A p \in BOOLEAN, x \in Lits : i \notin Watchers(p, x)'
      BY <1>6, <2>2 DEF Watchers
    <3>3. AllOnce(watch')  BY <1>1, <3>1 DEF Lists
    <3>4. Lists'  BY <1>1, <1>8, <2>0, <3>1, <3>2, <3>3, ListsStep
    <3> QED  BY <1>1, <3>1, <3>4 DEF TypedContext
  <2> QED  BY <2>1, <2>2
<1>10. TypedContext'
  <2>1. names' \subseteq Ids /\ marked' \subseteq names'  BY <1>1, <1>5 DEF TypedContext
  <2>2. clauses' \in [Ids -> Seq(Literals)]  BY <1>1, <1>4, <1>5 DEF TypedContext
  <2>3. \A j \in Ids : IsInjective(clauses'[j])  BY <1>1, <1>4, <1>6 DEF TypedContext
  <2> QED  BY <1>9, <2>1, <2>2, <2>3 DEF TypedContext
<1>11. firstHyp = Len(truStack) /\ \A n \in 1..Len(truStack) : reasons[truStack[n]] # None
  <2>1. firstHyp = Len(truStack)  BY <1>2 DEF IInv, Consistently
  <2> QED  BY <1>1, <2>1, Held DEF TrailInv
<1>12. \A k \in 1..Len(truStack) : reasons[truStack[k]] # i
  <2> SUFFICES ASSUME NEW k \in 1..Len(truStack), reasons[truStack[k]] = i PROVE FALSE
    OBVIOUS
  <2>1. Forced(k)  BY <1>1, <1>11 DEF TrailInv, Derivation
  <2> QED  BY <1>2, <2>1 DEF Forced
<1>13. TypedTrail' /\ TrailInv' /\ firstHyp' = Len(truStack')
  <2>1. CASE IsUnit(c) /\ ~Unsat
    <3> DEFINE l == UnitLit(s)
               T == {x \in Range(c) : ~IsFalse(x)}
    <3>1. AddUnit(l, i)  BY <1>5, <2>1
    <3>2. l \in Lits /\ (l = 0 \/ l \in Range(c))
      <4>1. CASE s = <<>>  BY <4>1, Sizes DEF UnitLit, Lits
      <4>2. CASE s # <<>>
        <5>1. 1 \in 1..Len(s) /\ l = s[1]  BY <1>4, <4>2 DEF UnitLit
        <5> QED  BY <1>4, <5>1, InRange DEF Literals
      <4> QED  BY <4>1, <4>2
    <3>3. ~IsTrue(l)  BY <1>1, <2>1, <3>2, ZeroOff DEF IsUnit, TrailInv
    <3>4. \A k \in 2..Len(s) : IsFalse(s[k])
      <4> SUFFICES ASSUME NEW k \in 2..Len(s), ~IsFalse(s[k]) PROVE FALSE  OBVIOUS
      <4>1. Len(s) \in Nat /\ 1 \in 1..Len(s) /\ k \in 1..Len(s) /\ 1 <= k /\ 1 # k  BY <1>4
      <4>2. s[1] # s[k] /\ s[1] \in Range(c) /\ s[k] \in Range(c)  BY <1>4, <4>1, InRange
      <4>3. ~IsFalse(s[1])  BY <1>4, <4>1
      <4>4. s[1] \in T /\ s[k] \in T  BY <4>2, <4>3
      <4>5. T \subseteq Lits  BY <1>3, InRange DEF Literals
      <4>6. IsFiniteSet(T) /\ Cardinality(T) <= 1  BY <2>1, <4>5, FiniteLits DEF IsUnit
      <4> HIDE DEF T
      <4> QED  BY <4>2, <4>4, <4>6, AtMostOne
    <3>5. Assign(l, i) /\ firstHyp' = firstHyp + 1  BY <3>1, <3>3 DEF AddUnit
    <3>6. l = UnitLit(clauses'[i]) /\ \A k \in 2..Len(clauses'[i]) : IsFalse(clauses'[i][k])
      BY <1>6, <3>4
    <3>7. /\ i \in names' /\ names \subseteq names'
          /\ \A j \in names : j # i => clauses'[j] = clauses[j]
      BY <1>1, <1>5, <1>6 DEF TypedContext
    <3> HIDE DEF l
    <3>8. /\ TrailInv' /\ Len(truStack') = Len(truStack) + 1
          /\ truStack' \in Seq(Lits) /\ IsInjective(truStack')
          /\ reasons' \in [Lits -> Ids \union {None}]
      BY <1>1, <1>11, <1>12, <2>1, <3>2, <3>3, <3>5, <3>6, <3>7, ImpliedTrail
    <3>9. TypedTrail'  BY <1>1, <1>5, <1>11, <3>5, <3>8 DEF TypedTrail
    <3> QED  BY <1>11, <3>5, <3>8, <3>9
  <2>2. CASE ~(IsUnit(c) /\ ~Unsat)
    <3>1. UNCHANGED <<truStack, reasons, firstHyp, firstUnprocessed, unitsProcessed, goal>>
      BY <1>5, <2>2 DEF control
    <3>2. TypedTrail'  BY <1>1, <3>1 DEF TypedTrail
    <3>3. TrailInv'
      <4>1. \A k \in 1..Len(truStack) : reasons[truStack[k]] \in names' /\
              clauses'[reasons[truStack[k]]] = clauses[reasons[truStack[k]]]
        <5> TAKE k \in 1..Len(truStack)
        <5>1. Forced(k)  BY <1>1, <1>11 DEF TrailInv, Derivation
        <5>2. reasons[truStack[k]] \in names  BY <5>1 DEF Forced
        <5>3. reasons[truStack[k]] # i  BY <1>12
        <5> QED  BY <1>1, <1>5, <1>6, <5>2, <5>3 DEF TypedContext
      <4>2. KeepsTo(Len(truStack))  BY <1>1, <1>11, <3>1, <4>1 DEF KeepsTo, TypedTrail
      <4> QED  BY <1>1, <3>1, <4>2, TrailStep
    <3> QED  BY <1>11, <3>1, <3>2, <3>3
  <2> QED  BY <2>1, <2>2
<1>14. TypedControl' /\ Stages' /\ Consistently'
  <2>0. Stages /\ Consistently  BY DEF IInv
  <2>1. UNCHANGED <<pc, stage, goal, rest, unprocessed, cur, root, conflict, hints, queue, progress>>
    BY <1>5 DEF control
  <2>2. hints = <<>> /\ queue = <<>>  BY <1>2 DEF IInv, Stages
  <2>3. TypedControl'  BY <1>1, <2>1, <2>2 DEF TypedControl
  <2>4. Stages'  BY <2>0, <2>1 DEF Stages, Hinted
  <2>5. Consistently'  BY <1>2, <1>13, <2>1 DEF Consistently
  <2> QED  BY <2>3, <2>4, <2>5
<1> QED  BY <1>9, <1>10, <1>13, <1>14 DEF IInv, Typed

LEMMA RemoveInv ==
  ASSUME IInv, NEW i \in Ids, RemoveClause(i)
  PROVE  IInv'
<1> DEFINE c == clauses[i]
           m == i \in marked
           l == UnitLit(c)
<1>1. TypedContext /\ TypedTrail /\ TypedControl /\ Lists /\ TrailInv  BY DEF IInv, Typed
<1>2. pc = "idle" /\ i \in names  BY DEF RemoveClause
<1>3. c \in Seq(Literals) /\ IsInjective(c) /\ m \in BOOLEAN  BY <1>1 DEF TypedContext
<1>4. /\ watch' = IF Len(c) >= 2 THEN WatchDel(WatchDel(watch, m, c[1], i), m, c[2], i)
                  ELSE watch
      /\ IF Len(c) <= 1 \/ reasons[c[1]] = i THEN Unassign(l) ELSE UNCHANGED va
      /\ names' = names \ {i}
      /\ marked' = marked \ {i}
      /\ clauses' = [clauses EXCEPT ![i] = <<>>]
      /\ UNCHANGED <<pc, control>>
  BY DEF RemoveClause
<1>5. \A j : j # i => /\ j \in names' <=> j \in names
                      /\ j \in marked' <=> j \in marked
                      /\ clauses'[j] = clauses[j]
  BY <1>1, <1>4 DEF TypedContext
<1>6. watch' \in Watches /\ Lists'
  <2>1. CASE Len(c) >= 2
    <3>1. c[1] \in Lits /\ c[2] \in Lits /\ c[1] # c[2]
      <4>1. 1 \in 1..Len(c) /\ 2 \in 1..Len(c)  BY <1>3, <2>1
      <4> HIDE DEF c
      <4> QED  BY <1>3, <4>1, InRange DEF Literals
    <3>2. i \in Range(watch[m][c[1]]) /\ i \in Range(watch[m][c[2]])
      <4>1. \A p \in BOOLEAN, x \in Lits :
              i \in Range(watch[p][x]) <=> p = m /\ x \in {c[1], c[2]}
        BY <1>1, <1>2, <2>1 DEF Lists, Watchers
      <4> HIDE DEF c, m
      <4> QED  BY <1>3, <3>1, <4>1
    <3>3. watch \in Watches /\ AllOnce(watch)  BY <1>1 DEF TypedContext, Lists
    <3>4. watch' = WatchDel(WatchDel(watch, m, c[1], i), m, c[2], i)  BY <1>4, <2>1
    <3> HIDE DEF c, m
    <3>5. Leaves(WatchDel(WatchDel(watch, m, c[1], i), m, c[2], i), watch, m, {c[1], c[2]}, i)
      BY <1>3, <3>1, <3>2, <3>3, DelTwo
    <3>6. Leaves(watch', watch, m, {c[1], c[2]}, i)  BY <3>4, <3>5
    <3>7. ASSUME NEW p \in BOOLEAN, NEW x \in Lits
          PROVE  /\ \A j : j # i => (j \in Range(watch'[p][x]) <=> j \in Range(watch[p][x]))
                 /\ i \in Range(watch'[p][x]) <=> i \in Watchers(p, x)'
      <4>1. IF p = m /\ x \in {c[1], c[2]} THEN Range(watch'[p][x]) = Range(watch[p][x]) \ {i}
            ELSE watch'[p][x] = watch[p][x]
        BY <3>6 DEF Leaves
      <4>2. i \in Range(watch[p][x]) <=> p = m /\ x \in {c[1], c[2]}
        BY <1>1, <1>2, <2>1 DEF Lists, Watchers, c, m
      <4>3. i \notin Watchers(p, x)'  BY <1>4 DEF Watchers
      <4> QED  BY <4>1, <4>2, <4>3
    <3> QED  BY <1>1, <1>5, <3>6, <3>7, ListsStep DEF Leaves
  <2>2. CASE ~(Len(c) >= 2)
    <3>1. watch' = watch  BY <1>4, <2>2
    <3>2. \A p \in BOOLEAN, x \in Lits : i \notin Watchers(p, x)'  BY <1>4 DEF Watchers
    <3>3. \A p \in BOOLEAN, x \in Lits : i \notin Range(watch[p][x])
      BY <1>1, <2>2 DEF Lists, Watchers
    <3>4. AllOnce(watch')  BY <1>1, <3>1 DEF Lists
    <3>5. Lists'  BY <1>1, <1>5, <3>1, <3>2, <3>3, <3>4, ListsStep
    <3> QED  BY <1>1, <3>1, <3>5 DEF TypedContext
  <2> QED  BY <2>1, <2>2
<1>7. TypedContext'
  <2>1. names' \subseteq Ids /\ marked' \subseteq names'  BY <1>1, <1>4 DEF TypedContext
  <2>2. clauses' \in [Ids -> Seq(Literals)]  BY <1>1, <1>4 DEF TypedContext
  <2>3. IsInjective(<<>>)  BY DEF IsInjective
  <2>4. \A j \in Ids : IsInjective(clauses'[j])  BY <1>1, <1>4, <2>3 DEF TypedContext
  <2> QED  BY <1>6, <2>1, <2>2, <2>4 DEF TypedContext
<1>8. firstHyp = Len(truStack) /\ \A n \in 1..Len(truStack) : reasons[truStack[n]] # None /\ Forced(n)
  <2>1. firstHyp = Len(truStack)  BY <1>2 DEF IInv, Consistently
  <2> QED  BY <1>1, <2>1, Held DEF TrailInv
<1>9. UNCHANGED <<pc, stage, goal, rest, unprocessed, cur, root, conflict, hints, queue, progress>>
  BY <1>4 DEF control
<1>10. TypedTrail' /\ TrailInv' /\ firstHyp' = Len(truStack')
  <2>1. CASE UNCHANGED va /\ \A k \in 1..Len(truStack) : reasons[truStack[k]] # i
    <3>1. \A k \in 1..Len(truStack) : reasons[truStack[k]] \in names' /\
            clauses'[reasons[truStack[k]]] = clauses[reasons[truStack[k]]]
      BY <1>5, <1>8, <2>1 DEF Forced
    <3>2. UNCHANGED <<truStack, reasons, firstHyp, firstUnprocessed, unitsProcessed>>
      BY <2>1 DEF va
    <3>3. KeepsTo(Len(truStack))  BY <1>1, <1>8, <3>1, <3>2 DEF KeepsTo, TypedTrail
    <3>4. TrailInv'  BY <1>1, <3>2, <3>3, TrailStep
    <3>5. TypedTrail'  BY <1>1, <3>2 DEF TypedTrail
    <3> QED  BY <1>8, <3>2, <3>4, <3>5
  <2>2. CASE Unassign(l) /\ IsTrue(l)
    <3> DEFINE at == CHOOSE k \in DOMAIN truStack : truStack[k] = l
               n == at - 1
    <3>1. /\ truStack' = SubSeq(truStack, 1, n)
          /\ reasons' = [x \in Lits |-> IF \E k \in n+1..Len(truStack) : truStack[k] = x
                                        THEN None ELSE reasons[x]]
          /\ firstHyp' = n
          /\ firstUnprocessed' = 0
          /\ unitsProcessed' = FALSE
      BY <2>2 DEF Unassign
    <3>2. truStack \in Seq(Lits) /\ IsInjective(truStack) /\ Len(truStack) \in Nat
      BY <1>1 DEF TypedTrail
    <3>3. \E k \in DOMAIN truStack : truStack[k] = l  BY <2>2, <3>2, OnTrail
    <3>4. at \in DOMAIN truStack /\ truStack[at] = l  BY <3>3
    <3> HIDE DEF at
    <3>5. n \in 0..firstHyp /\ at = n + 1 /\ n \in Nat  BY <1>8, <3>2, <3>4
    <3> HIDE DEF n
    <3>6. CutTo(n)  BY <3>1 DEF CutTo
    <3>7. ASSUME NEW k \in 1..n
          PROVE  reasons[truStack[k]] \in names' /\
                 clauses'[reasons[truStack[k]]] = clauses[reasons[truStack[k]]]
      <4>1. k \in 1..Len(truStack) /\ k # at  BY <1>8, <3>2, <3>5
      <4>2. Forced(k)  BY <1>8, <4>1
      <4>3. truStack[k] # l  BY <3>2, <3>4, <4>1, InRange
      <4>4. reasons[truStack[k]] # i  BY <4>2, <4>3 DEF Forced
      <4> QED  BY <1>5, <4>2, <4>4 DEF Forced
    <3>8. /\ TrailInv' /\ Len(truStack') = n
          /\ truStack' \in Seq(Lits) /\ IsInjective(truStack')
          /\ reasons' \in [Lits -> Ids \union {None}]
      BY <1>1, <3>5, <3>6, <3>7, CutTrail
    <3>9. TypedTrail'
      <4>1. firstHyp' = n /\ firstUnprocessed' = 0 /\ unitsProcessed' = FALSE  BY <3>1
      <4>2. n \in 0..n /\ 0 \in 0..n  BY <3>5
      <4> QED  BY <3>8, <4>1, <4>2 DEF TypedTrail
    <3> QED  BY <3>1, <3>8, <3>9
  <2>3. CASE Unassign(l) /\ ~IsTrue(l)
    <3>1. UNCHANGED va  BY <2>3 DEF Unassign
    <3>2. \A k \in 1..Len(truStack) : reasons[truStack[k]] # i
      BY <1>1, <2>3, NoReason DEF TrailInv
    <3> QED  BY <2>1, <3>1, <3>2
  <2>4. CASE ~(Len(c) <= 1 \/ reasons[c[1]] = i)
    <3>1. UNCHANGED va  BY <1>4, <2>4
    <3>2. \A k \in 1..Len(truStack) : reasons[truStack[k]] # i
      <4> SUFFICES ASSUME NEW k \in 1..Len(truStack), reasons[truStack[k]] = i PROVE FALSE
        OBVIOUS
      <4>1. truStack[k] = UnitLit(c)  BY <1>8 DEF Forced
      <4>2. c # <<>>  BY <2>4
      <4> QED  BY <2>4, <4>1, <4>2 DEF UnitLit
    <3> QED  BY <2>1, <3>1, <3>2
  <2> QED  BY <1>4, <2>2, <2>3, <2>4
<1>11. TypedControl' /\ Stages' /\ Consistently'
  <2>0. Stages /\ Consistently  BY DEF IInv
  <2>2. hints = <<>> /\ queue = <<>>  BY <1>2 DEF IInv, Stages
  <2>3. TypedControl'  BY <1>1, <1>9, <2>2 DEF TypedControl
  <2>4. Stages'  BY <2>0, <1>9 DEF Stages, Hinted
  <2>5. Consistently'  BY <1>2, <1>9, <1>10 DEF Consistently
  <2> QED  BY <2>3, <2>4, <2>5
<1> QED  BY <1>6, <1>7, <1>10, <1>11 DEF IInv, Typed

LEMMA MarkInv ==
  ASSUME IInv, NEW i \in Ids, MarkClause(i)
  PROVE  IInv'
<1> DEFINE c == clauses[i]
<1>1. TypedContext /\ TypedTrail /\ TypedControl /\ Lists /\ TrailInv  BY DEF IInv, Typed
<1>2. /\ pc = "idle" /\ i \in names /\ i \notin marked
      /\ marked' = marked \union {i}
      /\ watch' = IF Len(c) < 2 THEN watch
                  ELSE WatchAdd(WatchAdd(WatchDel(WatchDel(watch, FALSE, c[1], i),
                                                  FALSE, c[2], i), TRUE, c[1], i), TRUE, c[2], i)
      /\ UNCHANGED <<names, clauses, va, pc, control>>
  BY DEF MarkClause
<1>3. c \in Seq(Literals) /\ IsInjective(c)  BY <1>1 DEF TypedContext
<1>4. \A j : j # i => /\ j \in names' <=> j \in names
                      /\ j \in marked' <=> j \in marked
                      /\ clauses'[j] = clauses[j]
  BY <1>2
<1>5. watch' \in Watches /\ Lists'
  <2>1. CASE Len(c) >= 2
    <3>1. c[1] \in Lits /\ c[2] \in Lits /\ c[1] # c[2]
      <4>1. 1 \in 1..Len(c) /\ 2 \in 1..Len(c)  BY <1>3, <2>1
      <4> HIDE DEF c
      <4> QED  BY <1>3, <4>1, InRange DEF Literals
    <3>2. \A p \in BOOLEAN, x \in Lits :
            i \in Range(watch[p][x]) <=> p = FALSE /\ x \in {c[1], c[2]}
      BY <1>1, <1>2, <2>1 DEF Lists, Watchers
    <3>3. watch \in Watches /\ AllOnce(watch)  BY <1>1 DEF TypedContext, Lists
    <3> DEFINE w == WatchDel(WatchDel(watch, FALSE, c[1], i), FALSE, c[2], i)
    <3>4. watch' = WatchAdd(WatchAdd(w, TRUE, c[1], i), TRUE, c[2], i)
      <4>1. ~(Len(c) < 2)  BY <1>3, <2>1
      <4> QED  BY <1>2, <4>1
    <3> HIDE DEF c
    <3>5. Leaves(w, watch, FALSE, {c[1], c[2]}, i)
      <4>1. i \in Range(watch[FALSE][c[1]]) /\ i \in Range(watch[FALSE][c[2]])  BY <3>1, <3>2
      <4> QED  BY <3>1, <3>3, <4>1, DelTwo
    <3> HIDE DEF w
    <3>6. Joins(watch', w, TRUE, {c[1], c[2]}, i)
      <4>1. w \in Watches /\ AllOnce(w)  BY <3>5 DEF Leaves
      <4>2. i \notin Range(w[TRUE][c[1]]) /\ i \notin Range(w[TRUE][c[2]])
        BY <3>1, <3>2, <3>5 DEF Leaves
      <4>3. Joins(WatchAdd(WatchAdd(w, TRUE, c[1], i), TRUE, c[2], i), w, TRUE, {c[1], c[2]}, i)
        BY <3>1, <4>1, <4>2, AddTwo
      <4> QED  BY <3>4, <4>3
    <3>7. ASSUME NEW p \in BOOLEAN, NEW x \in Lits
          PROVE  /\ \A j : j # i => (j \in Range(watch'[p][x]) <=> j \in Range(watch[p][x]))
                 /\ i \in Range(watch'[p][x]) <=> i \in Watchers(p, x)'
      <4>1. IF p = FALSE /\ x \in {c[1], c[2]} THEN Range(w[p][x]) = Range(watch[p][x]) \ {i}
            ELSE w[p][x] = watch[p][x]
        BY <3>5 DEF Leaves
      <4>2. IF p = TRUE /\ x \in {c[1], c[2]} THEN Range(watch'[p][x]) = Range(w[p][x]) \union {i}
            ELSE watch'[p][x] = w[p][x]
        BY <3>6 DEF Joins
      <4>3. i \in Watchers(p, x)' <=> p = TRUE /\ x \in {c[1], c[2]}
        BY <1>2, <2>1 DEF Watchers, c
      <4>4. CASE p = TRUE  BY <3>2, <4>1, <4>2, <4>3, <4>4
      <4>5. CASE p = FALSE  BY <3>2, <4>1, <4>2, <4>3, <4>5
      <4> QED  BY <4>4, <4>5
    <3> QED  BY <1>1, <1>4, <3>6, <3>7, ListsStep DEF Joins
  <2>2. CASE ~(Len(c) >= 2)
    <3>0. Len(c) < 2  BY <1>3, <2>2
    <3>1. watch' = watch  BY <1>2, <3>0
    <3>2. \A p \in BOOLEAN, x \in Lits : i \notin Watchers(p, x)'  BY <1>2, <2>2 DEF Watchers
    <3>3. \A p \in BOOLEAN, x \in Lits : i \notin Range(watch[p][x])
      BY <1>1, <2>2 DEF Lists, Watchers
    <3>4. AllOnce(watch')  BY <1>1, <3>1 DEF Lists
    <3>5. Lists'  BY <1>1, <1>4, <3>1, <3>2, <3>3, <3>4, ListsStep
    <3> QED  BY <1>1, <3>1, <3>5 DEF TypedContext
  <2> QED  BY <2>1, <2>2
<1>6. UNCHANGED <<pc, stage, goal, rest, unprocessed, cur, root, conflict, hints, queue, progress,
                  truStack, reasons, firstHyp, firstUnprocessed, unitsProcessed>>
  BY <1>2 DEF control, va
<1>7. TypedContext'  BY <1>1, <1>2, <1>5 DEF TypedContext
<1>8. TypedTrail'  BY <1>1, <1>6 DEF TypedTrail
<1>9. TypedControl'  BY <1>1, <1>2, <1>6 DEF TypedControl
<1>10. TrailInv'  BY <1>1, <1>2, <1>6, SameTrail
<1>11. Stages'  BY <1>6 DEF IInv, Stages, Hinted
<1>12. Consistently'
  BY <1>2, <1>6 DEF IInv, Consistently
<1> QED  BY <1>5, <1>7, <1>8, <1>9, <1>10, <1>11, <1>12 DEF IInv, Typed

LEMMA StepInv ==
  ASSUME IInv, NEW c \in Seq(Literals), NEW h \in Seq(names), NEW given \in BOOLEAN,
         Step(c, h, given)
  PROVE  IInv'
<1>1. TypedContext /\ TypedTrail /\ TypedControl /\ Lists /\ TrailInv  BY DEF IInv, Typed
<1>2. /\ pc = "idle" /\ goal' = c
      /\ hints' = h /\ queue' = <<>> /\ progress' = FALSE
      /\ pc' = IF given THEN "hint" ELSE "propagate"
      /\ stage' = IF h = <<>> THEN "empty" ELSE "hint"
      /\ UNCHANGED <<names, clauses, marked, watch>>
      /\ UNCHANGED <<truStack, reasons, firstHyp, firstUnprocessed, unitsProcessed>>
      /\ UNCHANGED <<rest, unprocessed, cur, root, conflict>>
  BY DEF Step, context, va
<1>3. TypedContext' /\ TypedTrail' /\ Lists'
  BY <1>1, <1>2 DEF TypedContext, TypedTrail, Lists, Watchers
<1>4. TypedControl'
  <2>1. c \in Seq(Literals)  OBVIOUS
  <2>2. rest = <<>>  BY <1>2 DEF IInv, Stages
  <2>3. Range(rest') \subseteq Range(goal')  BY <1>2, <2>2 DEF Range
  <2>4. pc' \in Places /\ stage' \in {"hint", "empty", "root", "goal"}  BY <1>2 DEF Places
  <2>a. names' = names /\ hints' = h /\ queue' = <<>> /\ progress' = FALSE  BY <1>2
  <2>b. <<>> \in Seq(names)  OBVIOUS
  <2>5. hints' \in Seq(names') /\ queue' \in Seq(names') /\ progress' \in BOOLEAN
    BY <2>a, <2>b
  <2> QED  BY <1>1, <1>2, <2>1, <2>3, <2>4, <2>5 DEF TypedControl
<1>5. firstHyp = Len(truStack)  BY <1>2 DEF IInv, Consistently
<1>6. \A n \in 1..Len(truStack) : reasons[truStack[n]] # None  BY <1>1, <1>5, Held DEF TrailInv
<1>7. TrailInv'  BY <1>1, <1>2, <1>6, SameTrail
<1>8. Stages'  BY <1>2 DEF Stages, Hinted
<1>9. Consistently'  BY <1>2, <1>5 DEF Consistently
<1> QED  BY <1>3, <1>4, <1>7, <1>8, <1>9 DEF IInv, Typed

-----------------------------------------------------------------------------
(* Lemmas for the actions of a step.                                       *)

LEMMA Frame ==
  ASSUME IInv, UNCHANGED context
  PROVE  /\ TypedContext' /\ Lists'
         /\ UNCHANGED <<va, goal>> => TypedTrail' /\ TrailInv'
<1>1. TypedContext /\ TypedTrail /\ Lists /\ TrailInv  BY DEF IInv, Typed
<1>2. UNCHANGED <<names, clauses, marked, watch>>  BY DEF context
<1>3. TypedContext'  BY <1>1, <1>2 DEF TypedContext
<1>4. Lists'  BY <1>1, <1>2 DEF Lists, Watchers
<1>5. ASSUME UNCHANGED <<va, goal>> PROVE TypedTrail' /\ TrailInv'
  <2>1. UNCHANGED <<truStack, reasons, firstHyp, firstUnprocessed, unitsProcessed, goal>>
    BY <1>5 DEF va
  <2>2. TypedTrail'  BY <1>1, <2>1 DEF TypedTrail
  <2>3. TrailInv'  BY <1>1, <1>2, <2>1, SameTrail
  <2> QED  BY <2>2, <2>3
<1> QED  BY <1>3, <1>4, <1>5

LEMMA UnsatConflict ==
  ASSUME TypedTrail, Unsat
  PROVE  /\ truStack[Len(truStack)] \in Lits
         /\ IsTrue(truStack[Len(truStack)]) /\ IsFalse(truStack[Len(truStack)])
<1>1. truStack \in Seq(Lits) /\ Len(truStack) \in Nat  BY DEF TypedTrail
<1>2. Len(truStack) \in 1..Len(truStack) /\
      \E m \in 1..Len(truStack) : truStack[m] = -truStack[Len(truStack)]
  BY <1>1 DEF Unsat, UnsatAt
<1> QED  BY <1>1, <1>2, OnTrail

(* A literal that contradicts none leaves the trail consistent.             *)
LEMMA NoNewConflict ==
  ASSUME TypedTrail, truStack' \in Seq(Lits), Len(truStack') = Len(truStack) + 1,
         \A k \in 1..Len(truStack) : truStack'[k] = truStack[k],
         NEW l \in Lits, truStack'[Len(truStack) + 1] = l, ~IsFalse(l), l # 0
  PROVE  ~Unsat'
<1>1. Len(truStack) \in Nat /\ truStack \in Seq(Lits)  BY DEF TypedTrail
<1> SUFFICES ASSUME Unsat' PROVE FALSE  OBVIOUS
<1>2. PICK m \in 1..Len(truStack)+1 : truStack'[m] = -l  BY DEF Unsat, UnsatAt
<1>3. m # Len(truStack) + 1  BY <1>2, Negation
<1>4. m \in 1..Len(truStack)  BY <1>1, <1>3
<1> QED  BY <1>1, <1>2, <1>4, OnTrail

LEMMA NoConflictAt ==
  ASSUME TypedTrail, ConflictLast, ~Unsat
  PROVE  \A n \in 0..Len(truStack) : ~UnsatAt(n)
<1>1. Len(truStack) \in Nat  BY DEF TypedTrail
<1>2. ASSUME NEW n \in 0..Len(truStack) PROVE ~UnsatAt(n)
  <2>1. n = 0 \/ n \in 1..Len(truStack)-1 \/ n = Len(truStack)  BY <1>1
  <2>2. ~UnsatAt(0)  BY DEF UnsatAt
  <2> QED  BY <2>1, <2>2 DEF ConflictLast, Unsat
<1> QED  BY <1>2

(* The literals of clause i in another order.                              *)
LEMMA Rearranged ==
  ASSUME TypedContext, NEW i \in names, NEW t \in Seq(Literals), IsInjective(t),
         UNCHANGED <<names, marked>>, clauses' = [clauses EXCEPT ![i] = t], watch' \in Watches
  PROVE  /\ TypedContext' /\ clauses'[i] = t
         /\ \A j : j # i => /\ j \in names' <=> j \in names
                            /\ j \in marked' <=> j \in marked
                            /\ clauses'[j] = clauses[j]
<1>1. clauses' \in [Ids -> Seq(Literals)] /\ clauses'[i] = t  BY DEF TypedContext
<1>2. \A j : j # i => clauses'[j] = clauses[j]  BY DEF TypedContext
<1>3. \A j \in Ids : IsInjective(clauses'[j])  BY <1>1, <1>2 DEF TypedContext
<1>4. names' \subseteq Ids /\ marked' \subseteq names'  BY DEF TypedContext
<1>5. TypedContext'  BY <1>1, <1>3, <1>4 DEF TypedContext
<1> QED  BY <1>1, <1>2, <1>5

LEMMA SameWatched ==
  ASSUME TypedContext, Lists, NEW i \in names, NEW t \in Seq(Literals), IsInjective(t),
         Len(t) = Len(clauses[i]),
         Len(t) >= 2 => {t[1], t[2]} = {clauses[i][1], clauses[i][2]},
         UNCHANGED <<names, marked, watch>>, clauses' = [clauses EXCEPT ![i] = t]
  PROVE  TypedContext' /\ Lists'
<1>0. watch' \in Watches  BY DEF TypedContext
<1>1. /\ TypedContext' /\ clauses'[i] = t
      /\ \A j : j # i => /\ j \in names' <=> j \in names
                         /\ j \in marked' <=> j \in marked
                         /\ clauses'[j] = clauses[j]
  BY <1>0, Rearranged
<1>2. AllOnce(watch')  BY DEF Lists
<1>3. ASSUME NEW p \in BOOLEAN, NEW x \in Lits
      PROVE  /\ \A j : j # i => (j \in Range(watch'[p][x]) <=> j \in Range(watch[p][x]))
             /\ i \in Range(watch'[p][x]) <=> i \in Watchers(p, x)'
  <2>1. Range(watch[p][x]) = Watchers(p, x)  BY DEF Lists
  <2>2. i \in Watchers(p, x)' <=> i \in Watchers(p, x)
    <3>1. CASE Len(t) >= 2
      <4>1. x \in {t[1], t[2]} <=> x \in {clauses[i][1], clauses[i][2]}  BY <3>1
      <4> QED  BY <1>1, <3>1, <4>1 DEF Watchers
    <3>2. CASE ~(Len(t) >= 2)  BY <1>1, <3>2 DEF Watchers
    <3> QED  BY <3>1, <3>2
  <2> QED  BY <2>1, <2>2
<1>4. Lists'  BY <1>1, <1>2, <1>3, ListsStep
<1> QED  BY <1>1, <1>4

LEMMA OtherWatched ==
  ASSUME TypedContext, Lists, NEW i \in names, NEW t \in Seq(Literals), IsInjective(t),
         Len(t) = Len(clauses[i]), Len(t) >= 2,
         NEW a \in Lits, NEW b \in Lits, NEW e \in Lits, a # b, a # e, b # e,
         {clauses[i][1], clauses[i][2]} = {a, e}, {t[1], t[2]} = {b, e},
         UNCHANGED <<names, marked>>, clauses' = [clauses EXCEPT ![i] = t],
         watch' = WatchAdd(WatchDel(watch, i \in marked, a, i), i \in marked, b, i)
  PROVE  TypedContext' /\ Lists' /\ Moves(watch', watch, i \in marked, a, b, i)
<1> DEFINE m == i \in marked
<1>1. m \in BOOLEAN /\ i \in Ids /\ watch \in Watches /\ AllOnce(watch)
  BY DEF TypedContext, Lists
<1>2. \A p \in BOOLEAN, x \in Lits : i \in Range(watch[p][x]) <=> p = m /\ x \in {a, e}
  <2> TAKE p \in BOOLEAN, x \in Lits
  <2>1. Range(watch[p][x]) = Watchers(p, x)  BY DEF Lists
  <2>2. x \in {clauses[i][1], clauses[i][2]} <=> x \in {a, e}  OBVIOUS
  <2> QED  BY <2>1, <2>2 DEF Watchers
<1>3. watch' = WatchAdd(WatchDel(watch, m, a, i), m, b, i)  OBVIOUS
<1> HIDE DEF m
<1>4. i \in Range(watch[m][a]) /\ i \notin Range(watch[m][b])  BY <1>1, <1>2
<1>5. Moves(WatchAdd(WatchDel(watch, m, a, i), m, b, i), watch, m, a, b, i)
  BY <1>1, <1>4, MoveWatch
<1>6. Moves(watch', watch, m, a, b, i)  BY <1>3, <1>5
<1>7. watch' \in Watches /\ AllOnce(watch')  BY <1>6 DEF Moves
<1>8. /\ TypedContext' /\ clauses'[i] = t
      /\ \A j : j # i => /\ j \in names' <=> j \in names
                         /\ j \in marked' <=> j \in marked
                         /\ clauses'[j] = clauses[j]
  BY <1>7, Rearranged
<1>9. ASSUME NEW p \in BOOLEAN, NEW x \in Lits
      PROVE  /\ \A j : j # i => (j \in Range(watch'[p][x]) <=> j \in Range(watch[p][x]))
             /\ i \in Range(watch'[p][x]) <=> i \in Watchers(p, x)'
  <2>1. IF p = m /\ x = a THEN Range(watch'[p][x]) = Range(watch[p][x]) \ {i}
        ELSE IF p = m /\ x = b THEN Range(watch'[p][x]) = Range(watch[p][x]) \union {i}
        ELSE watch'[p][x] = watch[p][x]
    BY <1>6 DEF Moves
  <2>2. x \in {t[1], t[2]} <=> x \in {b, e}  OBVIOUS
  <2>3. i \in Watchers(p, x)' <=> p = m /\ x \in {b, e}
    BY <1>8, <2>2 DEF Watchers, m
  <2>4. i \in Range(watch[p][x]) <=> p = m /\ x \in {a, e}  BY <1>2
  <2> QED  BY <2>1, <2>3, <2>4
<1>10. Lists'  BY <1>7, <1>8, <1>9, ListsStep
<1> QED  BY <1>6, <1>8, <1>10 DEF m

(* One more hypothesis on the trail.                                       *)
LEMMA AssumedTrail ==
  ASSUME TypedTrail, TrailInv, ~Unsat, NEW l \in Lits, ~IsTrue(l), Assign(l, None),
         l \in Negated(goal), UNCHANGED <<goal, firstHyp, names, clauses>>
  PROVE  /\ TrailInv' /\ Len(truStack') = Len(truStack) + 1
         /\ truStack' \in Seq(Lits) /\ IsInjective(truStack')
         /\ reasons' \in [Lits -> Ids \union {None}]
         /\ \A k \in 1..Len(truStack) :
              truStack'[k] = truStack[k] /\ reasons'[truStack[k]] = reasons[truStack[k]]
         /\ truStack'[Len(truStack) + 1] = l
<1> DEFINE N == Len(truStack)
<1>1. N \in Nat /\ N \in 0..N /\ truStack \in Seq(Lits) /\ firstHyp \in 0..N
  BY DEF TypedTrail
<1>2. /\ truStack' \in Seq(Lits) /\ IsInjective(truStack')
      /\ reasons' \in [Lits -> Ids \union {None}]
      /\ \A k \in 1..N :
           truStack'[k] = truStack[k] /\ reasons'[truStack[k]] = reasons[truStack[k]]
      /\ Len(truStack') = N + 1
      /\ truStack'[N + 1] = l /\ reasons'[l] = None
  BY Assigned
<1>3. ASSUME NEW k \in 1..N
      PROVE  IF reasons[truStack[k]] = None THEN k > firstHyp' /\ truStack[k] \in Negated(goal')
             ELSE /\ reasons[truStack[k]] \in names'
                  /\ clauses'[reasons[truStack[k]]] = clauses[reasons[truStack[k]]]
  <2>1. IF reasons[truStack[k]] = None THEN Hypothesis(k) ELSE Forced(k)
    BY DEF TrailInv, Derivation
  <2>2. reasons[truStack[k]] # None => reasons[truStack[k]] \in names  BY <2>1 DEF Forced
  <2> QED  BY <2>1, <2>2 DEF Hypothesis, Negated
<1>4. KeepsTo(N)  BY <1>1, <1>2, <1>3 DEF KeepsTo
<1>5. N + 1 > firstHyp' /\ l \in Negated(goal')  BY <1>1 DEF Negated
<1>6. Adds(N)  BY <1>2, <1>5 DEF Adds, Unsat
<1>7. TrailInv'  BY <1>4, <1>6, TrailStep
<1> QED  BY <1>2, <1>7

-----------------------------------------------------------------------------
(* The actions of a step.                                                  *)

LEMMA StartHintInv == ASSUME IInv, StartHint PROVE IInv'
<1>1. TypedContext /\ TypedTrail /\ TypedControl /\ Lists /\ TrailInv  BY DEF IInv, Typed
<1>2. pc = "hint" /\ UNCHANGED <<context, va>>  BY DEF StartHint
<1>3. UNCHANGED <<names, clauses, marked, watch, truStack, reasons, firstHyp,
                  firstUnprocessed, unitsProcessed>>
  BY <1>2 DEF context, va
<1>4. firstHyp = Len(truStack) /\ Hinted  BY <1>2 DEF IInv, Consistently, Stages
<1>5. CASE Unsat /\ Found(truStack[Len(truStack)])
  <2>1. /\ pc' = "found" /\ conflict' = truStack[Len(truStack)]
        /\ UNCHANGED <<stage, goal, rest, unprocessed, cur, root, hints, queue, progress>>
    BY <1>5 DEF Found
  <2>2. /\ truStack[Len(truStack)] \in Lits
        /\ IsTrue(truStack[Len(truStack)]) /\ IsFalse(truStack[Len(truStack)])
    BY <1>1, <1>5, UnsatConflict
  <2>3. TypedContext' /\ Lists' /\ TypedTrail' /\ TrailInv'  BY <1>2, <2>1, Frame
  <2>4. TypedControl'  BY <1>1, <1>3, <2>1, <2>2 DEF TypedControl, Places
  <2>5. Stages' /\ Consistently'
    BY <1>3, <2>1, <2>2 DEF Stages, Consistently, IsTrue, IsFalse
  <2> QED  BY <2>3, <2>4, <2>5 DEF IInv, Typed
<1>6. CASE /\ ~Unsat
           /\ rest' = goal
           /\ pc' = IF unitsProcessed THEN "assume" ELSE "units"
           /\ UNCHANGED <<stage, goal, unprocessed, cur, root, conflict, hints, queue, progress>>
  <2>3. TypedContext' /\ Lists' /\ TypedTrail' /\ TrailInv'  BY <1>2, <1>6, Frame
  <2>4. TypedControl'  BY <1>1, <1>3, <1>6 DEF TypedControl, Places
  <2>5. Stages'  BY <1>4, <1>6 DEF Stages, Hinted
  <2>6. Consistently'  BY <1>3, <1>4, <1>6 DEF Consistently, Unsat, UnsatAt
  <2> QED  BY <2>3, <2>4, <2>5, <2>6 DEF IInv, Typed
<1> QED  BY <1>5, <1>6 DEF StartHint

(* The end of a step, whatever became of it.                               *)
LEMMA EndInv ==
  ASSUME IInv, EndStep, ClearTo(firstHyp), UNCHANGED <<context, firstHyp, unitsProcessed>>
  PROVE  IInv'
<1>1. TypedContext /\ TypedTrail /\ TypedControl /\ Lists /\ TrailInv  BY DEF IInv, Typed
<1>2. CutTo(firstHyp) /\ firstUnprocessed' = IF firstHyp < firstUnprocessed THEN firstHyp
                                             ELSE firstUnprocessed
  BY ClearCuts
<1>3. UNCHANGED <<names, clauses, marked, watch>>  BY DEF context
<1>4. \A k \in 1..firstHyp : /\ reasons[truStack[k]] \in names'
                             /\ clauses'[reasons[truStack[k]]] = clauses[reasons[truStack[k]]]
  BY <1>1, <1>3, Held DEF TrailInv, Forced
<1>5. firstHyp \in 0..firstHyp /\ firstHyp \in Nat /\ firstUnprocessed \in Nat
  BY <1>1 DEF TypedTrail
<1>6. /\ TrailInv' /\ Len(truStack') = firstHyp
      /\ truStack' \in Seq(Lits) /\ IsInjective(truStack')
      /\ reasons' \in [Lits -> Ids \union {None}]
  BY <1>1, <1>2, <1>4, <1>5, CutTrail
<1>7. TypedTrail'
  <2>1. firstUnprocessed' \in 0..firstHyp  BY <1>2, <1>5
  <2> QED  BY <1>1, <1>5, <1>6, <2>1 DEF TypedTrail
<1>8. TypedContext' /\ Lists'  BY Frame
<1>9. TypedControl'
  <2>1. pc' \in Places /\ stage' \in {"hint", "empty", "root", "goal"}  BY DEF EndStep, Places
  <2>2. goal' = <<>> /\ rest' = <<>> /\ hints' = <<>> /\ queue' = <<>>  BY DEF EndStep
  <2>3. unprocessed' \in [BOOLEAN -> Nat]  BY DEF EndStep
  <2>4. 0 \in Lits  BY Sizes DEF Lits
  <2>5. cur' \in [class : BOOLEAN, lit : Lits, at : Nat \ {0}]  BY <2>4 DEF EndStep
  <2>6. root' \in BOOLEAN /\ conflict' \in Lits /\ progress' \in BOOLEAN  BY <2>4 DEF EndStep
  <2>7. <<>> \in Seq(names') /\ <<>> \in Seq(Literals)  OBVIOUS
  <2> QED  BY <2>1, <2>2, <2>3, <2>5, <2>6, <2>7 DEF TypedControl
<1>10. Stages'  BY DEF EndStep, Stages
<1>11. Consistently'  BY <1>6 DEF EndStep, Consistently
<1> QED  BY <1>6, <1>7, <1>8, <1>9, <1>10, <1>11 DEF IInv, Typed

LEMMA HintRoundInv == ASSUME IInv, HintRound PROVE IInv'
<1>1. TypedContext /\ TypedTrail /\ TypedControl /\ Lists /\ TrailInv  BY DEF IInv, Typed
<1>2. pc = "hints" /\ hints = <<>> /\ UNCHANGED context  BY DEF HintRound
<1>3. UNCHANGED <<names, clauses, marked, watch>>  BY <1>2 DEF context
<1>4. CASE /\ progress
           /\ hints' = queue /\ queue' = <<>> /\ progress' = FALSE
           /\ UNCHANGED <<va, pc, stage, goal, rest, unprocessed, cur, root, conflict>>
  <2>1. TypedContext' /\ Lists' /\ TypedTrail' /\ TrailInv'  BY <1>2, <1>4, Frame
  <2>2. <<>> \in Seq(names')  OBVIOUS
  <2>3. TypedControl'  BY <1>1, <1>3, <1>4, <2>2 DEF TypedControl
  <2>4. Stages'  BY <1>2, <1>4 DEF IInv, Stages, Hinted
  <2>5. UNCHANGED <<truStack, firstHyp>>  BY <1>4 DEF va
  <2>6. Consistently'  BY <1>2, <1>4, <2>5 DEF IInv, Consistently, Unsat, UnsatAt
  <2> QED  BY <2>1, <2>3, <2>4, <2>6 DEF IInv, Typed
<1>5. CASE /\ EndStep
           /\ ClearTo(firstHyp)
           /\ UNCHANGED <<firstHyp, unitsProcessed>>
  <2>1. UNCHANGED <<context, firstHyp, unitsProcessed>>  BY <1>2, <1>5
  <2> QED  BY <1>5, <2>1, EndInv
<1>6. CASE pc' = "propagate" /\ UNCHANGED <<va, control>>
  <2>0. UNCHANGED <<stage, goal, rest, unprocessed, cur, root, conflict, hints, queue, progress>>
    BY <1>6 DEF control
  <2>1. TypedContext' /\ Lists' /\ TypedTrail' /\ TrailInv'  BY <1>2, <1>6, <2>0, Frame
  <2>3. TypedControl'  BY <1>1, <1>3, <1>6, <2>0 DEF TypedControl, Places
  <2>4. Stages'  BY <1>6 DEF Stages
  <2>6. Consistently'  BY <1>6 DEF Consistently
  <2> QED  BY <2>1, <2>3, <2>4, <2>6 DEF IInv, Typed
<1> QED  BY <1>4, <1>5, <1>6 DEF HintRound

LEMMA FinishInv == ASSUME IInv, Finish PROVE IInv'
<1>1. EndStep /\ ClearTo(firstHyp) /\ UNCHANGED <<context, firstHyp, unitsProcessed>>
  BY DEF Finish
<1> QED  BY <1>1, EndInv

LEMMA UseHintInv == ASSUME IInv, UseHint PROVE IInv'
<1> DEFINE i == Head(hints)
           c == clauses[i]
           m == i \in marked
<1>1. TypedContext /\ TypedTrail /\ TypedControl /\ Lists /\ TrailInv  BY DEF IInv, Typed
<1>2. /\ pc = "hints" /\ hints # <<>> /\ hints' = Tail(hints)
      /\ UNCHANGED <<stage, goal, rest, unprocessed, cur, root>>
  BY DEF UseHint
<1>3. ~Unsat /\ Hinted  BY <1>2 DEF IInv, Consistently, Stages
<1>4. i \in names /\ i \in Ids /\ Tail(hints) \in Seq(names)
  <2>1. hints \in Seq(names)  BY <1>1 DEF TypedControl
  <2> QED  BY <1>1, <1>2, <2>1 DEF TypedContext
<1>5. c \in Seq(Literals) /\ IsInjective(c)  BY <1>1, <1>4 DEF TypedContext
<1>6. c # <<>> => 1 \in 1..Len(c) /\ UnitLit(c) = c[1] /\ c[1] \in Lits /\ c[1] \in Range(c)
  BY <1>5, InRange DEF UnitLit, Literals
<1>7. c = <<>> => UnitLit(c) = 0 /\ 0 \in Lits  BY Sizes DEF UnitLit, Lits
<1>8. (\A l \in Range(c) : ~IsTrue(l)) => ~IsTrue(UnitLit(c))
  BY <1>1, <1>3, <1>6, <1>7, ZeroOff DEF TrailInv
<1>9. ASSUME names' = names, pc' = pc, conflict' = conflict, ~Unsat',
             queue' \in Seq(names), progress' \in BOOLEAN
      PROVE  TypedControl' /\ Stages' /\ Consistently'
  <2>1. hints' \in Seq(names') /\ queue' \in Seq(names')  BY <1>2, <1>4, <1>9
  <2>2. TypedControl'  BY <1>1, <1>2, <1>9, <2>1 DEF TypedControl
  <2>3. Stages'  BY <1>2, <1>3, <1>9 DEF Stages, Hinted
  <2>4. Consistently'  BY <1>2, <1>9 DEF Consistently
  <2> QED  BY <2>2, <2>3, <2>4
<1>10. CASE /\ \E l \in Range(c) : IsTrue(l)
            /\ UNCHANGED <<context, va, pc, conflict, queue, progress>>
  <2>1. TypedContext' /\ Lists' /\ TypedTrail' /\ TrailInv'  BY <1>2, <1>10, Frame
  <2>2. UNCHANGED <<names, truStack>>  BY <1>10 DEF context, va
  <2>3. ~Unsat'  BY <1>3, <2>2 DEF Unsat, UnsatAt
  <2>4. queue' \in Seq(names) /\ progress' \in BOOLEAN  BY <1>1, <1>10 DEF TypedControl
  <2> QED  BY <1>9, <1>10, <2>1, <2>2, <2>3, <2>4 DEF IInv, Typed
<1>11. CASE /\ queue' = Append(queue, i)
            /\ UNCHANGED <<context, va, pc, conflict, progress>>
  <2>1. TypedContext' /\ Lists' /\ TypedTrail' /\ TrailInv'  BY <1>2, <1>11, Frame
  <2>2. UNCHANGED <<names, truStack>>  BY <1>11 DEF context, va
  <2>3. ~Unsat'  BY <1>3, <2>2 DEF Unsat, UnsatAt
  <2>4. queue \in Seq(names) /\ progress \in BOOLEAN  BY <1>1 DEF TypedControl
  <2>5. queue' \in Seq(names) /\ progress' \in BOOLEAN  BY <1>4, <1>11, <2>4
  <2> QED  BY <1>9, <1>11, <2>1, <2>2, <2>3, <2>5 DEF IInv, Typed
<1>12. ASSUME \A l \in Range(c) : ~IsTrue(l), NEW n \in HintLit(c), HintLit(c) = {n},
              clauses' = [clauses EXCEPT ![i] = Swap(c, 1, n)],
              watch' = IF n > 2 THEN WatchAdd(WatchDel(watch, m, c[1], i), m, c[n], i)
                       ELSE watch,
              Assign(c[n], i),
              progress' = TRUE,
              UNCHANGED <<names, marked, firstHyp, firstUnprocessed, unitsProcessed,
                          pc, conflict, queue>>
       PROVE  IInv'
  <2> DEFINE t == Swap(c, 1, n)
             l == c[n]
  <2>1. n \in 1..Len(c) /\ 1 \in 1..Len(c) /\ ~IsFalse(c[n])
        /\ \A k \in 1..Len(c) : k # n => IsFalse(c[k])
    BY <1>5, <1>12 DEF HintLit
  <2> HIDE DEF c, m
  <2>2. /\ t \in Seq(Literals) /\ Len(t) = Len(c) /\ IsInjective(t)
        /\ \A k \in 1..Len(c) : t[k] = IF k = 1 THEN c[n] ELSE IF k = n THEN c[1] ELSE c[k]
    BY <1>5, <2>1, SwapFacts
  <2>3. l \in Lits /\ l # 0 /\ l \in Range(c)  BY <1>5, <2>1, InRange DEF Literals
  <2> HIDE DEF t
  <2>4. ~IsTrue(l)  BY <1>12, <2>3
  <2>5. TypedContext' /\ Lists'
    <3>1. clauses' = [clauses EXCEPT ![i] = t] /\ UNCHANGED <<names, marked>>
          /\ Len(t) = Len(clauses[i])
      BY <1>12, <2>2 DEF t, c
    <3>2. CASE n > 2
      <4>1. /\ 2 \in 1..Len(c) /\ Len(t) >= 2 /\ n # 1 /\ n # 2  BY <1>5, <2>1, <2>2, <3>2
      <4>2. c[1] # c[n] /\ c[1] # c[2] /\ c[n] # c[2]  BY <1>5, <2>1, <4>1, InRange
      <4>3. c[1] \in Lits /\ c[2] \in Lits  BY <1>5, <2>1, <4>1 DEF Literals
      <4>4. t[1] = c[n] /\ t[2] = c[2]  BY <2>1, <2>2, <4>1
      <4>5. {clauses[i][1], clauses[i][2]} = {c[1], c[2]} /\ {t[1], t[2]} = {l, c[2]}
        BY <4>4 DEF c
      <4>6. watch' = WatchAdd(WatchDel(watch, i \in marked, c[1], i), i \in marked, l, i)
        BY <1>12, <3>2 DEF c, m
      <4> DEFINE a == c[1]
                 e == c[2]
      <4>7. /\ a \in Lits /\ e \in Lits /\ a # l /\ a # e /\ l # e
            /\ {clauses[i][1], clauses[i][2]} = {a, e} /\ {t[1], t[2]} = {l, e}
            /\ watch' = WatchAdd(WatchDel(watch, i \in marked, a, i), i \in marked, l, i)
        BY <4>2, <4>3, <4>5, <4>6
      <4> HIDE DEF a, e, l, i
      <4> QED  BY <1>1, <1>4, <2>2, <2>3, <3>1, <4>1, <4>7, OtherWatched
    <3>3. CASE ~(n > 2)
      <4>1. watch' = watch  BY <1>12, <3>3
      <4>2. n = 1 \/ n = 2  BY <1>5, <2>1, <3>3
      <4>3. Len(t) >= 2 => 2 \in 1..Len(c)  BY <1>5, <2>2
      <4>4. Len(t) >= 2 => {t[1], t[2]} = {c[1], c[2]}  BY <2>1, <2>2, <4>2, <4>3
      <4>5. Len(t) >= 2 => {t[1], t[2]} = {clauses[i][1], clauses[i][2]}  BY <4>4 DEF c
      <4> HIDE DEF i
      <4> QED  BY <1>1, <1>4, <2>2, <3>1, <4>1, <4>5, SameWatched
    <3> QED  BY <3>2, <3>3
  <2>6. clauses'[i] = t /\ \A j \in names : j # i => clauses'[j] = clauses[j]
    BY <1>1, <1>4, <1>12 DEF TypedContext, t
  <2>7. \A k \in 2..Len(t) : IsFalse(t[k])
    <3> TAKE k \in 2..Len(t)
    <3>1. k \in 1..Len(c) /\ k # 1  BY <1>5, <2>2
    <3>2. k = n => t[k] = c[1] /\ n # 1  BY <2>2, <3>1
    <3>3. k # n => t[k] = c[k]  BY <2>2, <3>1
    <3> QED  BY <2>1, <3>1, <3>2, <3>3
  <2>8. l = UnitLit(t)  BY <1>5, <2>1, <2>2 DEF UnitLit
  <2>9. t = c \/ \A k \in 1..Len(truStack) : reasons[truStack[k]] # i
    <3>1. c # <<>>  BY <1>5, <2>1
    <3>2. ~IsTrue(UnitLit(c))  BY <1>8, <1>12
    <3> QED  BY <1>1, <1>4, <3>2, NoReason DEF TrailInv, c
  <2>10. /\ TrailInv' /\ Len(truStack') = Len(truStack) + 1
         /\ truStack' \in Seq(Lits) /\ IsInjective(truStack')
         /\ reasons' \in [Lits -> Ids \union {None}]
         /\ \A k \in 1..Len(truStack) :
              truStack'[k] = truStack[k] /\ reasons'[truStack[k]] = reasons[truStack[k]]
         /\ truStack'[Len(truStack) + 1] = l
    <3>1. /\ Assign(l, i) /\ i \in names' /\ names \subseteq names'
          /\ l = UnitLit(clauses'[i])
          /\ \A k \in 2..Len(clauses'[i]) : IsFalse(clauses'[i][k])
          /\ UNCHANGED <<goal, firstHyp>>
      BY <1>2, <1>4, <1>12, <2>6, <2>7, <2>8
    <3>2. clauses'[i] = clauses[i] \/ \A k \in 1..Len(truStack) : reasons[truStack[k]] # i
      BY <2>6, <2>9 DEF c
    <3> HIDE DEF i, l
    <3> QED  BY <1>1, <1>3, <1>4, <2>3, <2>4, <2>6, <3>1, <3>2, ImpliedTrail
  <2>11. TypedTrail'
    <3>1. firstHyp' \in 0..Len(truStack') /\ firstUnprocessed' \in 0..Len(truStack')
      BY <1>1, <1>12, <2>10 DEF TypedTrail
    <3> QED  BY <1>1, <1>12, <2>10, <3>1 DEF TypedTrail
  <2>12. ~Unsat'
    <3> HIDE DEF l
    <3> QED  BY <1>1, <2>1, <2>3, <2>10, NoNewConflict DEF l
  <2>13. queue' \in Seq(names) /\ progress' \in BOOLEAN  BY <1>1, <1>12 DEF TypedControl
  <2> QED  BY <1>9, <1>12, <2>5, <2>10, <2>11, <2>12, <2>13 DEF IInv, Typed
<1>13. CASE /\ HintLit(c) = {}
            /\ \A l \in Range(c) : ~IsTrue(l)
            /\ Assign(UnitLit(c), i)
            /\ conflict' = UnitLit(c)
            /\ pc' = "found"
            /\ UNCHANGED <<context, firstHyp, firstUnprocessed, unitsProcessed, queue, progress>>
  <2> DEFINE l == UnitLit(c)
  <2>1. \A k \in 1..Len(c) : IsFalse(c[k])  BY <1>5, <1>13 DEF HintLit
  <2>2. l \in Lits /\ ~IsTrue(l)  BY <1>6, <1>7, <1>8, <1>13
  <2>3. l # 0 => IsFalse(l)  BY <1>6, <1>7, <2>1
  <2>4. UNCHANGED <<names, clauses, marked, watch>>  BY <1>13 DEF context
  <2>5. TypedContext' /\ Lists'  BY <1>13, Frame
  <2>6. /\ TrailInv' /\ Len(truStack') = Len(truStack) + 1
        /\ truStack' \in Seq(Lits) /\ IsInjective(truStack')
        /\ reasons' \in [Lits -> Ids \union {None}]
        /\ \A k \in 1..Len(truStack) :
             truStack'[k] = truStack[k] /\ reasons'[truStack[k]] = reasons[truStack[k]]
        /\ truStack'[Len(truStack) + 1] = l
    <3>0. \A k \in 2..Len(c) : k \in 1..Len(c)  BY <1>5
    <3>1. /\ Assign(l, i) /\ i \in names' /\ names \subseteq names'
          /\ l = UnitLit(clauses'[i])
          /\ \A k \in 2..Len(clauses'[i]) : IsFalse(clauses'[i][k])
          /\ \A j \in names : j # i => clauses'[j] = clauses[j]
          /\ clauses'[i] = clauses[i]
          /\ UNCHANGED <<goal, firstHyp>>
      BY <1>2, <1>4, <1>13, <2>1, <2>4, <3>0
    <3> HIDE DEF i, c, l
    <3> QED  BY <1>1, <1>3, <1>4, <2>2, <3>1, ImpliedTrail
  <2>7. TypedTrail'
    <3>1. firstHyp' \in 0..Len(truStack') /\ firstUnprocessed' \in 0..Len(truStack')
      BY <1>1, <1>13, <2>6 DEF TypedTrail
    <3> QED  BY <1>1, <1>13, <2>6, <3>1 DEF TypedTrail
  <2>8. l \in Range(truStack') /\ -l \in Range(truStack')
    <3>0. truStack \in Seq(Lits) /\ Len(truStack) \in Nat  BY <1>1 DEF TypedTrail
    <3>1. \A x : (\E k \in 1..Len(truStack') : truStack'[k] = x) => x \in Range(truStack')
      BY <2>6, InRange
    <3>2. Len(truStack) + 1 \in 1..Len(truStack')  BY <2>6, <3>0
    <3>3. l \in Range(truStack')  BY <2>6, <3>1, <3>2
    <3>4. -l \in Range(truStack')
      <4>1. CASE l = 0  BY <2>2, <3>3, <4>1, Negation
      <4>2. CASE l # 0
        <5>1. PICK k \in 1..Len(truStack) : truStack[k] = -l  BY <2>3, <3>0, <4>2, OnTrail
        <5>2. k \in 1..Len(truStack')  BY <2>6, <3>0
        <5> QED  BY <2>6, <3>1, <5>1, <5>2
      <4> QED  BY <4>1, <4>2
    <3> QED  BY <3>3, <3>4
  <2>9. TypedControl'
    <3>1. hints' \in Seq(names') /\ queue' \in Seq(names')  BY <1>1, <1>2, <1>4, <1>13, <2>4 DEF TypedControl
    <3> QED  BY <1>1, <1>2, <1>13, <2>2, <3>1 DEF TypedControl, Places
  <2>10. Stages' /\ Consistently'
    <3>1. Stages'  BY <1>13 DEF Stages
    <3>2. IsTrue(conflict)' /\ IsFalse(conflict)'  BY <1>13, <2>8 DEF IsTrue, IsFalse
    <3> QED  BY <1>13, <3>1, <3>2 DEF Consistently
  <2> QED  BY <2>5, <2>6, <2>7, <2>9, <2>10 DEF IInv, Typed
<1> QED  BY <1>10, <1>11, <1>12, <1>13 DEF UseHint

LEMMA PropagateInv == ASSUME IInv, Propagate PROVE IInv'
<1>1. TypedContext /\ TypedTrail /\ TypedControl /\ Lists /\ TrailInv  BY DEF IInv, Typed
<1>2. pc = "propagate" /\ UNCHANGED context  BY DEF Propagate
<1>3. UNCHANGED <<names, clauses, marked, watch>>  BY <1>2 DEF context
<1>4. TypedContext' /\ Lists'  BY <1>2, Frame
<1>5. /\ truStack \in Seq(Lits) /\ Len(truStack) \in Nat /\ firstHyp \in 0..Len(truStack)
      /\ firstUnprocessed \in 0..Len(truStack) /\ firstHyp \in Nat
  BY <1>1 DEF TypedTrail
<1>6. CASE Unsat /\ Found(truStack[Len(truStack)]) /\ UNCHANGED va
  <2>1. /\ pc' = "found" /\ conflict' = truStack[Len(truStack)]
        /\ UNCHANGED <<stage, goal, rest, unprocessed, cur, root, hints, queue, progress>>
        /\ truStack' = truStack
    BY <1>6 DEF Found, va
  <2>2. /\ truStack[Len(truStack)] \in Lits
        /\ IsTrue(truStack[Len(truStack)]) /\ IsFalse(truStack[Len(truStack)])
    BY <1>1, <1>6, UnsatConflict
  <2>3. TypedTrail' /\ TrailInv'  BY <1>2, <1>6, <2>1, Frame
  <2>4. TypedControl'  BY <1>1, <1>3, <2>1, <2>2 DEF TypedControl, Places
  <2>5. Stages' /\ Consistently'
    BY <2>1, <2>2 DEF Stages, Consistently, IsTrue, IsFalse
  <2> QED  BY <1>4, <2>3, <2>4, <2>5 DEF IInv, Typed
<1>7. CASE /\ ~Unsat
           /\ IF firstHyp < Len(truStack) THEN ClearTo(firstHyp)
              ELSE UNCHANGED <<truStack, reasons, firstUnprocessed>>
           /\ UNCHANGED <<firstHyp, unitsProcessed>>
           /\ IF UnsatAt(firstHyp) THEN Found(truStack[firstHyp])
              ELSE /\ stage' = "root"
                   /\ root' = TRUE
                   /\ unprocessed' = [m \in BOOLEAN |-> firstUnprocessed']
                   /\ pc' = IF unitsProcessed THEN "prop" ELSE "units"
                   /\ UNCHANGED <<goal, rest, cur, conflict, hints, queue, progress>>
  <2>1. ~UnsatAt(firstHyp)  BY <1>1, <1>5, <1>7, NoConflictAt DEF TrailInv
  <2>2. /\ stage' = "root" /\ root' = TRUE
        /\ unprocessed' = [m \in BOOLEAN |-> firstUnprocessed']
        /\ pc' = IF unitsProcessed THEN "prop" ELSE "units"
        /\ UNCHANGED <<goal, rest, cur, conflict, hints, queue, progress, firstHyp, unitsProcessed>>
    BY <1>7, <2>1
  <2>3. \A k \in 1..firstHyp : /\ reasons[truStack[k]] # None
                               /\ reasons[truStack[k]] \in names'
                               /\ clauses'[reasons[truStack[k]]] = clauses[reasons[truStack[k]]]
    BY <1>1, <1>3, Held DEF TrailInv, Forced
  <2>4. /\ TrailInv' /\ Len(truStack') = firstHyp
        /\ truStack' \in Seq(Lits) /\ IsInjective(truStack')
        /\ reasons' \in [Lits -> Ids \union {None}]
        /\ \A k \in 1..firstHyp : truStack'[k] = truStack[k]
        /\ firstUnprocessed' \in 0..firstHyp
    <3>1. CASE firstHyp < Len(truStack)
      <4>1. CutTo(firstHyp) /\ firstUnprocessed' = IF firstHyp < firstUnprocessed THEN firstHyp
                                                   ELSE firstUnprocessed
        BY <1>7, <3>1, ClearCuts
      <4>2. firstHyp \in 0..firstHyp /\ firstUnprocessed' \in 0..firstHyp  BY <1>5, <4>1
      <4> QED  BY <1>1, <2>3, <4>1, <4>2, CutTrail
    <3>2. CASE ~(firstHyp < Len(truStack))
      <4>1. UNCHANGED <<truStack, reasons, firstUnprocessed>> /\ Len(truStack) = firstHyp
        BY <1>5, <1>7, <3>2
      <4>2. TrailInv'  BY <1>1, <1>3, <2>2, <4>1, SameTrail
      <4> QED  BY <1>1, <1>5, <4>1, <4>2 DEF TypedTrail
    <3> QED  BY <3>1, <3>2
  <2>5. TypedTrail'
    <3>1. firstHyp' \in 0..Len(truStack')  BY <1>5, <2>2, <2>4
    <3> QED  BY <1>1, <2>2, <2>4, <3>1 DEF TypedTrail
  <2>6. TypedControl'
    <3>1. firstUnprocessed' \in Nat  BY <2>4
    <3> QED  BY <1>1, <1>3, <2>2, <3>1 DEF TypedControl, Places
  <2>7. Stages'  BY <2>2 DEF Stages, Hinted
  <2>8. ~Unsat'
    <3>1. \A k \in 1..firstHyp : \A j \in 1..firstHyp : truStack[j] = -truStack[k] <=>
                                                        truStack'[j] = -truStack'[k]
      BY <2>4
    <3>2. firstHyp > 0 => firstHyp \in 1..firstHyp  BY <1>5
    <3>3. UnsatAt(firstHyp)' => UnsatAt(firstHyp)  BY <2>2, <2>4, <3>1, <3>2 DEF UnsatAt
    <3> QED  BY <2>1, <2>2, <2>4, <3>3 DEF Unsat
  <2>9. \A n \in 1..Len(truStack') : reasons'[truStack'[n]] # None
    <3>1. \A n \in 1..firstHyp' : reasons'[truStack'[n]] # None
      BY <2>4, <2>5 DEF TrailInv, Derivation, Hypothesis, TypedTrail
    <3> QED  BY <2>2, <2>4, <3>1
  <2>10. Consistently'  BY <2>2, <2>4, <2>8, <2>9 DEF Consistently
  <2> QED  BY <1>4, <2>4, <2>5, <2>6, <2>7, <2>10 DEF IInv, Typed
<1>8. CASE /\ ~Unsat
           /\ stage' = "root"
           /\ root' = (firstHyp >= Len(truStack))
           /\ unprocessed' = [m \in BOOLEAN |-> firstUnprocessed]
           /\ pc' = "prop"
           /\ UNCHANGED <<va, goal, rest, cur, conflict, hints, queue, progress>>
  <2>1. TypedTrail' /\ TrailInv'  BY <1>2, <1>8, Frame
  <2>2. TypedControl'
    <3>1. firstUnprocessed \in Nat  BY <1>5
    <3> QED  BY <1>1, <1>3, <1>8, <3>1 DEF TypedControl, Places
  <2>3. Stages'  BY <1>8 DEF Stages, Hinted
  <2>4. UNCHANGED <<truStack, reasons, firstHyp>>  BY <1>8 DEF va
  <2>5. root' => \A n \in 1..Len(truStack) : reasons[truStack[n]] # None
    <3>0. root' => firstHyp >= Len(truStack)  BY <1>8, Zenon
    <3>1. root' => firstHyp = Len(truStack)  BY <1>5, <3>0
    <3> QED  BY <1>1, <3>1, Held DEF TrailInv
  <2>6. Consistently'  BY <1>8, <2>4, <2>5 DEF Consistently, Unsat, UnsatAt
  <2> QED  BY <1>4, <2>1, <2>2, <2>3, <2>6 DEF IInv, Typed
<1> QED  BY <1>6, <1>7, <1>8 DEF Propagate

LEMMA ProcessUnitsInv == ASSUME IInv, ProcessUnits PROVE IInv'
<1>1. TypedContext /\ TypedTrail /\ TypedControl /\ Lists /\ TrailInv  BY DEF IInv, Typed
<1>2. /\ pc = "units"
      /\ UNCHANGED <<context, firstUnprocessed, stage, goal, rest, unprocessed, cur,
                     root, hints, queue, progress>>
  BY DEF ProcessUnits
<1>3. UNCHANGED <<names, clauses, marked, watch>>  BY <1>2 DEF context
<1>4. TypedContext' /\ Lists'  BY <1>2, Frame
<1>5. /\ truStack \in Seq(Lits) /\ Len(truStack) \in Nat /\ firstHyp \in 0..Len(truStack)
      /\ firstUnprocessed \in 0..Len(truStack)
  BY <1>1 DEF TypedTrail
<1>6. /\ firstHyp = Len(truStack) /\ ~Unsat
      /\ stage # "goal" /\ (Hinted \/ root)
  BY <1>2 DEF IInv, Consistently, Stages
<1>7. CASE /\ unitsProcessed' = TRUE
           /\ pc' = IF Hinted THEN "assume" ELSE "prop"
           /\ UNCHANGED <<truStack, reasons, firstHyp, conflict>>
  <2>1. TrailInv'  BY <1>1, <1>2, <1>3, <1>7, SameTrail
  <2>2. TypedTrail'  BY <1>1, <1>2, <1>7 DEF TypedTrail
  <2>3. TypedControl'  BY <1>1, <1>2, <1>3, <1>7 DEF TypedControl, Places
  <2>4. Stages'  BY <1>2, <1>6, <1>7 DEF Stages, Hinted
  <2>5. \A n \in 1..Len(truStack) : reasons[truStack[n]] # None
    BY <1>1, <1>6, Held DEF TrailInv
  <2>6. Consistently'  BY <1>6, <1>7, <2>5 DEF Consistently, Unsat, UnsatAt
  <2> QED  BY <1>4, <2>1, <2>2, <2>3, <2>4, <2>6 DEF IInv, Typed
<1>8. ASSUME NEW i \in UnitClauses, ~IsTrue(UnitLit(clauses[i])),
             AddUnit(UnitLit(clauses[i]), i),
             IF IsFalse(UnitLit(clauses[i])) \/ UnitLit(clauses[i]) = 0
             THEN pc' = "found" /\ conflict' = UnitLit(clauses[i])
             ELSE UNCHANGED <<pc, conflict>>,
             UNCHANGED unitsProcessed
      PROVE  IInv'
  <2> DEFINE l == UnitLit(clauses[i])
  <2>1. i \in names /\ i \in Ids /\ Len(clauses[i]) <= 1 /\ clauses[i] \in Seq(Literals)
    BY <1>1 DEF UnitClauses, TypedContext
  <2>2. l \in Lits
    <3>1. CASE clauses[i] = <<>>  BY <3>1, Sizes DEF UnitLit, Lits
    <3>2. CASE clauses[i] # <<>>
      <4>1. 1 \in 1..Len(clauses[i])  BY <2>1, <3>2
      <4> QED  BY <2>1, <3>2, <4>1 DEF UnitLit, Literals
    <3> QED  BY <3>1, <3>2
  <2>3. Assign(l, i) /\ firstHyp' = firstHyp + 1  BY <1>8 DEF AddUnit
  <2>4. \A k \in 2..Len(clauses[i]) : FALSE  BY <2>1
  <2>5. \A n \in 1..Len(truStack) : reasons[truStack[n]] # None
    BY <1>1, <1>6, Held DEF TrailInv
  <2>6. ~IsTrue(l)  BY <1>8
  <2>7. /\ i \in names' /\ names \subseteq names' /\ l = UnitLit(clauses'[i])
        /\ \A k \in 2..Len(clauses'[i]) : IsFalse(clauses'[i][k])
        /\ \A j \in names : j # i => clauses'[j] = clauses[j]
        /\ clauses'[i] = clauses[i]
    BY <1>3, <2>1, <2>4
  <2>8. /\ (IsFalse(l) \/ l = 0) => pc' = "found" /\ conflict' = l
        /\ ~(IsFalse(l) \/ l = 0) => UNCHANGED <<pc, conflict>>
    BY <1>8
  <2> HIDE DEF l
  <2>9. /\ TrailInv' /\ Len(truStack') = Len(truStack) + 1
        /\ truStack' \in Seq(Lits) /\ IsInjective(truStack')
        /\ reasons' \in [Lits -> Ids \union {None}]
        /\ \A k \in 1..Len(truStack) :
             truStack'[k] = truStack[k] /\ reasons'[truStack[k]] = reasons[truStack[k]]
        /\ truStack'[Len(truStack) + 1] = l
    BY <1>1, <1>6, <2>1, <2>2, <2>3, <2>5, <2>6, <2>7, ImpliedTrail
  <2>10. TypedTrail' /\ firstHyp' = Len(truStack')
    <3>1. /\ firstHyp' \in 0..Len(truStack') /\ firstUnprocessed' \in 0..Len(truStack')
          /\ firstHyp' = Len(truStack')
      BY <1>2, <1>5, <1>6, <2>3, <2>9
    <3> QED  BY <1>1, <1>8, <2>9, <3>1 DEF TypedTrail
  <2>11. TypedControl'  BY <1>1, <1>2, <1>3, <2>2, <2>8 DEF TypedControl, Places
  <2>12. CASE IsFalse(l) \/ l = 0
    <3>1. \A x : (\E k \in 1..Len(truStack') : truStack'[k] = x) => x \in Range(truStack')
      BY <2>9, InRange
    <3>2. Len(truStack) + 1 \in 1..Len(truStack')  BY <1>5, <2>9
    <3>3. l \in Range(truStack')  BY <2>9, <3>1, <3>2
    <3>4. -l \in Range(truStack')
      <4>1. CASE l = 0  BY <2>2, <3>3, <4>1, Negation
      <4>2. CASE IsFalse(l)
        <5>1. PICK k \in 1..Len(truStack) : truStack[k] = -l  BY <1>5, <4>2, OnTrail
        <5>2. k \in 1..Len(truStack')  BY <1>5, <2>9
        <5> QED  BY <2>9, <3>1, <5>1, <5>2
      <4> QED  BY <2>12, <4>1, <4>2
    <3>5. pc' = "found" /\ conflict' = l  BY <2>8, <2>12
    <3>6. Stages'  BY <3>5 DEF Stages
    <3>7. Consistently'  BY <3>3, <3>4, <3>5 DEF Consistently, IsTrue, IsFalse
    <3> QED  BY <1>4, <2>9, <2>10, <2>11, <3>6, <3>7 DEF IInv, Typed
  <2>13. CASE ~(IsFalse(l) \/ l = 0)
    <3>1. UNCHANGED <<pc, conflict>>  BY <2>8, <2>13
    <3>2. ~Unsat'  BY <1>1, <2>2, <2>9, <2>13, NoNewConflict
    <3>3. Stages'  BY <1>2, <1>6, <3>1 DEF Stages, Hinted
    <3>4. Consistently'  BY <1>2, <2>10, <3>1, <3>2 DEF Consistently
    <3> QED  BY <1>4, <2>9, <2>10, <2>11, <3>3, <3>4 DEF IInv, Typed
  <2> QED  BY <2>12, <2>13
<1> QED  BY <1>7, <1>8 DEF ProcessUnits

LEMMA AssumeInv == ASSUME IInv, Assume PROVE IInv'
<1>1. TypedContext /\ TypedTrail /\ TypedControl /\ Lists /\ TrailInv  BY DEF IInv, Typed
<1>2. /\ pc = "assume"
      /\ UNCHANGED <<context, firstHyp, firstUnprocessed, unitsProcessed, stage, goal,
                     cur, hints, queue, progress>>
  BY DEF Assume
<1>3. UNCHANGED <<names, clauses, marked, watch>>  BY <1>2 DEF context
<1>4. TypedContext' /\ Lists'  BY <1>2, Frame
<1>5. /\ truStack \in Seq(Lits) /\ Len(truStack) \in Nat /\ firstHyp \in 0..Len(truStack)
      /\ firstUnprocessed \in 0..Len(truStack)
  BY <1>1 DEF TypedTrail
<1>6. ~Unsat /\ stage # "root"  BY <1>2 DEF IInv, Consistently, Stages
<1>7. CASE /\ rest # <<>>
           /\ Assign(-Head(rest), None)
           /\ rest' = Tail(rest)
           /\ IF IsTrue(Head(rest))
              THEN pc' = "found" /\ conflict' = Head(rest)
              ELSE UNCHANGED <<pc, conflict>>
           /\ UNCHANGED <<root, unprocessed>>
  <2> DEFINE h == Head(rest)
             l == -h
  <2>1. /\ rest \in Seq(Literals) /\ goal \in Seq(Literals) /\ Range(rest) \subseteq Range(goal)
        /\ 1 \in 1..Len(rest) /\ h = rest[1]
    BY <1>1, <1>7 DEF TypedControl
  <2>2. h \in Literals /\ h \in Range(goal)
    <3>1. h \in Range(rest)  BY <2>1, InRange
    <3> QED  BY <2>1, <3>1
  <2>3. h \in Lits /\ h # 0  BY <2>2 DEF Literals
  <2>4. l \in Lits /\ -l = h /\ l # 0  BY <2>3, Negation
  <2>5. l \in Negated(goal)  BY <2>2 DEF Negated
  <2>6. Tail(rest) \in Seq(Literals) /\ Range(Tail(rest)) \subseteq Range(goal)
    <3>1. Tail(rest) \in Seq(Literals)  BY <1>7, <2>1
    <3>2. \A k \in 1..Len(Tail(rest)) : Tail(rest)[k] = rest[k + 1] /\ k + 1 \in 1..Len(rest)
      BY <1>7, <2>1
    <3>3. ASSUME NEW x \in Range(Tail(rest)) PROVE x \in Range(rest)
      <4>1. PICK k \in 1..Len(Tail(rest)) : Tail(rest)[k] = x  BY <3>1, InRange
      <4>2. rest[k + 1] = x /\ k + 1 \in 1..Len(rest)  BY <3>2, <4>1
      <4> QED  BY <2>1, <4>2, InRange
    <3> QED  BY <2>1, <3>1, <3>3
  <2>7. Assign(l, None) /\ rest' = Tail(rest) /\ UNCHANGED <<root, unprocessed>>
        /\ (IsTrue(h) => pc' = "found" /\ conflict' = h)
        /\ (~IsTrue(h) => UNCHANGED <<pc, conflict>>)
    BY <1>7
  <2> HIDE DEF h, l
  <2>8. TypedControl'
    BY <1>1, <1>2, <1>3, <2>3, <2>6, <2>7 DEF TypedControl, Places
  <2>9. ASSUME IsTrue(l) PROVE UNCHANGED <<truStack, reasons>>  BY <2>7, <2>9 DEF Assign
  <2>10. ASSUME ~IsTrue(l)
         PROVE  /\ TrailInv' /\ Len(truStack') = Len(truStack) + 1
                /\ truStack' \in Seq(Lits) /\ IsInjective(truStack')
                /\ reasons' \in [Lits -> Ids \union {None}]
                /\ \A k \in 1..Len(truStack) :
                     truStack'[k] = truStack[k] /\ reasons'[truStack[k]] = reasons[truStack[k]]
                /\ truStack'[Len(truStack) + 1] = l
    BY <1>1, <1>2, <1>3, <1>6, <2>4, <2>5, <2>7, <2>10, AssumedTrail
  <2>11. TypedTrail' /\ TrailInv'
    <3>1. CASE IsTrue(l)
      <4>1. UNCHANGED <<truStack, reasons>>  BY <2>9, <3>1
      <4>2. TrailInv'  BY <1>1, <1>2, <1>3, <4>1, SameTrail
      <4> QED  BY <1>1, <1>2, <4>1, <4>2 DEF TypedTrail
    <3>2. CASE ~IsTrue(l)
      <4>1. firstHyp' \in 0..Len(truStack') /\ firstUnprocessed' \in 0..Len(truStack')
        BY <1>2, <1>5, <2>10, <3>2
      <4> QED  BY <1>1, <1>2, <2>10, <3>2, <4>1 DEF TypedTrail
    <3> QED  BY <3>1, <3>2
  <2>12. l \in Range(truStack') /\ (IsTrue(h) => h \in Range(truStack'))
    <3>1. CASE IsTrue(l)  BY <2>9, <3>1 DEF IsTrue
    <3>2. CASE ~IsTrue(l)
      <4>1. \A x : (\E k \in 1..Len(truStack') : truStack'[k] = x) => x \in Range(truStack')
        BY <2>10, <3>2, InRange
      <4>2. Len(truStack) + 1 \in 1..Len(truStack') /\ \A k \in 1..Len(truStack) : k \in 1..Len(truStack')
        BY <1>5, <2>10, <3>2
      <4>3. IsTrue(h) => \E k \in 1..Len(truStack) : truStack[k] = h  BY <1>5, OnTrail
      <4> QED  BY <2>10, <3>2, <4>1, <4>2, <4>3
    <3> QED  BY <3>1, <3>2
  <2>13. CASE IsTrue(h)
    <3>1. pc' = "found" /\ conflict' = h  BY <2>7, <2>13
    <3>2. Stages'  BY <3>1 DEF Stages
    <3>3. -h = l  BY DEF l
    <3>4. Consistently'  BY <2>12, <2>13, <3>1, <3>3 DEF Consistently, IsTrue, IsFalse
    <3> QED  BY <1>4, <2>8, <2>11, <3>2, <3>4 DEF IInv, Typed
  <2>14. CASE ~IsTrue(h)
    <3>1. UNCHANGED <<pc, conflict>>  BY <2>7, <2>14
    <3>2. ~Unsat'
      <4>1. CASE IsTrue(l)  BY <1>6, <2>9, <4>1 DEF Unsat, UnsatAt
      <4>2. CASE ~IsTrue(l)
        <5>1. ~IsFalse(l)  BY <2>4, <2>14 DEF IsFalse
        <5> QED  BY <1>1, <2>4, <2>10, <4>2, <5>1, NoNewConflict
      <4> QED  BY <4>1, <4>2
    <3>3. Stages'  BY <1>2, <1>6, <3>1 DEF Stages, Hinted
    <3>4. Consistently'  BY <1>2, <3>1, <3>2 DEF Consistently
    <3> QED  BY <1>4, <2>8, <2>11, <3>3, <3>4 DEF IInv, Typed
  <2> QED  BY <2>13, <2>14
<1>8. CASE /\ pc' = IF Hinted THEN "hints" ELSE "prop"
           /\ IF Hinted THEN UNCHANGED <<root, unprocessed>>
              ELSE /\ root' = (firstHyp >= Len(truStack))
                   /\ unprocessed' = [m \in BOOLEAN |-> firstUnprocessed]
           /\ UNCHANGED <<truStack, reasons, rest, conflict>>
  <2>1. TrailInv'  BY <1>1, <1>2, <1>3, <1>8, SameTrail
  <2>2. TypedTrail'  BY <1>1, <1>2, <1>8 DEF TypedTrail
  <2>3. root' \in BOOLEAN /\ unprocessed' \in [BOOLEAN -> Nat]
    <3>1. firstUnprocessed \in Nat  BY <1>5
    <3>2. root \in BOOLEAN /\ unprocessed \in [BOOLEAN -> Nat]  BY <1>1 DEF TypedControl
    <3>3. (firstHyp >= Len(truStack)) \in BOOLEAN  BY <1>5
    <3>4. CASE Hinted  BY <1>8, <3>2, <3>4
    <3>5. CASE ~Hinted
      <4>1. root' \in BOOLEAN  BY <1>8, <3>3, <3>5, Zenon
      <4>2. unprocessed' = [m \in BOOLEAN |-> firstUnprocessed]  BY <1>8, <3>5
      <4> QED  BY <3>1, <4>1, <4>2
    <3> QED  BY <3>4, <3>5
  <2>4. TypedControl'  BY <1>1, <1>2, <1>3, <1>8, <2>3 DEF TypedControl, Places
  <2>5. Stages'  BY <1>2, <1>6, <1>8 DEF Stages, Hinted
  <2>6. ~Hinted /\ root' => \A n \in 1..Len(truStack) : reasons[truStack[n]] # None
    <3>0. ~Hinted /\ root' => firstHyp >= Len(truStack)  BY <1>8, Zenon
    <3>1. ~Hinted /\ root' => firstHyp = Len(truStack)  BY <1>5, <3>0
    <3> QED  BY <1>1, <3>1, Held DEF TrailInv
  <2>7. Consistently'  BY <1>2, <1>6, <1>8, <2>6 DEF Consistently, Unsat, UnsatAt
  <2> QED  BY <1>4, <2>1, <2>2, <2>4, <2>5, <2>7 DEF IInv, Typed
<1> QED  BY <1>7, <1>8 DEF Assume

LEMMA NextPropLitInv == ASSUME IInv, NextPropLit PROVE IInv'
<1>1. TypedContext /\ TypedTrail /\ TypedControl /\ Lists /\ TrailInv  BY DEF IInv, Typed
<1>2. /\ pc = "prop" /\ pc' = "visit"
      /\ UNCHANGED <<context, va, stage, goal, rest, root, conflict, hints, queue, progress>>
  BY DEF NextPropLit
<1>3. UNCHANGED <<names, clauses, marked, watch, truStack, reasons, firstHyp>>
  BY <1>2 DEF context, va
<1>4. TypedContext' /\ Lists' /\ TypedTrail' /\ TrailInv'  BY <1>2, Frame
<1>5. PICK m \in BOOLEAN :
        /\ unprocessed[m] < Len(truStack)
        /\ cur' = [class |-> m, lit |-> truStack[unprocessed[m] + 1], at |-> 1]
        /\ unprocessed' = [unprocessed EXCEPT ![m] = @ + 1]
  BY DEF NextPropLit
<1>6. truStack \in Seq(Lits) /\ Len(truStack) \in Nat  BY <1>1 DEF TypedTrail
<1>7. unprocessed \in [BOOLEAN -> Nat] /\ unprocessed[m] \in Nat  BY <1>1 DEF TypedControl
<1>8. unprocessed[m] + 1 \in 1..Len(truStack)  BY <1>5, <1>6, <1>7
<1>9. truStack[unprocessed[m] + 1] \in Lits /\ IsTrue(truStack[unprocessed[m] + 1])
  BY <1>6, <1>8, OnTrail
<1>10. TypedControl'
  <2>1. unprocessed' \in [BOOLEAN -> Nat]  BY <1>5, <1>7
  <2>2. cur' \in [class : BOOLEAN, lit : Lits, at : Nat \ {0}]  BY <1>5, <1>9
  <2> QED  BY <1>1, <1>2, <1>3, <2>1, <2>2 DEF TypedControl, Places
<1>11. Stages'  BY <1>2 DEF IInv, Stages, Hinted
<1>12. IsTrue(cur.lit)'  BY <1>3, <1>5, <1>9 DEF IsTrue
<1>13. Consistently'  BY <1>2, <1>3, <1>12 DEF IInv, Consistently, Unsat, UnsatAt
<1> QED  BY <1>4, <1>10, <1>11, <1>13 DEF IInv, Typed

LEMMA PropDoneInv == ASSUME IInv, PropDone PROVE IInv'
<1>1. TypedContext /\ TypedTrail /\ TypedControl /\ Lists /\ TrailInv  BY DEF IInv, Typed
<1>2. /\ pc = "prop"
      /\ firstUnprocessed' = Len(truStack)
      /\ firstHyp' = IF root THEN Len(truStack) ELSE firstHyp
      /\ UNCHANGED <<context, truStack, reasons, unitsProcessed>>
  BY DEF PropDone
<1>3. UNCHANGED <<names, clauses, marked, watch>>  BY <1>2 DEF context
<1>4. ~Unsat /\ ~Hinted /\ (root => \A n \in 1..Len(truStack) : reasons[truStack[n]] # None)
  BY <1>2 DEF IInv, Stages, Consistently
<1>5. /\ IF stage = "root" /\ goal # <<>>
         THEN pc' = "assume" /\ stage' = "goal" /\ rest' = goal
         ELSE pc' = "stuck" /\ UNCHANGED <<stage, rest>>
      /\ UNCHANGED <<goal, unprocessed, cur, root, conflict, hints, queue, progress>>
  BY <1>4 DEF PropDone
<1>6. TypedContext' /\ Lists'  BY <1>2, Frame
<1>7. Len(truStack) \in Nat /\ firstHyp \in 0..Len(truStack)  BY <1>1 DEF TypedTrail
<1>8. TypedTrail'
  <2>1. firstHyp' \in 0..Len(truStack) /\ firstUnprocessed' \in 0..Len(truStack)
    BY <1>2, <1>7
  <2> QED  BY <1>1, <1>2, <2>1 DEF TypedTrail
<1>9. TrailInv'
  <2>1. UNCHANGED <<firstHyp, goal>> \/ \A n \in 1..Len(truStack) : reasons[truStack[n]] # None
    BY <1>2, <1>4, <1>5
  <2> QED  BY <1>1, <1>2, <1>3, <2>1, SameTrail
<1>10. TypedControl'  BY <1>1, <1>3, <1>5 DEF TypedControl, Places
<1>11. Stages'  BY <1>4, <1>5 DEF Stages, Hinted
<1>12. Consistently'  BY <1>2, <1>4, <1>5 DEF Consistently, Unsat, UnsatAt
<1> QED  BY <1>6, <1>8, <1>9, <1>10, <1>11, <1>12 DEF IInv, Typed

(* The clause being visited, the falsified watch second: the class is right, *)
(* so that nothing is skipped for it.                                      *)
Visited(i, c) ==
  /\ i = watch[cur.class][-cur.lit][cur.at]
  /\ c = IF clauses[i][1] = -cur.lit THEN Swap(clauses[i], 1, 2) ELSE clauses[i]

LEMMA VisitedFacts ==
  ASSUME IInv, pc = "visit", cur.at <= Len(watch[cur.class][-cur.lit]),
         NEW i, NEW c, Visited(i, c)
  PROVE  /\ i \in names /\ i \in Ids /\ (i \in marked) = cur.class
         /\ c \in Seq(Literals) /\ IsInjective(c) /\ Len(c) = Len(clauses[i]) /\ Len(c) >= 2
         /\ c[2] = -cur.lit /\ c[1] # c[2]
         /\ {clauses[i][1], clauses[i][2]} = {c[1], c[2]}
         /\ Range(c) = Range(clauses[i])
         /\ \A k \in 3..Len(c) : c[k] = clauses[i][k]
         /\ c[1] = clauses[i][1] \/ c[2] = clauses[i][1]
         /\ cur.lit \in Lits /\ -cur.lit \in Lits /\ cur.class \in BOOLEAN
<1> DEFINE is == watch[cur.class][-cur.lit]
           old == clauses[i]
<1>1. TypedContext /\ TypedTrail /\ TypedControl /\ Lists  BY DEF IInv, Typed
<1>2. cur.class \in BOOLEAN /\ cur.lit \in Lits /\ cur.at \in Nat \ {0}
  BY <1>1 DEF TypedControl
<1>3. -cur.lit \in Lits  BY <1>2, Negation
<1>4. is \in Seq(Ids) /\ Range(is) = Watchers(cur.class, -cur.lit)
  BY <1>1, <1>2, <1>3 DEF TypedContext, Watches, Lists
<1>5. i \in Watchers(cur.class, -cur.lit)
  <2>1. cur.at \in 1..Len(is) /\ is[cur.at] = i  BY <1>2, <1>4 DEF Visited
  <2> HIDE DEF is
  <2>2. i \in Range(is)  BY <1>4, <2>1, InRange
  <2> QED  BY <1>4, <2>2
<1>6. /\ i \in names /\ cur.class = (i \in marked) /\ Len(old) >= 2
      /\ -cur.lit \in {old[1], old[2]}
  BY <1>5 DEF Watchers
<1>7. i \in Ids /\ old \in Seq(Literals) /\ IsInjective(old)  BY <1>1, <1>6 DEF TypedContext
<1> HIDE DEF old, is
<1>8. 1 \in 1..Len(old) /\ 2 \in 1..Len(old)  BY <1>6, <1>7
<1>9. old[1] # old[2]  BY <1>7, <1>8, InRange
<1>10. CASE old[1] = -cur.lit
  <2>1. c = Swap(old, 1, 2)  BY <1>10 DEF Visited, old
  <2>a. LET s == Swap(old, 1, 2) IN
        /\ s \in Seq(Literals) /\ Len(s) = Len(old) /\ IsInjective(s) /\ Range(s) = Range(old)
        /\ \A k \in 1..Len(old) : s[k] = IF k = 1 THEN old[2] ELSE IF k = 2 THEN old[1] ELSE old[k]
    <3>1. old \in Seq(Literals) /\ IsInjective(old)  BY <1>7
    <3> QED  BY ONLY <3>1, <1>8, SwapFacts
  <2>2. /\ c \in Seq(Literals) /\ Len(c) = Len(old) /\ IsInjective(c) /\ Range(c) = Range(old)
        /\ \A k \in 1..Len(old) : c[k] = IF k = 1 THEN old[2] ELSE IF k = 2 THEN old[1] ELSE old[k]
    BY <2>1, <2>a
  <2>3. c[1] = old[2] /\ c[2] = old[1]  BY <1>8, <2>2
  <2>4. \A k \in 3..Len(c) : c[k] = old[k]  BY <1>7, <2>2
  <2>5. {old[1], old[2]} = {c[1], c[2]} /\ c[1] # c[2] /\ c[2] = -cur.lit
    BY <1>9, <1>10, <2>3
  <2> QED  BY <1>2, <1>3, <1>6, <1>7, <2>2, <2>3, <2>4, <2>5 DEF old
<1>11. CASE old[1] # -cur.lit
  <2>1. c = old  BY <1>11 DEF Visited, old
  <2>2. old[2] = -cur.lit  BY <1>6, <1>11
  <2> QED  BY <1>2, <1>3, <1>6, <1>7, <1>9, <2>1, <2>2 DEF old
<1> QED  BY <1>10, <1>11

(* A clause of which neither watch is true is no reason.                    *)
LEMMA VisitedNoReason ==
  ASSUME IInv, pc = "visit", cur.at <= Len(watch[cur.class][-cur.lit]),
         NEW i, NEW c, Visited(i, c), ~IsTrue(c[1]), ~IsTrue(c[2])
  PROVE  \A k \in 1..Len(truStack) : reasons[truStack[k]] # i
<1>1. /\ i \in Ids /\ (c[1] = clauses[i][1] \/ c[2] = clauses[i][1])
      /\ Len(clauses[i]) >= 2
  BY VisitedFacts
<1>2. clauses[i] # <<>>  BY <1>1
<1>3. ~IsTrue(UnitLit(clauses[i]))  BY <1>1, <1>2 DEF UnitLit
<1>4. Derivation /\ TypedTrail  BY DEF IInv, Typed, TrailInv
<1> QED  BY <1>1, <1>3, <1>4, NoReason

LEMMA ReplaceInv ==
  ASSUME IInv, pc = "visit", cur.at <= Len(watch[cur.class][-cur.lit]),
         NEW i, NEW c, Visited(i, c), ~IsTrue(c[1]), ~IsTrue(c[2]),
         NEW n \in 3..Len(c), ~IsFalse(c[n]), Replace(i, c, n),
         UNCHANGED <<stage, goal, rest, unprocessed, root, hints, queue, progress>>
  PROVE  /\ IInv'
         /\ Moves(watch', watch, cur.class, -cur.lit, c[n], i)
         /\ Swap(c, 2, n) \in Seq(Literals) /\ Len(Swap(c, 2, n)) = Len(c)
         /\ \A k \in 1..Len(c) :
              Swap(c, 2, n)[k] = IF k = 2 THEN c[n] ELSE IF k = n THEN c[2] ELSE c[k]
<1> DEFINE t == Swap(c, 2, n)
           a == -cur.lit
           b == c[n]
           e == c[1]
<1>1. TypedContext /\ TypedTrail /\ TypedControl /\ Lists /\ TrailInv  BY DEF IInv, Typed
<1>2. /\ i \in names /\ i \in Ids /\ (i \in marked) = cur.class
      /\ c \in Seq(Literals) /\ IsInjective(c) /\ Len(c) = Len(clauses[i]) /\ Len(c) >= 2
      /\ c[2] = a /\ e # c[2]
      /\ {clauses[i][1], clauses[i][2]} = {e, c[2]}
      /\ a \in Lits /\ cur.class \in BOOLEAN
  BY VisitedFacts
<1>3. 1 \in 1..Len(c) /\ 2 \in 1..Len(c) /\ n \in 1..Len(c) /\ n # 1 /\ n # 2  BY <1>2
<1>4. b # e /\ b # c[2] /\ b \in Lits /\ e \in Lits  BY <1>2, <1>3, InRange DEF Literals
<1>5. /\ t \in Seq(Literals) /\ Len(t) = Len(c) /\ IsInjective(t)
      /\ \A k \in 1..Len(c) : t[k] = IF k = 2 THEN b ELSE IF k = n THEN c[2] ELSE c[k]
  BY <1>2, <1>3, SwapFacts
<1>6. /\ clauses' = [clauses EXCEPT ![i] = t]
      /\ watch' = WatchAdd(WatchDel(watch, cur.class, a, i), cur.class, b, i)
      /\ UNCHANGED <<names, marked, cur, va, pc, conflict>>
  BY DEF Replace
<1>7. t[1] = e /\ t[2] = b  BY <1>3, <1>5
<1>8. TypedContext' /\ Lists' /\ Moves(watch', watch, cur.class, a, b, i)
  <2>1. {clauses[i][1], clauses[i][2]} = {a, e} /\ {t[1], t[2]} = {b, e}  BY <1>2, <1>7
  <2>2. a # b /\ a # e  BY <1>2, <1>4
  <2> HIDE DEF t, a, b, e
  <2>3. watch' = WatchAdd(WatchDel(watch, i \in marked, a, i), i \in marked, b, i)
    BY <1>2, <1>6
  <2>4. Len(t) = Len(clauses[i]) /\ Len(t) >= 2  BY <1>2, <1>5
  <2>5. UNCHANGED <<names, marked>>  BY <1>6
  <2>6. TypedContext' /\ Lists' /\ Moves(watch', watch, i \in marked, a, b, i)
    <3>1. TypedContext /\ Lists /\ i \in names  BY <1>1, <1>2
    <3>2. t \in Seq(Literals) /\ IsInjective(t)  BY <1>5
    <3>3. a \in Lits /\ b \in Lits /\ e \in Lits /\ b # e  BY <1>2, <1>4 DEF a, b, e
    <3>4. clauses' = [clauses EXCEPT ![i] = t]  BY <1>6
    <3> QED  BY ONLY <2>1, <2>2, <2>3, <2>4, <2>5, <3>1, <3>2, <3>3, <3>4, OtherWatched
  <2> QED  BY <1>2, <2>6
<1>9. UNCHANGED <<truStack, reasons, firstHyp, firstUnprocessed, unitsProcessed>>
  BY <1>6 DEF va
<1>10. TypedTrail'  BY <1>1, <1>9 DEF TypedTrail
<1>11. TrailInv'
  <2>1. \A k \in 1..Len(truStack) : reasons[truStack[k]] # i  BY VisitedNoReason
  <2>2. ASSUME NEW k \in 1..Len(truStack)
        PROVE  IF reasons[truStack[k]] = None THEN k > firstHyp' /\ truStack[k] \in Negated(goal')
               ELSE /\ reasons[truStack[k]] \in names'
                    /\ clauses'[reasons[truStack[k]]] = clauses[reasons[truStack[k]]]
    <3>1. IF reasons[truStack[k]] = None THEN Hypothesis(k) ELSE Forced(k)
      BY <1>1 DEF TrailInv, Derivation
    <3>2. reasons[truStack[k]] # None => reasons[truStack[k]] \in names  BY <3>1 DEF Forced
    <3>3. reasons[truStack[k]] \in names =>
            clauses'[reasons[truStack[k]]] = clauses[reasons[truStack[k]]]
      BY <1>1, <1>6, <2>1 DEF TypedContext
    <3> QED  BY <1>6, <1>9, <3>1, <3>2, <3>3 DEF Hypothesis, Negated
  <2>3. KeepsTo(Len(truStack))  BY <1>1, <1>9, <2>2 DEF KeepsTo, TypedTrail
  <2> QED  BY <1>1, <1>9, <2>3, TrailStep
<1>12. TypedControl'  BY <1>1, <1>6 DEF TypedControl
<1>13. Stages'  BY <1>6 DEF IInv, Stages, Hinted
<1>14. Consistently'
  BY <1>6, <1>9 DEF IInv, Consistently, Unsat, UnsatAt, IsTrue
<1> QED  BY <1>5, <1>8, <1>10, <1>11, <1>12, <1>13, <1>14 DEF IInv, Typed

LEMMA CurNext ==
  ASSUME NEW x \in [class : BOOLEAN, lit : Lits, at : Nat \ {0}]
  PROVE  LET y == [x EXCEPT !.at = @ + 1] IN
         /\ y \in [class : BOOLEAN, lit : Lits, at : Nat \ {0}]
         /\ y.lit = x.lit /\ y.class = x.class /\ y.at = x.at + 1
<1>1. x.at \in Nat \ {0}  OBVIOUS
<1>2. x.at + 1 \in Nat \ {0}  BY <1>1
<1> QED  BY <1>2

LEMMA ImplyInv ==
  ASSUME IInv, pc = "visit", cur.at <= Len(watch[cur.class][-cur.lit]),
         NEW i, NEW c, Visited(i, c), ~IsTrue(c[1]), ~IsTrue(c[2]),
         \A k \in 3..Len(c) : IsFalse(c[k]), Imply(i, c),
         UNCHANGED <<stage, goal, rest, unprocessed, root, hints, queue, progress>>
  PROVE  /\ IInv'
         /\ Len(truStack') = Len(truStack) + 1
         /\ \A k \in 1..Len(truStack) : truStack'[k] = truStack[k]
         /\ truStack'[Len(truStack) + 1] = c[1]
<1> DEFINE l == c[1]
<1>1. TypedContext /\ TypedTrail /\ TypedControl /\ Lists /\ TrailInv  BY DEF IInv, Typed
<1>2. /\ i \in names /\ i \in Ids
      /\ c \in Seq(Literals) /\ IsInjective(c) /\ Len(c) = Len(clauses[i]) /\ Len(c) >= 2
      /\ c[2] = -cur.lit
      /\ {clauses[i][1], clauses[i][2]} = {c[1], c[2]}
      /\ cur.lit \in Lits
  BY VisitedFacts
<1>3. 1 \in 1..Len(c) /\ l \in Lits /\ l # 0 /\ c # <<>>
  <2>1. 1 \in 1..Len(c)  BY <1>2
  <2> QED  BY <1>2, <2>1 DEF Literals
<1>4. /\ clauses' = [clauses EXCEPT ![i] = c]
      /\ Assign(l, i)
      /\ IF IsFalse(l)
         THEN /\ pc' = "found" /\ conflict' = l
              /\ firstUnprocessed' = Len(truStack')
              /\ firstHyp' = IF root THEN Len(truStack') ELSE firstHyp
         ELSE UNCHANGED <<pc, conflict, firstUnprocessed, firstHyp>>
      /\ cur' = [cur EXCEPT !.at = @ + 1]
      /\ UNCHANGED <<names, marked, watch, unitsProcessed>>
  BY DEF Imply
<1>5. ~Unsat /\ IsTrue(cur.lit)
      /\ (root => \A n \in 1..Len(truStack) : reasons[truStack[n]] # None)
  BY DEF IInv, Consistently
<1> HIDE DEF l
<1>6. TypedContext' /\ Lists'
  <2>1. Len(c) >= 2 => {c[1], c[2]} = {clauses[i][1], clauses[i][2]}  BY <1>2
  <2> QED  BY <1>1, <1>2, <1>4, <2>1, SameWatched
<1>7. \A k \in 2..Len(c) : IsFalse(c[k])
  <2> TAKE k \in 2..Len(c)
  <2>1. k = 2 \/ k \in 3..Len(c)  BY <1>2
  <2>2. -(-cur.lit) = cur.lit  BY <1>2, Negation
  <2>3. IsFalse(c[2])  BY <1>2, <1>5, <2>2 DEF IsFalse
  <2> QED  BY <2>1, <2>3
<1>8. /\ TrailInv' /\ Len(truStack') = Len(truStack) + 1
      /\ truStack' \in Seq(Lits) /\ IsInjective(truStack')
      /\ reasons' \in [Lits -> Ids \union {None}]
      /\ \A k \in 1..Len(truStack) :
           truStack'[k] = truStack[k] /\ reasons'[truStack[k]] = reasons[truStack[k]]
      /\ truStack'[Len(truStack) + 1] = l /\ reasons'[l] = i
  <2>1. /\ i \in names' /\ names \subseteq names' /\ clauses'[i] = c
        /\ \A j \in names : j # i => clauses'[j] = clauses[j]
    BY <1>1, <1>2, <1>4 DEF TypedContext
  <2>2. l = UnitLit(clauses'[i]) /\ \A k \in 2..Len(clauses'[i]) : IsFalse(clauses'[i][k])
    BY <1>3, <1>7, <2>1 DEF UnitLit, l
  <2>3. \A k \in 1..Len(truStack) : reasons[truStack[k]] # i  BY VisitedNoReason
  <2>4. UNCHANGED <<goal, firstHyp>> \/ \A n \in 1..Len(truStack) : reasons[truStack[n]] # None
    BY <1>4, <1>5
  <2>5. ~IsTrue(l)  BY DEF l
  <2> QED  BY <1>1, <1>2, <1>3, <1>4, <1>5, <2>1, <2>2, <2>3, <2>4, <2>5, ImpliedTrail
<1>9. Len(truStack) \in Nat /\ truStack \in Seq(Lits)
      /\ firstHyp \in 0..Len(truStack) /\ firstUnprocessed \in 0..Len(truStack)
  BY <1>1 DEF TypedTrail
<1>10. TypedTrail'
  <2>1. firstHyp' \in 0..Len(truStack') /\ firstUnprocessed' \in 0..Len(truStack')
    BY <1>4, <1>8, <1>9
  <2> QED  BY <1>1, <1>4, <1>8, <2>1 DEF TypedTrail
<1>11. TypedControl'
  <2>1. cur' \in [class : BOOLEAN, lit : Lits, at : Nat \ {0}]
    BY <1>1, <1>4, CurNext DEF TypedControl
  <2>2. pc' \in Places /\ conflict' \in Lits  BY <1>1, <1>3, <1>4 DEF TypedControl, Places
  <2> QED  BY <1>1, <1>4, <2>1, <2>2 DEF TypedControl
<1>12. Stages'  BY <1>4 DEF IInv, Stages, Hinted
<1>13. \A x : IsTrue(x) => x \in Range(truStack')
  <2>1. ASSUME NEW x, IsTrue(x) PROVE x \in Range(truStack')
    <3>1. PICK k \in 1..Len(truStack) : truStack[k] = x  BY <1>9, <2>1, OnTrail
    <3>2. k \in 1..Len(truStack') /\ truStack'[k] = x  BY <1>8, <1>9, <3>1
    <3> QED  BY <1>8, <3>2, InRange
  <2> QED  BY <2>1
<1>14. l \in Range(truStack')
  <2>1. Len(truStack) + 1 \in 1..Len(truStack')  BY <1>8, <1>9
  <2> QED  BY <1>8, <2>1, InRange
<1>15. Consistently'
  <2>1. CASE IsFalse(l)
    <3>1. pc' = "found" /\ conflict' = l  BY <1>4, <2>1
    <3>2. -l \in Range(truStack')  BY <1>13, <2>1 DEF IsFalse
    <3> QED  BY <1>14, <3>1, <3>2 DEF Consistently, IsTrue, IsFalse
  <2>2. CASE ~IsFalse(l)
    <3>1. UNCHANGED <<pc, conflict, firstUnprocessed, firstHyp>>  BY <1>4, <2>2
    <3>2. ~Unsat'  BY <1>1, <1>3, <1>8, <2>2, NoNewConflict
    <3>3. root => \A n \in 1..Len(truStack') : reasons'[truStack'[n]] # None
      <4> SUFFICES ASSUME root, NEW n \in 1..Len(truStack') PROVE reasons'[truStack'[n]] # None
        OBVIOUS
      <4>1. n \in 1..Len(truStack) \/ n = Len(truStack) + 1  BY <1>8, <1>9
      <4> QED  BY <1>2, <1>5, <1>8, <4>1, NoneIsNoId
    <3>4. cur'.lit = cur.lit  BY <1>1, <1>4 DEF TypedControl
    <3>5. cur'.lit \in Range(truStack')  BY <1>5, <1>13, <3>4
    <3> QED  BY <3>1, <3>2, <3>3, <3>5 DEF Consistently, IsTrue
  <2> QED  BY <2>1, <2>2
<1> QED  BY <1>6, <1>8, <1>10, <1>11, <1>12, <1>15 DEF IInv, Typed, l

LEMMA SkipInv ==
  ASSUME IInv, pc = "visit", UNCHANGED <<context, va, conflict>>,
         UNCHANGED <<stage, goal, rest, unprocessed, root, hints, queue, progress>>,
         \/ pc' = "prop" /\ UNCHANGED cur
         \/ cur' = [cur EXCEPT !.at = @ + 1] /\ UNCHANGED pc
  PROVE  IInv'
<1>1. TypedContext /\ TypedTrail /\ TypedControl /\ Lists /\ TrailInv  BY DEF IInv, Typed
<1>2. UNCHANGED <<names, clauses, marked, watch, truStack, reasons, firstHyp>>
  BY DEF context, va
<1>3. TypedContext' /\ Lists' /\ TypedTrail' /\ TrailInv'  BY Frame
<1>4. /\ cur' \in [class : BOOLEAN, lit : Lits, at : Nat \ {0}] /\ cur'.lit = cur.lit
  BY <1>1, CurNext DEF TypedControl
<1>5. TypedControl'  BY <1>1, <1>2, <1>4 DEF TypedControl, Places
<1>6. Stages'  BY DEF IInv, Stages, Hinted
<1>7. Consistently'  BY <1>2, <1>4 DEF IInv, Consistently, Unsat, UnsatAt, IsTrue
<1> QED  BY <1>3, <1>5, <1>6, <1>7 DEF IInv, Typed

(* The three ways a visit goes on, with the class of the list never wrong.   *)
LEMMA VisitCases ==
  ASSUME IInv, Visit
  PROVE  /\ pc = "visit"
         /\ UNCHANGED <<stage, goal, rest, unprocessed, root, hints, queue, progress>>
         /\ \/ /\ cur.at > Len(watch[cur.class][-cur.lit])
               /\ pc' = "prop"
               /\ UNCHANGED <<context, va, cur, conflict>>
            \/ /\ cur.at <= Len(watch[cur.class][-cur.lit])
               /\ \E i, c :
                    /\ Visited(i, c)
                    /\ \/ /\ IsTrue(c[1]) \/ IsTrue(c[2])
                          /\ cur' = [cur EXCEPT !.at = @ + 1]
                          /\ UNCHANGED <<context, va, pc, conflict>>
                       \/ /\ ~IsTrue(c[1]) /\ ~IsTrue(c[2])
                          /\ \E n \in 3..Len(c) : ~IsFalse(c[n]) /\ Replace(i, c, n)
                       \/ /\ ~IsTrue(c[1]) /\ ~IsTrue(c[2])
                          /\ \A n \in 3..Len(c) : IsFalse(c[n])
                          /\ Imply(i, c)
<1> DEFINE is == watch[cur.class][-cur.lit]
           i == is[cur.at]
           wrong == (i \in marked) # cur.class
           old == clauses[i]
           c == IF old[1] = -cur.lit THEN Swap(old, 1, 2) ELSE old
           free == {n \in 3..Len(c) : ~IsFalse(c[n])}
<1>1. /\ pc = "visit"
      /\ UNCHANGED <<stage, goal, rest, unprocessed, root, hints, queue, progress>>
  BY DEF Visit
<1>2. \/ /\ cur.at > Len(is)
         /\ pc' = "prop"
         /\ UNCHANGED <<context, va, cur, conflict>>
      \/ /\ cur.at <= Len(is)
         /\ \/ /\ wrong \/ IsTrue(c[1]) \/ IsTrue(c[2])
               /\ cur' = [cur EXCEPT !.at = @ + 1]
               /\ UNCHANGED <<context, va, pc, conflict>>
            \/ /\ ~(wrong \/ IsTrue(c[1]) \/ IsTrue(c[2]))
               /\ \E n \in free : Replace(i, c, n)
            \/ /\ ~(wrong \/ IsTrue(c[1]) \/ IsTrue(c[2]))
               /\ free = {}
               /\ Imply(i, c)
  BY DEF Visit
<1>3. Visited(i, c)  BY DEF Visited
<1>4. ASSUME cur.at <= Len(is) PROVE ~wrong
  <2>1. (i \in marked) = cur.class  BY <1>1, <1>3, <1>4, VisitedFacts
  <2> QED  BY <2>1
<1>5. (\E n \in free : Replace(i, c, n)) => \E n \in 3..Len(c) : ~IsFalse(c[n]) /\ Replace(i, c, n)
  OBVIOUS
<1>6. free = {} => \A n \in 3..Len(c) : IsFalse(c[n])  OBVIOUS
<1> HIDE DEF i, c, wrong, free
<1> QED  BY <1>1, <1>2, <1>3, <1>4, <1>5, <1>6

LEMMA VisitInv == ASSUME IInv, Visit PROVE IInv'
<1>1. /\ pc = "visit"
      /\ UNCHANGED <<stage, goal, rest, unprocessed, root, hints, queue, progress>>
  BY VisitCases
<1>2. CASE /\ pc' = "prop"
           /\ UNCHANGED <<context, va, cur, conflict>>
  BY <1>1, <1>2, SkipInv
<1>3. ASSUME cur.at <= Len(watch[cur.class][-cur.lit]), NEW i, NEW c, Visited(i, c),
             \/ /\ IsTrue(c[1]) \/ IsTrue(c[2])
                /\ cur' = [cur EXCEPT !.at = @ + 1]
                /\ UNCHANGED <<context, va, pc, conflict>>
             \/ /\ ~IsTrue(c[1]) /\ ~IsTrue(c[2])
                /\ \E n \in 3..Len(c) : ~IsFalse(c[n]) /\ Replace(i, c, n)
             \/ /\ ~IsTrue(c[1]) /\ ~IsTrue(c[2])
                /\ \A n \in 3..Len(c) : IsFalse(c[n])
                /\ Imply(i, c)
      PROVE  IInv'
  <2>1. CASE /\ cur' = [cur EXCEPT !.at = @ + 1]
             /\ UNCHANGED <<context, va, pc, conflict>>
    BY <1>1, <2>1, SkipInv
  <2>2. CASE /\ ~IsTrue(c[1]) /\ ~IsTrue(c[2])
             /\ \E n \in 3..Len(c) : ~IsFalse(c[n]) /\ Replace(i, c, n)
    BY <1>1, <1>3, <2>2, ReplaceInv
  <2>3. CASE /\ ~IsTrue(c[1]) /\ ~IsTrue(c[2])
             /\ \A n \in 3..Len(c) : IsFalse(c[n])
             /\ Imply(i, c)
    BY <1>1, <1>3, <2>3, ImplyInv
  <2> QED  BY <1>3, <2>1, <2>2, <2>3
<1> QED  BY <1>2, <1>3, VisitCases

-----------------------------------------------------------------------------
(* The theorems.                                                           *)

LEMMA HintSeqs == HintLists \subseteq Seq(names)
<1> SUFFICES ASSUME NEW h \in HintLists PROVE h \in Seq(names)  OBVIOUS
<1>1. PICK n \in 0..MaxHints : h \in [1..n -> names]  BY DEF HintLists
<1>2. n \in Nat  BY Sizes
<1> QED  BY <1>1, <1>2

LEMMA NextInv == IInv /\ [Next]_vars => IInv'
<1> SUFFICES ASSUME IInv, [Next]_vars PROVE IInv'  OBVIOUS
<1>1. CASE \E i \in Ids, c \in Inputs : InsertClause(i, c, c = <<>>)
  <2>1. PICK i \in Ids, c \in Inputs : InsertClause(i, c, c = <<>>)  BY <1>1
  <2>2. (c = <<>>) \in BOOLEAN  OBVIOUS
  <2>3. \A m \in BOOLEAN : InsertClause(i, c, m) => IInv'  BY InsertInv
  <2> QED  BY <2>1, <2>2, <2>3
<1>2. CASE \E i \in Ids : RemoveClause(i) \/ MarkClause(i)  BY <1>2, RemoveInv, MarkInv
<1>3. CASE \E c \in Goals : Step(c, <<>>, FALSE) \/ \E h \in HintLists : Step(c, h, TRUE)
  <2>1. <<>> \in Seq(names)  OBVIOUS
  <2>2. PICK c \in Goals : Step(c, <<>>, FALSE) \/ \E h \in HintLists : Step(c, h, TRUE)
    BY <1>3
  <2>5. c \in Seq(Literals)  BY GoalClauses
  <2>3. CASE Step(c, <<>>, FALSE)  BY <2>1, <2>3, <2>5, StepInv
  <2>4. CASE \E h \in HintLists : Step(c, h, TRUE)  BY <2>4, <2>5, HintSeqs, StepInv
  <2> QED  BY <2>2, <2>3, <2>4
<1>4. CASE StartHint  BY <1>4, StartHintInv
<1>5. CASE UseHint  BY <1>5, UseHintInv
<1>6. CASE HintRound  BY <1>6, HintRoundInv
<1>7. CASE Propagate  BY <1>7, PropagateInv
<1>8. CASE ProcessUnits  BY <1>8, ProcessUnitsInv
<1>9. CASE Assume  BY <1>9, AssumeInv
<1>10. CASE NextPropLit  BY <1>10, NextPropLitInv
<1>11. CASE PropDone  BY <1>11, PropDoneInv
<1>12. CASE Visit  BY <1>12, VisitInv
<1>13. CASE Finish  BY <1>13, FinishInv
<1>14. CASE UNCHANGED vars
  <2>1. UNCHANGED <<context, va, pc, control>>  BY <1>14 DEF vars
  <2>2. UNCHANGED <<pc, names, truStack, reasons, firstHyp, stage, goal, rest, unprocessed, cur,
                    root, conflict, hints, queue, progress>>
    BY <2>1 DEF context, va, control
  <2>3. TypedContext' /\ Lists' /\ TypedTrail' /\ TrailInv'  BY <2>1, <2>2, Frame
  <2>4. TypedControl'  BY <2>2 DEF IInv, Typed, TypedControl
  <2>5. Stages'  BY <2>2 DEF IInv, Stages, Hinted
  <2>6. Consistently'
    BY <2>2 DEF IInv, Consistently, Unsat, UnsatAt, IsTrue, IsFalse
  <2> QED  BY <2>3, <2>4, <2>5, <2>6 DEF IInv, Typed
<1> QED
  BY <1>1, <1>2, <1>3, <1>4, <1>5, <1>6, <1>7, <1>8, <1>9, <1>10, <1>11, <1>12, <1>13, <1>14
     DEF Next, Engine

(* The engine keeps its invariant, whatever clauses come and go and whatever *)
(* steps are asked for.                                                    *)
THEOREM EngineInv == Spec => []IInv
<1>1. Init => IInv  BY InitInv
<1>2. IInv /\ [Next]_vars => IInv'  BY NextInv
<1> QED  BY <1>1, <1>2, PTL DEF Spec

(* The watch lists hold exactly the clauses that self_test() of src/elab.rs   *)
(* expects in them, each once, in the class of its mark.                     *)
THEOREM WatchesAlwaysOk == Spec => []WatchesOk
<1>1. IInv => WatchesOk  BY ListsWatch DEF IInv, Typed
<1> QED  BY <1>1, EngineInv, PTL

(* The trail is a derivation, with a conflict nowhere but at its end and no   *)
(* hypothesis left between steps.                                          *)
THEOREM TrailAlwaysOk == Spec => []TrailOk
<1>1. IInv => TrailOk  BY InvTrail
<1> QED  BY <1>1, EngineInv, PTL

(* What holds the hypotheses of a step and is closed under its unit clauses,  *)
(* without a literal and its complement, holds the trail.                   *)
Closed(S) ==
  \A i \in names :
    \/ clauses[i] # <<>> /\ \E l \in Range(clauses[i]) : l \in S
    \/ Cardinality({l \in Range(clauses[i]) : -l \notin S}) > 1

LEMMA ForcedIn ==
  ASSUME TypedContext, NEW S \in SUBSET Lits, Closed(S), ~ \E l \in S : l # 0 /\ -l \in S,
         NEW n \in Nat, Forced(n), \A m \in 1..n-1 : truStack[m] \in S
  PROVE  truStack[n] \in S /\ truStack[n] # 0
<1> DEFINE i == reasons[truStack[n]]
           c == clauses[i]
           T == {l \in Range(c) : -l \notin S}
<1>1. i \in names /\ c \in Seq(Literals)  BY DEF Forced, TypedContext
<1>2. \A k \in 2..Len(c) : -c[k] \in S  BY DEF Forced
<1>3. truStack[n] = UnitLit(c)  BY DEF Forced
<1>4. (c # <<>> /\ \E l \in Range(c) : l \in S) \/ Cardinality(T) > 1
  BY <1>1 DEF Closed
<1> HIDE DEF i, c
<1>5. \A l \in Range(c) : l = c[1] \/ -l \in S
  <2> SUFFICES ASSUME NEW l \in Range(c), l # c[1] PROVE -l \in S  OBVIOUS
  <2>1. PICK k \in 1..Len(c) : c[k] = l  BY <1>1, InRange
  <2>2. k \in 2..Len(c)  BY <1>1, <2>1
  <2> QED  BY <1>2, <2>1, <2>2
<1>6. ~(Cardinality(T) > 1)
  <2>1. T \subseteq {c[1]}  BY <1>5
  <2>2. IsFiniteSet({c[1]}) /\ Cardinality({c[1]}) = 1  BY FS_Singleton
  <2> HIDE DEF T
  <2>3. Cardinality(T) <= 1 /\ IsFiniteSet(T)  BY <2>1, <2>2, FS_Subset
  <2>4. Cardinality(T) \in Nat  BY <2>3, FS_CardinalityType
  <2> QED  BY <2>3, <2>4
<1>7. c # <<>> /\ \E l \in Range(c) : l \in S  BY <1>4, <1>6
<1>8. PICK l \in Range(c) : l \in S  BY <1>7
<1>9. l \in Literals  BY <1>1, <1>8, InRange
<1>10. l # 0  BY <1>9 DEF Literals
<1>11. l = c[1]  BY <1>5, <1>8, <1>10
<1>12. UnitLit(c) = c[1]  BY <1>7 DEF UnitLit
<1> QED  BY <1>3, <1>8, <1>10, <1>11, <1>12

LEMMA FoundRup ==
  ASSUME IInv, pc = "found"
  PROVE  Rup(goal)
<1>1. TypedContext /\ TypedTrail /\ TypedControl /\ Derivation  BY DEF IInv, Typed, TrailInv
<1> SUFFICES ASSUME NEW S \in SUBSET Lits, Negated(goal) \subseteq S, Closed(S),
                    ~ \E l \in S : l # 0 /\ -l \in S
             PROVE  FALSE
  BY DEF Rup, Refuted, Closed
<1>2. truStack \in Seq(Lits) /\ Len(truStack) \in Nat  BY <1>1 DEF TypedTrail
<1> DEFINE Bad == {n \in 1..Len(truStack) : ~(truStack[n] \in S /\ truStack[n] # 0)}
<1>3. Bad = {}
  <2> SUFFICES ASSUME Bad # {} PROVE FALSE  OBVIOUS
  <2>0. Bad \subseteq Nat  OBVIOUS
  <2>1. PICK n \in Bad : \A y \in Bad : n <= y
    <3> HIDE DEF Bad
    <3> QED  BY <2>0, Least
  <2>2. n \in 1..Len(truStack) /\ n \in Nat /\ ~(truStack[n] \in S /\ truStack[n] # 0)
    OBVIOUS
  <2>3. \A m \in 1..n-1 : truStack[m] \in S
    <3> TAKE m \in 1..n-1
    <3>1. m \in 1..Len(truStack) /\ ~(n <= m)  BY <1>2, <2>2
    <3> QED  BY <2>1, <3>1
  <2>4. IF reasons[truStack[n]] = None THEN Hypothesis(n) ELSE Forced(n)
    BY <1>1, <2>2 DEF Derivation
  <2>5. CASE Forced(n)  BY <1>1, <2>2, <2>3, <2>5, ForcedIn
  <2>6. CASE Hypothesis(n)
    <3>1. PICK l \in Range(goal) : truStack[n] = -l  BY <2>6 DEF Hypothesis, Negated
    <3>2. l \in Literals  BY <1>1, <3>1, InRange DEF TypedControl
    <3>3. -l # 0  BY <3>2, Sizes DEF Literals, Lits
    <3>4. truStack[n] \in Negated(goal)  BY <2>6 DEF Hypothesis
    <3> QED  BY <2>2, <3>1, <3>3, <3>4
  <2> QED  BY <2>4, <2>5, <2>6
<1>4. \A x : IsTrue(x) => x \in S /\ x # 0  BY <1>2, <1>3, OnTrail
<1>5. IsTrue(conflict) /\ IsTrue(-conflict)  BY DEF IInv, Consistently, IsFalse
<1> QED  BY <1>4, <1>5

(* A clause that the engine accepts follows by unit propagation from the      *)
(* clauses that are there, whatever units earlier steps left on the trail.    *)
Sound == pc = "found" => Rup(goal)
THEOREM EngineSound == Spec => []Sound
<1>1. IInv => Sound  BY FoundRup DEF Sound
<1> QED  BY <1>1, EngineInv, PTL

-----------------------------------------------------------------------------
(* Propagation misses nothing: the second invariant.                       *)

(* How much of the trail the clauses of class m have been told of, and how    *)
(* much of it holds without the hypotheses of the step.                     *)
Reach(m) ==
  IF pc \in {"prop", "visit"} THEN unprocessed[m]
  ELSE IF pc = "found" /\ firstHyp < firstUnprocessed THEN firstHyp
  ELSE firstUnprocessed
Ground == IF pc \in {"prop", "visit"} /\ root THEN Len(truStack) ELSE firstHyp

(* Clause i is still to be visited for its false literal a.                 *)
Due(i, a) ==
  /\ pc = "visit" /\ cur.class = (i \in marked) /\ cur.lit = -a
  /\ \E k \in cur.at..Len(watch[cur.class][-cur.lit]) : watch[cur.class][-cur.lit][k] = i

(* When the watched literal a has become false the other one is true, and     *)
(* stays so as long as a stays false.                                      *)
Seen(i, a, b) ==
  \A n \in 1..Len(truStack) : n <= Reach(i \in marked) /\ truStack[n] = -a =>
    \/ Due(i, a)
    \/ \E p \in 1..Len(truStack) : truStack[p] = b /\ (n <= Ground => p <= Ground)

Watches2(c, a, b) == Len(c) >= 2 /\ <<a, b>> \in {<<c[1], c[2]>>, <<c[2], c[1]>>}
Watched ==
  ~UnsatAt(firstHyp) =>
    \A i \in names, a \in Lits, b \in Lits : Watches2(clauses[i], a, b) => Seen(i, a, b)

UnitsIn ==
  unitsProcessed /\ ~UnsatAt(firstHyp) =>
    \A i \in UnitClauses : \E p \in 1..firstHyp : truStack[p] = UnitLit(clauses[i])

Propagating == pc \in {"prop", "visit"}
Marks ==
  /\ (Propagating \/ pc \in {"assume", "hints", "stuck"}) => unitsProcessed
  /\ pc = "assume" /\ stage = "goal" => firstHyp <= firstUnprocessed
  /\ pc = "units" /\ stage = "root" => \A m \in BOOLEAN : unprocessed[m] = firstUnprocessed
  /\ Propagating => \A m \in BOOLEAN : /\ unprocessed[m] <= Len(truStack)
                                       /\ ~root => firstHyp <= unprocessed[m]
  /\ pc = "visit" => /\ unprocessed[cur.class] > 0
                     /\ truStack[unprocessed[cur.class]] = cur.lit
                     /\ ~root => firstHyp < unprocessed[cur.class]
  /\ pc = "stuck" \/ (pc = "assume" /\ stage = "goal" /\ rest = goal) =>
       firstUnprocessed = Len(truStack)
  /\ pc = "stuck" /\ stage = "root" => goal = <<>>

(* Past the literals left to assume, the goal is false.                     *)
Assumed ==
  stage = "goal" /\ (Propagating \/ pc \in {"assume", "stuck"}) =>
    /\ Len(rest) <= Len(goal) /\ (pc # "assume" => rest = <<>>)
    /\ \A l \in Range(goal) : l \in Range(rest) \/ IsFalse(l)

Propagated == Watched /\ UnitsIn /\ Marks /\ Assumed
SInv == IInv /\ Propagated

-----------------------------------------------------------------------------
(* Lemmas that the actions share.                                          *)

LEMMA Facts ==
  ASSUME IInv
  PROVE  /\ TypedContext /\ TypedTrail /\ TypedControl /\ Lists /\ Derivation /\ ConflictLast
         /\ truStack \in Seq(Lits) /\ IsInjective(truStack) /\ Len(truStack) \in Nat
         /\ firstHyp \in 0..Len(truStack) /\ firstUnprocessed \in 0..Len(truStack)
         /\ \A m : m \in BOOLEAN => unprocessed[m] \in Nat
<1>1. TypedContext /\ TypedTrail /\ TypedControl /\ Lists /\ Derivation /\ ConflictLast
  BY DEF IInv, Typed, TrailInv
<1> QED  BY <1>1 DEF TypedTrail, TypedControl

LEMMA ReachTypes ==
  ASSUME IInv, Marks, NEW m \in BOOLEAN
  PROVE  Reach(m) \in 0..Len(truStack) /\ Ground \in 0..Len(truStack)
<1>1. Propagating => unprocessed[m] <= Len(truStack)  BY DEF Marks
<1>2. /\ Len(truStack) \in Nat /\ firstHyp \in 0..Len(truStack)
      /\ firstUnprocessed \in 0..Len(truStack) /\ unprocessed[m] \in Nat
  BY Facts
<1>3. Reach(m) \in 0..Len(truStack)  BY <1>1, <1>2 DEF Reach, Propagating
<1>4. Ground \in 0..Len(truStack)  BY <1>2 DEF Ground
<1> QED  BY <1>3, <1>4

(* Where the clauses of class m were told of less of the trail than before,  *)
(* of a part of it that stays, none of them has missed a literal.           *)
LEMMA SeenStep ==
  ASSUME IInv, Marks, NEW i, NEW a, NEW b, Seen(i, a, b),
         NEW k \in 0..Len(truStack), k <= Len(truStack'), Len(truStack') \in Nat,
         \A h \in 1..k : truStack'[h] = truStack[h],
         NEW R \in Nat, NEW S \in Nat, R = Reach(i \in marked), S = Reach(i \in marked)',
         S <= R, S <= k,
         NEW G \in Nat, NEW H \in Nat, G = Ground, H = Ground',
         k = Len(truStack) \/ k = G, H = G \/ k <= H,
         \A n \in 1..k : n <= S /\ truStack[n] = -a /\ Due(i, a) => Due(i, a)'
  PROVE  Seen(i, a, b)'
<1> SUFFICES ASSUME NEW n \in 1..Len(truStack'), n <= S, truStack'[n] = -a
             PROVE  \/ Due(i, a)'
                    \/ \E p \in 1..Len(truStack') : truStack'[p] = b /\ (n <= H => p <= H)
  BY DEF Seen
<1>1. n \in 1..k /\ n \in 1..Len(truStack) /\ n <= R  BY Facts
<1>2. truStack[n] = -a  BY <1>1
<1>3. CASE Due(i, a)  BY <1>1, <1>2, <1>3
<1>4. ASSUME NEW p \in 1..Len(truStack), truStack[p] = b, n <= G => p <= G
      PROVE  \E q \in 1..Len(truStack') : truStack'[q] = b /\ (n <= H => q <= H)
  <2>1. p \in 1..k  BY <1>1, <1>4
  <2>2. p \in 1..Len(truStack') /\ truStack'[p] = b  BY <1>4, <2>1
  <2>3. n <= H => p <= H  BY <1>1, <1>4, <2>1
  <2> QED  BY <2>2, <2>3
<1> QED  BY <1>1, <1>2, <1>3, <1>4 DEF Seen

LEMMA SameUnsat ==
  ASSUME IInv, firstHyp' = firstHyp, \A k \in 1..firstHyp : truStack'[k] = truStack[k]
  PROVE  UnsatAt(firstHyp)' <=> UnsatAt(firstHyp)
<1>1. firstHyp \in Nat  BY Facts
<1> QED  BY <1>1 DEF UnsatAt

LEMMA SatAt ==
  ASSUME IInv, ~Unsat
  PROVE  ~UnsatAt(firstHyp)
  BY Facts, NoConflictAt

(* The clauses stay as they are, the trail up to k.                        *)
Kept(k) ==
  /\ k \in 0..Len(truStack) /\ Len(truStack') \in Nat /\ k <= Len(truStack')
  /\ \A h \in 1..k : truStack'[h] = truStack[h]
  /\ k = Len(truStack) \/ k = Ground
  /\ Ground' \in Nat /\ (Ground' = Ground \/ k <= Ground')
  /\ \A m \in BOOLEAN : Reach(m)' \in Nat /\ Reach(m)' <= Reach(m) /\ Reach(m)' <= k

LEMMA WatchedFrame ==
  ASSUME IInv, Marks, Watched, UNCHANGED context, UnsatAt(firstHyp) => UnsatAt(firstHyp)',
         NEW k, Kept(k),
         \A i, a : \A n \in 1..k :
           n <= Reach(i \in marked)' /\ truStack[n] = -a /\ Due(i, a) => Due(i, a)'
  PROVE  Watched'
<1> SUFFICES ASSUME ~UnsatAt(firstHyp), NEW i \in names, NEW a \in Lits, NEW b \in Lits,
                    Watches2(clauses[i], a, b)
             PROVE  Seen(i, a, b)'
  BY DEF Watched, context, Watches2
<1>1. Seen(i, a, b)  BY DEF Watched
<1>2. (i \in marked)' = (i \in marked) /\ (i \in marked) \in BOOLEAN  BY DEF context
<1> DEFINE R == Reach(i \in marked)
           S == Reach(i \in marked)'
           G == Ground
           H == Ground'
<1>3. R \in Nat /\ G \in Nat
  <2>1. R \in 0..Len(truStack) /\ G \in 0..Len(truStack)  BY <1>2, ReachTypes
  <2> QED  BY <2>1, Facts
<1>4. S \in Nat /\ S <= R /\ S <= k
  <2>1. \A m \in BOOLEAN : Reach(m)' \in Nat /\ Reach(m)' <= Reach(m) /\ Reach(m)' <= k
    BY DEF Kept
  <2> QED  BY <1>2, <2>1 DEF Reach
<1>5. /\ k \in 0..Len(truStack) /\ Len(truStack') \in Nat /\ k <= Len(truStack')
      /\ \A h \in 1..k : truStack'[h] = truStack[h]
      /\ k = Len(truStack) \/ k = G
      /\ H \in Nat /\ (H = G \/ k <= H)
  BY DEF Kept
<1>6. \A n \in 1..k : n <= S /\ truStack[n] = -a /\ Due(i, a) => Due(i, a)'
  OBVIOUS
<1> QED  BY <1>1, <1>3, <1>4, <1>5, <1>6, SeenStep

LEMMA UnitsFrame ==
  ASSUME IInv, UnitsIn, UNCHANGED names, unitsProcessed' => unitsProcessed,
         \A i \in names : Len(clauses'[i]) = Len(clauses[i])
                          /\ (Len(clauses[i]) <= 1 => clauses'[i] = clauses[i]),
         UnsatAt(firstHyp) => UnsatAt(firstHyp)', firstHyp' \in Nat, firstHyp <= firstHyp',
         \A k \in 1..firstHyp : truStack'[k] = truStack[k]
  PROVE  UnitsIn'
<1> SUFFICES ASSUME unitsProcessed, ~UnsatAt(firstHyp), NEW i \in names, Len(clauses'[i]) <= 1
             PROVE  \E p \in 1..firstHyp' : truStack'[p] = UnitLit(clauses'[i])
  BY DEF UnitsIn, UnitClauses, UnitLit
<1>1. clauses'[i] = clauses[i] /\ i \in UnitClauses  BY DEF UnitClauses
<1>2. PICK p \in 1..firstHyp : truStack[p] = UnitLit(clauses[i])  BY <1>1 DEF UnitsIn
<1>3. p \in 1..firstHyp'  BY Facts
<1> QED  BY <1>1, <1>2, <1>3

-----------------------------------------------------------------------------
(* The actions that leave the clauses alone.                               *)

(* Nothing changes but the place, and no class is told of more.             *)
LEMMA Elsewhere ==
  ASSUME SInv, UNCHANGED context, UNCHANGED va, Ground' = Ground,
         \A m \in BOOLEAN : Reach(m)' \in Nat /\ Reach(m)' <= Reach(m), pc # "visit"
  PROVE  Watched' /\ UnitsIn'
<1>1. IInv /\ Marks /\ Watched /\ UnitsIn  BY DEF SInv, Propagated
<1>2. UNCHANGED <<names, clauses, truStack, firstHyp, unitsProcessed>>  BY DEF context, va
<1>3. UnsatAt(firstHyp)' <=> UnsatAt(firstHyp)  BY <1>1, <1>2, SameUnsat
<1> DEFINE k == Len(truStack)
<1>4. k \in Nat /\ firstHyp \in Nat  BY <1>1, Facts
<1>5. Ground \in 0..k /\ \A m \in BOOLEAN : Reach(m) \in 0..k  BY <1>1, ReachTypes
<1>6. Kept(k)
  <2>1. \A m \in BOOLEAN : Reach(m)' <= k  BY <1>4, <1>5
  <2> QED  BY <1>2, <1>4, <1>5, <2>1 DEF Kept
<1>7. \A i, a : \A n \in 1..k :
        n <= Reach(i \in marked)' /\ truStack[n] = -a /\ Due(i, a) => Due(i, a)'
  BY DEF Due
<1> HIDE DEF k
<1>8. Watched'  BY <1>1, <1>3, <1>6, <1>7, WatchedFrame
<1>9. UnitsIn'  BY <1>1, <1>2, <1>3, <1>4, UnitsFrame
<1> QED  BY <1>8, <1>9

LEMMA StepS ==
  ASSUME SInv, IInv', NEW c, NEW h, NEW given \in BOOLEAN, Step(c, h, given)
  PROVE  Propagated'
<1>1. /\ pc = "idle" /\ UNCHANGED context /\ UNCHANGED va
      /\ pc' = IF given THEN "hint" ELSE "propagate"
      /\ stage' = IF h = <<>> THEN "empty" ELSE "hint"
  BY DEF Step
<1>2. IInv /\ Marks  BY DEF SInv, Propagated
<1>3. UNCHANGED <<firstHyp, firstUnprocessed, truStack>>  BY <1>1 DEF va
<1>4. \A m \in BOOLEAN : Reach(m)' \in Nat /\ Reach(m)' <= Reach(m)
  BY <1>1, <1>2, <1>3, Facts DEF Reach
<1>5. Ground' = Ground  BY <1>1, <1>3 DEF Ground
<1>6. Watched' /\ UnitsIn'  BY <1>1, <1>4, <1>5, Elsewhere
<1>7. Marks'  BY <1>1 DEF Marks, Propagating
<1>8. Assumed'  BY <1>1 DEF Assumed, Propagating
<1> QED  BY <1>6, <1>7, <1>8 DEF Propagated

LEMMA StartHintS == ASSUME SInv, IInv', StartHint PROVE Propagated'
<1>1. pc = "hint" /\ UNCHANGED context /\ UNCHANGED va  BY DEF StartHint
<1>2. /\ pc' = "found" \/ (pc' = IF unitsProcessed THEN "assume" ELSE "units")
      /\ UNCHANGED stage
  BY DEF StartHint, Found
<1>3. UNCHANGED <<firstHyp, firstUnprocessed, truStack, unitsProcessed>>  BY <1>1 DEF va
<1>4. IInv /\ Hinted  BY <1>1 DEF SInv, IInv, Stages
<1>5. \A m \in BOOLEAN : Reach(m)' \in Nat /\ Reach(m)' <= Reach(m)
  BY <1>1, <1>2, <1>3, <1>4, Facts DEF Reach
<1>6. Ground' = Ground  BY <1>1, <1>2, <1>3 DEF Ground
<1>7. Watched' /\ UnitsIn'  BY <1>1, <1>5, <1>6, Elsewhere
<1>8. Marks'  BY <1>2, <1>3, <1>4 DEF Marks, Propagating, Hinted
<1>9. Assumed'  BY <1>2, <1>4 DEF Assumed, Propagating, Hinted
<1> QED  BY <1>7, <1>8, <1>9 DEF Propagated

LEMMA EndS ==
  ASSUME SInv, pc \in {"hints", "found"}, EndStep, ClearTo(firstHyp),
         UNCHANGED <<context, firstHyp, unitsProcessed>>
  PROVE  Propagated'
<1>1. IInv /\ Marks /\ Watched /\ UnitsIn  BY DEF SInv, Propagated
<1>2. /\ TypedTrail /\ truStack \in Seq(Lits) /\ Len(truStack) \in Nat /\ firstHyp \in 0..Len(truStack)
      /\ firstUnprocessed \in 0..Len(truStack) /\ firstHyp \in Nat /\ firstUnprocessed \in Nat
  BY <1>1, Facts
<1>3. CutTo(firstHyp) /\ firstUnprocessed' = IF firstHyp < firstUnprocessed THEN firstHyp
                                             ELSE firstUnprocessed
  BY ClearCuts
<1>4. Len(truStack') = firstHyp /\ \A k \in 1..firstHyp : truStack'[k] = truStack[k]
  BY <1>2, <1>3, Cut
<1>5. pc' = "idle" /\ UNCHANGED <<context, names, clauses>>  BY DEF EndStep, context
<1>6. UnsatAt(firstHyp)' <=> UnsatAt(firstHyp)  BY <1>1, <1>4, SameUnsat
<1>7. \A m \in BOOLEAN : Reach(m)' \in Nat /\ Reach(m)' <= Reach(m) /\ Reach(m)' <= firstHyp
  BY <1>2, <1>3, <1>5 DEF Reach
<1>8. Ground = firstHyp /\ Ground' = firstHyp  BY <1>5 DEF Ground
<1>9. Kept(firstHyp)  BY <1>2, <1>4, <1>7, <1>8 DEF Kept
<1>10. \A i, a : ~Due(i, a)  BY DEF Due
<1>11. Watched'  BY <1>1, <1>5, <1>6, <1>9, <1>10, WatchedFrame
<1>12. UnitsIn'  BY <1>1, <1>2, <1>4, <1>5, <1>6, UnitsFrame
<1>13. Marks'  BY <1>5 DEF Marks, Propagating
<1>14. Assumed'  BY <1>5 DEF Assumed, Propagating
<1> QED  BY <1>11, <1>12, <1>13, <1>14 DEF Propagated

LEMMA HintRoundS == ASSUME SInv, IInv', HintRound PROVE Propagated'
<1>1. pc = "hints" /\ UNCHANGED context  BY DEF HintRound
<1>2. IInv /\ Marks /\ Hinted  BY <1>1 DEF SInv, Propagated, IInv, Stages
<1>3. CASE EndStep /\ ClearTo(firstHyp) /\ UNCHANGED <<firstHyp, unitsProcessed>>
  BY <1>1, <1>3, EndS
<1>4. CASE UNCHANGED <<va, stage>> /\ pc' \in {"hints", "propagate"}
  <2>1. UNCHANGED <<firstHyp, firstUnprocessed, truStack, unitsProcessed>>  BY <1>4 DEF va
  <2>2. \A m \in BOOLEAN : Reach(m)' \in Nat /\ Reach(m)' <= Reach(m)
    BY <1>1, <1>2, <1>4, <2>1, Facts DEF Reach
  <2>3. Ground' = Ground  BY <1>1, <1>4, <2>1 DEF Ground
  <2>4. Watched' /\ UnitsIn'  BY <1>1, <1>4, <2>2, <2>3, Elsewhere
  <2>5. Marks'  BY <1>1, <1>2, <1>4, <2>1 DEF Marks, Propagating
  <2>6. Assumed'  BY <1>2, <1>4 DEF Assumed, Propagating, Hinted
  <2> QED  BY <2>4, <2>5, <2>6 DEF Propagated
<1>5. \/ EndStep /\ ClearTo(firstHyp) /\ UNCHANGED <<firstHyp, unitsProcessed>>
      \/ UNCHANGED <<va, stage>> /\ pc' \in {"hints", "propagate"}
  BY <1>1 DEF HintRound, control
<1> QED  BY <1>3, <1>4, <1>5

LEMMA FinishS == ASSUME SInv, IInv', Finish PROVE Propagated'
  BY EndS DEF Finish

LEMMA PropagateS == ASSUME SInv, IInv', Propagate PROVE Propagated'
<1>1. pc = "propagate" /\ UNCHANGED context  BY DEF Propagate
<1>2. IInv /\ Marks /\ Watched /\ UnitsIn  BY DEF SInv, Propagated
<1>3. /\ TypedTrail /\ truStack \in Seq(Lits) /\ Len(truStack) \in Nat /\ firstHyp \in 0..Len(truStack)
      /\ firstUnprocessed \in 0..Len(truStack) /\ firstHyp \in Nat /\ firstUnprocessed \in Nat
  BY <1>2, Facts
<1>4. Ground = firstHyp /\ \A m \in BOOLEAN : Reach(m) = firstUnprocessed
  BY <1>1 DEF Ground, Reach
<1>5. CASE pc' = "found" /\ UNCHANGED va
  <2>1. UNCHANGED <<firstHyp, firstUnprocessed, truStack>>  BY <1>5 DEF va
  <2>2. Ground' = Ground  BY <1>4, <1>5, <2>1 DEF Ground
  <2>3. \A m \in BOOLEAN : Reach(m)' \in Nat /\ Reach(m)' <= Reach(m)
    BY <1>3, <1>4, <1>5, <2>1 DEF Reach
  <2>4. Watched' /\ UnitsIn'  BY <1>1, <1>5, <2>2, <2>3, Elsewhere
  <2>5. Marks' /\ Assumed'  BY <1>5 DEF Marks, Assumed, Propagating
  <2> QED  BY <2>4, <2>5 DEF Propagated
<1>6. CASE /\ IF firstHyp < Len(truStack) THEN ClearTo(firstHyp)
              ELSE UNCHANGED <<truStack, reasons, firstUnprocessed>>
           /\ UNCHANGED <<firstHyp, unitsProcessed>>
           /\ \/ pc' = "found"
              \/ /\ stage' = "root"
                 /\ root' = TRUE
                 /\ unprocessed' = [m \in BOOLEAN |-> firstUnprocessed']
                 /\ pc' = IF unitsProcessed THEN "prop" ELSE "units"
  <2>1. /\ Len(truStack') = firstHyp /\ \A k \in 1..firstHyp : truStack'[k] = truStack[k]
        /\ firstUnprocessed' \in Nat
        /\ firstUnprocessed' <= firstUnprocessed /\ firstUnprocessed' <= firstHyp
    <3>1. CASE firstHyp < Len(truStack)
      <4>1. CutTo(firstHyp) /\ firstUnprocessed' = IF firstHyp < firstUnprocessed THEN firstHyp
                                                   ELSE firstUnprocessed
        BY <1>6, <3>1, ClearCuts
      <4> QED  BY <1>3, <4>1, Cut
    <3>2. CASE ~(firstHyp < Len(truStack))  BY <1>3, <1>6, <3>2
    <3> QED  BY <3>1, <3>2
  <2>2. UnsatAt(firstHyp)' <=> UnsatAt(firstHyp)  BY <1>2, <1>6, <2>1, SameUnsat
  <2>3. Ground' = firstHyp  BY <1>6, <2>1 DEF Ground
  <2>4. \A m \in BOOLEAN : Reach(m)' \in Nat /\ Reach(m)' <= Reach(m) /\ Reach(m)' <= firstHyp
    <3> SUFFICES ASSUME NEW m \in BOOLEAN
                 PROVE  Reach(m)' = firstUnprocessed' \/ (pc' = "found" /\ Reach(m)' = firstHyp'
                                                          /\ firstHyp' < firstUnprocessed')
      BY <1>3, <1>4, <1>6, <2>1
    <3>1. pc' = "prop" => unprocessed'[m] = firstUnprocessed'  BY <1>6
    <3>2. pc' # "visit"  BY <1>6
    <3> QED  BY <3>1, <3>2 DEF Reach
  <2>5. Kept(firstHyp)  BY <1>3, <1>4, <2>1, <2>3, <2>4 DEF Kept
  <2>6. \A i, a : ~Due(i, a)  BY <1>1 DEF Due
  <2>7. Watched'  BY <1>1, <1>2, <2>2, <2>5, <2>6, WatchedFrame
  <2>8. UNCHANGED <<names, clauses>>  BY <1>1 DEF context
  <2>9. UnitsIn'  BY <1>2, <1>3, <1>6, <2>1, <2>2, <2>8, UnitsFrame
  <2>10. Marks'
    <3>1. CASE pc' = "found"  BY <3>1 DEF Marks, Propagating
    <3>2. CASE /\ stage' = "root" /\ root' = TRUE
               /\ unprocessed' = [m \in BOOLEAN |-> firstUnprocessed']
               /\ pc' = IF unitsProcessed THEN "prop" ELSE "units"
      <4>1. \A m \in BOOLEAN : unprocessed'[m] = firstUnprocessed'
                               /\ unprocessed'[m] <= Len(truStack')
        BY <2>1, <3>2
      <4> QED  BY <1>6, <3>2, <4>1 DEF Marks, Propagating
    <3> QED  BY <1>6, <3>1, <3>2
  <2>11. Assumed'  BY <1>6 DEF Assumed, Propagating
  <2> QED  BY <2>7, <2>9, <2>10, <2>11 DEF Propagated
<1>7. CASE /\ unitsProcessed /\ firstUnprocessed >= firstHyp
           /\ stage' = "root"
           /\ root' = (firstHyp >= Len(truStack))
           /\ unprocessed' = [m \in BOOLEAN |-> firstUnprocessed]
           /\ pc' = "prop"
           /\ UNCHANGED va
  <2>1. UNCHANGED <<firstHyp, firstUnprocessed, truStack, unitsProcessed>>  BY <1>7 DEF va
  <2>2. root' => firstHyp >= Len(truStack)  BY <1>7
  <2>3. Ground' = Ground
    <3>1. root' => Ground' = Len(truStack')  BY <1>7 DEF Ground
    <3>2. ~root' => Ground' = firstHyp'  BY DEF Ground
    <3> QED  BY <1>3, <1>4, <2>1, <2>2, <3>1, <3>2
  <2>4. \A m \in BOOLEAN : unprocessed'[m] = firstUnprocessed  BY <1>7
  <2>5. \A m \in BOOLEAN : Reach(m)' \in Nat /\ Reach(m)' <= Reach(m)
    BY <1>3, <1>4, <1>7, <2>4 DEF Reach
  <2>6. Watched' /\ UnitsIn'  BY <1>1, <1>7, <2>3, <2>5, Elsewhere
  <2>7. \A m \in BOOLEAN : unprocessed'[m] <= Len(truStack') /\ firstHyp' <= unprocessed'[m]
    BY <1>3, <1>7, <2>1, <2>4
  <2>8. Marks'  BY <1>7, <2>1, <2>7 DEF Marks, Propagating
  <2>9. Assumed'  BY <1>7 DEF Assumed, Propagating
  <2> QED  BY <2>6, <2>8, <2>9 DEF Propagated
<1> QED  BY <1>5, <1>6, <1>7 DEF Propagate, Found

(* The trail grows, or not, by the literal l.                               *)
LEMMA Grows ==
  ASSUME IInv, NEW l \in Lits, NEW r \in Ids \union {None}, Assign(l, r)
  PROVE  /\ Len(truStack') \in Nat /\ Len(truStack) <= Len(truStack')
         /\ \A k \in 1..Len(truStack) : truStack'[k] = truStack[k]
         /\ l \in Range(truStack') /\ \A x : IsTrue(x) => x \in Range(truStack')
         /\ IsTrue(l) => truStack' = truStack
         /\ ~IsTrue(l) => Len(truStack') = Len(truStack) + 1 /\ truStack'[Len(truStack')] = l
<1>1. TypedTrail /\ truStack \in Seq(Lits) /\ Len(truStack) \in Nat  BY Facts
<1>2. /\ truStack' \in Seq(Lits)
      /\ \A k \in 1..Len(truStack) : truStack'[k] = truStack[k]
      /\ IsTrue(l) => truStack' = truStack
      /\ ~IsTrue(l) => Len(truStack') = Len(truStack) + 1 /\ truStack'[Len(truStack) + 1] = l
  BY <1>1, Assigned
<1>3. Len(truStack') \in Nat /\ Len(truStack) <= Len(truStack')  BY <1>1, <1>2
<1>4. \A x : IsTrue(x) => x \in Range(truStack')
  <2> SUFFICES ASSUME NEW x, IsTrue(x) PROVE x \in Range(truStack')  OBVIOUS
  <2>1. PICK k \in 1..Len(truStack) : truStack[k] = x  BY <1>1, OnTrail
  <2>2. k \in 1..Len(truStack') /\ truStack'[k] = x  BY <1>1, <1>2, <1>3, <2>1
  <2> QED  BY <1>2, <2>2, InRange
<1>5. l \in Range(truStack')
  <2>1. CASE IsTrue(l)  BY <1>4, <2>1
  <2>2. CASE ~IsTrue(l)
    <3>1. Len(truStack) + 1 \in 1..Len(truStack')  BY <1>1, <1>2, <2>2
    <3> QED  BY <1>2, <2>2, <3>1, InRange
  <2> QED  BY <2>1, <2>2
<1> QED  BY <1>1, <1>2, <1>3, <1>4, <1>5

LEMMA ProcessUnitsS == ASSUME SInv, IInv', ProcessUnits PROVE Propagated'
<1> DEFINE new == {i \in UnitClauses : ~IsTrue(UnitLit(clauses[i]))}
<1>1. /\ pc = "units" /\ UNCHANGED context
      /\ UNCHANGED <<firstUnprocessed, stage, goal, rest, unprocessed, cur, root>>
  BY DEF ProcessUnits
<1>2. IInv /\ Marks /\ Watched /\ UnitsIn  BY DEF SInv, Propagated
<1>3. /\ TypedTrail /\ truStack \in Seq(Lits) /\ Len(truStack) \in Nat /\ firstHyp \in 0..Len(truStack)
      /\ firstUnprocessed \in 0..Len(truStack) /\ firstHyp \in Nat /\ firstUnprocessed \in Nat
      /\ TypedContext
  BY <1>2, Facts
<1>4. Ground = firstHyp /\ \A m \in BOOLEAN : Reach(m) = firstUnprocessed
  BY <1>1 DEF Ground, Reach
<1>5. firstHyp = Len(truStack) /\ ~Unsat /\ stage # "goal" /\ (Hinted \/ root)
  BY <1>1, <1>2 DEF IInv, Consistently, Stages
<1>6. \A i, a : ~Due(i, a)  BY <1>1 DEF Due
<1>7. UNCHANGED <<names, clauses>>  BY <1>1 DEF context
<1>8. Hinted \/ stage = "root"  BY <1>2, <1>5, Facts DEF TypedControl, Hinted
<1>9. CASE /\ new = {}
           /\ unitsProcessed' = TRUE
           /\ pc' = IF Hinted THEN "assume" ELSE "prop"
           /\ UNCHANGED <<truStack, reasons, firstHyp, conflict>>
  <2>1. Ground' = Ground
    <3>1. Ground' = Len(truStack') \/ Ground' = firstHyp'  BY DEF Ground
    <3> QED  BY <1>4, <1>5, <1>9, <3>1
  <2>2. \A m \in BOOLEAN : Reach(m)' = firstUnprocessed
    <3> SUFFICES ASSUME NEW m \in BOOLEAN PROVE Reach(m)' = firstUnprocessed  OBVIOUS
    <3>1. CASE Hinted  BY <1>1, <1>9, <3>1 DEF Reach
    <3>2. CASE ~Hinted
      <4>1. unprocessed'[m] = firstUnprocessed  BY <1>1, <1>2, <1>8, <3>2 DEF Marks
      <4> QED  BY <1>9, <3>2, <4>1 DEF Reach
    <3> QED  BY <3>1, <3>2
  <2>3. Kept(Len(truStack))  BY <1>3, <1>4, <1>5, <1>9, <2>1, <2>2 DEF Kept
  <2>4. UnsatAt(firstHyp)' <=> UnsatAt(firstHyp)  BY <1>2, <1>9, SameUnsat
  <2>5. Watched'  BY <1>1, <1>2, <1>6, <2>3, <2>4, WatchedFrame
  <2>6. UnitsIn'
    <3> SUFFICES ASSUME NEW i \in UnitClauses
                 PROVE  \E p \in 1..firstHyp : truStack[p] = UnitLit(clauses[i])
      BY <1>7, <1>9 DEF UnitsIn, UnitClauses, UnitLit
    <3>1. IsTrue(UnitLit(clauses[i]))  BY <1>9
    <3> QED  BY <1>3, <1>5, <3>1, OnTrail
  <2>7. Marks'
    <3>1. CASE Hinted  BY <1>1, <1>9, <3>1 DEF Marks, Propagating, Hinted
    <3>2. CASE ~Hinted
      <4>1. pc' = "prop" /\ root' = TRUE  BY <1>1, <1>2, <1>5, <1>9, <3>2, Facts DEF TypedControl
      <4>2. \A m \in BOOLEAN : unprocessed'[m] <= Len(truStack')
        BY <1>1, <1>2, <1>3, <1>8, <1>9, <3>2 DEF Marks
      <4> QED  BY <1>1, <1>9, <4>1, <4>2 DEF Marks, Propagating
    <3> QED  BY <3>1, <3>2
  <2>8. Assumed'  BY <1>1, <1>5 DEF Assumed
  <2> QED  BY <2>5, <2>6, <2>7, <2>8 DEF Propagated
<1>10. ASSUME NEW i \in new,
              AddUnit(UnitLit(clauses[i]), i),
              UNCHANGED unitsProcessed,
              pc' = "found" \/ UNCHANGED pc
       PROVE  Propagated'
  <2> DEFINE l == UnitLit(clauses[i])
  <2>1. l \in Lits /\ i \in Ids \union {None}
    <3>1. i \in names /\ i \in Ids /\ clauses[i] \in Seq(Literals)
      BY <1>3 DEF TypedContext, UnitClauses
    <3>2. clauses[i] = <<>> => l = 0 /\ 0 \in Lits  BY Sizes DEF UnitLit, Lits
    <3>3. clauses[i] # <<>> => l = clauses[i][1] /\ l \in Lits
      BY <3>1 DEF UnitLit, Literals
    <3> QED  BY <3>1, <3>2, <3>3
  <2>2. ~IsTrue(l) /\ Assign(l, i) /\ firstHyp' = firstHyp + 1  BY <1>10 DEF AddUnit
  <2> HIDE DEF l
  <2>3. /\ \A k \in 1..Len(truStack) : truStack'[k] = truStack[k]
        /\ Len(truStack') = Len(truStack) + 1
    BY <1>2, <2>1, <2>2, Grows
  <2>4. ~UnsatAt(firstHyp)  BY <1>2, <1>5, SatAt
  <2>5. Ground' = firstHyp + 1
    <3>1. pc' \in {"units", "found"}  BY <1>1, <1>10
    <3> QED  BY <2>2, <3>1 DEF Ground
  <2>6. \A m \in BOOLEAN : Reach(m)' = firstUnprocessed
    <3>1. pc' \in {"units", "found"} /\ ~(firstHyp' < firstUnprocessed')
      BY <1>1, <1>3, <1>5, <1>10, <2>2
    <3> QED  BY <1>1, <3>1 DEF Reach
  <2>7. Kept(Len(truStack))  BY <1>3, <1>4, <1>5, <2>3, <2>5, <2>6 DEF Kept
  <2>8. Watched'  BY <1>1, <1>2, <1>6, <2>4, <2>7, WatchedFrame
  <2>9. UnitsIn'
    <3>1. firstHyp' \in Nat /\ firstHyp <= firstHyp'  BY <1>3, <2>2
    <3>2. \A k \in 1..firstHyp : truStack'[k] = truStack[k]  BY <1>5, <2>3
    <3> QED  BY <1>2, <1>7, <1>10, <2>4, <3>1, <3>2, UnitsFrame
  <2>10. Marks'
    <3>1. pc' \in {"units", "found"}  BY <1>1, <1>10
    <3>2. pc' = "units" /\ stage' = "root" => \A m \in BOOLEAN : unprocessed'[m] = firstUnprocessed'
      BY <1>1, <1>2 DEF Marks
    <3> QED  BY <3>1, <3>2 DEF Marks, Propagating
  <2>11. Assumed'  BY <1>1, <1>5 DEF Assumed
  <2> QED  BY <2>8, <2>9, <2>10, <2>11 DEF Propagated
<1> QED  BY <1>9, <1>10 DEF ProcessUnits

LEMMA AssumeS == ASSUME SInv, IInv', Assume PROVE Propagated'
<1>1. /\ pc = "assume" /\ UNCHANGED context
      /\ UNCHANGED <<firstHyp, firstUnprocessed, unitsProcessed, stage, goal, cur>>
  BY DEF Assume
<1>2. IInv /\ Marks /\ Watched /\ UnitsIn /\ Assumed  BY DEF SInv, Propagated
<1>3. /\ TypedTrail /\ truStack \in Seq(Lits) /\ Len(truStack) \in Nat /\ firstHyp \in 0..Len(truStack)
      /\ firstUnprocessed \in 0..Len(truStack) /\ firstHyp \in Nat /\ firstUnprocessed \in Nat
      /\ TypedControl
  BY <1>2, Facts
<1>4. Ground = firstHyp /\ \A m \in BOOLEAN : Reach(m) = firstUnprocessed
  BY <1>1 DEF Ground, Reach
<1>5. ~UnsatAt(firstHyp) /\ unitsProcessed /\ stage # "root"
  BY <1>1, <1>2, SatAt DEF IInv, Consistently, Marks, Stages
<1>6. \A i, a : ~Due(i, a)  BY <1>1 DEF Due
<1>7. UNCHANGED <<names, clauses>>  BY <1>1 DEF context
<1>8. stage = "goal" \/ Hinted  BY <1>3, <1>5 DEF TypedControl, Hinted
<1>9. CASE /\ rest # <<>>
           /\ Assign(-Head(rest), None)
           /\ rest' = Tail(rest)
           /\ pc' = "found" \/ (pc' = pc /\ ~IsTrue(Head(rest)))
  <2> DEFINE l == -Head(rest)
  <2>1. rest \in Seq(Literals) /\ Head(rest) \in Literals  BY <1>3, <1>9 DEF TypedControl
  <2>2. l \in Lits /\ Head(rest) \in Lits /\ -l = Head(rest)  BY <2>1, Negation DEF Literals
  <2> HIDE DEF l
  <2>3. /\ Len(truStack') \in Nat /\ Len(truStack) <= Len(truStack')
        /\ \A k \in 1..Len(truStack) : truStack'[k] = truStack[k]
        /\ l \in Range(truStack') /\ \A x : IsTrue(x) => x \in Range(truStack')
    BY <1>2, <1>9, <2>2, Grows DEF l
  <2>4. Ground' = firstHyp  BY <1>1, <1>9 DEF Ground
  <2>5. \A m \in BOOLEAN : Reach(m)' \in Nat /\ Reach(m)' <= firstUnprocessed
    <3>1. pc' \in {"assume", "found"}  BY <1>1, <1>9
    <3> QED  BY <1>1, <1>3, <3>1 DEF Reach
  <2>6. Kept(Len(truStack))  BY <1>3, <1>4, <2>3, <2>4, <2>5 DEF Kept
  <2>7. Watched'  BY <1>1, <1>2, <1>5, <1>6, <2>6, WatchedFrame
  <2>8. UnitsIn'
    <3>1. \A k \in 1..firstHyp : truStack'[k] = truStack[k]  BY <1>3, <2>3
    <3> QED  BY <1>1, <1>2, <1>3, <1>5, <1>7, <3>1, UnitsFrame
  <2>9. Len(rest') < Len(rest)  BY <1>9, <2>1
  <2>10. Marks' /\ Assumed'
    <3>1. CASE pc' = "found"  BY <3>1 DEF Marks, Assumed, Propagating
    <3>2. CASE pc' = "assume" /\ stage # "goal"  BY <1>1, <1>5, <3>2 DEF Marks, Assumed, Propagating
    <3>3. CASE pc' = "assume" /\ stage = "goal"
      <4>1. Len(rest) <= Len(goal) /\ \A x \in Range(goal) : x \in Range(rest) \/ IsFalse(x)
        BY <1>1, <1>2, <3>3 DEF Assumed
      <4>2. rest' # goal /\ Len(rest') <= Len(goal)
        BY <1>1, <1>3, <1>9, <2>1, <2>9, <4>1 DEF TypedControl
      <4>3. \A x \in Range(goal) : x \in Range(rest') \/ -x \in Range(truStack')
        <5> TAKE x \in Range(goal)
        <5>1. CASE IsFalse(x)  BY <2>3, <5>1 DEF IsFalse
        <5>2. CASE x = Head(rest)  BY <2>3, <5>2 DEF l
        <5>3. CASE x \in Range(rest) /\ x # Head(rest)
          <6>1. PICK k \in 1..Len(rest) : rest[k] = x  BY <2>1, <5>3, InRange
          <6>2. k - 1 \in 1..Len(Tail(rest)) /\ Tail(rest)[k - 1] = x  BY <1>9, <2>1, <5>3, <6>1
          <6>3. Tail(rest) \in Seq(Literals)  BY <1>9, <2>1
          <6>4. x \in Range(Tail(rest))  BY <6>2, <6>3, InRange
          <6> QED  BY <1>9, <6>4
        <5> QED  BY <4>1, <5>1, <5>2, <5>3
      <4>4. Assumed'  BY <1>1, <3>3, <4>2, <4>3 DEF Assumed, IsFalse, IsTrue
      <4>5. firstHyp <= firstUnprocessed  BY <1>1, <1>2, <3>3 DEF Marks
      <4>6. Marks'  BY <1>1, <1>5, <3>3, <4>2, <4>5 DEF Marks, Propagating
      <4> QED  BY <4>4, <4>6
    <3> QED  BY <1>1, <1>9, <3>1, <3>2, <3>3
  <2> QED  BY <2>7, <2>8, <2>10 DEF Propagated
<1>10. CASE /\ rest = <<>> /\ UNCHANGED <<truStack, reasons, rest, conflict>>
            /\ Hinted /\ pc' = "hints" /\ UNCHANGED <<root, unprocessed>>
  <2>1. UNCHANGED va  BY <1>1, <1>10 DEF va
  <2>2. Ground' = Ground  BY <1>1, <1>4, <1>10 DEF Ground
  <2>3. \A m \in BOOLEAN : Reach(m)' \in Nat /\ Reach(m)' <= Reach(m)
    BY <1>1, <1>3, <1>4, <1>10 DEF Reach
  <2>4. Watched' /\ UnitsIn'  BY <1>1, <2>1, <2>2, <2>3, Elsewhere
  <2>5. Marks' /\ Assumed'  BY <1>1, <1>5, <1>10 DEF Marks, Assumed, Propagating, Hinted
  <2> QED  BY <2>4, <2>5 DEF Propagated
<1>11. CASE /\ rest = <<>> /\ UNCHANGED <<truStack, reasons, rest, conflict>>
            /\ ~Hinted /\ pc' = "prop"
            /\ root' = (firstHyp >= Len(truStack))
            /\ unprocessed' = [m \in BOOLEAN |-> firstUnprocessed]
  <2>1. UNCHANGED va  BY <1>1, <1>11 DEF va
  <2>2. root' => firstHyp >= Len(truStack)  BY <1>11
  <2>3. Ground' = Ground
    <3>1. root' => Ground' = Len(truStack')  BY <1>11 DEF Ground
    <3>2. ~root' => Ground' = firstHyp'  BY DEF Ground
    <3> QED  BY <1>1, <1>3, <1>4, <1>11, <2>2, <3>1, <3>2
  <2>4. \A m \in BOOLEAN : unprocessed'[m] = firstUnprocessed  BY <1>11
  <2>5. \A m \in BOOLEAN : Reach(m)' \in Nat /\ Reach(m)' <= Reach(m)
    BY <1>3, <1>4, <1>11, <2>4 DEF Reach
  <2>6. Watched' /\ UnitsIn'  BY <1>1, <2>1, <2>3, <2>5, Elsewhere
  <2>7. stage = "goal" /\ firstHyp <= firstUnprocessed  BY <1>1, <1>2, <1>8, <1>11 DEF Marks
  <2>8. \A m \in BOOLEAN : unprocessed'[m] <= Len(truStack') /\ firstHyp' <= unprocessed'[m]
    BY <1>1, <1>3, <1>11, <2>4, <2>7
  <2>9. Marks'  BY <1>1, <1>5, <1>11, <2>7, <2>8 DEF Marks, Propagating
  <2>10. Assumed'
    <3>1. Len(rest) <= Len(goal) /\ \A x \in Range(goal) : x \in Range(rest) \/ IsFalse(x)
      BY <1>1, <1>2, <2>7 DEF Assumed
    <3> QED  BY <1>1, <1>11, <3>1 DEF Assumed, IsFalse, IsTrue
  <2> QED  BY <2>6, <2>9, <2>10 DEF Propagated
<1>12. \/ /\ rest # <<>> /\ Assign(-Head(rest), None) /\ rest' = Tail(rest)
          /\ pc' = "found" \/ (pc' = pc /\ ~IsTrue(Head(rest)))
       \/ /\ rest = <<>> /\ UNCHANGED <<truStack, reasons, rest, conflict>>
          /\ Hinted /\ pc' = "hints" /\ UNCHANGED <<root, unprocessed>>
       \/ /\ rest = <<>> /\ UNCHANGED <<truStack, reasons, rest, conflict>>
          /\ ~Hinted /\ pc' = "prop"
          /\ root' = (firstHyp >= Len(truStack))
          /\ unprocessed' = [m \in BOOLEAN |-> firstUnprocessed]
  BY DEF Assume
<1> QED  BY <1>9, <1>10, <1>11, <1>12

LEMMA NextPropLitS == ASSUME SInv, IInv', NextPropLit PROVE Propagated'
<1>1. /\ pc = "prop" /\ pc' = "visit" /\ UNCHANGED <<context, va>>
      /\ UNCHANGED <<stage, goal, rest, root>>
  BY DEF NextPropLit
<1>2. IInv /\ Marks /\ Watched /\ UnitsIn /\ Assumed  BY DEF SInv, Propagated
<1>3. /\ truStack \in Seq(Lits) /\ Len(truStack) \in Nat /\ firstHyp \in 0..Len(truStack)
      /\ firstHyp \in Nat /\ TypedControl /\ TypedContext /\ Lists
  BY <1>2, Facts
<1>4. PICK m \in BOOLEAN :
        /\ unprocessed[m] < Len(truStack)
        /\ cur' = [class |-> m, lit |-> truStack[unprocessed[m] + 1], at |-> 1]
        /\ unprocessed' = [unprocessed EXCEPT ![m] = @ + 1]
  BY DEF NextPropLit
<1>5. UNCHANGED <<names, clauses, marked, watch, truStack, firstHyp, unitsProcessed>>
  BY <1>1 DEF context, va
<1> DEFINE N == unprocessed[m] + 1
<1>6. /\ unprocessed[m] \in Nat /\ N \in 1..Len(truStack)
      /\ unprocessed'[m] = N /\ \A p \in BOOLEAN : p # m => unprocessed'[p] = unprocessed[p]
  BY <1>3, <1>4 DEF TypedControl
<1>7. cur'.class = m /\ cur'.lit = truStack[N] /\ cur'.at = 1  BY <1>4
<1> HIDE DEF N
<1>8. Ground' = Ground /\ \A p \in BOOLEAN : Reach(p) = unprocessed[p] /\ Reach(p)' = unprocessed'[p]
  BY <1>1, <1>5 DEF Ground, Reach
<1>9. UnsatAt(firstHyp)' <=> UnsatAt(firstHyp)  BY <1>2, <1>5, SameUnsat
<1>10. Watched'
  <2> SUFFICES ASSUME ~UnsatAt(firstHyp), NEW i \in names, NEW a \in Lits, NEW b \in Lits,
                      Watches2(clauses[i], a, b), NEW n \in 1..Len(truStack),
                      n <= Reach(i \in marked)', truStack[n] = -a
               PROVE  \/ Due(i, a)'
                      \/ \E p \in 1..Len(truStack) : truStack[p] = b /\ (n <= Ground => p <= Ground)
    BY <1>5, <1>8, <1>9 DEF Watched, Seen, Watches2
  <2>1. Seen(i, a, b) /\ ~Due(i, a)  BY <1>1, <1>2 DEF Watched, Due
  <2>2. (i \in marked) \in BOOLEAN /\ (i \in marked') = (i \in marked)  BY <1>5
  <2>3. CASE n <= Reach(i \in marked)  BY <2>1, <2>3 DEF Seen
  <2>4. CASE ~(n <= Reach(i \in marked))
    <3>1. Reach(i \in marked)' = unprocessed'[(i \in marked)]  BY <1>1, <2>2 DEF Reach
    <3>2. Reach(i \in marked) = unprocessed[(i \in marked)]  BY <1>8, <2>2
    <3>3. (i \in marked) = m  BY <1>6, <2>2, <2>4, <3>1, <3>2
    <3>4. n = N
      <4>1. n <= unprocessed[m] + 1 /\ ~(n <= unprocessed[m])  BY <1>6, <2>4, <3>1, <3>2, <3>3 DEF N
      <4> QED  BY <1>3, <1>6, <4>1 DEF N
    <3>5. Range(watch[m][a]) = Watchers(m, a)  BY <1>3 DEF Lists
    <3>6. i \in Range(watch[m][a])  BY <3>3, <3>5 DEF Watchers, Watches2
    <3>7. watch[m][a] \in Seq(Ids)  BY <1>3 DEF TypedContext, Watches
    <3>8. PICK k \in 1..Len(watch[m][a]) : watch[m][a][k] = i  BY <3>6, <3>7, InRange
    <3>9. cur'.lit = -a /\ -cur'.lit = a /\ cur'.class = m /\ cur'.at = 1
      BY <1>7, <3>4, Negation
    <3>10. Due(i, a)'  BY <1>1, <1>5, <3>3, <3>8, <3>9 DEF Due
    <3> QED  BY <3>10
  <2> QED  BY <2>3, <2>4
<1>11. UnitsIn'  BY <1>2, <1>3, <1>5, <1>9, UnitsFrame
<1>12. Marks'
  <2>1. ASSUME NEW p \in BOOLEAN
        PROVE  unprocessed'[p] <= Len(truStack) /\ (~root => firstHyp <= unprocessed'[p])
    <3>1. unprocessed[p] \in Nat /\ unprocessed[p] <= Len(truStack)
          /\ (~root => firstHyp <= unprocessed[p])
      BY <1>1, <1>2, <1>3 DEF Marks, Propagating, TypedControl
    <3> QED  BY <1>3, <1>6, <3>1 DEF N
  <2>2. ~root => firstHyp < N
    <3>1. ~root => firstHyp <= unprocessed[m]  BY <1>1, <1>2 DEF Marks, Propagating
    <3> QED  BY <1>3, <1>6, <3>1 DEF N
  <2>3. unitsProcessed  BY <1>1, <1>2 DEF Marks, Propagating
  <2>4. N > 0  BY <1>6
  <2> QED  BY <1>1, <1>5, <1>6, <1>7, <2>1, <2>2, <2>3, <2>4 DEF Marks, Propagating
<1>13. Assumed'  BY <1>1, <1>2, <1>5 DEF Assumed, Propagating, IsFalse, IsTrue
<1> QED  BY <1>10, <1>11, <1>12, <1>13 DEF Propagated

LEMMA PropDoneS == ASSUME SInv, IInv', PropDone PROVE Propagated'
<1>1. /\ pc = "prop" /\ UNCHANGED context /\ UNCHANGED <<truStack, reasons, unitsProcessed, goal>>
      /\ \A m \in BOOLEAN : unprocessed[m] = Len(truStack)
      /\ firstUnprocessed' = Len(truStack)
      /\ firstHyp' = IF root THEN Len(truStack) ELSE firstHyp
  BY DEF PropDone, Found
<1>2. IInv /\ Marks /\ Watched /\ UnitsIn /\ Assumed  BY DEF SInv, Propagated
<1>3. /\ truStack \in Seq(Lits) /\ Len(truStack) \in Nat /\ firstHyp \in 0..Len(truStack)
      /\ firstHyp \in Nat /\ TypedControl
  BY <1>2, Facts
<1>4. UNCHANGED <<names, clauses>>  BY <1>1 DEF context
<1>5. ~UnsatAt(firstHyp) /\ unitsProcessed /\ stage \in {"root", "goal"}
  BY <1>1, <1>2, <1>3, SatAt DEF IInv, Consistently, Marks, Propagating, Stages, TypedControl, Hinted
<1>6. /\ Ground = (IF root THEN Len(truStack) ELSE firstHyp) /\ \A m \in BOOLEAN : Reach(m) = Len(truStack)
  BY <1>1 DEF Ground, Reach
<1>7. \/ pc' = "found"
      \/ /\ stage = "root" /\ goal # <<>>
         /\ pc' = "assume" /\ stage' = "goal" /\ rest' = goal
      \/ /\ ~(stage = "root" /\ goal # <<>>)
         /\ pc' = "stuck" /\ UNCHANGED <<stage, rest>>
  BY DEF PropDone, Found
<1>8. firstHyp' \in 0..Len(truStack) /\ firstHyp <= firstHyp' /\ firstHyp' \in Nat
  BY <1>1, <1>3
<1>9. Kept(Len(truStack))
  <2>1. Ground' = Ground  BY <1>1, <1>6, <1>7 DEF Ground
  <2>2. \A m \in BOOLEAN : Reach(m)' \in Nat /\ Reach(m)' <= Len(truStack)
    BY <1>1, <1>3, <1>7, <1>8 DEF Reach
  <2> QED  BY <1>1, <1>3, <1>6, <2>1, <2>2 DEF Kept
<1>10. \A i, a : ~Due(i, a)  BY <1>1 DEF Due
<1>11. Watched'  BY <1>1, <1>2, <1>5, <1>9, <1>10, WatchedFrame
<1>12. UnitsIn'  BY <1>1, <1>2, <1>4, <1>5, <1>8, UnitsFrame
<1>13. Marks'  BY <1>1, <1>5, <1>7, <1>8 DEF Marks, Propagating
<1>14. Assumed'
  <2>1. CASE pc' = "found"  BY <2>1 DEF Assumed, Propagating
  <2>2. CASE pc' = "assume" /\ stage' = "goal" /\ rest' = goal
    BY <1>1, <1>3, <2>2 DEF Assumed, TypedControl
  <2>3. CASE pc' = "stuck" /\ UNCHANGED <<stage, rest>>
    BY <1>1, <1>2, <2>3 DEF Assumed, Propagating, IsFalse, IsTrue
  <2> QED  BY <1>7, <2>1, <2>2, <2>3
<1> QED  BY <1>11, <1>12, <1>13, <1>14 DEF Propagated

-----------------------------------------------------------------------------
(* The visit of a clause.                                                  *)

(* A falsified watch lies beyond the part of the trail that would need the   *)
(* other one in it; the other watch, if not true, is not among the literals  *)
(* that the clause was told of.                                            *)
LEMMA AtVisit ==
  ASSUME SInv, pc = "visit", cur.at <= Len(watch[cur.class][-cur.lit]),
         NEW i, NEW c, Visited(i, c)
  PROVE  /\ \A n \in 1..Len(truStack) : truStack[n] = cur.lit => root \/ n > firstHyp
         /\ -c[2] = cur.lit /\ ~IsTrue(c[2]) /\ ~Due(i, c[1]) /\ c[1] \in Lits /\ c[2] \in Lits
         /\ ~IsTrue(c[1]) => \A n \in 1..Len(truStack) : n <= Reach(i \in marked) => truStack[n] # -c[1]
         /\ \A a, b : Watches2(clauses[i], a, b) => (a = c[1] /\ b = c[2]) \/ (a = c[2] /\ b = c[1])
         /\ ~UnsatAt(firstHyp)
<1>1. IInv /\ Marks /\ Watched  BY DEF SInv, Propagated
<1>2. /\ truStack \in Seq(Lits) /\ IsInjective(truStack) /\ Len(truStack) \in Nat
      /\ ConflictLast /\ TypedControl /\ TypedTrail
  BY <1>1, Facts
<1>3. /\ i \in names /\ (i \in marked) = cur.class
      /\ c \in Seq(Literals) /\ Len(c) = Len(clauses[i]) /\ Len(c) >= 2
      /\ c[2] = -cur.lit /\ c[1] # c[2]
      /\ {clauses[i][1], clauses[i][2]} = {c[1], c[2]}
      /\ cur.lit \in Lits /\ -cur.lit \in Lits /\ cur.class \in BOOLEAN
  BY <1>1, VisitedFacts
<1>4. c[1] \in Lits /\ c[2] \in Lits
  <2>1. 1 \in 1..Len(c) /\ 2 \in 1..Len(c)  BY <1>3
  <2> QED  BY <1>3, <2>1 DEF Literals
<1>5. ~Unsat /\ IsTrue(cur.lit)  BY <1>1 DEF IInv, Consistently
<1>6. -c[2] = cur.lit  BY <1>3, Negation
<1>7. ~IsTrue(c[2])  BY <1>2, <1>3, <1>5, Consistent DEF IsFalse
<1>8. \A n \in 1..Len(truStack) : truStack[n] = cur.lit => n = unprocessed[cur.class]
  <2>1. unprocessed[cur.class] > 0 /\ truStack[unprocessed[cur.class]] = cur.lit
    BY <1>1 DEF Marks
  <2>2. unprocessed[cur.class] <= Len(truStack) /\ unprocessed[cur.class] \in Nat
    BY <1>1, <1>2, <1>3 DEF Marks, Propagating, TypedControl
  <2>3. unprocessed[cur.class] \in 1..Len(truStack)  BY <1>2, <2>1, <2>2
  <2> QED  BY <1>2, <2>1, <2>3, InRange
<1>9. ~root => firstHyp < unprocessed[cur.class]  BY <1>1 DEF Marks
<1>10. \A n \in 1..Len(truStack) : truStack[n] = cur.lit => root \/ n > firstHyp
  BY <1>1, <1>2, <1>8, <1>9, Facts
<1>11. ~Due(i, c[1])
  <2>1. cur.lit = -c[1] => c[1] = -cur.lit  BY <1>4, Negation
  <2> QED  BY <1>3, <2>1 DEF Due
<1>12. ~UnsatAt(firstHyp)  BY <1>1, <1>5, SatAt
<1>13. ASSUME ~IsTrue(c[1]), NEW n \in 1..Len(truStack), n <= Reach(i \in marked), truStack[n] = -c[1]
       PROVE  FALSE
  <2>1. Watches2(clauses[i], c[1], c[2])  BY <1>3 DEF Watches2
  <2>2. Seen(i, c[1], c[2])  BY <1>1, <1>3, <1>4, <1>12, <2>1 DEF Watched
  <2>3. \E p \in 1..Len(truStack) : truStack[p] = c[2]  BY <1>11, <1>13, <2>2 DEF Seen
  <2> QED  BY <1>2, <1>7, <2>3, OnTrail
<1>14. ASSUME NEW a, NEW b, Watches2(clauses[i], a, b)
       PROVE  (a = c[1] /\ b = c[2]) \/ (a = c[2] /\ b = c[1])
  <2>1. (a = clauses[i][1] /\ b = clauses[i][2]) \/ (a = clauses[i][2] /\ b = clauses[i][1])
    BY <1>14 DEF Watches2
  <2>2. {a, b} = {c[1], c[2]}  BY <1>3, <2>1
  <2> QED  BY <1>3, <2>2
<1> QED  BY <1>4, <1>6, <1>7, <1>10, <1>11, <1>12, <1>13, <1>14

(* The marks and the goal do not change while a literal is propagated.      *)
LEMMA Stays ==
  ASSUME SInv, pc = "visit", UNCHANGED <<stage, goal, rest, unprocessed, root, firstHyp, unitsProcessed>>,
         pc' = "prop" \/ (pc' = "visit" /\ cur'.class = cur.class /\ cur'.lit = cur.lit),
         Len(truStack') \in Nat, Len(truStack) <= Len(truStack'),
         \A k \in 1..Len(truStack) : truStack'[k] = truStack[k],
         \A x : IsTrue(x) => x \in Range(truStack')
  PROVE  Marks' /\ Assumed'
<1>1. IInv /\ Marks /\ Assumed /\ TypedControl /\ Len(truStack) \in Nat
  BY Facts DEF SInv, Propagated
<1>2. \A m \in BOOLEAN : unprocessed'[m] <= Len(truStack') /\ (~root => firstHyp <= unprocessed'[m])
  BY <1>1 DEF Marks, Propagating, TypedControl
<1>3. cur.class \in BOOLEAN  BY <1>1 DEF TypedControl
<1>4. unprocessed[cur.class] \in 1..Len(truStack)
  BY <1>1, <1>3 DEF Marks, Propagating, TypedControl
<1>5. unitsProcessed  BY <1>1 DEF Marks, Propagating
<1>6. pc' = "visit" => /\ unprocessed'[cur'.class] > 0 /\ truStack'[unprocessed'[cur'.class]] = cur'.lit
                       /\ ~root => firstHyp < unprocessed'[cur'.class]
  BY <1>1, <1>4 DEF Marks
<1>7. Marks'  BY <1>2, <1>5, <1>6 DEF Marks, Propagating
<1>8. Assumed'  BY <1>1 DEF Assumed, Propagating, IsFalse, IsTrue
<1> QED  BY <1>7, <1>8

(* What the visit of clause i is for another clause, or for the other watch,  *)
(* when the trail does not shrink.                                         *)
LEMMA OtherSeen ==
  ASSUME SInv, pc = "visit", NEW j, NEW a, NEW b, Seen(j, a, b),
         Len(truStack') \in Nat, Len(truStack) <= Len(truStack'),
         \A k \in 1..Len(truStack) : truStack'[k] = truStack[k],
         pc' \in {"prop", "visit"}, UNCHANGED <<unprocessed, root, firstHyp, marked>>,
         Due(j, a) => Due(j, a)'
  PROVE  Seen(j, a, b)'
<1>1. IInv /\ Marks  BY DEF SInv, Propagated
<1> DEFINE m == (j \in marked)
           R == Reach(j \in marked)
           S == Reach(j \in marked)'
           G == Ground
           H == Ground'
           k == Len(truStack)
<1>2. Len(truStack) \in Nat /\ firstHyp \in Nat /\ k \in 0..Len(truStack)  BY <1>1, Facts
<1>3. m \in BOOLEAN  OBVIOUS
<1>4. R \in 0..Len(truStack) /\ G \in 0..Len(truStack)  BY <1>1, <1>3, ReachTypes
<1>5. S = R  BY DEF Reach
<1>6. H = G \/ k <= H
  <2>1. root => H = Len(truStack')  BY DEF Ground
  <2>2. ~root => H = firstHyp /\ G = firstHyp  BY DEF Ground
  <2> QED  BY <2>1, <2>2
<1>7. H \in Nat
  <2>1. H = Len(truStack') \/ H = firstHyp  BY DEF Ground
  <2> QED  BY <1>2, <2>1
<1>8. R \in Nat /\ S \in Nat /\ S <= R /\ S <= k /\ G \in Nat  BY <1>2, <1>4, <1>5
<1>9. \A n \in 1..k : n <= S /\ truStack[n] = -a /\ Due(j, a) => Due(j, a)'  OBVIOUS
<1> QED  BY <1>1, <1>2, <1>6, <1>7, <1>8, <1>9, SeenStep

LEMMA ListEndS ==
  ASSUME SInv, pc = "visit", cur.at > Len(watch[cur.class][-cur.lit]), pc' = "prop",
         UNCHANGED <<context, va>>, UNCHANGED <<stage, goal, rest, unprocessed, root>>
  PROVE  Propagated'
<1>1. IInv /\ Marks /\ Watched /\ UnitsIn /\ TypedControl /\ TypedContext
      /\ truStack \in Seq(Lits) /\ firstHyp \in Nat
  BY Facts DEF SInv, Propagated
<1>2. UNCHANGED <<names, clauses, marked, watch, truStack, firstHyp, unitsProcessed>>
  BY DEF context, va
<1>3. \A i, a : ~Due(i, a)
  <2>1. watch[cur.class][-cur.lit] \in Seq(Ids)
    BY <1>1, Negation DEF TypedControl, TypedContext, Watches
  <2>2. cur.at \in Nat  BY <1>1 DEF TypedControl
  <2>3. \A k \in cur.at..Len(watch[cur.class][-cur.lit]) : FALSE  BY <2>1, <2>2
  <2> QED  BY <2>3 DEF Due
<1>4. UnsatAt(firstHyp)' <=> UnsatAt(firstHyp)  BY <1>1, <1>2, SameUnsat
<1>5. Watched'
  <2> SUFFICES ASSUME ~UnsatAt(firstHyp), NEW i \in names, NEW a \in Lits, NEW b \in Lits,
                      Watches2(clauses[i], a, b)
               PROVE  Seen(i, a, b)'
    BY <1>2, <1>4 DEF Watched, Watches2
  <2>1. Seen(i, a, b)  BY <1>1 DEF Watched
  <2> QED  BY <1>1, <1>2, <1>3, <2>1, OtherSeen
<1>6. UnitsIn'  BY <1>1, <1>2, <1>4, UnitsFrame
<1>7. Marks' /\ Assumed'  BY <1>1, <1>2, Stays DEF IsTrue
<1> QED  BY <1>5, <1>6, <1>7 DEF Propagated

LEMMA SkipS ==
  ASSUME SInv, pc = "visit", cur.at <= Len(watch[cur.class][-cur.lit]),
         NEW i, NEW c, Visited(i, c), IsTrue(c[1]) \/ IsTrue(c[2]),
         cur' = [cur EXCEPT !.at = @ + 1],
         UNCHANGED <<context, va, pc>>, UNCHANGED <<stage, goal, rest, unprocessed, root>>
  PROVE  Propagated'
<1>1. IInv /\ Marks /\ Watched /\ UnitsIn /\ TypedControl /\ TypedContext
      /\ truStack \in Seq(Lits) /\ firstHyp \in Nat
  BY Facts DEF SInv, Propagated
<1>2. UNCHANGED <<names, clauses, marked, watch, truStack, firstHyp, unitsProcessed>>
  BY DEF context, va
<1>3. cur'.lit = cur.lit /\ cur'.class = cur.class /\ cur'.at = cur.at + 1
  BY <1>1, CurNext DEF TypedControl
<1>4. UnsatAt(firstHyp)' <=> UnsatAt(firstHyp)  BY <1>1, <1>2, SameUnsat
<1>5. ASSUME NEW j, NEW a, j # i, Due(j, a) PROVE Due(j, a)'
  <2> DEFINE s == watch[cur.class][-cur.lit]
  <2>1. PICK k \in cur.at..Len(s) : s[k] = j  BY <1>5 DEF Due
  <2>2. k # cur.at  BY <1>5, <2>1 DEF Visited
  <2>3. cur.at \in Nat  BY <1>1 DEF TypedControl
  <2>4. k \in (cur.at + 1)..Len(s)  BY <2>1, <2>2, <2>3
  <2> QED  BY <1>2, <1>3, <1>5, <2>1, <2>4 DEF Due
<1>6. Watched'
  <2> SUFFICES ASSUME NEW j \in names, NEW a \in Lits, NEW b \in Lits, Watches2(clauses[j], a, b)
               PROVE  Seen(j, a, b)'
    BY <1>2 DEF Watched, Watches2
  <2>1. Seen(j, a, b)  BY <1>1, AtVisit DEF Watched
  <2>2. CASE ~Due(j, a) \/ Due(j, a)'  BY <1>1, <1>2, <2>1, <2>2, OtherSeen
  <2>3. CASE Due(j, a) /\ ~Due(j, a)'
    <3>1. j = i  BY <1>5, <2>3
    <3>2. a = c[2] /\ b = c[1]  BY <2>3, <3>1, AtVisit
    <3>3. PICK p \in 1..Len(truStack) : truStack[p] = c[1]  BY <1>1, AtVisit, OnTrail
    <3>4. ASSUME NEW n \in 1..Len(truStack), truStack[n] = -a
          PROVE  n <= Ground => p <= Ground
      <4>1. root => Ground = Len(truStack)  BY DEF Ground
      <4>2. ~root => Ground = firstHyp /\ ~(n <= firstHyp)
        <5>1. ~root => n > firstHyp  BY <3>2, <3>4, AtVisit
        <5> QED  BY <1>1, <5>1 DEF Ground
      <4> QED  BY <4>1, <4>2
    <3>5. Ground' = Ground  BY <1>2 DEF Ground
    <3> QED  BY <1>2, <3>2, <3>3, <3>4, <3>5 DEF Seen
  <2> QED  BY <2>2, <2>3
<1>7. UnitsIn'  BY <1>1, <1>2, <1>4, UnitsFrame
<1>8. Marks' /\ Assumed'  BY <1>1, <1>2, <1>3, Stays DEF IsTrue
<1> QED  BY <1>6, <1>7, <1>8 DEF Propagated

LEMMA ReplaceS ==
  ASSUME SInv, pc = "visit", cur.at <= Len(watch[cur.class][-cur.lit]),
         NEW i, NEW c, Visited(i, c), ~IsTrue(c[1]), ~IsTrue(c[2]),
         NEW n \in 3..Len(c), ~IsFalse(c[n]), Replace(i, c, n),
         UNCHANGED <<stage, goal, rest, unprocessed, root, hints, queue, progress>>
  PROVE  Propagated'
<1> DEFINE t == Swap(c, 2, n)
           s == watch[cur.class][-cur.lit]
           r == watch'[cur.class][-cur.lit]
<1>1. IInv /\ Marks /\ Watched /\ UnitsIn /\ TypedControl /\ TypedContext /\ Lists
      /\ truStack \in Seq(Lits) /\ firstHyp \in Nat
  BY Facts DEF SInv, Propagated
<1>2. /\ clauses' = [clauses EXCEPT ![i] = t]
      /\ UNCHANGED <<names, marked, cur, pc, truStack, firstHyp, unitsProcessed>>
  BY DEF Replace, va
<1>3. /\ Moves(watch', watch, cur.class, -cur.lit, c[n], i)
      /\ Len(t) = Len(c) /\ \A k \in 1..Len(c) : t[k] = IF k = 2 THEN c[n] ELSE IF k = n THEN c[2] ELSE c[k]
  BY <1>1, ReplaceInv
<1>4. /\ i \in names /\ i \in Ids /\ c \in Seq(Literals) /\ Len(c) = Len(clauses[i]) /\ Len(c) >= 2
      /\ cur.class \in BOOLEAN /\ -cur.lit \in Lits
  BY <1>1, VisitedFacts
<1> HIDE DEF t
<1>5. clauses'[i] = t /\ \A j : j # i => clauses'[j] = clauses[j]
  BY <1>1, <1>2, <1>4 DEF TypedContext
<1>6. t[1] = c[1] /\ t[2] = c[n]
  <2>1. 1 \in 1..Len(c) /\ 2 \in 1..Len(c) /\ n # 1  BY <1>4
  <2> QED  BY <1>3, <2>1
<1>7. UnsatAt(firstHyp)' <=> UnsatAt(firstHyp)  BY <1>1, <1>2, SameUnsat
<1>8. s \in Seq(Ids) /\ IsInjective(s) /\ cur.at \in 1..Len(s) /\ s[cur.at] = i
  <2>1. watch \in Watches /\ AllOnce(watch)  BY <1>1 DEF TypedContext, Lists
  <2>2. s \in Seq(Ids) /\ IsInjective(s)  BY <1>4, <2>1 DEF Watches, AllOnce
  <2>3. cur.at \in Nat \ {0}  BY <1>1 DEF TypedControl
  <2>4. cur.at <= Len(s) /\ Len(s) \in Nat  BY <2>2
  <2>5. s[cur.at] = i  BY DEF Visited
  <2> HIDE DEF s
  <2> QED  BY <2>2, <2>3, <2>4, <2>5
<1>9. r = SwapRemove(s, i)  BY <1>3, <1>4 DEF Moves
<1> HIDE DEF s, r
<1>10. Len(r) = Len(s) - 1 /\ \A k \in 1..Len(s)-1 : r[k] = IF k = cur.at THEN s[Len(s)] ELSE s[k]
  <2>1. r = SwapRemove(s, s[cur.at])  BY <1>8, <1>9
  <2>2. /\ Len(SwapRemove(s, s[cur.at])) = Len(s) - 1
        /\ \A k \in 1..Len(s)-1 :
             SwapRemove(s, s[cur.at])[k] = IF k = cur.at THEN s[Len(s)] ELSE s[k]
    BY <1>8, RemoveFacts
  <2> QED  BY <2>1, <2>2
<1>11. ASSUME NEW j, NEW a, j # i, Due(j, a) PROVE Due(j, a)'
  <2>1. PICK k \in cur.at..Len(s) : s[k] = j  BY <1>11 DEF Due, s
  <2>2. k # cur.at  BY <1>8, <1>11, <2>1
  <2>3. \E h \in cur.at..Len(r) : r[h] = j
    <3>1. CASE k = Len(s)
      <4>1. cur.at \in 1..Len(s)-1 /\ cur.at \in cur.at..Len(r)  BY <1>8, <1>10, <2>1, <2>2, <3>1
      <4> QED  BY <1>10, <2>1, <3>1, <4>1
    <3>2. CASE k # Len(s)
      <4>1. k \in 1..Len(s)-1 /\ k \in cur.at..Len(r)  BY <1>8, <1>10, <2>1, <3>2
      <4> QED  BY <1>10, <2>1, <2>2, <4>1
    <3> QED  BY <3>1, <3>2
  <2> QED  BY <1>2, <1>11, <2>3 DEF Due, r
<1>12. Watched'
  <2> SUFFICES ASSUME NEW j \in names, NEW a \in Lits, NEW b \in Lits, Watches2(clauses'[j], a, b)
               PROVE  Seen(j, a, b)'
    BY <1>2 DEF Watched, Watches2
  <2>1. CASE j # i
    <3>1. Watches2(clauses[j], a, b)  BY <1>5, <2>1
    <3>2. Seen(j, a, b)  BY <1>1, <3>1, AtVisit DEF Watched
    <3> QED  BY <1>1, <1>2, <1>11, <2>1, <3>2, OtherSeen
  <2>2. CASE j = i
    <3>1. a = c[1] \/ a = c[n]  BY <1>5, <1>6, <2>2 DEF Watches2
    <3>2. CASE a = c[n]
      <4>1. \A h \in 1..Len(truStack) : truStack[h] # -a  BY <1>1, <3>2, OnTrail
      <4> QED  BY <1>2, <4>1 DEF Seen
    <3>3. CASE a = c[1]
      <4>1. \A h \in 1..Len(truStack) : h <= Reach(i \in marked) => truStack[h] # -a
        BY <3>3, AtVisit
      <4>2. Reach(j \in marked)' = Reach(i \in marked)  BY <1>2, <2>2 DEF Reach
      <4> QED  BY <1>2, <4>1, <4>2 DEF Seen
    <3> QED  BY <3>1, <3>2, <3>3
  <2> QED  BY <2>1, <2>2
<1>13. UnitsIn'
  <2>1. \A j \in names : Len(clauses'[j]) = Len(clauses[j])
                         /\ (Len(clauses[j]) <= 1 => clauses'[j] = clauses[j])
    BY <1>3, <1>4, <1>5
  <2> QED  BY <1>1, <1>2, <1>7, <2>1, UnitsFrame
<1>14. Marks' /\ Assumed'  BY <1>1, <1>2, Stays DEF IsTrue
<1> QED  BY <1>12, <1>13, <1>14 DEF Propagated

LEMMA ImplyS ==
  ASSUME SInv, pc = "visit", cur.at <= Len(watch[cur.class][-cur.lit]),
         NEW i, NEW c, Visited(i, c), ~IsTrue(c[1]), ~IsTrue(c[2]),
         \A k \in 3..Len(c) : IsFalse(c[k]), Imply(i, c),
         UNCHANGED <<stage, goal, rest, unprocessed, root, hints, queue, progress>>
  PROVE  Propagated'
<1>1. IInv /\ Marks /\ Watched /\ UnitsIn /\ TypedControl /\ TypedContext
      /\ truStack \in Seq(Lits) /\ Len(truStack) \in Nat
      /\ firstHyp \in 0..Len(truStack) /\ firstHyp \in Nat
  BY Facts DEF SInv, Propagated
<1>2. /\ clauses' = [clauses EXCEPT ![i] = c]
      /\ cur' = [cur EXCEPT !.at = @ + 1]
      /\ UNCHANGED <<names, marked, watch, unitsProcessed>>
      /\ IF IsFalse(c[1])
         THEN /\ pc' = "found"
              /\ firstUnprocessed' = Len(truStack')
              /\ firstHyp' = IF root THEN Len(truStack') ELSE firstHyp
         ELSE UNCHANGED <<pc, firstUnprocessed, firstHyp>>
  BY DEF Imply
<1>3. /\ i \in names /\ i \in Ids /\ c \in Seq(Literals) /\ Len(c) = Len(clauses[i]) /\ Len(c) >= 2
      /\ {clauses[i][1], clauses[i][2]} = {c[1], c[2]}
  BY <1>1, VisitedFacts
<1>4. /\ -c[2] = cur.lit /\ ~Due(i, c[1]) /\ c[1] \in Lits /\ c[2] \in Lits /\ ~UnsatAt(firstHyp)
      /\ \A n \in 1..Len(truStack) : n <= Reach(i \in marked) => truStack[n] # -c[1]
      /\ \A n \in 1..Len(truStack) : truStack[n] = cur.lit => root \/ n > firstHyp
  BY AtVisit
<1>5. /\ Len(truStack') = Len(truStack) + 1 /\ truStack'[Len(truStack) + 1] = c[1]
      /\ \A k \in 1..Len(truStack) : truStack'[k] = truStack[k]
  BY <1>1, ImplyInv
<1>6. clauses'[i] = c /\ \A j : j # i => clauses'[j] = clauses[j]
  BY <1>1, <1>2, <1>3 DEF TypedContext
<1>7. \A j, a, b : Watches2(clauses'[j], a, b) => Watches2(clauses[j], a, b)
  <2> TAKE j, a, b
  <2>1. CASE j # i  BY <1>6, <2>1
  <2>2. CASE j = i
    <3>1. <<a, b>> \in {<<c[1], c[2]>>, <<c[2], c[1]>>}
            => <<a, b>> \in {<<clauses[i][1], clauses[i][2]>>, <<clauses[i][2], clauses[i][1]>>}
      BY <1>3
    <3> QED  BY <1>3, <1>6, <2>2, <3>1 DEF Watches2
  <2> QED  BY <2>1, <2>2
<1>8. \A j \in names : Len(clauses'[j]) = Len(clauses[j])
                       /\ (Len(clauses[j]) <= 1 => clauses'[j] = clauses[j])
  BY <1>3, <1>6
<1>9. \A x : IsTrue(x) => x \in Range(truStack')
  <2>1. Assign(c[1], i) /\ i \in Ids \union {None}  BY <1>3 DEF Imply
  <2> QED  BY <1>1, <1>4, <2>1, Grows
<1>10. \A j \in names, a \in Lits, b \in Lits : Watches2(clauses'[j], a, b) => Seen(j, a, b)
  BY <1>1, <1>4, <1>7 DEF Watched
<1>11. ASSUME IsFalse(c[1]), root PROVE UnsatAt(firstHyp)'
  <2>1. firstHyp' = Len(truStack) + 1  BY <1>2, <1>5, <1>11
  <2>2. PICK m \in 1..Len(truStack) : truStack[m] = -c[1]  BY <1>1, <1>11, OnTrail
  <2>3. m \in 1..(Len(truStack) + 1) /\ truStack'[m] = -truStack'[Len(truStack) + 1]
    BY <1>1, <1>5, <2>2
  <2>4. \E k \in 1..(Len(truStack) + 1) : truStack'[k] = -truStack'[Len(truStack) + 1]
    BY <2>3
  <2> QED  BY <1>1, <2>1, <2>4 DEF UnsatAt
<1>12. CASE IsFalse(c[1]) /\ root
  <2>1. pc' = "found"  BY <1>2, <1>12
  <2> QED  BY <1>11, <1>12, <2>1 DEF Propagated, Watched, UnitsIn, Marks, Assumed, Propagating
<1>13. CASE IsFalse(c[1]) /\ ~root
  <2>1. pc' = "found" /\ firstHyp' = firstHyp /\ firstUnprocessed' = Len(truStack) + 1
    BY <1>2, <1>5, <1>13
  <2>2. Ground = firstHyp /\ Ground' = firstHyp  BY <1>13, <2>1 DEF Ground
  <2>3. \A m : Reach(m)' = firstHyp  BY <1>1, <2>1 DEF Reach
  <2>4. \A m \in BOOLEAN : firstHyp <= Reach(m) /\ Reach(m) \in Nat
    BY <1>1, <1>13 DEF Marks, Propagating, Reach, TypedControl
  <2>5. ASSUME NEW j, NEW a, NEW n \in 1..firstHyp, truStack[n] = -a PROVE ~Due(j, a)
    <3> SUFFICES ASSUME cur.lit = -a PROVE FALSE  BY DEF Due
    <3>1. n \in 1..Len(truStack) /\ ~(n > firstHyp)  BY <1>1
    <3> QED  BY <1>4, <1>13, <2>5, <3>1
  <2>6. Watched'
    <3> SUFFICES ASSUME NEW j \in names, NEW a \in Lits, NEW b \in Lits, Watches2(clauses'[j], a, b)
                 PROVE  Seen(j, a, b)'
      BY <1>2 DEF Watched, Watches2
    <3>1. Seen(j, a, b)  BY <1>10
    <3> DEFINE R == Reach(j \in marked)
               S == Reach(j \in marked)'
               H == Ground'
               G == Ground
    <3>2. S = firstHyp  BY <2>3 DEF Reach
    <3>3. R \in Nat /\ S <= R /\ S <= firstHyp /\ S \in Nat
      <4>1. (j \in marked) \in BOOLEAN  OBVIOUS
      <4>2. firstHyp <= R /\ R \in Nat  BY <2>4, <4>1
      <4> HIDE DEF R, S
      <4> QED  BY <1>1, <3>2, <4>2
    <3>4. \A n \in 1..firstHyp : n <= S /\ truStack[n] = -a /\ Due(j, a) => Due(j, a)'  BY <2>5
    <3>5. G \in Nat /\ H \in Nat /\ firstHyp = G /\ H = G  BY <1>1, <2>2
    <3>6. /\ firstHyp <= Len(truStack') /\ Len(truStack') \in Nat
          /\ \A h \in 1..firstHyp : truStack'[h] = truStack[h]
      BY <1>1, <1>5
    <3> HIDE DEF R, S, G, H
    <3>7. R = Reach(j \in marked) /\ S = Reach(j \in marked)' /\ G = Ground /\ H = Ground'
      BY DEF R, S, G, H
    <3> QED  BY <1>1, <3>1, <3>3, <3>4, <3>5, <3>6, <3>7, SeenStep
  <2>7. UnitsIn'
    <3>1. \A k \in 1..firstHyp : truStack'[k] = truStack[k]  BY <1>1, <1>5
    <3> QED  BY <1>1, <1>2, <1>4, <1>8, <2>1, <3>1, UnitsFrame
  <2> QED  BY <2>1, <2>6, <2>7 DEF Propagated, Marks, Assumed, Propagating
<1>14. CASE ~IsFalse(c[1])
  <2>1. UNCHANGED <<pc, firstUnprocessed, firstHyp>>  BY <1>2, <1>14
  <2>2. cur'.lit = cur.lit /\ cur'.class = cur.class /\ cur'.at = cur.at + 1
    BY <1>1, <1>2, CurNext DEF TypedControl
  <2>3. ASSUME NEW j, NEW a, j # i, Due(j, a) PROVE Due(j, a)'
    <3> DEFINE s == watch[cur.class][-cur.lit]
    <3>1. PICK k \in cur.at..Len(s) : s[k] = j  BY <2>3 DEF Due
    <3>2. k # cur.at  BY <2>3, <3>1 DEF Visited
    <3>3. cur.at \in Nat  BY <1>1 DEF TypedControl
    <3>4. k \in (cur.at + 1)..Len(s)  BY <3>1, <3>2, <3>3
    <3> QED  BY <1>2, <2>1, <2>2, <2>3, <3>1, <3>4 DEF Due
  <2>4. Watched'
    <3> SUFFICES ASSUME NEW j \in names, NEW a \in Lits, NEW b \in Lits, Watches2(clauses'[j], a, b)
                 PROVE  Seen(j, a, b)'
      BY <1>2 DEF Watched, Watches2
    <3>1. Seen(j, a, b)  BY <1>10
    <3>2. CASE ~Due(j, a) \/ Due(j, a)'
      BY <1>1, <1>2, <1>5, <2>1, <3>1, <3>2, OtherSeen
    <3>3. CASE Due(j, a) /\ ~Due(j, a)'
      <4>1. j = i  BY <2>3, <3>3
      <4>2. a = c[2] /\ b = c[1]
        <5>1. Watches2(clauses[i], a, b)  BY <1>7, <4>1
        <5> QED  BY <3>3, <4>1, <5>1, AtVisit
      <4>3. ASSUME NEW n \in 1..Len(truStack'), n <= Reach(j \in marked)', truStack'[n] = -a
            PROVE  \E p \in 1..Len(truStack') : truStack'[p] = b /\ (n <= Ground' => p <= Ground')
        <5>1. Reach(j \in marked)' = Reach(j \in marked)  BY <1>2, <2>1 DEF Reach
        <5>2. Reach(j \in marked) \in 0..Len(truStack)
          <6>1. (j \in marked) \in BOOLEAN  OBVIOUS
          <6> QED  BY <1>1, <6>1, ReachTypes
        <5>3. n \in 1..Len(truStack) /\ truStack[n] = cur.lit
          BY <1>1, <1>4, <1>5, <4>2, <4>3, <5>1, <5>2
        <5> DEFINE p == Len(truStack) + 1
        <5>4. p \in 1..Len(truStack') /\ truStack'[p] = b  BY <1>1, <1>5, <4>2
        <5>5. root => Ground' = Len(truStack) + 1  BY <1>5, <2>1 DEF Ground
        <5>6. ~root => Ground' = firstHyp /\ ~(n <= firstHyp)
          <6>1. ~root => n > firstHyp  BY <1>4, <5>3
          <6> QED  BY <1>1, <2>1, <6>1 DEF Ground
        <5>7. n <= Ground' => p <= Ground'  BY <1>1, <5>5, <5>6
        <5> QED  BY <5>4, <5>7
      <4> QED  BY <4>3 DEF Seen
    <3> QED  BY <3>2, <3>3
  <2>5. UnitsIn'
    <3>1. \A k \in 1..firstHyp : truStack'[k] = truStack[k]  BY <1>1, <1>5
    <3> QED  BY <1>1, <1>2, <1>4, <1>8, <2>1, <3>1, UnitsFrame
  <2>6. Marks' /\ Assumed'
    <3>1. Len(truStack') \in Nat /\ Len(truStack) <= Len(truStack')  BY <1>1, <1>5
    <3> QED  BY <1>2, <1>5, <1>9, <2>1, <2>2, <3>1, Stays
  <2> QED  BY <2>4, <2>5, <2>6 DEF Propagated
<1> QED  BY <1>12, <1>13, <1>14

LEMMA VisitS == ASSUME SInv, IInv', Visit PROVE Propagated'
<1>0. IInv  BY DEF SInv
<1>1. /\ pc = "visit"
      /\ UNCHANGED <<stage, goal, rest, unprocessed, root, hints, queue, progress>>
  BY <1>0, VisitCases
<1>2. CASE /\ cur.at > Len(watch[cur.class][-cur.lit])
           /\ pc' = "prop"
           /\ UNCHANGED <<context, va, cur, conflict>>
  BY <1>1, <1>2, ListEndS
<1>3. ASSUME cur.at <= Len(watch[cur.class][-cur.lit]), NEW i, NEW c, Visited(i, c),
             \/ /\ IsTrue(c[1]) \/ IsTrue(c[2])
                /\ cur' = [cur EXCEPT !.at = @ + 1]
                /\ UNCHANGED <<context, va, pc, conflict>>
             \/ /\ ~IsTrue(c[1]) /\ ~IsTrue(c[2])
                /\ \E n \in 3..Len(c) : ~IsFalse(c[n]) /\ Replace(i, c, n)
             \/ /\ ~IsTrue(c[1]) /\ ~IsTrue(c[2])
                /\ \A n \in 3..Len(c) : IsFalse(c[n])
                /\ Imply(i, c)
      PROVE  Propagated'
  <2>1. CASE /\ IsTrue(c[1]) \/ IsTrue(c[2])
             /\ cur' = [cur EXCEPT !.at = @ + 1]
             /\ UNCHANGED <<context, va, pc, conflict>>
    BY <1>1, <1>3, <2>1, SkipS
  <2>2. CASE /\ ~IsTrue(c[1]) /\ ~IsTrue(c[2])
             /\ \E n \in 3..Len(c) : ~IsFalse(c[n]) /\ Replace(i, c, n)
    BY <1>1, <1>3, <2>2, ReplaceS
  <2>3. CASE /\ ~IsTrue(c[1]) /\ ~IsTrue(c[2])
             /\ \A n \in 3..Len(c) : IsFalse(c[n])
             /\ Imply(i, c)
    BY <1>1, <1>3, <2>3, ImplyS
  <2> QED  BY <1>3, <2>1, <2>2, <2>3
<1> QED  BY <1>0, <1>2, <1>3, VisitCases

-----------------------------------------------------------------------------
(* The actions that change the clauses.                                    *)

(* A clause that is not changed, when none is due and the trail keeps its    *)
(* length or grows.                                                        *)
LEMMA IdleSeen ==
  ASSUME IInv, Marks, NEW j, NEW a, NEW b, Seen(j, a, b), pc \in {"idle", "hints"},
         pc' \in {"idle", "hints"}, UNCHANGED firstUnprocessed,
         Len(truStack') \in Nat, Len(truStack) <= Len(truStack'),
         \A k \in 1..Len(truStack) : truStack'[k] = truStack[k],
         firstHyp' \in Nat, firstHyp' = firstHyp \/ Len(truStack) <= firstHyp'
  PROVE  Seen(j, a, b)'
<1> DEFINE R == Reach(j \in marked)
           S == Reach(j \in marked)'
           G == Ground
           H == Ground'
<1>1. /\ Len(truStack) \in Nat /\ firstHyp \in Nat /\ firstUnprocessed \in 0..Len(truStack)
      /\ Len(truStack) \in 0..Len(truStack)
  BY Facts
<1>2. R = firstUnprocessed /\ S = firstUnprocessed  BY DEF Reach
<1>3. G = firstHyp /\ H = firstHyp'  BY DEF Ground
<1>4. ~Due(j, a)  BY DEF Due
<1>5. R \in Nat /\ S \in Nat /\ S <= R /\ S <= Len(truStack)  BY <1>1, <1>2
<1>6. G \in Nat /\ H \in Nat /\ (H = G \/ Len(truStack) <= H)  BY <1>1, <1>3
<1> HIDE DEF R, S, G, H
<1>7. R = Reach(j \in marked) /\ S = Reach(j \in marked)' /\ G = Ground /\ H = Ground'
  BY DEF R, S, G, H
<1> QED  BY <1>1, <1>4, <1>5, <1>6, <1>7, SeenStep

(* A clause comes in over the trail as it is: unless that makes a conflict,   *)
(* its first literal is not false, and it is true if the others are false.    *)
LEMMA InsertUnit ==
  ASSUME IInv, pc = "idle", NEW c \in Seq(Literals), IsInjective(c),
         NEW s \in Seq(Literals), IsInjective(s), Len(s) = Len(c), Range(s) = Range(c),
         \A j, k \in 1..Len(c) : j <= k /\ IsFalse(s[j]) => IsFalse(s[k]), NEW i \in Ids,
         IF IsUnit(c) /\ ~Unsat THEN AddUnit(UnitLit(s), i)
         ELSE UNCHANGED <<truStack, reasons, firstHyp>>,
         ~UnsatAt(firstHyp)'
  PROVE  /\ ~Unsat
         /\ Len(truStack') \in Nat /\ Len(truStack) <= Len(truStack')
         /\ \A k \in 1..Len(truStack) : truStack'[k] = truStack[k]
         /\ firstHyp' \in Nat /\ Len(truStack) <= firstHyp' /\ firstHyp' = Len(truStack')
         /\ s # <<>> /\ ~IsFalse(s[1])
         /\ (\A k \in 2..Len(s) : IsFalse(s[k])) => \E p \in 1..firstHyp' : truStack'[p] = s[1]
<1>1. /\ TypedTrail /\ ConflictLast /\ truStack \in Seq(Lits) /\ Len(truStack) \in Nat
      /\ firstHyp = Len(truStack)
  BY Facts DEF IInv, Consistently
<1> DEFINE l == UnitLit(s)
<1>2. l \in Lits /\ (s # <<>> => l = s[1] /\ 1 \in 1..Len(s)) /\ (s = <<>> => l = 0)
  <2>1. s = <<>> => l = 0 /\ 0 \in Lits  BY Sizes DEF UnitLit, Lits
  <2>2. s # <<>> => l = s[1] /\ 1 \in 1..Len(s)  BY DEF UnitLit
  <2>3. s # <<>> => s[1] \in Lits  BY <2>2 DEF Literals
  <2> QED  BY <2>1, <2>2, <2>3
<1>3. ASSUME IsUnit(c), ~Unsat
      PROVE  /\ Assign(l, i) /\ ~IsTrue(l) /\ firstHyp' = firstHyp + 1
             /\ Len(truStack') = Len(truStack) + 1 /\ truStack'[Len(truStack) + 1] = l
             /\ \A k \in 1..Len(truStack) : truStack'[k] = truStack[k]
  <2>1. AddUnit(l, i) /\ i \in Ids \union {None}  BY <1>3
  <2>2. ~IsTrue(l)
    <3>1. CASE s = <<>>  BY <1>1, <1>2, <1>3, <3>1, ZeroOff
    <3>2. CASE s # <<>>
      <4>1. s[1] \in Range(c)  BY <1>2, <3>2, InRange
      <4> QED  BY <1>2, <1>3, <3>2, <4>1 DEF IsUnit
    <3> QED  BY <3>1, <3>2
  <2>3. Assign(l, i) /\ firstHyp' = firstHyp + 1  BY <2>1, <2>2 DEF AddUnit
  <2> HIDE DEF l
  <2> QED  BY <1>1, <1>2, <2>1, <2>2, <2>3, Assigned
<1>4. ~Unsat
  <2> SUFFICES ASSUME Unsat PROVE FALSE  OBVIOUS
  <2>1. UNCHANGED <<truStack, firstHyp>>  OBVIOUS
  <2> QED  BY <1>1, <2>1 DEF Unsat, UnsatAt
<1>5. /\ Len(truStack') \in Nat /\ Len(truStack) <= Len(truStack')
      /\ \A k \in 1..Len(truStack) : truStack'[k] = truStack[k]
      /\ firstHyp' \in Nat /\ Len(truStack) <= firstHyp' /\ firstHyp' = Len(truStack')
  <2>1. CASE IsUnit(c)  BY <1>1, <1>3, <1>4, <2>1
  <2>2. CASE ~IsUnit(c)  BY <1>1, <2>2
  <2> QED  BY <2>1, <2>2
<1>6. ASSUME ~IsTrue(l), \A k \in 2..Len(s) : IsFalse(s[k])
      PROVE  IsUnit(c)
  <2> DEFINE T == {x \in Range(c) : ~IsFalse(x)}
  <2>1. \A x \in Range(c) : x = l \/ IsFalse(x)
    <3> TAKE x \in Range(c)
    <3>1. PICK k \in 1..Len(s) : s[k] = x  BY InRange
    <3>2. k = 1 \/ k \in 2..Len(s)  BY <3>1
    <3>3. s # <<>>  BY <3>1
    <3> QED  BY <1>2, <1>6, <3>1, <3>2, <3>3
  <2>2. \A x \in Range(c) : ~IsTrue(x)
    <3> TAKE x \in Range(c)
    <3>1. x \in Lits  BY InRange DEF Literals
    <3> QED  BY <1>1, <1>4, <1>6, <2>1, <3>1, Consistent
  <2>3. T \subseteq {l}  BY <2>1
  <2>4. IsFiniteSet({l}) /\ Cardinality({l}) = 1  BY FS_Singleton
  <2> HIDE DEF T
  <2>5. Cardinality(T) <= 1  BY <2>3, <2>4, FS_Subset
  <2> QED  BY <2>2, <2>5 DEF IsUnit, T
<1>7. ASSUME IsUnit(c), l = 0 \/ IsFalse(l) PROVE FALSE
  <2> DEFINE N == Len(truStack) + 1
  <2>1. firstHyp' = N /\ truStack'[N] = l /\ N > 0 /\ N \in 1..N  BY <1>1, <1>3, <1>4, <1>7
  <2>2. \E m \in 1..N : truStack'[m] = -l
    <3>1. CASE l = 0
      <4>1. l = -l  BY <1>2, <3>1, Negation
      <4> HIDE DEF l
      <4> QED  BY <2>1, <4>1
    <3>2. CASE IsFalse(l)
      <4>1. PICK m \in 1..Len(truStack) : truStack[m] = -l  BY <1>1, <3>2, OnTrail
      <4>2. m \in 1..N /\ truStack'[m] = -l  BY <1>1, <1>5, <4>1
      <4> QED  BY <4>2
    <3> QED  BY <1>7, <3>1, <3>2
  <2> HIDE DEF N, l
  <2>3. UnsatAt(firstHyp)'  BY <2>1, <2>2 DEF UnsatAt
  <2> QED  BY <2>3
<1>8. s # <<>>
  <2> SUFFICES ASSUME s = <<>> PROVE FALSE  OBVIOUS
  <2>1. l = 0 /\ ~IsTrue(l)  BY <1>1, <1>2, <1>4, ZeroOff
  <2>2. \A k \in 2..Len(s) : IsFalse(s[k])  OBVIOUS
  <2> QED  BY <1>6, <1>7, <2>1, <2>2
<1>9. ~IsFalse(s[1])
  <2> SUFFICES ASSUME IsFalse(s[1]) PROVE FALSE  OBVIOUS
  <2>1. l = s[1] /\ 1 \in 1..Len(c)  BY <1>2, <1>8
  <2>2. \A k \in 2..Len(s) : IsFalse(s[k])
    <3> TAKE k \in 2..Len(s)
    <3>1. k \in 1..Len(c) /\ 1 <= k  BY <2>1
    <3> QED  BY <2>1, <3>1
  <2>3. ~IsTrue(l)  BY <1>1, <1>2, <1>4, <2>1, Consistent
  <2> QED  BY <1>6, <1>7, <2>1, <2>2, <2>3
<1>10. ASSUME \A k \in 2..Len(s) : IsFalse(s[k])
       PROVE  \E p \in 1..firstHyp' : truStack'[p] = s[1]
  <2>1. l = s[1]  BY <1>2, <1>8
  <2>2. CASE IsTrue(l)
    <3>1. PICK p \in 1..Len(truStack) : truStack[p] = l  BY <1>1, <2>2, OnTrail
    <3>2. p \in 1..firstHyp' /\ truStack'[p] = l  BY <1>1, <1>5, <3>1
    <3> QED  BY <2>1, <3>2
  <2>3. CASE ~IsTrue(l)
    <3>1. IsUnit(c)  BY <1>6, <1>10, <2>3
    <3>2. firstHyp' = Len(truStack) + 1 /\ truStack'[Len(truStack) + 1] = l
      BY <1>1, <1>3, <1>4, <3>1
    <3>3. Len(truStack) + 1 \in 1..firstHyp'  BY <1>1, <3>2
    <3> QED  BY <2>1, <3>2, <3>3
  <2> QED  BY <2>2, <2>3
<1> QED  BY <1>4, <1>5, <1>8, <1>9, <1>10

LEMMA InsertS ==
  ASSUME SInv, IInv', NEW i \in Ids, NEW c \in Inputs, NEW m \in BOOLEAN, InsertClause(i, c, m)
  PROVE  Propagated'
<1> DEFINE s == Sorted(c)
<1>1. /\ IInv /\ Marks /\ Watched /\ UnitsIn /\ TypedContext /\ TypedTrail
      /\ truStack \in Seq(Lits) /\ Len(truStack) \in Nat /\ firstUnprocessed \in 0..Len(truStack)
  BY Facts DEF SInv, Propagated
<1>2. pc = "idle" /\ i \notin names  BY DEF InsertClause
<1>3. c \in Seq(Literals) /\ IsInjective(c)  BY GoalClauses
<1>4. /\ s \in Seq(Literals) /\ IsInjective(s) /\ Len(s) = Len(c) /\ Range(s) = Range(c)
      /\ \A j, k \in 1..Len(c) : j <= k /\ IsFalse(s[j]) => IsFalse(s[k])
  BY <1>1, <1>3, SortedFacts
<1>5. /\ names' = names \union {i}
      /\ clauses' = [clauses EXCEPT ![i] = s]
      /\ IF IsUnit(c) /\ ~Unsat THEN AddUnit(UnitLit(s), i)
         ELSE UNCHANGED <<truStack, reasons, firstHyp>>
      /\ UNCHANGED <<firstUnprocessed, unitsProcessed, pc>>
  BY DEF InsertClause
<1> HIDE DEF s
<1>6. clauses'[i] = s /\ \A j : j # i /\ j \in Ids => clauses'[j] = clauses[j]
  BY <1>1, <1>5 DEF TypedContext
<1>7. firstHyp = Len(truStack)  BY <1>1, <1>2 DEF IInv, Consistently
<1>8. ASSUME ~UnsatAt(firstHyp)'
      PROVE  /\ ~UnsatAt(firstHyp)
             /\ Len(truStack') \in Nat /\ Len(truStack) <= Len(truStack')
             /\ \A k \in 1..Len(truStack) : truStack'[k] = truStack[k]
             /\ firstHyp' \in Nat /\ Len(truStack) <= firstHyp' /\ firstHyp' = Len(truStack')
             /\ s # <<>> /\ ~IsFalse(s[1])
             /\ (\A k \in 2..Len(s) : IsFalse(s[k])) => \E p \in 1..firstHyp' : truStack'[p] = s[1]
  <2>1. /\ ~Unsat
        /\ Len(truStack') \in Nat /\ Len(truStack) <= Len(truStack')
        /\ \A k \in 1..Len(truStack) : truStack'[k] = truStack[k]
        /\ firstHyp' \in Nat /\ Len(truStack) <= firstHyp' /\ firstHyp' = Len(truStack')
        /\ s # <<>> /\ ~IsFalse(s[1])
        /\ (\A k \in 2..Len(s) : IsFalse(s[k])) => \E p \in 1..firstHyp' : truStack'[p] = s[1]
    BY <1>1, <1>2, <1>3, <1>4, <1>5, <1>8, InsertUnit
  <2> QED  BY <1>7, <2>1 DEF Unsat
<1>9. Watched'
  <2> SUFFICES ASSUME ~UnsatAt(firstHyp)', NEW j \in names', NEW a \in Lits, NEW b \in Lits,
                      Watches2(clauses'[j], a, b)
               PROVE  Seen(j, a, b)'
    BY DEF Watched, Watches2
  <2>1. CASE j # i
    <3>1. j \in names /\ Watches2(clauses[j], a, b)  BY <1>1, <1>5, <1>6, <2>1 DEF TypedContext
    <3>2. Seen(j, a, b)  BY <1>1, <1>8, <3>1 DEF Watched
    <3> QED  BY <1>1, <1>2, <1>5, <1>8, <3>2, IdleSeen
  <2>2. CASE j = i
    <3>1. Len(s) >= 2 /\ ((a = s[1] /\ b = s[2]) \/ (a = s[2] /\ b = s[1]))
      BY <1>6, <2>2 DEF Watches2
    <3>2. Reach(j \in marked)' = firstUnprocessed /\ Ground' = firstHyp'
      BY <1>2, <1>5 DEF Reach, Ground
    <3> SUFFICES ASSUME NEW n \in 1..Len(truStack'), n <= firstUnprocessed, truStack'[n] = -a
                 PROVE  \E p \in 1..Len(truStack') : truStack'[p] = b /\ (n <= firstHyp' => p <= firstHyp')
      BY <3>2 DEF Seen
    <3>3. n \in 1..Len(truStack) /\ truStack[n] = -a  BY <1>1, <1>8
    <3>4. IsFalse(a)  BY <1>1, <3>3, OnTrail
    <3>5. a = s[2] /\ b = s[1]  BY <1>8, <3>1, <3>4
    <3>6. \A k \in 2..Len(s) : IsFalse(s[k])
      <4> TAKE k \in 2..Len(s)
      <4>1. 2 \in 1..Len(c) /\ k \in 1..Len(c) /\ 2 <= k  BY <1>4, <3>1
      <4> QED  BY <1>4, <3>4, <3>5, <4>1
    <3>7. PICK p \in 1..firstHyp' : truStack'[p] = s[1]  BY <1>8, <3>6
    <3>8. p \in 1..Len(truStack') /\ p <= firstHyp'  BY <1>8
    <3> QED  BY <3>5, <3>7, <3>8
  <2> QED  BY <2>1, <2>2
<1>10. UnitsIn'
  <2> SUFFICES ASSUME unitsProcessed, ~UnsatAt(firstHyp)', NEW j \in names', Len(clauses'[j]) <= 1
               PROVE  \E p \in 1..firstHyp' : truStack'[p] = UnitLit(clauses'[j])
    BY <1>5 DEF UnitsIn, UnitClauses, UnitLit
  <2>1. CASE j # i
    <3>1. j \in UnitClauses /\ clauses'[j] = clauses[j]
      BY <1>1, <1>5, <1>6, <2>1 DEF TypedContext, UnitClauses
    <3>2. PICK p \in 1..firstHyp : truStack[p] = UnitLit(clauses[j])
      BY <1>1, <1>8, <3>1 DEF UnitsIn
    <3>3. p \in 1..firstHyp' /\ truStack'[p] = truStack[p]  BY <1>1, <1>7, <1>8
    <3> QED  BY <3>1, <3>2, <3>3
  <2>2. CASE j = i
    <3>1. s # <<>> /\ UnitLit(s) = s[1]  BY <1>8 DEF UnitLit
    <3>2. \A k \in 2..Len(s) : IsFalse(s[k])  BY <1>4, <1>6, <2>2
    <3> QED  BY <1>6, <1>8, <2>2, <3>1, <3>2
  <2> QED  BY <2>1, <2>2
<1>11. Marks' /\ Assumed'  BY <1>2, <1>5 DEF Marks, Assumed, Propagating
<1> QED  BY <1>9, <1>10, <1>11 DEF Propagated

LEMMA RemoveS == ASSUME SInv, IInv', NEW i \in Ids, RemoveClause(i) PROVE Propagated'
<1> DEFINE c == clauses[i]
<1>1. /\ IInv /\ Marks /\ Watched /\ UnitsIn /\ TypedContext
      /\ truStack \in Seq(Lits) /\ Len(truStack) \in Nat /\ firstHyp \in Nat
  BY Facts DEF SInv, Propagated
<1>2. /\ pc = "idle" /\ names' = names \ {i} /\ UNCHANGED pc
      /\ clauses' = [clauses EXCEPT ![i] = <<>>]
      /\ UNCHANGED va \/ Unassign(UnitLit(c))
  BY DEF RemoveClause
<1>3. UNCHANGED va \/ (firstUnprocessed' = 0 /\ unitsProcessed' = FALSE)
  BY <1>2 DEF Unassign
<1>4. Marks' /\ Assumed'  BY <1>2 DEF Marks, Assumed, Propagating
<1>5. CASE UNCHANGED va
  <2>1. UNCHANGED <<truStack, firstHyp, firstUnprocessed, unitsProcessed>>  BY <1>5 DEF va
  <2>2. UnsatAt(firstHyp)' <=> UnsatAt(firstHyp)  BY <1>1, <2>1, SameUnsat
  <2>3. \A j \in names' : j \in names /\ clauses'[j] = clauses[j]
    BY <1>1, <1>2 DEF TypedContext
  <2>4. Watched'
    <3> SUFFICES ASSUME ~UnsatAt(firstHyp), NEW j \in names', NEW a \in Lits, NEW b \in Lits,
                        Watches2(clauses'[j], a, b)
                 PROVE  Seen(j, a, b)'
      BY <2>2 DEF Watched, Watches2
    <3>1. Seen(j, a, b)  BY <1>1, <2>3 DEF Watched
    <3> QED  BY <1>1, <1>2, <2>1, <3>1, IdleSeen
  <2>5. UnitsIn'
    <3> SUFFICES ASSUME unitsProcessed, ~UnsatAt(firstHyp), NEW j \in names', Len(clauses'[j]) <= 1
                 PROVE  \E p \in 1..firstHyp : truStack[p] = UnitLit(clauses'[j])
      BY <2>1, <2>2 DEF UnitsIn, UnitClauses, UnitLit
    <3> QED  BY <1>1, <2>3 DEF UnitsIn, UnitClauses
  <2> QED  BY <1>4, <2>4, <2>5 DEF Propagated
<1>6. CASE firstUnprocessed' = 0 /\ unitsProcessed' = FALSE
  <2>1. \A m : Reach(m)' = 0  BY <1>2, <1>6 DEF Reach
  <2>2. ASSUME NEW j, NEW a, NEW b PROVE Seen(j, a, b)'
    <3>1. Reach(j \in marked)' = 0  BY <1>2, <1>6 DEF Reach
    <3>2. \A n \in 1..Len(truStack') : ~(n <= 0)  OBVIOUS
    <3> QED  BY <3>1, <3>2 DEF Seen
  <2>3. Watched'  BY <2>2 DEF Watched
  <2>4. UnitsIn'  BY <1>6 DEF UnitsIn
  <2> QED  BY <1>4, <2>3, <2>4 DEF Propagated
<1> QED  BY <1>3, <1>5, <1>6

LEMMA MarkS == ASSUME SInv, IInv', NEW i \in Ids, MarkClause(i) PROVE Propagated'
<1>1. /\ IInv /\ Marks /\ Watched /\ UnitsIn
      /\ truStack \in Seq(Lits) /\ Len(truStack) \in Nat /\ firstHyp \in Nat
  BY Facts DEF SInv, Propagated
<1>2. pc = "idle" /\ UNCHANGED <<names, clauses, pc>> /\ UNCHANGED va  BY DEF MarkClause
<1>3. UNCHANGED <<truStack, firstHyp, firstUnprocessed, unitsProcessed>>  BY <1>2 DEF va
<1>4. UnsatAt(firstHyp)' <=> UnsatAt(firstHyp)  BY <1>1, <1>3, SameUnsat
<1>5. Watched'
  <2> SUFFICES ASSUME ~UnsatAt(firstHyp), NEW j \in names, NEW a \in Lits, NEW b \in Lits,
                      Watches2(clauses[j], a, b)
               PROVE  Seen(j, a, b)'
    BY <1>2, <1>4 DEF Watched, Watches2
  <2>1. Seen(j, a, b)  BY <1>1 DEF Watched
  <2> QED  BY <1>1, <1>2, <1>3, <2>1, IdleSeen
<1>6. UnitsIn'  BY <1>1, <1>2, <1>3, <1>4, UnitsFrame
<1>7. Marks' /\ Assumed'  BY <1>2 DEF Marks, Assumed, Propagating
<1> QED  BY <1>5, <1>6, <1>7 DEF Propagated

(* What becomes of a hint whose literal n moves to the front.                *)
LEMMA FrontFacts ==
  ASSUME NEW c \in Seq(Literals), IsInjective(c), NEW n \in 1..Len(c)
  PROVE  /\ Swap(c, 1, n) \in Seq(Literals) /\ Len(Swap(c, 1, n)) = Len(c)
         /\ \A k \in 1..Len(c) :
              Swap(c, 1, n)[k] = IF k = 1 THEN c[n] ELSE IF k = n THEN c[1] ELSE c[k]
<1>1. 1 \in 1..Len(c)  OBVIOUS
<1> QED  BY ONLY <1>1, c \in Seq(Literals), IsInjective(c), n \in 1..Len(c), SwapFacts

(* A hint with one literal left: it becomes the first.                       *)
LEMMA UnitHintS ==
  ASSUME SInv, pc = "hints", Hinted, NEW i \in names, NEW c, c = clauses[i],
         \A l \in Range(c) : ~IsTrue(l),
         NEW n \in HintLit(c), HintLit(c) = {n},
         clauses' = [clauses EXCEPT ![i] = Swap(c, 1, n)], Assign(c[n], i),
         UNCHANGED <<names, marked, firstHyp, firstUnprocessed, unitsProcessed, pc, stage>>
  PROVE  Propagated'
<1> DEFINE t == Swap(c, 1, n)
<1>1. /\ IInv /\ Marks /\ Watched /\ UnitsIn /\ TypedContext
      /\ truStack \in Seq(Lits) /\ Len(truStack) \in Nat
      /\ firstHyp \in 0..Len(truStack) /\ firstHyp \in Nat
      /\ firstUnprocessed \in 0..Len(truStack)
  BY Facts DEF SInv, Propagated
<1>2. i \in Ids /\ c \in Seq(Literals) /\ IsInjective(c)  BY <1>1 DEF TypedContext
<1>3. n \in 1..Len(c) /\ 1 \in 1..Len(c) /\ ~IsFalse(c[n])  BY <1>2 DEF HintLit
<1>4. /\ t \in Seq(Literals) /\ Len(t) = Len(c)
      /\ \A k \in 1..Len(c) : t[k] = IF k = 1 THEN c[n] ELSE IF k = n THEN c[1] ELSE c[k]
  BY ONLY <1>2, <1>3, FrontFacts
<1>5. clauses'[i] = t /\ \A j : j # i => clauses'[j] = clauses[j]
  BY <1>1, <1>2 DEF TypedContext
<1> HIDE DEF t
<1>6. c[n] \in Lits /\ i \in Ids \union {None}  BY <1>2, <1>3 DEF Literals
<1>7. /\ Len(truStack') \in Nat /\ Len(truStack) <= Len(truStack')
      /\ \A k \in 1..Len(truStack) : truStack'[k] = truStack[k]
  BY <1>1, <1>6, Grows
<1>8. ~UnsatAt(firstHyp)  BY <1>1, SatAt DEF IInv, Consistently
<1>9. Watched'
  <2> SUFFICES ASSUME NEW j \in names, NEW a \in Lits, NEW b \in Lits, Watches2(clauses'[j], a, b)
               PROVE  Seen(j, a, b)'
    BY DEF Watched, Watches2
  <2>1. CASE j # i
    <3>1. Seen(j, a, b)  BY <1>1, <1>5, <1>8, <2>1 DEF Watched
    <3> QED  BY <1>1, <1>7, <3>1, IdleSeen
  <2>2. CASE j = i
    <3>1. Len(c) >= 2 /\ (a = t[1] \/ a = t[2])  BY <1>4, <1>5, <2>2 DEF Watches2
    <3>2. Reach(j \in marked)' = firstUnprocessed /\ Reach(j \in marked) = firstUnprocessed
      BY DEF Reach
    <3> SUFFICES ASSUME NEW k \in 1..Len(truStack), k <= firstUnprocessed, truStack[k] = -a
                 PROVE  FALSE
      BY <1>1, <1>7, <3>2 DEF Seen
    <3>3. IsFalse(a)  BY <1>1, OnTrail
    <3>4. 1 \in 1..Len(c) /\ 2 \in 1..Len(c)  BY <1>2, <3>1
    <3>5. a = c[1] \/ a = c[2]
      <4>1. a # c[n]  BY <1>3, <3>3
      <4> QED  BY <1>4, <3>1, <3>4, <4>1
    <3>6. \E x \in Range(c) : Watches2(clauses[i], a, x) /\ x \in Lits
      <4>1. c[1] \in Range(c) /\ c[2] \in Range(c)  BY <1>2, <3>4, InRange
      <4>2. c[1] \in Lits /\ c[2] \in Lits  BY <1>2, <3>4 DEF Literals
      <4> QED  BY <3>1, <3>5, <4>1, <4>2 DEF Watches2
    <3>7. PICK x \in Range(c) : Watches2(clauses[i], a, x) /\ x \in Lits  BY <3>6
    <3>8. Seen(i, a, x) /\ ~Due(i, a)  BY <1>1, <1>8, <3>7 DEF Watched, Due
    <3>9. \E p \in 1..Len(truStack) : truStack[p] = x  BY <2>2, <3>2, <3>8 DEF Seen
    <3>10. IsTrue(x)  BY <1>1, <3>9, OnTrail
    <3> QED  BY <3>7, <3>10
  <2> QED  BY <2>1, <2>2
<1>10. UnitsIn'
  <2>1. ASSUME Len(c) <= 1 PROVE t = c
    <3>1. n = 1  BY <1>2, <1>3, <2>1
    <3>2. \A k \in 1..Len(c) : t[k] = c[k]  BY <1>4, <3>1
    <3> QED  BY <1>2, <1>4, <3>2
  <2>2. \A j \in names : Len(clauses'[j]) = Len(clauses[j])
                         /\ (Len(clauses[j]) <= 1 => clauses'[j] = clauses[j])
    BY <1>4, <1>5, <2>1
  <2>3. \A k \in 1..firstHyp : truStack'[k] = truStack[k]  BY <1>1, <1>7
  <2> QED  BY <1>1, <1>8, <2>2, <2>3, UnitsFrame
<1>11. Marks'  BY <1>1 DEF Marks, Propagating
<1>12. Assumed'  BY DEF Assumed, Hinted
<1> QED  BY <1>9, <1>10, <1>11, <1>12 DEF Propagated

LEMMA UseHintS == ASSUME SInv, IInv', UseHint PROVE Propagated'
<1> DEFINE i == Head(hints)
           c == clauses[i]
<1>1. pc = "hints" /\ hints # <<>> /\ UNCHANGED <<stage, goal, rest, unprocessed, cur, root>>
  BY DEF UseHint
<1>2. /\ IInv /\ Marks /\ Watched /\ UnitsIn /\ TypedContext /\ TypedControl /\ TypedTrail
      /\ ConflictLast /\ truStack \in Seq(Lits) /\ Len(truStack) \in Nat
      /\ firstHyp \in 0..Len(truStack) /\ firstHyp \in Nat
      /\ firstUnprocessed \in 0..Len(truStack)
  BY Facts DEF SInv, Propagated
<1>3. Hinted /\ ~Unsat /\ i \in names
  <2>1. hints \in Seq(names)  BY <1>2 DEF TypedControl
  <2> QED  BY <1>1, <1>2, <2>1 DEF IInv, Stages, Consistently
<1>4. CASE UNCHANGED <<context, va, pc>>
  <2>1. UNCHANGED <<firstHyp, firstUnprocessed, truStack, unitsProcessed>>  BY <1>4 DEF va
  <2>2. \A m \in BOOLEAN : Reach(m)' \in Nat /\ Reach(m)' <= Reach(m)
    BY <1>1, <1>2, <1>4, <2>1 DEF Reach
  <2>3. Ground' = Ground  BY <1>1, <1>4, <2>1 DEF Ground
  <2>4. Watched' /\ UnitsIn'  BY <1>1, <1>4, <2>2, <2>3, Elsewhere
  <2>5. Marks'  BY <1>1, <1>2, <1>4, <2>1 DEF Marks, Propagating
  <2>6. Assumed'  BY <1>1, <1>3 DEF Assumed, Hinted
  <2> QED  BY <2>4, <2>5, <2>6 DEF Propagated
<1>5. ASSUME \A l \in Range(c) : ~IsTrue(l), NEW n \in HintLit(c), HintLit(c) = {n},
             clauses' = [clauses EXCEPT ![i] = Swap(c, 1, n)], Assign(c[n], i),
             UNCHANGED <<names, marked, firstHyp, firstUnprocessed, unitsProcessed, pc>>
      PROVE  Propagated'
  <2>1. c = clauses[i] /\ UNCHANGED stage  BY <1>1
  <2> HIDE DEF i, c
  <2> QED  BY <1>1, <1>3, <1>5, <2>1, UnitHintS
<1>6. CASE /\ Assign(UnitLit(c), i) /\ pc' = "found"
           /\ UNCHANGED <<context, firstHyp, firstUnprocessed, unitsProcessed>>
  <2>1. UnitLit(c) \in Lits /\ i \in Ids \union {None}
    <3>1. c \in Seq(Literals) /\ i \in Ids  BY <1>2, <1>3 DEF TypedContext
    <3>2. c = <<>> => UnitLit(c) = 0 /\ 0 \in Lits  BY Sizes DEF UnitLit, Lits
    <3>3. c # <<>> => UnitLit(c) = c[1] /\ c[1] \in Lits  BY <3>1 DEF UnitLit, Literals
    <3> QED  BY <3>1, <3>2, <3>3
  <2>2. /\ Len(truStack') \in Nat /\ Len(truStack) <= Len(truStack')
        /\ \A k \in 1..Len(truStack) : truStack'[k] = truStack[k]
    BY <1>2, <1>6, <2>1, Grows
  <2>3. ~UnsatAt(firstHyp)  BY <1>2, <1>3, SatAt
  <2>4. Ground = firstHyp /\ Ground' = firstHyp  BY <1>1, <1>6 DEF Ground
  <2>5. \A m \in BOOLEAN : Reach(m)' \in Nat /\ Reach(m)' <= Reach(m) /\ Reach(m) <= Len(truStack)
    BY <1>1, <1>2, <1>6 DEF Reach
  <2>6. Kept(Len(truStack))
    <3>1. \A m \in BOOLEAN : Reach(m)' <= Len(truStack)
      BY <1>1, <1>2, <1>6 DEF Reach
    <3> QED  BY <1>2, <2>2, <2>4, <2>5, <3>1 DEF Kept
  <2>7. \A j, a : ~Due(j, a)  BY <1>1 DEF Due
  <2>8. Watched'  BY <1>2, <1>6, <2>3, <2>6, <2>7, WatchedFrame
  <2>9. UNCHANGED <<names, clauses>>  BY <1>6 DEF context
  <2>10. UnitsIn'
    <3>1. \A k \in 1..firstHyp : truStack'[k] = truStack[k]  BY <1>2, <2>2
    <3> QED  BY <1>2, <1>6, <2>3, <2>9, <3>1, UnitsFrame
  <2>11. Marks' /\ Assumed'  BY <1>6 DEF Marks, Assumed, Propagating
  <2> QED  BY <2>8, <2>10, <2>11 DEF Propagated
<1> QED  BY <1>4, <1>5, <1>6 DEF UseHint

-----------------------------------------------------------------------------
(* The theorems.                                                           *)

LEMMA InitS == Init => SInv
<1> SUFFICES ASSUME Init PROVE SInv  OBVIOUS
<1>1. IInv  BY InitInv
<1>2. Watched  BY DEF Init, Watched
<1>3. UnitsIn /\ Marks /\ Assumed  BY DEF Init, UnitsIn, Marks, Assumed, Propagating
<1> QED  BY <1>1, <1>2, <1>3 DEF SInv, Propagated

LEMMA NextS == SInv /\ [Next]_vars => SInv'
<1> SUFFICES ASSUME SInv, [Next]_vars PROVE SInv'  OBVIOUS
<1>0. IInv'  BY NextInv DEF SInv
<1> SUFFICES Propagated'  BY <1>0 DEF SInv
<1>1. CASE \E i \in Ids, c \in Inputs : InsertClause(i, c, c = <<>>)
  <2>1. PICK i \in Ids, c \in Inputs : InsertClause(i, c, c = <<>>)  BY <1>1
  <2>2. (c = <<>>) \in BOOLEAN  OBVIOUS
  <2>3. \A m \in BOOLEAN : InsertClause(i, c, m) => Propagated'  BY <1>0, InsertS
  <2> QED  BY <2>1, <2>2, <2>3
<1>2. CASE \E i \in Ids : RemoveClause(i) \/ MarkClause(i)  BY <1>0, <1>2, RemoveS, MarkS
<1>3. CASE \E c \in Goals : Step(c, <<>>, FALSE) \/ \E h \in HintLists : Step(c, h, TRUE)
  BY <1>0, <1>3, StepS
<1>4. CASE StartHint  BY <1>0, <1>4, StartHintS
<1>5. CASE UseHint  BY <1>0, <1>5, UseHintS
<1>6. CASE HintRound  BY <1>0, <1>6, HintRoundS
<1>7. CASE Propagate  BY <1>0, <1>7, PropagateS
<1>8. CASE ProcessUnits  BY <1>0, <1>8, ProcessUnitsS
<1>9. CASE Assume  BY <1>0, <1>9, AssumeS
<1>10. CASE NextPropLit  BY <1>0, <1>10, NextPropLitS
<1>11. CASE PropDone  BY <1>0, <1>11, PropDoneS
<1>12. CASE Visit  BY <1>0, <1>12, VisitS
<1>13. CASE Finish  BY <1>0, <1>13, FinishS
<1>14. CASE UNCHANGED vars
  <2>1. /\ UNCHANGED <<names, clauses, marked, watch, truStack, firstHyp, firstUnprocessed,
                       unitsProcessed, pc, stage, goal, rest, unprocessed, cur, root>>
    BY <1>14 DEF vars, context, va, control
  <2>2. Propagated  BY DEF SInv
  <2>3. Watched'  BY <2>1, <2>2 DEF Propagated, Watched, UnsatAt, Seen, Due, Reach, Ground
  <2>4. UnitsIn'  BY <2>1, <2>2 DEF Propagated, UnitsIn, UnsatAt, UnitClauses, UnitLit
  <2>5. Marks'  BY <2>1, <2>2 DEF Propagated, Marks, Propagating
  <2>6. Assumed'  BY <2>1, <2>2 DEF Propagated, Assumed, Propagating, IsFalse, IsTrue
  <2> QED  BY <2>3, <2>4, <2>5, <2>6 DEF Propagated
<1> QED
  BY <1>1, <1>2, <1>3, <1>4, <1>5, <1>6, <1>7, <1>8, <1>9, <1>10, <1>11, <1>12, <1>13, <1>14
     DEF Next, Engine

(* No watch that a class was told of has been missed, wherever the watches    *)
(* stand, the trail was cut and clauses were inserted or marked.             *)
THEOREM PropagationInv == Spec => []SInv
<1>1. Init => SInv  BY InitS
<1>2. SInv /\ [Next]_vars => SInv'  BY NextS
<1> QED  BY <1>1, <1>2, PTL DEF Spec

LEMMA SeenAll ==
  ASSUME SInv, (pc = "assume" /\ stage = "goal" /\ rest = goal) \/ pc = "stuck"
  PROVE  Saturated
<1>1. /\ IInv /\ Marks /\ Watched /\ UnitsIn /\ TypedContext /\ TypedTrail /\ ConflictLast
      /\ truStack \in Seq(Lits) /\ Len(truStack) \in Nat /\ firstHyp \in 0..Len(truStack)
  BY Facts DEF SInv, Propagated
<1>2. firstUnprocessed = Len(truStack) /\ unitsProcessed  BY <1>1 DEF Marks
<1>3. ~Unsat /\ ~UnsatAt(firstHyp)  BY <1>1, SatAt DEF IInv, Consistently
<1> SUFFICES ASSUME NEW i \in names
             PROVE  \/ \E l \in Range(clauses[i]) : IsTrue(l)
                    \/ Cardinality({l \in Range(clauses[i]) : ~IsFalse(l)}) > 1
  BY DEF Saturated
<1> DEFINE c == clauses[i]
           T == {l \in Range(c) : ~IsFalse(l)}
<1>4. c \in Seq(Literals) /\ IsInjective(c)  BY <1>1 DEF TypedContext
<1>5. CASE Len(c) <= 1
  <2>1. PICK p \in 1..firstHyp : truStack[p] = UnitLit(c)
    BY <1>1, <1>2, <1>3, <1>5 DEF UnitsIn, UnitClauses
  <2>2. IsTrue(UnitLit(c))  BY <1>1, <2>1, OnTrail
  <2>3. c # <<>>  BY <1>1, <1>3, <2>2, ZeroOff DEF UnitLit
  <2>4. 1 \in 1..Len(c) /\ UnitLit(c) = c[1]  BY <1>4, <2>3 DEF UnitLit
  <2> QED  BY <1>4, <2>2, <2>4, InRange
<1>6. CASE Len(c) >= 2
  <2>1. 1 \in 1..Len(c) /\ 2 \in 1..Len(c)  BY <1>4, <1>6
  <2>2. c[1] \in Range(c) /\ c[2] \in Range(c) /\ c[1] # c[2] /\ c[1] \in Lits /\ c[2] \in Lits
    BY <1>4, <2>1, InRange DEF Literals
  <2>3. Watches2(clauses[i], c[1], c[2]) /\ Watches2(clauses[i], c[2], c[1])
    BY <1>6 DEF Watches2
  <2>4. Seen(i, c[1], c[2]) /\ Seen(i, c[2], c[1])  BY <1>1, <1>3, <2>2, <2>3 DEF Watched
  <2> HIDE DEF c
  <2>5. ASSUME NEW a, NEW b, Seen(i, a, b), IsFalse(a) PROVE IsTrue(b)
    <3>1. PICK n \in 1..Len(truStack) : truStack[n] = -a  BY <1>1, <2>5, OnTrail
    <3>2. n <= Reach(i \in marked)  BY <1>1, <1>2 DEF Reach
    <3>3. ~Due(i, a)  BY DEF Due
    <3>4. \E p \in 1..Len(truStack) : truStack[p] = b  BY <2>5, <3>1, <3>2, <3>3 DEF Seen
    <3> QED  BY <1>1, <3>4, OnTrail
  <2>6. CASE IsFalse(c[1]) \/ IsFalse(c[2])  BY <2>2, <2>4, <2>5, <2>6 DEF c
  <2>7. CASE ~IsFalse(c[1]) /\ ~IsFalse(c[2])
    <3>1. c[1] \in T /\ c[2] \in T  BY <2>2, <2>7
    <3>2. T \subseteq Lits  BY <1>4, InRange DEF Literals
    <3>3. IsFiniteSet(T)  BY <3>2, FiniteLits
    <3> HIDE DEF T
    <3>4. ~(Cardinality(T) <= 1)  BY <2>2, <3>1, <3>3, AtMostOne
    <3>5. Cardinality(T) \in Nat  BY <3>3, FS_CardinalityType
    <3>6. Cardinality(T) > 1  BY <3>4, <3>5
    <3> QED  BY <3>6 DEF T, c
  <2> QED  BY <2>6, <2>7
<1>7. Len(c) <= 1 \/ Len(c) >= 2  BY <1>4
<1> QED  BY <1>5, <1>6, <1>7

(* When propagate_core() returns without a conflict no clause is unit or       *)
(* falsified: what self_test() checks of the trail.                        *)
THEOREM AlwaysSaturated == Spec => []Saturated
<1>1. SInv => Saturated  BY SeenAll DEF Saturated
<1> QED  BY <1>1, PropagationInv, PTL

(* The trail the engine is stuck with is closed under the unit clauses, and    *)
(* holds no contradiction: nothing that it holds is refuted.                 *)
LEMMA StuckHolds ==
  ASSUME SInv, pc = "stuck"
  PROVE  \A A \in SUBSET Range(truStack) : ~Refuted(A)
<1>1. IInv /\ ConflictLast /\ truStack \in Seq(Lits)  BY Facts DEF SInv, Propagated
<1> DEFINE S == Range(truStack)
<1>2. S \in SUBSET Lits /\ \A x : IsTrue(x) <=> x \in S  BY <1>1, InRange DEF IsTrue
<1>3. \A i \in names :
        \/ clauses[i] # <<>> /\ \E l \in Range(clauses[i]) : l \in S
        \/ Cardinality({l \in Range(clauses[i]) : -l \notin S}) > 1
  <2> TAKE i \in names
  <2>1. \/ \E l \in Range(clauses[i]) : IsTrue(l)
        \/ Cardinality({l \in Range(clauses[i]) : ~IsFalse(l)}) > 1
    BY SeenAll DEF Saturated
  <2>2. {l \in Range(clauses[i]) : ~IsFalse(l)} = {l \in Range(clauses[i]) : -l \notin S}
    BY DEF IsFalse, IsTrue
  <2>3. (\E l \in Range(clauses[i]) : IsTrue(l)) => clauses[i] # <<>>  BY DEF Range
  <2> QED  BY <1>2, <2>1, <2>2, <2>3
<1>4. ~ \E l \in S : l # 0 /\ -l \in S
  <2> SUFFICES ASSUME NEW l \in S, -l \in S PROVE FALSE  OBVIOUS
  <2>1. IsTrue(l) /\ IsFalse(l) /\ l \in Lits  BY <1>2 DEF IsFalse
  <2>2. ~Unsat  BY <1>1 DEF IInv, Consistently
  <2> QED  BY <1>1, <2>1, <2>2, Consistent
<1> HIDE DEF S
<1>5. \A A \in SUBSET S : ~Refuted(A)  BY <1>2, <1>3, <1>4 DEF Refuted
<1> QED  BY <1>5 DEF S

LEMMA StuckNotRup ==
  ASSUME SInv, pc = "stuck"
  PROVE  ~Rup(goal)
<1>1. /\ IInv /\ Marks /\ Assumed /\ TypedControl  BY Facts DEF SInv, Propagated
<1>2. Negated(goal) \subseteq Range(truStack)
  <2> SUFFICES ASSUME NEW l \in Range(goal) PROVE IsFalse(l)  BY DEF Negated, IsFalse, IsTrue
  <2>1. stage \in {"root", "goal"}  BY <1>1 DEF IInv, Stages, TypedControl, Hinted
  <2>2. CASE stage = "root"
    <3>1. goal = <<>>  BY <1>1, <2>2 DEF Marks
    <3> QED  BY <3>1 DEF Range
  <2>3. CASE stage = "goal"
    <3>1. rest = <<>> /\ (l \in Range(rest) \/ IsFalse(l))  BY <1>1, <2>3 DEF Assumed
    <3>2. l \notin Range(rest)  BY <3>1 DEF Range
    <3> QED  BY <3>1, <3>2
  <2> QED  BY <2>1, <2>2, <2>3
<1> QED  BY <1>2, StuckHolds DEF Rup

(* The engine accepts a clause exactly when it follows by unit propagation,   *)
(* unless a hint let it off as a RAT step: it is never wrong, and gives up    *)
(* on none that follows.                                                   *)
THEOREM EngineVerdict == Spec => []Verdict
<1>1. SInv => Verdict  BY FoundRup, StuckNotRup DEF Verdict, SInv
<1> QED  BY <1>1, PropagationInv, PTL

-----------------------------------------------------------------------------
(* A loop of n turns from b: G[<<k, x>>] is what turn k makes of x.          *)
LoopOf(g, n, S, b, G) ==
  /\ g \in [0..n -> S] /\ g[0] = b
  /\ \A k \in 1..n : g[k] = G[<<k, g[k-1]>>]

(* Induction up to n, for a set.                                           *)
LEMMA Upward ==
  ASSUME NEW n \in Nat, NEW P, 0 \in P, \A k \in 1..n : k - 1 \in P => k \in P
  PROVE  \A k \in 0..n : k \in P
<1> DEFINE Bad == {k \in 0..n : k \notin P}
<1>1. SUFFICES ASSUME Bad # {} PROVE FALSE  OBVIOUS
<1>2. Bad \subseteq Nat  OBVIOUS
<1>3. PICK k \in Bad : \A y \in Bad : k <= y
  <2> HIDE DEF Bad
  <2> QED  BY <1>1, <1>2, Least
<1>4. k \in 1..n /\ k - 1 \in 0..n /\ ~(k <= k - 1)  OBVIOUS
<1>5. k - 1 \in P  BY <1>3, <1>4
<1> QED  BY <1>4, <1>5

LEMMA LoopExists ==
  ASSUME NEW n, n \in Nat, NEW S, NEW b, b \in S, NEW G, G \in [(1..n) \X S -> S]
  PROVE  \E g : LoopOf(g, n, S, b, G)
<1> DEFINE Loop(g, m) == /\ g \in [0..m -> S] /\ g[0] = b
                         /\ \A k \in 1..m : g[k] = G[<<k, g[k-1]>>]
           P == {m \in 0..n : \E g : Loop(g, m)}
<1>1. 0 \in P
  <2> DEFINE g == [k \in 0..0 |-> b]
  <2>1. g \in [0..0 -> S] /\ g[0] = b /\ \A k \in 1..0 : FALSE  OBVIOUS
  <2> HIDE DEF g
  <2>2. Loop(g, 0)  BY <2>1
  <2> QED  BY <2>2
<1>2. ASSUME NEW m \in 1..n, m - 1 \in P PROVE m \in P
  <2>1. PICK g : Loop(g, m - 1)  BY <1>2
  <2> DEFINE x == G[<<m, g[m-1]>>]
             h == [k \in 0..m |-> IF k = m THEN x ELSE g[k]]
  <2>2. g[m-1] \in S /\ x \in S  BY <2>1
  <2> HIDE DEF x
  <2>3. \A k \in 0..m-1 : h[k] = g[k]  OBVIOUS
  <2>4. h \in [0..m -> S] /\ h[0] = b /\ h[m] = x /\ h[m-1] = g[m-1]
    <3>1. \A k \in 0..m : k = m \/ k \in 0..m-1  OBVIOUS
    <3>2. \A k \in 0..m-1 : g[k] \in S  BY <2>1
    <3>3. 0 \in 0..m-1 /\ m-1 \in 0..m-1 /\ m \in 0..m  OBVIOUS
    <3> QED  BY <2>1, <2>2, <2>3, <3>1, <3>2, <3>3
  <2> HIDE DEF h
  <2>5. \A k \in 1..m : h[k] = G[<<k, h[k-1]>>]
    <3> TAKE k \in 1..m
    <3>1. CASE k = m  BY <2>4, <3>1 DEF x
    <3>2. CASE k # m
      <4>1. k \in 1..m-1 /\ k \in 0..m-1 /\ k-1 \in 0..m-1  BY <3>2
      <4> QED  BY <2>1, <2>3, <4>1
    <3> QED  BY <3>1, <3>2
  <2>6. Loop(h, m)  BY <2>4, <2>5
  <2> QED  BY <2>6
<1>3. \A k \in 0..n : k \in P
  <2> HIDE DEF P
  <2> QED  BY <1>1, <1>2, Upward
<1>4. n \in P  BY <1>3
<1>5. \E g : Loop(g, n)  BY <1>4
<1> QED  BY <1>5 DEF LoopOf

-----------------------------------------------------------------------------
(* The marks.                                                              *)

(* Literal x needs no more than the first n clauses of the hint s.          *)
Done(x, s, n) == IsTrue(x) /\ (reasons[x] = None \/ \E m \in 1..n : s[m] = reasons[x])

(* Clause n of the hint is the reason of its first literal, and the others   *)
(* need only what is listed before it.                                     *)
Rests(s, n) ==
  /\ s[n] \in names
  /\ reasons[UnitLit(clauses[s[n]])] = s[n] /\ IsTrue(UnitLit(clauses[s[n]]))
  /\ \A k \in 2..Len(clauses[s[n]]) : Done(-clauses[s[n]][k], s, n - 1)

Ordered(o) ==
  /\ o \in Outs
  /\ \A x \in Range(o.temp) : Done(x, o.steps, Len(o.steps))
  /\ \A n \in 1..Len(o.steps) : Rests(o.steps, n)

(* From the marks o to the marks u.                                        *)
Extends(u, o) ==
  /\ Len(o.steps) <= Len(u.steps)
  /\ \A n \in 1..Len(o.steps) : u.steps[n] = o.steps[n]
  /\ Range(o.temp) \subseteq Range(u.temp)

Marker == [Lits \X Outs -> Outs]

(* f marks what is in the first d places of the trail.                      *)
MarksTo(f, d) ==
  \A m \in 1..Len(truStack), o \in Outs :
    m <= d /\ Ordered(o) =>
      LET u == f[<<truStack[m], o>>]
      IN Ordered(u) /\ Extends(u, o) /\ truStack[m] \in Range(u.temp)

LEMMA OutsAre ==
  ASSUME NEW o \in Outs
  PROVE  /\ o.temp \in Seq(Lits) /\ o.steps \in Seq(Ids)
         /\ Len(o.temp) \in Nat /\ Len(o.steps) \in Nat
  BY DEF Outs

LEMMA ExtendsOn ==
  ASSUME NEW o \in Outs, NEW u \in Outs, NEW v \in Outs
  PROVE  /\ Extends(o, o)
         /\ Extends(u, o) /\ Extends(v, u) => Extends(v, o)
<1>1. Len(o.steps) \in Nat /\ Len(u.steps) \in Nat /\ Len(v.steps) \in Nat  BY OutsAre
<1>2. ASSUME Extends(u, o), Extends(v, u) PROVE Extends(v, o)
  <2>1. Len(o.steps) <= Len(v.steps)  BY <1>1, <1>2 DEF Extends
  <2>2. ASSUME NEW n \in 1..Len(o.steps) PROVE v.steps[n] = o.steps[n]
    <3>1. n \in 1..Len(u.steps)  BY <1>1, <1>2 DEF Extends
    <3> QED  BY <1>2, <3>1 DEF Extends
  <2>3. Range(o.temp) \subseteq Range(v.temp)  BY <1>2 DEF Extends
  <2> QED  BY <2>1, <2>2, <2>3 DEF Extends
<1> QED  BY <1>1, <1>2 DEF Extends

(* MarkEach is a loop.                                                      *)
EachTurn(f, others, k, o) ==
  IF -others[k] \in Range(o.temp) THEN o ELSE f[<<-others[k], o>>]
EachEq(g, f, others, o) ==
  g = [k \in 0..Len(others) |-> IF k = 0 THEN o ELSE EachTurn(f, others, k, g[k-1])]

LEMMA EachLoop ==
  ASSUME NEW f \in Marker, NEW others \in Seq(Lits), NEW o \in Outs
  PROVE  \E g : /\ g \in [0..Len(others) -> Outs] /\ g[0] = o
                /\ \A k \in 1..Len(others) : g[k] = EachTurn(f, others, k, g[k-1])
                /\ MarkEach(f, others, o) = g[Len(others)]
<1> DEFINE n == Len(others)
           T(k, x) == EachTurn(f, others, k, x)
<1>1. n \in Nat  OBVIOUS
<1>2. ASSUME NEW k \in 1..n, NEW x \in Outs PROVE T(k, x) \in Outs
  <2>1. others[k] \in Lits  OBVIOUS
  <2>2. -others[k] \in Lits  BY <2>1, Negation
  <2> QED  BY <2>2 DEF EachTurn, Marker
<1>3. MarkEach(f, others, o) = (CHOOSE g : EachEq(g, f, others, o))[n]
  BY DEF MarkEach, EachEq, EachTurn
<1> HIDE DEF n, T
<1>4. \E g : EachEq(g, f, others, o)
  <2> DEFINE G == [p \in (1..n) \X Outs |-> T(p[1], p[2])]
  <2>1. G \in [(1..n) \X Outs -> Outs]  BY <1>2
  <2>2. \A k \in 1..n : \A x \in Outs : G[<<k, x>>] = T(k, x)  OBVIOUS
  <2> HIDE DEF G
  <2>3. o \in Outs  OBVIOUS
  <2>9. PICK g : LoopOf(g, n, Outs, o, G)  BY ONLY <1>1, <2>1, <2>3, LoopExists
  <2>4. /\ g \in [0..n -> Outs] /\ g[0] = o
        /\ \A k \in 1..n : g[k] = G[<<k, g[k-1]>>]
    BY <2>9 DEF LoopOf
  <2>5. \A k \in 1..n : g[k] = T(k, g[k-1])
    <3> TAKE k \in 1..n
    <3>1. k - 1 \in 0..n  BY <1>1
    <3> QED  BY <2>2, <2>4, <3>1
  <2>6. \A k \in 0..n : g[k] = IF k = 0 THEN o ELSE T(k, g[k-1])
    <3> TAKE k \in 0..n
    <3>1. k = 0 \/ k \in 1..n  BY <1>1
    <3> QED  BY <2>4, <2>5, <3>1
  <2>7. g = [k \in 0..n |-> g[k]]  BY <2>4
  <2>8. g = [k \in 0..n |-> IF k = 0 THEN o ELSE T(k, g[k-1])]  BY <2>6, <2>7
  <2> QED  BY <2>8 DEF EachEq, n, T
<1> DEFINE g == CHOOSE g : EachEq(g, f, others, o)
<1>5. EachEq(g, f, others, o)  BY <1>4
<1>6. MarkEach(f, others, o) = g[n]  BY <1>3
<1> HIDE DEF g
<1>7. /\ \A k \in 0..n : g[k] = IF k = 0 THEN o ELSE T(k, g[k-1])
      /\ DOMAIN g = 0..n /\ g = [k \in 0..n |-> g[k]]
  BY <1>5 DEF EachEq, n, T
<1>8. g[0] = o
  <2>1. 0 \in 0..n  BY <1>1
  <2> QED  BY <1>7, <2>1
<1>9. \A k \in 1..n : g[k] = T(k, g[k-1])
  <2> TAKE k \in 1..n
  <2>1. k \in 0..n /\ k # 0  BY <1>1
  <2> QED  BY <1>7, <2>1
<1> DEFINE P == {k \in 0..n : g[k] \in Outs}
<1>10. 0 \in P  BY <1>1, <1>8
<1>11. ASSUME NEW k \in 1..n, k - 1 \in P PROVE k \in P
  <2>1. k \in 0..n  BY <1>1
  <2>2. g[k] \in Outs  BY <1>2, <1>9, <1>11
  <2> QED  BY <2>1, <2>2
<1>12. \A k \in 0..n : k \in P
  <2> HIDE DEF P
  <2> QED  BY <1>1, <1>10, <1>11, Upward
<1>13. g \in [0..n -> Outs]  BY <1>7, <1>12
<1> QED  BY <1>6, <1>8, <1>9, <1>13 DEF n, T

LEMMA EachMarks ==
  ASSUME TypedTrail, NEW f \in Marker, NEW others \in Seq(Lits), NEW d \in Nat, MarksTo(f, d),
         NEW o \in Outs, Ordered(o),
         \A k \in 1..Len(others) : \E m \in 1..Len(truStack) : m <= d /\ truStack[m] = -others[k]
  PROVE  LET u == MarkEach(f, others, o)
         IN Ordered(u) /\ Extends(u, o) /\ \A k \in 1..Len(others) : -others[k] \in Range(u.temp)
<1> DEFINE n == Len(others)
<1>0. n \in Nat  OBVIOUS
<1>1. PICK g : /\ g \in [0..n -> Outs] /\ g[0] = o
               /\ \A k \in 1..n : g[k] = EachTurn(f, others, k, g[k-1])
               /\ MarkEach(f, others, o) = g[n]
  BY EachLoop
<1> DEFINE Here(k) == /\ Ordered(g[k]) /\ Extends(g[k], o)
                      /\ \A j \in 1..k : -others[j] \in Range(g[k].temp)
           P == {k \in 0..n : Here(k)}
<1>2. 0 \in P
  <2>1. Extends(o, o)  BY ExtendsOn
  <2> QED  BY <1>0, <1>1, <2>1
<1>3. ASSUME NEW k \in 1..n, k - 1 \in P PROVE k \in P
  <2> DEFINE x == g[k-1]
             u == g[k]
  <2>1. k \in 0..n /\ k - 1 \in 0..n  BY <1>0
  <2>2. /\ x \in Outs /\ u \in Outs /\ u = EachTurn(f, others, k, x)
        /\ Ordered(x) /\ Extends(x, o)
        /\ \A j \in 1..k-1 : -others[j] \in Range(x.temp)
    BY <1>1, <1>3, <2>1
  <2> HIDE DEF x, u
  <2>3. Ordered(u) /\ Extends(u, x) /\ -others[k] \in Range(u.temp)
    <3>1. CASE -others[k] \in Range(x.temp)
      <4>1. u = x  BY <2>2, <3>1 DEF EachTurn
      <4> QED  BY <2>2, <3>1, <4>1, ExtendsOn
    <3>2. CASE -others[k] \notin Range(x.temp)
      <4>1. u = f[<<-others[k], x>>]  BY <2>2, <3>2 DEF EachTurn
      <4>2. PICK m \in 1..Len(truStack) : m <= d /\ truStack[m] = -others[k]  OBVIOUS
      <4> QED  BY <2>2, <4>1, <4>2 DEF MarksTo
    <3> QED  BY <3>1, <3>2
  <2>4. Extends(u, o)  BY <2>2, <2>3, ExtendsOn
  <2>5. \A j \in 1..k : -others[j] \in Range(u.temp)
    <3> TAKE j \in 1..k
    <3>1. j = k \/ j \in 1..k-1  BY <1>0
    <3>2. Range(x.temp) \subseteq Range(u.temp)  BY <2>3 DEF Extends
    <3> QED  BY <2>2, <2>3, <3>1, <3>2
  <2> QED  BY <2>1, <2>3, <2>4, <2>5 DEF u
<1>4. \A k \in 0..n : k \in P
  <2> HIDE DEF P
  <2> QED  BY <1>0, <1>2, <1>3, Upward
<1>5. Here(n)
  <2>1. n \in 0..n  BY <1>0
  <2> QED  BY <1>4, <2>1
<1> QED  BY <1>1, <1>5

(* More marks, or a longer hint, do not take away what was done.             *)
LEMMA DoneOn ==
  ASSUME NEW x, NEW s, NEW t, NEW n \in Nat, NEW m \in Nat, n <= m, Done(x, s, n),
         \A k \in 1..n : t[k] = s[k]
  PROVE  Done(x, t, m)
  BY DEF Done

LEMMA OthersAre ==
  ASSUME TypedContext, TypedTrail, NEW l \in Lits
  PROVE  /\ Others(l) \in Seq(Lits)
         /\ reasons[l] = None => Others(l) = <<>>
         /\ reasons[l] # None =>
              /\ reasons[l] \in Ids
              /\ Others(l) = <<>> \/ Len(Others(l)) = Len(clauses[reasons[l]]) - 1
              /\ Len(clauses[reasons[l]]) > 1 => Len(Others(l)) = Len(clauses[reasons[l]]) - 1
              /\ \A k \in 1..Len(Others(l)) : Others(l)[k] = clauses[reasons[l]][k+1]
<1> DEFINE c == clauses[reasons[l]]
<1>1. reasons[l] \in Ids \union {None}  BY DEF TypedTrail
<1>2. CASE reasons[l] = None  BY <1>2 DEF Others
<1>3. CASE reasons[l] # None
  <2>1. c \in Seq(Lits) /\ reasons[l] \in Ids
    BY <1>1, <1>3 DEF TypedContext, Literals
  <2>2. Others(l) = IF c = <<>> THEN <<>> ELSE Tail(c)  BY <1>3 DEF Others
  <2> HIDE DEF c
  <2>3. CASE c = <<>>  BY <1>3, <2>1, <2>2, <2>3 DEF c
  <2>4. CASE c # <<>>
    <3>1. Others(l) = Tail(c)  BY <2>2, <2>4
    <3>2. /\ Tail(c) \in Seq(Lits) /\ Len(Tail(c)) = Len(c) - 1
          /\ \A k \in 1..Len(Tail(c)) : Tail(c)[k] = c[k+1]
      BY <2>1, <2>4
    <3> QED  BY <1>3, <2>1, <3>1, <3>2 DEF c
  <2> QED  BY <2>3, <2>4
<1> QED  BY <1>2, <1>3

LEMMA Writing ==
  ASSUME TypedTrail, NEW o \in Outs, NEW l \in Lits
  PROVE  /\ Listed(o, l) \in Outs /\ Listed(o, l).temp = o.temp
         /\ Listed(o, l).steps = IF reasons[l] = None THEN o.steps
                                ELSE Append(o.steps, reasons[l])
         /\ Marked(o, l) \in Outs /\ Marked(o, l).steps = o.steps
         /\ Marked(o, l).temp = Append(o.temp, l)
<1>1. reasons[l] = None \/ reasons[l] \in Ids  BY DEF TypedTrail
<1>2. o = [temp |-> o.temp, steps |-> o.steps]  BY DEF Outs
<1>3. o.temp \in Seq(Lits) /\ o.steps \in Seq(Ids)  BY OutsAre
<1> DEFINE s == Append(o.steps, reasons[l])
           t == Append(o.temp, l)
<1>4. reasons[l] \in Ids => s \in Seq(Ids)  BY <1>3, AppendProperties
<1>5. t \in Seq(Lits)  BY <1>3, AppendProperties
<1>6. Listed(o, l) = IF reasons[l] = None THEN o ELSE [temp |-> o.temp, steps |-> s]
  BY <1>2 DEF Listed
<1>7. Marked(o, l) = [temp |-> t, steps |-> o.steps]  BY <1>2 DEF Marked
<1> HIDE DEF s, t
<1>8. Marked(o, l) \in Outs  BY <1>3, <1>5, <1>7 DEF Outs
<1>9. Listed(o, l) \in Outs  BY <1>1, <1>3, <1>4, <1>6 DEF Outs
<1> QED  BY <1>6, <1>7, <1>8, <1>9 DEF s, t

LEMMA OneTyped ==
  ASSUME TypedContext, TypedTrail, NEW f \in Marker, NEW l \in Lits, NEW o \in Outs
  PROVE  /\ MarkOne(f, l, o) \in Outs
         /\ reasons[l] = None => MarkOne(f, l, o).steps = o.steps
<1> DEFINE u == MarkEach(f, Others(l), o)
<1>1. Others(l) \in Seq(Lits)  BY OthersAre
<1>2. PICK g : /\ g \in [0..Len(Others(l)) -> Outs] /\ g[0] = o
               /\ u = g[Len(Others(l))]
  BY <1>1, EachLoop
<1>3. Len(Others(l)) \in 0..Len(Others(l))  BY <1>1
<1>4. u \in Outs  BY <1>2, <1>3
<1>5. reasons[l] = None => u = o
  <2>1. reasons[l] = None => Len(Others(l)) = 0  BY OthersAre
  <2> QED  BY <1>2, <2>1
<1> HIDE DEF u
<1>6. MarkOne(f, l, o) = Marked(Listed(u, l), l)  BY DEF MarkOne, u
<1>7. Listed(u, l) \in Outs /\ (reasons[l] = None => Listed(u, l).steps = u.steps)
  BY <1>4, Writing
<1>8. Marked(Listed(u, l), l) \in Outs /\ Marked(Listed(u, l), l).steps = Listed(u, l).steps
  BY <1>7, Writing
<1> QED  BY <1>5, <1>6, <1>7, <1>8

LEMMA OneMarks ==
  ASSUME TypedContext, TypedTrail, Derivation,
         NEW f \in Marker, NEW m \in 1..Len(truStack), MarksTo(f, m - 1),
         NEW o \in Outs, Ordered(o)
  PROVE  LET u == MarkOne(f, truStack[m], o)
         IN Ordered(u) /\ Extends(u, o) /\ truStack[m] \in Range(u.temp)
<1> DEFINE l == truStack[m]
           i == reasons[l]
           e == MarkEach(f, Others(l), o)
           p == Listed(e, l)
           u == Marked(p, l)
<1>0. /\ truStack \in Seq(Lits) /\ Len(truStack) \in Nat /\ l \in Lits /\ IsTrue(l)
      /\ Others(l) \in Seq(Lits) /\ m - 1 \in Nat
  BY OthersAre, OnTrail DEF TypedTrail
<1>1. IF i = None THEN Hypothesis(m) ELSE Forced(m)  BY DEF Derivation
<1>2. \A k \in 1..Len(Others(l)) :
        \E h \in 1..Len(truStack) : h <= m - 1 /\ truStack[h] = -Others(l)[k]
  <2> TAKE k \in 1..Len(Others(l))
  <2>0. i # None  BY <1>0, OthersAre
  <2>1. k + 1 \in 2..Len(clauses[i]) /\ Others(l)[k] = clauses[i][k+1]
    <3>0. Others(l) # <<>>  BY <1>0
    <3>1. Len(Others(l)) = Len(clauses[i]) - 1 /\ Others(l)[k] = clauses[i][k+1]
      BY <1>0, <2>0, <3>0, OthersAre
    <3>2. Len(Others(l)) \in Nat  BY <1>0
    <3>3. Len(clauses[i]) \in Nat  BY <1>0, <2>0, OthersAre DEF TypedContext
    <3> QED  BY <3>1, <3>2, <3>3
  <2>2. PICK h \in 1..m-1 : truStack[h] = -clauses[i][k+1]
    BY <1>1, <2>0, <2>1 DEF Forced
  <2>3. h \in 1..Len(truStack) /\ h <= m - 1  BY <1>0
  <2> QED  BY <2>1, <2>2, <2>3
<1>3. /\ Ordered(e) /\ Extends(e, o)
      /\ \A k \in 1..Len(Others(l)) : -Others(l)[k] \in Range(e.temp)
  BY <1>0, <1>2, EachMarks
<1>4. e \in Outs /\ e.temp \in Seq(Lits) /\ e.steps \in Seq(Ids) /\ Len(e.steps) \in Nat
  BY <1>3, OutsAre DEF Ordered
<1>5. MarkOne(f, l, o) = u  BY DEF MarkOne
<1> HIDE DEF e, l, i
<1>6. /\ p \in Outs /\ p.temp = e.temp /\ Extends(p, e)
      /\ \A n \in 1..Len(p.steps) : Rests(p.steps, n)
      /\ i = None \/ \E n \in 1..Len(p.steps) : p.steps[n] = i
  <2>1. CASE i = None
    <3>1. p = e  BY <2>1 DEF Listed, i
    <3> QED  BY <1>3, <1>4, <2>1, <3>1, ExtendsOn DEF Ordered
  <2>2. CASE i # None
    <3> DEFINE s == e.steps
               N == Len(s)
               t == Append(s, i)
    <3>1. i \in Ids  BY <1>0, <2>2, OthersAre DEF i
    <3>2. p = [e EXCEPT !.steps = t]  BY <2>2 DEF Listed, i
    <3>3. /\ t \in Seq(Ids) /\ Len(t) = N + 1 /\ t[N+1] = i /\ \A n \in 1..N : t[n] = s[n]
      BY <1>4, <3>1, AppendProperties
    <3>4. p \in Outs /\ p.temp = e.temp /\ p.steps = t  BY <1>4, <3>2, <3>3 DEF Outs
    <3> HIDE DEF t, p
    <3>5. ASSUME NEW n \in 1..N PROVE Rests(t, n)
      <4>1. Rests(s, n)  BY <1>3 DEF Ordered
      <4>2. t[n] = s[n] /\ \A k \in 1..n-1 : t[k] = s[k]  BY <1>4, <3>3
      <4>3. ASSUME NEW x, Done(x, s, n - 1) PROVE Done(x, t, n - 1)
        BY <4>2, <4>3 DEF Done
      <4> QED  BY <4>1, <4>2, <4>3 DEF Rests
    <3>6. Rests(t, N + 1)
      <4>1. i \in names /\ l = UnitLit(clauses[i])  BY <1>1, <2>2 DEF Forced, i, l
      <4>2. ASSUME NEW k \in 2..Len(clauses[i]) PROVE Done(-clauses[i][k], t, N + 1 - 1)
        <5>0. Len(clauses[i]) \in Nat  BY <3>1 DEF TypedContext
        <5>1. Len(Others(l)) = Len(clauses[i]) - 1
          BY <1>0, <2>2, <5>0, OthersAre DEF i
        <5>2. k - 1 \in 1..Len(Others(l))  BY <5>0, <5>1
        <5>3. Others(l)[k-1] = clauses[i][k-1+1]  BY <1>0, <2>2, <5>2, OthersAre DEF i
        <5>4. k - 1 + 1 = k  OBVIOUS
        <5>5. -clauses[i][k] \in Range(e.temp)  BY <1>3, <5>2, <5>3, <5>4
        <5>6. Done(-clauses[i][k], s, N)  BY <1>3, <5>5 DEF Ordered
        <5>7. N + 1 - 1 = N /\ N \in Nat  BY <1>4
        <5> QED  BY <3>3, <5>6, <5>7 DEF Done
      <4>3. reasons[UnitLit(clauses[i])] = i  BY <4>1 DEF i
      <4> QED  BY <1>0, <3>3, <4>1, <4>2, <4>3 DEF Rests
    <3>7. \A n \in 1..Len(t) : Rests(t, n)
      <4> TAKE n \in 1..Len(t)
      <4>1. n \in 1..N \/ n = N + 1  BY <1>4, <3>3
      <4> QED  BY <3>5, <3>6, <4>1
    <3>8. Extends(p, e)
      <4>1. N <= N + 1  BY <1>4
      <4> QED  BY <3>3, <3>4, <4>1 DEF Extends
    <3>9. N + 1 \in 1..Len(t)  BY <1>4, <3>3
    <3> QED  BY <3>3, <3>4, <3>7, <3>8, <3>9
  <2> QED  BY <2>1, <2>2
<1>7. p.temp \in Seq(Lits) /\ p.steps \in Seq(Ids) /\ Len(p.steps) \in Nat  BY <1>6, OutsAre
<1> HIDE DEF p
<1>8. /\ u \in Outs /\ u.steps = p.steps /\ u.temp = Append(p.temp, l)
  BY <1>0, <1>6, Writing
<1> HIDE DEF u
<1>9. Range(u.temp) = Range(p.temp) \union {l}
  <2> DEFINE s == p.temp
             t == Append(s, l)
  <2>1. t \in Seq(Lits) /\ Len(t) = Len(s) + 1 /\ t[Len(s)+1] = l /\ \A n \in 1..Len(s) : t[n] = s[n]
    BY <1>0, <1>7, AppendProperties
  <2>2. Len(s) \in Nat  BY <1>7
  <2> HIDE DEF s, t
  <2>3. \A y : (\E k \in 1..Len(t) : t[k] = y) <=> (\E k \in 1..Len(s) : s[k] = y) \/ y = l
    BY <2>1, <2>2
  <2>4. s \in Seq(Lits)  BY <1>7 DEF s
  <2>5. \A y : y \in Range(t) <=> y \in Range(s) \/ y = l  BY <2>1, <2>3, <2>4, InRange
  <2> QED  BY <1>8, <2>5 DEF s, t
<1>10. Extends(u, p)  BY <1>7, <1>8, <1>9 DEF Extends
<1>11. Extends(u, o)  BY <1>3, <1>4, <1>6, <1>8, <1>10, ExtendsOn
<1>12. \A x \in Range(u.temp) : Done(x, u.steps, Len(u.steps))
  <2> TAKE x \in Range(u.temp)
  <2>1. CASE x = l  BY <1>0, <1>6, <1>7, <1>8, <2>1 DEF Done, i, l
  <2>2. CASE x \in Range(e.temp)
    <3>1. Done(x, e.steps, Len(e.steps))  BY <1>3, <2>2 DEF Ordered
    <3>2. Len(e.steps) <= Len(p.steps) /\ \A n \in 1..Len(e.steps) : p.steps[n] = e.steps[n]
      BY <1>6 DEF Extends
    <3> QED  BY <1>4, <1>7, <1>8, <3>1, <3>2, DoneOn
  <2> QED  BY <1>6, <1>9, <2>1, <2>2
<1>13. Ordered(u)  BY <1>6, <1>8, <1>12 DEF Ordered
<1>14. l \in Range(u.temp)  BY <1>9
<1> QED  BY <1>5, <1>11, <1>13, <1>14 DEF l, u

(* Mark is a loop over the depth of the calls.                               *)
MarkEq(g) ==
  g = [d \in 0..Len(truStack) |->
         [p \in Lits \X Outs |-> IF d = 0 THEN p[2] ELSE MarkOne(g[d-1], p[1], p[2])]]

LEMMA MarkLoop ==
  ASSUME TypedContext, TypedTrail
  PROVE  \E g : /\ g \in [0..Len(truStack) -> Marker]
                /\ \A d \in 1..Len(truStack), l \in Lits, o \in Outs :
                     g[d][<<l, o>>] = MarkOne(g[d-1], l, o)
                /\ \A l, o : Mark(l, o) = g[Len(truStack)][<<l, o>>]
<1> DEFINE n == Len(truStack)
           T(x) == [p \in Lits \X Outs |-> MarkOne(x, p[1], p[2])]
           b == [p \in Lits \X Outs |-> p[2]]
<1>1. n \in Nat  BY DEF TypedTrail
<1>2. ASSUME NEW x \in Marker PROVE T(x) \in Marker
  <2>1. \A p \in Lits \X Outs : MarkOne(x, p[1], p[2]) \in Outs  BY OneTyped
  <2> QED  BY <2>1 DEF Marker
<1>3. b \in Marker  BY DEF Marker
<1>4. \A l, o : Mark(l, o) = (CHOOSE g : MarkEq(g))[n][<<l, o>>]
  BY DEF Mark, MarkEq
<1>5. \A x : \A l \in Lits, o \in Outs : T(x)[<<l, o>>] = MarkOne(x, l, o)  OBVIOUS
<1>6. \A g : MarkEq(g) <=> g = [d \in 0..n |-> IF d = 0 THEN b ELSE T(g[d-1])]
  <2> TAKE g
  <2>1. \A d \in 0..n :
          [p \in Lits \X Outs |-> IF d = 0 THEN p[2] ELSE MarkOne(g[d-1], p[1], p[2])]
          = IF d = 0 THEN b ELSE T(g[d-1])
    OBVIOUS
  <2> HIDE DEF b, T
  <2> QED  BY <2>1 DEF MarkEq
<1> HIDE DEF n, T, b
<1>7. \E g : MarkEq(g)
  <2> DEFINE G == [q \in (1..n) \X Marker |-> T(q[2])]
  <2>1. G \in [(1..n) \X Marker -> Marker]  BY <1>2
  <2>2. \A d \in 1..n : \A x \in Marker : G[<<d, x>>] = T(x)  OBVIOUS
  <2> HIDE DEF G
  <2>3. PICK g : LoopOf(g, n, Marker, b, G)  BY ONLY <1>1, <1>3, <2>1, LoopExists
  <2>4. /\ g \in [0..n -> Marker] /\ g[0] = b
        /\ \A d \in 1..n : g[d] = G[<<d, g[d-1]>>]
    BY <2>3 DEF LoopOf
  <2>5. \A d \in 0..n : g[d] = IF d = 0 THEN b ELSE T(g[d-1])
    <3> TAKE d \in 0..n
    <3>1. d = 0 \/ (d \in 1..n /\ d - 1 \in 0..n)  BY <1>1
    <3> QED  BY <2>2, <2>4, <3>1
  <2>6. g = [d \in 0..n |-> g[d]]  BY <2>4
  <2>7. g = [d \in 0..n |-> IF d = 0 THEN b ELSE T(g[d-1])]  BY <2>5, <2>6
  <2> QED  BY <1>6, <2>7
<1> DEFINE g == CHOOSE g : MarkEq(g)
<1>8. MarkEq(g)  BY <1>7
<1>9. \A l, o : Mark(l, o) = g[n][<<l, o>>]  BY <1>4
<1> HIDE DEF g
<1>10. g = [d \in 0..n |-> IF d = 0 THEN b ELSE T(g[d-1])]  BY <1>6, <1>8
<1>11. \A d \in 0..n : g[d] = IF d = 0 THEN b ELSE T(g[d-1])  BY <1>10
<1>12. \A d \in 1..n : g[d] = T(g[d-1])
  <2> TAKE d \in 1..n
  <2>1. d \in 0..n /\ d # 0  BY <1>1
  <2> QED  BY <1>11, <2>1
<1> DEFINE P == {d \in 0..n : g[d] \in Marker}
<1>13. 0 \in P
  <2>1. 0 \in 0..n  BY <1>1
  <2> QED  BY <1>3, <1>11, <2>1
<1>14. ASSUME NEW d \in 1..n, d - 1 \in P PROVE d \in P
  <2>1. d \in 0..n  BY <1>1
  <2> QED  BY <1>2, <1>12, <1>14, <2>1
<1>15. \A d \in 0..n : d \in P
  <2> HIDE DEF P
  <2> QED  BY <1>1, <1>13, <1>14, Upward
<1>16. \A d \in 0..n : g[d] \in Marker  BY <1>15
<1>17. DOMAIN g = 0..n  BY <1>10
<1>18. g \in [0..n -> Marker]  BY <1>10, <1>16, <1>17
<1>19. \A d \in 1..n, l \in Lits, o \in Outs : g[d][<<l, o>>] = MarkOne(g[d-1], l, o)
  BY <1>5, <1>12
<1> QED  BY <1>9, <1>18, <1>19 DEF n

(* A literal of the trail is marked after what it rests on, and one without   *)
(* a reason puts nothing in the hint.                                      *)
LEMMA MarkMarks ==
  ASSUME TypedContext, TypedTrail, Derivation, NEW l, IsTrue(l), NEW o \in Outs, Ordered(o)
  PROVE  /\ Ordered(Mark(l, o)) /\ Extends(Mark(l, o), o) /\ l \in Range(Mark(l, o).temp)
         /\ reasons[l] = None => Mark(l, o).steps = o.steps
<1> DEFINE n == Len(truStack)
<1>1. n \in Nat /\ truStack \in Seq(Lits)  BY DEF TypedTrail
<1>2. PICK g : /\ g \in [0..n -> Marker]
               /\ \A d \in 1..n, x \in Lits, u \in Outs :
                    g[d][<<x, u>>] = MarkOne(g[d-1], x, u)
               /\ \A x, u : Mark(x, u) = g[n][<<x, u>>]
  BY MarkLoop
<1>3. PICK m \in 1..n : truStack[m] = l  BY <1>1, OnTrail
<1>4. l \in Lits  BY <1>1, <1>3
<1> HIDE DEF n
<1> DEFINE P == {d \in 0..n : MarksTo(g[d], d)}
<1>5. 0 \in P
  <2>1. MarksTo(g[0], 0)  BY DEF MarksTo
  <2> QED  BY <1>1, <2>1
<1>6. ASSUME NEW d \in 1..n, d - 1 \in P PROVE d \in P
  <2>1. d \in 0..n /\ d - 1 \in 0..n /\ g[d-1] \in Marker  BY <1>1, <1>2
  <2>2. MarksTo(g[d-1], d - 1)  BY <1>6
  <2>3. MarksTo(g[d], d)
    <3> SUFFICES ASSUME NEW h \in 1..Len(truStack), NEW u \in Outs, h <= d, Ordered(u)
                 PROVE  LET v == g[d][<<truStack[h], u>>]
                        IN Ordered(v) /\ Extends(v, u) /\ truStack[h] \in Range(v.temp)
      BY DEF MarksTo
    <3>1. truStack[h] \in Lits  BY <1>1
    <3>2. g[d][<<truStack[h], u>>] = MarkOne(g[d-1], truStack[h], u)  BY <1>2, <3>1
    <3>3. MarksTo(g[d-1], h - 1)
      <4>1. \A j \in 1..Len(truStack) : j <= h - 1 => j <= d - 1  BY <1>1
      <4> QED  BY <2>2, <4>1 DEF MarksTo
    <3> QED  BY <2>1, <3>2, <3>3, OneMarks
  <2> QED  BY <2>1, <2>3
<1>7. \A d \in 0..n : d \in P
  <2> HIDE DEF P
  <2> QED  BY <1>1, <1>5, <1>6, Upward
<1>8. n \in 0..n /\ n \in 1..n /\ n - 1 \in 0..n /\ m <= n  BY <1>1, <1>3
<1>9. MarksTo(g[n], n)  BY <1>7, <1>8
<1>10. Mark(l, o) = g[n][<<l, o>>] /\ g[n][<<l, o>>] = MarkOne(g[n-1], l, o)
  BY <1>2, <1>4, <1>8
<1>11. g[n-1] \in Marker  BY <1>2, <1>8
<1>12. reasons[l] = None => Mark(l, o).steps = o.steps  BY <1>4, <1>10, <1>11, OneTyped
<1>13. LET u == g[n][<<truStack[m], o>>]
       IN Ordered(u) /\ Extends(u, o) /\ truStack[m] \in Range(u.temp)
  BY <1>8, <1>9 DEF MarksTo, n
<1> QED  BY <1>3, <1>10, <1>12, <1>13

-----------------------------------------------------------------------------
(* The hint.                                                               *)

(* The hint is in order, and both sides of the conflict rest on it.          *)
LEMMA HintOrdered ==
  ASSUME IInv, pc = "found"
  PROVE  /\ FinalHint \in Seq(Ids)
         /\ \A n \in 1..Len(FinalHint) : Rests(FinalHint, n)
         /\ Done(conflict, FinalHint, Len(FinalHint))
         /\ Done(-conflict, FinalHint, Len(FinalHint))
         /\ reasons[conflict] = None /\ reasons[-conflict] = None => FinalHint = <<>>
<1>1. /\ TypedContext /\ TypedTrail /\ Derivation
      /\ IsTrue(conflict) /\ IsTrue(-conflict)
  BY DEF IInv, Typed, TrailInv, Consistently, IsFalse
<1>2. NoHint \in Outs /\ Ordered(NoHint) /\ NoHint.steps = <<>>
  <2>1. NoHint \in Outs  BY DEF NoHint, Outs
  <2>2. Range(NoHint.temp) = {} /\ Len(NoHint.steps) = 0  BY DEF NoHint, Range
  <2> QED  BY <2>1, <2>2 DEF Ordered, NoHint
<1> DEFINE o == Mark(conflict, NoHint)
           u == Mark(-conflict, o)
<1>3. /\ Ordered(o) /\ conflict \in Range(o.temp)
      /\ reasons[conflict] = None => o.steps = <<>>
  BY <1>1, <1>2, MarkMarks
<1>4. o \in Outs  BY <1>3 DEF Ordered
<1>5. /\ Ordered(u) /\ Extends(u, o) /\ -conflict \in Range(u.temp)
      /\ reasons[-conflict] = None => u.steps = o.steps
  BY <1>1, <1>3, <1>4, MarkMarks
<1>6. FinalHint = u.steps  BY DEF FinalHint
<1> HIDE DEF o, u
<1>7. u \in Outs /\ u.steps \in Seq(Ids)  BY <1>5, OutsAre DEF Ordered
<1>8. conflict \in Range(u.temp)  BY <1>3, <1>5 DEF Extends
<1> QED  BY <1>3, <1>5, <1>6, <1>7, <1>8 DEF Ordered

(* What is on the trail without a reason is the complement of a literal of   *)
(* the goal.                                                               *)
LEMMA HypInGoal ==
  ASSUME IInv, NEW x, IsTrue(x), reasons[x] = None
  PROVE  x \in Negated(goal) /\ -x \in Range(goal) /\ x # 0
<1>1. TypedTrail /\ TypedControl /\ Derivation  BY DEF IInv, Typed, TrailInv
<1>2. PICK n \in 1..Len(truStack) : truStack[n] = x  BY <1>1, OnTrail DEF TypedTrail
<1>3. x \in Negated(goal)  BY <1>1, <1>2 DEF Derivation, Hypothesis
<1>4. PICK l \in Range(goal) : x = -l  BY <1>3 DEF Negated
<1>5. l \in Literals  BY <1>1, <1>4, InRange DEF TypedControl
<1>6. -x = l /\ x # 0  BY <1>4, <1>5, Negation DEF Literals
<1> QED  BY <1>3, <1>4, <1>6

(* A hint of one clause: the clause is contained in the step's.              *)
LEMMA OneHintSubsumes == ASSUME IInv PROVE HintSubsumes
<1> SUFFICES ASSUME pc = "found", Len(FinalHint) = 1
             PROVE  Range(clauses[FinalHint[1]]) \subseteq Range(goal)
  BY DEF HintSubsumes
<1> DEFINE h == FinalHint
           i == h[1]
           c == clauses[i]
<1>1. /\ TypedContext /\ TypedTrail /\ TypedControl /\ Derivation
  BY DEF IInv, Typed, TrailInv
<1>2. /\ h \in Seq(Ids) /\ Rests(h, 1) /\ Done(conflict, h, 1) /\ Done(-conflict, h, 1)
      /\ ~(reasons[conflict] = None /\ reasons[-conflict] = None)
  <2>1. 1 \in 1..Len(h)  OBVIOUS
  <2>2. FinalHint # <<>>  OBVIOUS
  <2> HIDE DEF h
  <2> QED  BY <2>1, <2>2, HintOrdered DEF h
<1> HIDE DEF h
<1>3. /\ i \in names /\ i \in Ids /\ c \in Seq(Literals)
      /\ reasons[UnitLit(c)] = i /\ IsTrue(UnitLit(c))
  BY <1>1, <1>2 DEF Rests, TypedContext
<1> HIDE DEF i
<1>4. \A x : Done(x, h, 1) => IsTrue(x) /\ (reasons[x] = None \/ reasons[x] = i)
  BY DEF Done, i
<1>5. \A k \in 2..Len(c) : c[k] \in Range(goal)
  <2> TAKE k \in 2..Len(c)
  <2>1. IsTrue(-c[k]) /\ reasons[-c[k]] = None  BY <1>2 DEF Rests, Done, i
  <2>2. c[k] \in Lits  BY <1>3 DEF Literals
  <2> QED  BY <2>1, <2>2, HypInGoal, Negation
<1>6. \A x : IsTrue(x) /\ reasons[x] = i => x = UnitLit(c)
  <2> SUFFICES ASSUME NEW x, IsTrue(x), reasons[x] = i PROVE x = UnitLit(c)  OBVIOUS
  <2>1. PICK n \in 1..Len(truStack) : truStack[n] = x  BY <1>1, OnTrail DEF TypedTrail
  <2>2. i # None  BY <1>1, <1>3, NoneApart DEF TypedContext
  <2>3. Forced(n)  BY <1>1, <2>1, <2>2 DEF Derivation
  <2> QED  BY <2>1, <2>3 DEF Forced
<1>7. c # <<>> => c[1] \in Range(goal)
  <2> SUFFICES ASSUME c # <<>> PROVE c[1] \in Range(goal)  OBVIOUS
  <2>1. UnitLit(c) = c[1]  BY DEF UnitLit
  <2>2. c[1] \in Lits /\ c[1] # 0  BY <1>3 DEF Literals
  <2>3. conflict \in Lits  BY <1>1 DEF TypedControl
  <2>4. PICK x \in Lits : Done(x, h, 1) /\ Done(-x, h, 1) /\ reasons[x] # None
    <3>1. CASE reasons[conflict] # None  BY <1>2, <2>3, <3>1
    <3>2. CASE reasons[-conflict] # None
      <4>1. -conflict \in Lits /\ -(-conflict) = conflict  BY <2>3, Negation
      <4> QED  BY <1>2, <3>2, <4>1
    <3> QED  BY <1>2, <3>1, <3>2
  <2>5. x = c[1]  BY <1>4, <1>6, <2>1, <2>4
  <2>6. IsTrue(-x) /\ (reasons[-x] = None \/ -x = c[1])  BY <1>4, <1>6, <2>1, <2>4
  <2>7. -x # x  BY <2>2, <2>5, Negation
  <2>8. -(-x) \in Range(goal)  BY <2>5, <2>6, <2>7, HypInGoal
  <2> QED  BY <2>4, <2>5, <2>8, Negation
<1>8. ASSUME NEW l \in Range(c) PROVE l \in Range(goal)
  <2>1. PICK k \in 1..Len(c) : c[k] = l  BY <1>3, InRange
  <2>2. c # <<>>  BY <1>3, <2>1
  <2>3. k = 1 \/ k \in 2..Len(c)  BY <1>3
  <2> QED  BY <1>5, <1>7, <2>1, <2>2, <2>3
<1> QED  BY <1>8 DEF i, h

-----------------------------------------------------------------------------
(* The checker.                                                            *)

States == [true : SUBSET Lits, proved : BOOLEAN, rejected : BOOLEAN]
Begun(A) == [true |-> A, proved |-> FALSE, rejected |-> FALSE]
ReplayEq(g, A, h) ==
  g = [n \in 0..Len(h) |-> IF n = 0 THEN Begun(A) ELSE Use(g[n-1], clauses[h[n]])]

LEMMA UseTyped ==
  ASSUME TypedContext, NEW st \in States, NEW i \in Ids
  PROVE  Use(st, clauses[i]) \in States
<1>1. clauses[i] \in Seq(Lits)  BY DEF TypedContext, Literals
<1>2. {l \in Range(clauses[i]) : -l \notin st.true} \subseteq Lits  BY <1>1, InRange
<1>3. st.true \subseteq Lits  BY DEF States
<1> QED  BY <1>2, <1>3 DEF Use, States

LEMMA ReplayLoop ==
  ASSUME TypedContext, NEW A \in SUBSET Lits, NEW h \in Seq(Ids)
  PROVE  \E g : /\ g \in [0..Len(h) -> States] /\ g[0] = Begun(A)
                /\ \A n \in 1..Len(h) : g[n] = Use(g[n-1], clauses[h[n]])
                /\ ReplayFrom(A, h) = g[Len(h)]
<1> DEFINE n == Len(h)
           T(k, x) == Use(x, clauses[h[k]])
<1>1. n \in Nat  OBVIOUS
<1>2. ASSUME NEW k \in 1..n, NEW x \in States PROVE T(k, x) \in States
  <2>1. h[k] \in Ids  OBVIOUS
  <2> QED  BY <2>1, UseTyped
<1>3. Begun(A) \in States  BY DEF Begun, States
<1>4. ReplayFrom(A, h) = (CHOOSE g : ReplayEq(g, A, h))[n]
  BY DEF ReplayFrom, ReplayEq, Begun
<1> HIDE DEF n, T
<1>5. \E g : ReplayEq(g, A, h)
  <2> DEFINE G == [p \in (1..n) \X States |-> T(p[1], p[2])]
  <2>1. G \in [(1..n) \X States -> States]  BY <1>2
  <2>2. \A k \in 1..n : \A x \in States : G[<<k, x>>] = T(k, x)  OBVIOUS
  <2> HIDE DEF G
  <2>3. PICK g : LoopOf(g, n, States, Begun(A), G)  BY ONLY <1>1, <1>3, <2>1, LoopExists
  <2>4. /\ g \in [0..n -> States] /\ g[0] = Begun(A)
        /\ \A k \in 1..n : g[k] = G[<<k, g[k-1]>>]
    BY <2>3 DEF LoopOf
  <2>5. \A k \in 0..n : g[k] = IF k = 0 THEN Begun(A) ELSE T(k, g[k-1])
    <3> TAKE k \in 0..n
    <3>1. k = 0 \/ (k \in 1..n /\ k - 1 \in 0..n)  BY <1>1
    <3> QED  BY <2>2, <2>4, <3>1
  <2>6. g = [k \in 0..n |-> g[k]]  BY <2>4
  <2>7. g = [k \in 0..n |-> IF k = 0 THEN Begun(A) ELSE T(k, g[k-1])]  BY <2>5, <2>6
  <2> QED  BY <2>7 DEF ReplayEq, n, T
<1> DEFINE g == CHOOSE g : ReplayEq(g, A, h)
<1>6. ReplayEq(g, A, h)  BY <1>5
<1>7. ReplayFrom(A, h) = g[n]  BY <1>4
<1> HIDE DEF g
<1>8. /\ \A k \in 0..n : g[k] = IF k = 0 THEN Begun(A) ELSE T(k, g[k-1])
      /\ DOMAIN g = 0..n /\ g = [k \in 0..n |-> g[k]]
  BY <1>6 DEF ReplayEq, n, T
<1>9. g[0] = Begun(A)
  <2>1. 0 \in 0..n  BY <1>1
  <2> QED  BY <1>8, <2>1
<1>10. \A k \in 1..n : g[k] = T(k, g[k-1])
  <2> TAKE k \in 1..n
  <2>1. k \in 0..n /\ k # 0  BY <1>1
  <2> QED  BY <1>8, <2>1
<1> DEFINE P == {k \in 0..n : g[k] \in States}
<1>11. 0 \in P  BY <1>1, <1>3, <1>9
<1>12. ASSUME NEW k \in 1..n, k - 1 \in P PROVE k \in P
  <2>1. k \in 0..n  BY <1>1
  <2>2. g[k] \in States  BY <1>2, <1>10, <1>12
  <2> QED  BY <2>1, <2>2
<1>13. \A k \in 0..n : k \in P
  <2> HIDE DEF P
  <2> QED  BY <1>1, <1>11, <1>12, Upward
<1>14. g \in [0..n -> States]  BY <1>8, <1>13
<1> QED  BY <1>7, <1>9, <1>10, <1>14 DEF n, T

(* The checker holds what a clause of the hint rests on.                     *)
LEMMA DoneHeld ==
  ASSUME IInv, NEW T, Negated(goal) \subseteq T, NEW s, NEW n \in Nat,
         \A m \in 1..n : UnitLit(clauses[s[m]]) \in T,
         NEW x, Done(x, s, n)
  PROVE  x \in T
<1>1. IsTrue(x)  BY DEF Done
<1>2. CASE reasons[x] = None  BY <1>1, <1>2, HypInGoal
<1>3. CASE reasons[x] # None
  <2>1. PICK m \in 1..n : s[m] = reasons[x]  BY <1>3 DEF Done
  <2>2. TypedTrail /\ Derivation  BY DEF IInv, Typed, TrailInv
  <2>3. PICK k \in 1..Len(truStack) : truStack[k] = x  BY <1>1, <2>2, OnTrail DEF TypedTrail
  <2>4. Forced(k)  BY <1>3, <2>2, <2>3 DEF Derivation
  <2>5. x = UnitLit(clauses[s[m]])  BY <2>1, <2>3, <2>4 DEF Forced
  <2> QED  BY <2>5
<1> QED  BY <1>2, <1>3

(* Not rejected; and proved, or the literals held are consistent and what     *)
(* the first n clauses of the hint imply is among them.                      *)
Followed(st, h, n) ==
  /\ ~st.rejected
  /\ \/ st.proved
     \/ /\ Negated(goal) \subseteq st.true
        /\ \A l \in st.true : -l \notin st.true
        /\ \A m \in 1..n : UnitLit(clauses[h[m]]) \in st.true

LEMMA UseFollows ==
  ASSUME IInv, NEW h \in Seq(Ids), NEW n \in 1..Len(h), Rests(h, n),
         NEW st \in States, Followed(st, h, n - 1)
  PROVE  Followed(Use(st, clauses[h[n]]), h, n)
<1> DEFINE c == clauses[h[n]]
           free == {l \in Range(c) : -l \notin st.true}
           u == Use(st, c)
<1>0. TypedContext /\ n \in Nat /\ n - 1 \in Nat /\ h[n] \in Ids
  BY DEF IInv, Typed
<1>1. c \in Seq(Literals) /\ c \in Seq(Lits)  BY <1>0 DEF TypedContext, Literals
<1>2. CASE st.proved
  <2>1. u = st  BY <1>2 DEF Use
  <2> QED  BY <1>2, <2>1 DEF Followed
<1>3. CASE ~st.proved
  <2>1. /\ ~st.rejected /\ Negated(goal) \subseteq st.true
        /\ \A l \in st.true : -l \notin st.true
        /\ \A m \in 1..n-1 : UnitLit(clauses[h[m]]) \in st.true
    BY <1>3 DEF Followed
  <2>2. \A k \in 2..Len(c) : -c[k] \in st.true
    BY <1>0, <2>1, DoneHeld DEF Rests
  <2>3. u = IF Range(c) \intersect st.true # {} THEN st
            ELSE [true |-> st.true \union free, proved |-> free = {},
                  rejected |-> Cardinality(free) > 1]
    BY <1>3, <2>1 DEF Use
  <2>4. Rests(h, n) => UnitLit(c) = IF c = <<>> THEN 0 ELSE c[1]  BY DEF UnitLit
  <2>5. \A m \in 1..n : m \in 1..n-1 \/ m = n  BY <1>0
  <2>6. st.true \subseteq Lits  BY DEF States
  <2> HIDE DEF c, u
  <2>7. \A l \in Range(c) : l = c[1] \/ -l \in st.true
    <3> SUFFICES ASSUME NEW l \in Range(c), l # c[1] PROVE -l \in st.true  OBVIOUS
    <3>1. PICK k \in 1..Len(c) : c[k] = l  BY <1>1, InRange
    <3>2. k \in 2..Len(c)  BY <1>1, <3>1
    <3> QED  BY <2>2, <3>1, <3>2
  <2>8. \A l \in Range(c) : l \in Lits /\ l # 0 /\ -(-l) = l /\ l # -l
    <3> TAKE l \in Range(c)
    <3>1. l \in Literals  BY <1>1, InRange
    <3> QED  BY <3>1, Negation DEF Literals
  <2>9. CASE free = {}
    <3>1. \A l \in Range(c) : l \notin st.true  BY <2>1, <2>8, <2>9
    <3>2. Range(c) \intersect st.true = {}  BY <3>1
    <3>3. ~(Cardinality(free) > 1)
      <4>1. Cardinality(free) = 0  BY <2>9, FS_EmptySet
      <4> HIDE DEF free
      <4> QED  BY <4>1
    <3> HIDE DEF free
    <3>4. u = [true |-> st.true \union free, proved |-> free = {},
               rejected |-> Cardinality(free) > 1]
      BY <2>3, <3>2
    <3>5. u.proved = (free = {}) /\ u.rejected = (Cardinality(free) > 1)  BY <3>4, Zenon
    <3>6. u.proved /\ ~u.rejected  BY <2>9, <3>3, <3>5, Zenon
    <3> QED  BY <3>6 DEF Followed, u, c
  <2>10. CASE free # {}
    <3>1. PICK l \in Range(c) : -l \notin st.true  BY <2>10
    <3>2. l = c[1] /\ c # <<>>
      <4>1. l = c[1]  BY <2>7, <3>1
      <4>2. \E k \in 1..Len(c) : c[k] = l  BY <1>1, InRange
      <4> QED  BY <4>1, <4>2
    <3>3. free = {l}  BY <2>7, <3>1, <3>2
    <3>4. UnitLit(c) = l  BY <2>4, <3>2
    <3>5. CASE Range(c) \intersect st.true # {}
      <4>1. PICK x \in Range(c) : x \in st.true  BY <3>5
      <4>2. x = l  BY <2>1, <2>7, <3>2, <4>1
      <4>3. u = st  BY <2>3, <3>5
      <4>4. \A m \in 1..n : UnitLit(clauses[h[m]]) \in st.true
        BY <2>1, <2>5, <3>4, <4>1, <4>2 DEF c
      <4> QED  BY <2>1, <4>3, <4>4 DEF Followed, u, c
    <3>6. CASE Range(c) \intersect st.true = {}
      <4>1. ~(Cardinality(free) > 1)
        <5>1. Cardinality(free) = 1  BY <3>3, FS_Singleton
        <5> HIDE DEF free
        <5> QED  BY <5>1
      <4>2. u.true = st.true \union {l} /\ ~u.proved /\ ~u.rejected
        <5> HIDE DEF free
        <5>1. u = [true |-> st.true \union free, proved |-> free = {},
                   rejected |-> Cardinality(free) > 1]
          BY <2>3, <3>6
        <5>2. /\ u.true = st.true \union free
              /\ u.proved = (free = {}) /\ u.rejected = (Cardinality(free) > 1)
          BY <5>1, Zenon
        <5> QED  BY <2>10, <3>3, <4>1, <5>2, Zenon
      <4>3. \A x \in st.true \union {l} : -x \notin st.true \union {l}
        <5> TAKE x \in st.true \union {l}
        <5>1. CASE x = l  BY <2>8, <3>1, <5>1
        <5>2. CASE x \in st.true
          <6>1. -(-x) = x  BY <2>6, <5>2, Negation
          <6> QED  BY <2>1, <3>1, <5>2, <6>1
        <5> QED  BY <5>1, <5>2
      <4>4. \A m \in 1..n : UnitLit(clauses[h[m]]) \in st.true \union {l}
        BY <2>1, <2>5, <3>4 DEF c
      <4> QED  BY <2>1, <4>2, <4>3, <4>4 DEF Followed, u, c
    <3> QED  BY <3>5, <3>6
  <2> QED  BY <2>9, <2>10
<1> QED  BY <1>2, <1>3

LEMMA FinalHintAccepted ==
  ASSUME IInv, pc = "found", ~Tautology(goal)
  PROVE  Replay(goal, FinalHint).proved /\ ~Replay(goal, FinalHint).rejected
<1> DEFINE h == FinalHint
           N == Len(h)
<1>1. TypedContext /\ TypedControl  BY DEF IInv, Typed
<1>2. /\ h \in Seq(Ids) /\ \A n \in 1..N : Rests(h, n)
      /\ Done(conflict, h, N) /\ Done(-conflict, h, N)
  BY HintOrdered
<1> HIDE DEF h
<1>3. N \in Nat  BY <1>2
<1>4. Range(goal) \subseteq Literals  BY <1>1, InRange DEF TypedControl
<1>5. Negated(goal) \in SUBSET Lits  BY <1>4, Negation DEF Negated, Literals
<1>6. \A l \in Negated(goal) : -l \notin Negated(goal)
  <2> SUFFICES ASSUME NEW l \in Negated(goal), -l \in Negated(goal) PROVE FALSE  OBVIOUS
  <2>1. PICK x \in Range(goal) : l = -x  BY DEF Negated
  <2>2. PICK y \in Range(goal) : -l = -y  BY DEF Negated
  <2>3. x \in Lits /\ y \in Lits  BY <1>4 DEF Literals
  <2>4. -x = y  BY <2>1, <2>2, <2>3, Sizes DEF Lits
  <2> QED  BY <2>4 DEF Tautology
<1>7. PICK g : /\ g \in [0..N -> States] /\ g[0] = Begun(Negated(goal))
               /\ \A n \in 1..N : g[n] = Use(g[n-1], clauses[h[n]])
               /\ ReplayFrom(Negated(goal), h) = g[N]
  BY <1>1, <1>2, <1>5, ReplayLoop
<1> HIDE DEF N
<1> DEFINE P == {n \in 0..N : Followed(g[n], h, n)}
<1>8. 0 \in P
  <2>1. Followed(g[0], h, 0)  BY <1>6, <1>7 DEF Followed, Begun
  <2> QED  BY <1>3, <2>1
<1>9. ASSUME NEW n \in 1..N, n - 1 \in P PROVE n \in P
  <2>1. n \in 0..N /\ n - 1 \in 0..N  BY <1>3
  <2>2. g[n-1] \in States /\ Followed(g[n-1], h, n - 1) /\ n \in 1..Len(h) /\ Rests(h, n)
    BY <1>2, <1>7, <1>9, <2>1 DEF N
  <2>3. Followed(Use(g[n-1], clauses[h[n]]), h, n)  BY <1>2, <2>2, UseFollows
  <2> QED  BY <1>7, <2>1, <2>3
<1>10. \A n \in 0..N : n \in P
  <2> HIDE DEF P
  <2> QED  BY <1>3, <1>8, <1>9, Upward
<1>11. Followed(g[N], h, N)
  <2>1. N \in 0..N  BY <1>3
  <2> QED  BY <1>10, <2>1
<1>a. ~g[N].rejected  BY <1>11 DEF Followed
<1>12. SUFFICES ASSUME ~g[N].proved PROVE FALSE  BY <1>7, <1>a DEF Replay, h
<1>13. /\ Negated(goal) \subseteq g[N].true
       /\ \A l \in g[N].true : -l \notin g[N].true
       /\ \A m \in 1..N : UnitLit(clauses[h[m]]) \in g[N].true
  BY <1>11, <1>12 DEF Followed
<1>14. conflict \in g[N].true /\ -conflict \in g[N].true
  BY <1>2, <1>3, <1>13, DoneHeld DEF N
<1> QED  BY <1>13, <1>14

LEMMA FinalHintReplays == ASSUME IInv PROVE HintReplays
  BY FinalHintAccepted DEF HintReplays

-----------------------------------------------------------------------------
(* The theorems.                                                           *)

(* The hint that finalize_hint() writes is a proof of the step for a checker  *)
(* that reads it once, from its first clause to its last.                    *)
THEOREM HintsReplay == Spec => []HintReplays
<1>1. IInv => HintReplays  BY FinalHintReplays
<1> QED  BY <1>1, EngineInv, PTL

(* Where the hint is one clause, the clause of the step contains it: trim()    *)
(* may take the step for a copy.                                           *)
THEOREM HintsSubsume == Spec => []HintSubsumes
<1>1. IInv => HintSubsumes  BY OneHintSubsumes
<1> QED  BY <1>1, EngineInv, PTL
=============================================================================
