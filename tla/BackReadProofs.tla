---------------------------- MODULE BackReadProofs ----------------------------
(***************************************************************************)
(* Proofs about BackRead, for every size of a buffer and every length of the *)
(* file: whatever the places of the chunks are, the segments are those that   *)
(* VecBackParser takes from memory.                                        *)
(***************************************************************************)
EXTENDS BackRead, SequenceTheorems, WellFoundedInduction, TLAPS

-----------------------------------------------------------------------------
(* Loops.                                                                  *)

(* The least element principle, with a set in the place of a predicate.     *)
LEMMA Least ==
  ASSUME NEW T, T \subseteq Nat, T # {}
  PROVE  \E x \in T : \A y \in T : x <= y
<1> DEFINE Below == {x \in Nat \X Nat : x[1] < x[2]}
<1>1. IsWellFoundedOn(Below, Nat)
  <2>1. IsWellFoundedOn(OpToRel(<, Nat), Nat)  BY NatLessThanWellFounded
  <2>2. OpToRel(<, Nat) = Below  BY DEF OpToRel
  <2> HIDE DEF Below
  <2> QED  BY <2>1, <2>2
<1>2. \A y, x \in Nat : y < x => <<y, x>> \in Below  OBVIOUS
<1> HIDE DEF Below
<1>3. PICK x \in T : \A y \in T : ~ (<<y, x>> \in Below)  BY <1>1, WFMin
<1>4. \A y \in T : ~(y < x)  BY <1>2, <1>3
<1> QED  BY <1>3, <1>4

(* Induction up to n, for a set.                                           *)
LEMMA Upward ==
  ASSUME NEW n \in Nat, NEW P, 0 \in P, \A k \in 1..n : k - 1 \in P => k \in P
  PROVE  \A k \in 0..n : k \in P
<1> DEFINE Bad == {k \in 0..n : k \notin P}
<1>1. SUFFICES ASSUME Bad # {} PROVE FALSE  OBVIOUS
<1>2. Bad \subseteq Nat  OBVIOUS
<1>3. PICK k \in Bad : \A y \in Bad : k <= y
  <2> HIDE DEF Bad
  <2> QED  BY <1>1, <1>2, Least
<1>4. k \in 1..n /\ k - 1 \in 0..n /\ ~(k <= k - 1)  OBVIOUS
<1>5. k - 1 \in P  BY <1>3, <1>4
<1> QED  BY <1>4, <1>5

(* A loop of n turns from a: G[<<k, x>>] is what turn k makes of x.          *)
LoopOf(g, n, S, a, G) ==
  /\ g \in [0..n -> S] /\ g[0] = a
  /\ \A k \in 1..n : g[k] = G[<<k, g[k-1]>>]

LEMMA LoopExists ==
  ASSUME NEW n, n \in Nat, NEW S, NEW a, a \in S, NEW G, G \in [(1..n) \X S -> S]
  PROVE  \E g : LoopOf(g, n, S, a, G)
<1> DEFINE Loop(g, m) == /\ g \in [0..m -> S] /\ g[0] = a
                         /\ \A k \in 1..m : g[k] = G[<<k, g[k-1]>>]
           P == {m \in 0..n : \E g : Loop(g, m)}
<1>1. 0 \in P
  <2> DEFINE g == [k \in 0..0 |-> a]
  <2>1. g \in [0..0 -> S] /\ g[0] = a /\ \A k \in 1..0 : FALSE  OBVIOUS
  <2> HIDE DEF g
  <2>2. Loop(g, 0)  BY <2>1
  <2> QED  BY <2>2
<1>2. ASSUME NEW m \in 1..n, m - 1 \in P PROVE m \in P
  <2>1. PICK g : Loop(g, m - 1)  BY <1>2
  <2> DEFINE x == G[<<m, g[m-1]>>]
             h == [k \in 0..m |-> IF k = m THEN x ELSE g[k]]
  <2>2. g[m-1] \in S /\ x \in S  BY <2>1
  <2> HIDE DEF x
  <2>3. \A k \in 0..m-1 : h[k] = g[k]  OBVIOUS
  <2>4. h \in [0..m -> S] /\ h[0] = a /\ h[m] = x /\ h[m-1] = g[m-1]
    <3>1. \A k \in 0..m : k = m \/ k \in 0..m-1  OBVIOUS
    <3>2. \A k \in 0..m-1 : g[k] \in S  BY <2>1
    <3>3. 0 \in 0..m-1 /\ m-1 \in 0..m-1 /\ m \in 0..m  OBVIOUS
    <3> QED  BY <2>1, <2>2, <2>3, <3>1, <3>2, <3>3
  <2> HIDE DEF h
  <2>5. \A k \in 1..m : h[k] = G[<<k, h[k-1]>>]
    <3> TAKE k \in 1..m
    <3>1. CASE k = m  BY <2>4, <3>1 DEF x
    <3>2. CASE k # m
      <4>1. k \in 1..m-1 /\ k \in 0..m-1 /\ k-1 \in 0..m-1  BY <3>2
      <4> QED  BY <2>1, <2>3, <4>1
    <3> QED  BY <3>1, <3>2
  <2>6. Loop(h, m)  BY <2>4, <2>5
  <2> QED  BY <2>6
<1>3. \A k \in 0..n : k \in P
  <2> HIDE DEF P
  <2> QED  BY <1>1, <1>2, Upward
<1>4. n \in P  BY <1>3
<1>5. \E g : Loop(g, n)  BY <1>4
<1> QED  BY <1>5 DEF LoopOf

-----------------------------------------------------------------------------
(* What is written.                                                        *)

Bytes == 0..255
Ended(x) == x \in Seq(Bytes) /\ x # <<>> /\ x[Len(x)] = 0

LEMMA Concat ==
  ASSUME NEW x \in Seq(Bytes), NEW y \in Seq(Bytes)
  PROVE  /\ x \o y \in Seq(Bytes)
         /\ Ended(y) => Ended(x \o y)
         /\ Ended(x) /\ y = <<>> => Ended(x \o y)
<1>1. /\ x \o y \in Seq(Bytes) /\ Len(x \o y) = Len(x) + Len(y)
      /\ \A i \in 1..Len(x)+Len(y) : (x \o y)[i] = IF i <= Len(x) THEN x[i] ELSE y[i - Len(x)]
  BY ConcatProperties
<1>2. Len(x) \in Nat /\ Len(y) \in Nat  OBVIOUS
<1>3. ASSUME Ended(y) PROVE Ended(x \o y)
  <2>1. Len(y) > 0 /\ y[Len(y)] = 0  BY <1>2, <1>3, EmptySeq DEF Ended
  <2>2. (x \o y)[Len(x) + Len(y)] = y[Len(y)]  BY <1>1, <1>2, <2>1
  <2>3. x \o y # <<>>  BY <1>1, <1>2, <2>1
  <2> QED  BY <1>1, <2>1, <2>2, <2>3 DEF Ended
<1>4. y = <<>> => x \o y = x  BY ConcatEmptySeq
<1> QED  BY <1>1, <1>3, <1>4

LEMMA UTyped == ASSUME NEW n \in Unsigneds PROVE U(n) \in Seq(Bytes)
<1>1. n \in Int /\ 0 <= n /\ n <= 16383  BY DEF Unsigneds, MaxNumber
<1>2. n % 128 \in Int /\ 0 <= n % 128 /\ n % 128 <= 127  BY ONLY <1>1
<1>3. n \div 128 \in Int /\ 0 <= n \div 128 /\ n \div 128 <= 127  BY ONLY <1>1
<1> DEFINE m == n % 128
           d == n \div 128
<1>4. m \in Int /\ 0 <= m /\ m <= 127 /\ d \in Int /\ 0 <= d /\ d <= 127  BY <1>2, <1>3
<1>5. U(n) = IF n < 128 THEN <<n>> ELSE <<128 + m, d>>  BY DEF U
<1> HIDE DEF m, d
<1>6. 128 + m \in Bytes /\ d \in Bytes  BY ONLY <1>4 DEF Bytes
<1>7. n < 128 => n \in Bytes  BY ONLY <1>1 DEF Bytes
<1> QED  BY <1>5, <1>6, <1>7

LEMMA ZigzagTyped ==
  ASSUME NEW n \in Signeds PROVE Zigzag(n) \in Unsigneds
<1>1. Unsigneds = 0..16383  BY DEF Unsigneds, MaxNumber
<1>2. n \in Int /\ -8191 <= n /\ n <= 8191  BY DEF Signeds, MaxNumber
<1>3. CASE n < 0
  <2>1. -2 * n + 1 \in 0..16383  BY <1>2, <1>3
  <2> DEFINE z == -2 * n + 1
  <2>2. Zigzag(n) = z  BY <1>3 DEF Zigzag
  <2>3. z \in 0..16383  BY <2>1
  <2> HIDE DEF z
  <2> QED  BY ONLY <1>1, <2>2, <2>3
<1>4. CASE ~(n < 0)
  <2>1. 2 * n \in 0..16383  BY <1>2, <1>4
  <2>2. Zigzag(n) = 2 * n  BY <1>4 DEF Zigzag
  <2> QED  BY <1>1, <2>1, <2>2
<1> QED  BY <1>3, <1>4

FlattenEq(f, s) == f = [i \in 1..Len(s) |-> IF i = 1 THEN s[i] ELSE f[i-1] \o s[i]]

LEMMA FlattenTyped ==
  ASSUME NEW s \in Seq(Seq(Bytes)) PROVE FlattenSeq(s) \in Seq(Bytes)
<1> DEFINE n == Len(s)
           B == Seq(Bytes)
<1>1. n \in Nat /\ \A k \in 1..n : s[k] \in B  OBVIOUS
<1>2. CASE n = 0  BY <1>2, EmptySeq DEF FlattenSeq
<1>3. CASE n # 0
  <2>1. FlattenSeq(s) = (CHOOSE f : FlattenEq(f, s))[n]  BY <1>3 DEF FlattenSeq, FlattenEq
  <2>2. \A x \in B, y \in B : x \o y \in B  BY Concat
  <2> HIDE DEF B
  <2>3. \E f : FlattenEq(f, s)
    <3> DEFINE G == [q \in (1..n) \X B |-> IF q[1] = 1 THEN s[1] ELSE q[2] \o s[q[1]]]
    <3>1. \A k \in 1..n : \A x \in B : G[<<k, x>>] = IF k = 1 THEN s[1] ELSE x \o s[k]  OBVIOUS
    <3>2. G \in [(1..n) \X B -> B]  BY <1>1, <1>3, <2>2
    <3>3. s[1] \in B  BY <1>1, <1>3
    <3> HIDE DEF n, G
    <3>4. PICK g : LoopOf(g, n, B, s[1], G)  BY ONLY <1>1, <3>2, <3>3, LoopExists
    <3>5. /\ g \in [0..n -> B] /\ \A k \in 1..n : g[k] = G[<<k, g[k-1]>>]
      BY <3>4 DEF LoopOf
    <3> DEFINE f == [i \in 1..n |-> g[i]]
    <3>6. \A i \in 1..n : f[i] = IF i = 1 THEN s[i] ELSE f[i-1] \o s[i]
      <4> TAKE i \in 1..n
      <4>1. i - 1 \in 0..n /\ (i # 1 => i - 1 \in 1..n)  BY <1>1
      <4>2. g[i] = IF i = 1 THEN s[1] ELSE g[i-1] \o s[i]  BY <3>1, <3>5, <4>1
      <4> QED  BY <4>1, <4>2
    <3>7. f = [i \in 1..n |-> f[i]]  OBVIOUS
    <3> HIDE DEF f
    <3>8. FlattenEq(f, s)  BY <3>6, <3>7 DEF FlattenEq, n
    <3> QED  BY <3>8
  <2> DEFINE f == CHOOSE f : FlattenEq(f, s)
  <2>4. FlattenEq(f, s)  BY <2>3
  <2>5. FlattenSeq(s) = f[n]  BY <2>1
  <2> HIDE DEF f
  <2>6. \A i \in 1..n : f[i] = IF i = 1 THEN s[i] ELSE f[i-1] \o s[i]
    BY <2>4 DEF FlattenEq
  <2> HIDE DEF n
  <2> DEFINE P == {i \in 0..n : i = 0 \/ f[i] \in B}
  <2>7. 0 \in P  BY <1>1
  <2>8. ASSUME NEW k \in 1..n, k - 1 \in P PROVE k \in P
    <3>1. k \in 0..n /\ (k # 1 => f[k-1] \in B)  BY <2>8
    <3> QED  BY <1>1, <2>2, <2>6, <3>1
  <2>9. \A k \in 0..n : k \in P
    <3> HIDE DEF P
    <3> QED  BY <1>1, <2>7, <2>8, Upward
  <2>10. n \in 0..n  BY <1>1
  <2> QED  BY <1>3, <2>5, <2>9, <2>10 DEF B
<1> QED  BY <1>2, <1>3

LEMMA Zero == Ended(<<0>>) /\ <<0>> \in Seq(Bytes)
  BY DEF Ended, Bytes

LEMMA UsEnded == ASSUME NEW v \in Seq(Unsigneds) PROVE Ended(Us(v))
<1> DEFINE s == [j \in DOMAIN v |-> U(v[j])]
<1>1. \A j \in 1..Len(v) : U(v[j]) \in Seq(Bytes)
  <2> TAKE j \in 1..Len(v)
  <2>1. v[j] \in Unsigneds  OBVIOUS
  <2> QED  BY <2>1, UTyped
<1>2. s \in Seq(Seq(Bytes))
  <2>1. s \in [1..Len(v) -> Seq(Bytes)]  BY <1>1
  <2> QED  BY <2>1
<1> HIDE DEF s
<1>3. FlattenSeq(s) \in Seq(Bytes)  BY <1>2, FlattenTyped
<1>4. Ended(FlattenSeq(s) \o <<0>>)  BY ONLY <1>3, Zero, Concat
<1> QED  BY <1>4 DEF Us, s

LEMMA IsEnded == ASSUME NEW v \in Seq(Signeds) PROVE Ended(Is(v))
<1> DEFINE s == [j \in DOMAIN v |-> U(Zigzag(v[j]))]
<1>1. \A j \in 1..Len(v) : U(Zigzag(v[j])) \in Seq(Bytes)
  <2> TAKE j \in 1..Len(v)
  <2>1. v[j] \in Signeds  OBVIOUS
  <2>2. Zigzag(v[j]) \in Unsigneds  BY <2>1, ZigzagTyped
  <2> QED  BY <2>2, UTyped
<1>2. s \in Seq(Seq(Bytes))
  <2>1. s \in [1..Len(v) -> Seq(Bytes)]  BY <1>1
  <2> QED  BY <2>1
<1> HIDE DEF s
<1>3. FlattenSeq(s) \in Seq(Bytes)  BY <1>2, FlattenTyped
<1>4. Ended(FlattenSeq(s) \o <<0>>)  BY ONLY <1>3, Zero, Concat
<1> QED  BY <1>4 DEF Is, s

LEMMA Tuples ==
  ASSUME NEW x \in Bytes, NEW y \in Bytes, NEW z \in Bytes
  PROVE  <<x>> \in Seq(Bytes) /\ <<x, y>> \in Seq(Bytes) /\ <<x, y, z>> \in Seq(Bytes)
  OBVIOUS

LEMMA First ==
  ASSUME NEW S, NEW s \in Seq(S), s # <<>>
  PROVE  s[1] \in S
<1>1. Len(s) \in Nat /\ Len(s) # 0  BY EmptySeq
<1>2. 1 \in 1..Len(s)  BY <1>1
<1> QED  BY <1>2

LEMMA Join ==
  ASSUME NEW x, Ended(x), NEW y, y = <<>> \/ Ended(y)
  PROVE  Ended(x \o y)
<1>1. x \in Seq(Bytes) /\ y \in Seq(Bytes)
  <2>1. <<>> \in Seq(Bytes)  OBVIOUS
  <2> QED  BY <2>1 DEF Ended
<1> QED  BY <1>1, Concat

(* The first byte of a segment, then the rest.                              *)
LEMMA Keyed ==
  ASSUME NEW k \in Bytes, NEW y, Ended(y)
  PROVE  Ended(<<k>> \o y)
<1>1. <<k>> \in Seq(Bytes) /\ y \in Seq(Bytes)  BY DEF Ended
<1> QED  BY <1>1, Concat

LEMMA Keywords ==
  /\ \A h \in {"o", "a", "d", "f", "i", "r", "t", "x", "b"} : Byte[h] \in Bytes
  /\ Byte.r \in Bytes /\ Byte.t \in Bytes /\ Byte.l \in Bytes /\ Byte.u \in Bytes
  /\ Byte.k \in Bytes /\ Byte.b \in Bytes /\ 0 \in Bytes
  BY DEF Byte, Bytes

LEMMA HeadsTyped ==
  ASSUME NEW s, IsStep(s), s.head \notin {"r", "t"} \/ s.con = ""
  PROVE  Heads(s) \in Seq(Bytes)
<1>1. U(s.idx) \in Seq(Bytes)  BY UTyped DEF IsStep
<1>2. Byte[s.head] \in Bytes /\ (s.con # "" => Byte[s.con] \in Bytes) /\ 0 \in Bytes
  BY Keywords DEF IsStep
<1>3. s.con = "" \/ IsBnnImply(s) => Heads(s) = <<Byte[s.head]>> \o U(s.idx)  BY DEF Heads
<1>4. ~(s.con = "" \/ IsBnnImply(s)) => Heads(s) = <<Byte[s.head], 0, Byte[s.con]>> \o U(s.idx)
  BY DEF Heads
<1>5. <<Byte[s.head]>> \in Seq(Bytes)  BY ONLY <1>2, Tuples
<1>6. s.con # "" => <<Byte[s.head], 0, Byte[s.con]>> \in Seq(Bytes)  BY ONLY <1>2, Tuples
<1> QED  BY <1>1, <1>3, <1>4, <1>5, <1>6, Concat

LEMMA ProofsEnded ==
  ASSUME NEW s, IsStep(s) PROVE Proofs(s) = <<>> \/ Ended(Proofs(s))
<1> SUFFICES ASSUME s.pf # <<>> PROVE Ended(Proofs(s))  BY DEF Proofs
<1> DEFINE first == IF IsBnnImply(s) THEN <<Byte.b, 0>> ELSE <<>>
           lits == Is(s.pf[1])
           units == IF s.uf = <<>> THEN <<>> ELSE <<Byte.u>> \o Us(s.uf[1])
<1>1. Proofs(s) = ((first \o <<Byte.l>>) \o lits) \o units  BY DEF Proofs
<1>2. s.pf[1] \in Seq(Signeds) /\ (s.uf # <<>> => s.uf[1] \in Seq(Unsigneds))
  <2>1. s.pf \in Seq(Seq(Signeds)) /\ s.uf \in Seq(Seq(Unsigneds))  BY DEF IsStep
  <2> QED  BY <2>1, First
<1>3. first \in Seq(Bytes)  BY Keywords
<1>4. Ended(lits)  BY <1>2, IsEnded
<1>5. units = <<>> \/ Ended(units)
  <2> SUFFICES ASSUME s.uf # <<>> PROVE Ended(units)  OBVIOUS
  <2>1. Ended(Us(s.uf[1]))  BY <1>2, UsEnded
  <2> QED  BY <2>1, Keywords, Keyed
<1> HIDE DEF first, lits, units
<1>6. first \o <<Byte.l>> \in Seq(Bytes)  BY <1>3, Keywords, Concat
<1>7. lits \in Seq(Bytes)  BY <1>4 DEF Ended
<1>8. Ended((first \o <<Byte.l>>) \o lits)  BY <1>4, <1>6, <1>7, Concat
<1>9. Ended(((first \o <<Byte.l>>) \o lits) \o units)  BY <1>5, <1>8, Join
<1> QED  BY <1>1, <1>9

LEMMA RhsEnded ==
  ASSUME NEW s, IsStep(s) PROVE Ended(Rhs(s))
<1> DEFINE first == <<Byte.k>> \o U(Zigzag(s.rhs))
           out == IF s.out = 0 /\ s.head # "d" THEN <<>> ELSE U(Zigzag(s.out))
<1>1. Rhs(s) = (first \o out) \o <<0>>  BY DEF Rhs
<1>2. U(Zigzag(s.rhs)) \in Seq(Bytes) /\ U(Zigzag(s.out)) \in Seq(Bytes)
  <2>1. s.rhs \in Signeds /\ s.out \in Signeds  BY DEF IsStep
  <2> QED  BY <2>1, UTyped, ZigzagTyped
<1>3. first \in Seq(Bytes)
  <2>1. <<Byte.k>> \in Seq(Bytes)  BY Keywords
  <2> QED  BY <1>2, <2>1, Concat
<1>4. out \in Seq(Bytes)  BY <1>2
<1> HIDE DEF first, out
<1>5. first \o out \in Seq(Bytes)  BY <1>3, <1>4, Concat
<1>6. Ended((first \o out) \o <<0>>)  BY ONLY <1>5, Zero, Concat
<1> QED  BY <1>1, <1>6

(* Every step ends with a 0.                                               *)
LEMMA StepEnded ==
  ASSUME NEW s, IsStep(s) PROVE Ended(StepBytes(s))
<1>1. CASE s.head = "r"
  <2>1. StepBytes(s) = <<Byte.r>> \o Us(s.vec)  BY <1>1 DEF StepBytes
  <2>2. Ended(Us(s.vec))  BY <1>1, UsEnded DEF IsStep
  <2> QED  BY <2>1, <2>2, Keywords, Keyed
<1>2. CASE s.head = "t"
  <2>1. StepBytes(s) = (<<Byte.t>> \o U(s.idx)) \o <<0>>  BY <1>2 DEF StepBytes
  <2>2. U(s.idx) \in Seq(Bytes)  BY UTyped DEF IsStep
  <2>3. <<Byte.t>> \in Seq(Bytes)  BY Keywords
  <2>4. <<Byte.t>> \o U(s.idx) \in Seq(Bytes)  BY <2>2, <2>3, Concat
  <2>5. Ended((<<Byte.t>> \o U(s.idx)) \o <<0>>)  BY ONLY <2>4, Zero, Concat
  <2> QED  BY <2>1, <2>5
<1>3. CASE s.head \notin {"r", "t"}
  <2> DEFINE mid == IF s.con = "b" /\ s.head # "i" THEN Rhs(s) ELSE <<>>
  <2>1. StepBytes(s) = ((Heads(s) \o Is(s.vec)) \o mid) \o Proofs(s)
    <3>1. s.head # "r" /\ s.head # "t"  BY <1>3
    <3> QED  BY <3>1 DEF StepBytes
  <2>2. Heads(s) \in Seq(Bytes)  BY <1>3, HeadsTyped
  <2>3. Ended(Is(s.vec))  BY <1>3, IsEnded DEF IsStep
  <2>4. Is(s.vec) \in Seq(Bytes)  BY <2>3 DEF Ended
  <2>5. Ended(Heads(s) \o Is(s.vec))  BY <2>2, <2>3, <2>4, Concat
  <2>6. mid = <<>> \/ Ended(mid)  BY RhsEnded
  <2> HIDE DEF mid
  <2>7. Ended((Heads(s) \o Is(s.vec)) \o mid)  BY <2>5, <2>6, Join
  <2>8. Ended(((Heads(s) \o Is(s.vec)) \o mid) \o Proofs(s))  BY <2>7, ProofsEnded, Join
  <2> QED  BY <2>1, <2>8
<1> QED  BY <1>1, <1>2, <1>3

LEMMA ElabEnded ==
  ASSUME NEW s, IsStep(s) PROVE Ended(ElabBytes(s))
<1>1. CASE s.head = "d"
  <2>1. Heads(s) \in Seq(Bytes)  BY <1>1, HeadsTyped
  <2>2. Ended(Heads(s) \o <<0>>)  BY ONLY <2>1, Zero, Concat
  <2> QED  BY <1>1, <2>2 DEF ElabBytes
<1>2. CASE s.head # "d"  BY <1>2, StepEnded DEF ElabBytes
<1> QED  BY <1>1, <1>2

-----------------------------------------------------------------------------
(* Where the bytes of the chunks are.                                       *)

LEMMA Division ==
  ASSUME NEW m \in Nat, NEW z \in Nat, z > 0
  PROVE  \E q \in Nat, r \in 0..z-1 :
           /\ m = q * z + r /\ m % z = r
           /\ (m + 1) \div z = IF r + 1 = z THEN q + 1 ELSE q
<1> DEFINE q == m \div z
           r == m % z
<1>1. m = z * q + r  BY SMTT(60)
<1>2. q \in Nat /\ r \in 0..z-1  OBVIOUS
<1> HIDE DEF q
<1>3. m = q * z + r  BY ONLY <1>1, <1>2
<1>4. ASSUME r + 1 = z PROVE (m + 1) \div z = q + 1
  <2> HIDE DEF r
  <2>1. m + 1 = (q + 1) * z + 0 /\ q + 1 \in Nat /\ 0 \in 0..z-1  BY <1>2, <1>3, <1>4
  <2>2. m + 1 \in Nat  OBVIOUS
  <2> QED  BY ONLY <2>1, <2>2, z \in Nat, z > 0
<1>5. ASSUME r + 1 # z PROVE (m + 1) \div z = q
  <2> HIDE DEF r
  <2> DEFINE s == r + 1
  <2>1. m + 1 = q * z + s /\ s \in 0..z-1  BY <1>2, <1>3, <1>5
  <2>2. m + 1 \in Nat  OBVIOUS
  <2> HIDE DEF s
  <2> QED  BY ONLY <1>2, <2>1, <2>2, z \in Nat, z > 0
<1> QED  BY <1>2, <1>3, <1>4, <1>5

(* Places a+1 to a+m of f are the first m of c.                             *)
LEMMA Slice ==
  ASSUME NEW f \in Seq(Bytes), NEW c \in Seq(Bytes), NEW a \in Nat, NEW m \in Nat,
         a + m <= Len(f), m <= Len(c), \A j \in 1..m : c[j] = f[a + j],
         NEW i \in 0..m
  PROVE  SubSeq(c, i + 1, m) = SubSeq(f, a + i + 1, a + m)
<1> DEFINE x == SubSeq(c, i + 1, m)
           y == SubSeq(f, a + i + 1, a + m)
           n == m - i
<1>1. Len(c) \in Nat /\ Len(f) \in Nat /\ n \in Nat  OBVIOUS
<1>2. x \in Seq(Bytes) /\ Len(x) = n /\ \A j \in 1..n : x[j] = c[i + j]
  <2>1. \A j \in i+1..m : c[j] \in Bytes  BY <1>1
  <2>2. i + 1 \in Int /\ m \in Int  OBVIOUS
  <2>3. /\ x \in Seq(Bytes) /\ Len(x) = IF i+1 <= m THEN m - (i+1) + 1 ELSE 0
        /\ \A j \in 1..m-(i+1)+1 : x[j] = c[(i+1)+j-1]
    BY ONLY <2>1, <2>2, SubSeqProperties
  <2> HIDE DEF x
  <2>4. m - (i+1) + 1 = n /\ (~(i+1 <= m) => n = 0)  BY <1>1
  <2>5. \A j \in 1..n : (i+1)+j-1 = i + j  OBVIOUS
  <2> QED  BY <2>3, <2>4, <2>5
<1>3. y \in Seq(Bytes) /\ Len(y) = n /\ \A j \in 1..n : y[j] = f[a + i + j]
  <2>1. \A j \in a+i+1..a+m : f[j] \in Bytes  BY <1>1
  <2> DEFINE lo == a + i + 1
             hi == a + m
  <2>2. lo \in Int /\ hi \in Int /\ y = SubSeq(f, lo, hi)  OBVIOUS
  <2>3. hi - lo + 1 = n /\ (~(lo <= hi) => n = 0)  BY <1>1
  <2>4. \A j \in 1..n : lo + j - 1 = a + i + j  OBVIOUS
  <2> HIDE DEF lo, hi, y
  <2>5. /\ y \in Seq(Bytes) /\ Len(y) = IF lo <= hi THEN hi - lo + 1 ELSE 0
        /\ \A j \in 1..hi-lo+1 : y[j] = f[lo+j-1]
    BY ONLY <2>1, <2>2, SubSeqProperties DEF lo, hi
  <2> HIDE DEF n
  <2> QED  BY <2>3, <2>4, <2>5
<1> HIDE DEF x, y
<1>4. \A j \in 1..n : x[j] = y[j]
  <2> TAKE j \in 1..n
  <2>1. i + j \in 1..m /\ a + (i + j) = a + i + j  OBVIOUS
  <2> QED  BY <1>2, <1>3, <2>1
<1>5. x = y
  <2> HIDE DEF n
  <2> QED  BY <1>2, <1>3, <1>4
<1> QED  BY <1>5 DEF x, y

(* Whole chunks, one behind the other in the file.                          *)
LEMMA Whole ==
  ASSUME NEW f \in Seq(Bytes), NEW s \in Seq(Seq(Bytes)), NEW a \in Nat, NEW z \in Nat,
         a + Len(s) * z <= Len(f),
         \A k \in 1..Len(s) : s[k] = SubSeq(f, a + (k - 1) * z + 1, a + k * z)
  PROVE  FlattenSeq(s) = SubSeq(f, a + 1, a + Len(s) * z)
<1> DEFINE n == Len(s)
<1>1. n \in Nat /\ Len(f) \in Nat  OBVIOUS
<1>2. CASE n = 0
  <2>1. FlattenSeq(s) = <<>>  BY <1>2, EmptySeq DEF FlattenSeq
  <2>2. a + n * z < a + 1  BY <1>2
  <2>3. SubSeq(f, a + 1, a + n * z) = <<>>
    <3>1. a + 1 \in Int /\ a + n * z \in Int  BY <1>1
    <3> HIDE DEF n
    <3> QED  BY ONLY <2>2, <3>1, SubSeqEmpty
  <2> QED  BY <2>1, <2>3
<1>3. CASE n # 0
  <2> DEFINE upto(k) == SubSeq(f, a + 1, a + k * z)
             g == [k \in 1..n |-> upto(k)]
  <2>1. \A k \in 1..n : (IF k = 1 THEN s[k] ELSE upto(k-1) \o s[k]) = upto(k)
    <3> TAKE k \in 1..n
    <3>1. s[k] = SubSeq(f, a + (k - 1) * z + 1, a + k * z)  OBVIOUS
    <3>2. CASE k = 1
      <4>1. (k - 1) * z = 0  BY <3>2
      <4>2. a + (k - 1) * z + 1 = a + 1  BY <4>1
      <4> QED  BY <3>1, <3>2, <4>2
    <3>3. CASE k # 1
      <4> HIDE DEF n
      <4> DEFINE u == (k - 1) * z
                 v == k * z
                 w == n * z
      <4>1. u \in Nat /\ v \in Nat /\ u <= v /\ v <= w
        <5>1. k - 1 \in Nat /\ n - k \in Nat /\ k \in Nat  BY <1>1
        <5>2. u \in Nat /\ v \in Nat /\ (n - k) * z \in Nat  BY <5>1
        <5>3. v = u + z /\ w = v + (n - k) * z  BY <1>1, <5>1
        <5> HIDE DEF u, v, w
        <5> QED  BY <5>2, <5>3
      <4>2. a + w <= Len(f)  BY DEF n
      <4> HIDE DEF u, v, w
      <4>3. /\ a + 1 \in 1..Len(f)+1 /\ a + u \in (a+1)-1..Len(f) /\ a + v \in a+u..Len(f)
        <5> DEFINE L == Len(f)
        <5>1. L \in Nat /\ a + w <= L /\ w \in Int /\ n \in Nat  BY <1>1, <4>1, <4>2 DEF w
        <5> HIDE DEF L
        <5>2. /\ a + 1 \in 1..L+1 /\ a + u \in (a+1)-1..L /\ a + v \in a+u..L
          BY ONLY <4>1, <5>1, a \in Nat
        <5> QED  BY <5>2 DEF L
      <4>4. SubSeq(f, a + 1, a + u) \o SubSeq(f, (a + u) + 1, a + v) = SubSeq(f, a + 1, a + v)
        BY ONLY <4>3, f \in Seq(Bytes), ConcatAdjacentSubSeq
      <4> QED  BY <3>1, <3>3, <4>4 DEF u, v
    <3> QED  BY <3>2, <3>3
  <2>2. FlattenSeq(s) = (CHOOSE h : FlattenEq(h, s))[n]  BY <1>3 DEF FlattenSeq, FlattenEq
  <2> HIDE DEF upto
  <2>3. FlattenEq(g, s)
    <3> DEFINE h(i) == IF i = 1 THEN s[i] ELSE g[i-1] \o s[i]
    <3>1. \A i \in 1..n : upto(i) = h(i)
      <4> TAKE i \in 1..n
      <4>1. i # 1 => i - 1 \in 1..n  BY <1>1
      <4>2. i # 1 => g[i-1] = upto(i-1)  BY <4>1
      <4> QED  BY <2>1, <4>2
    <3>2. g = [i \in 1..n |-> h(i)]  BY <3>1
    <3> QED  BY <3>2 DEF FlattenEq
  <2> DEFINE h == CHOOSE h : FlattenEq(h, s)
  <2>4. FlattenEq(h, s)  BY <2>3
  <2>5. FlattenSeq(s) = h[n]  BY <2>2
  <2> HIDE DEF h
  <2>6. \A i \in 1..n : h[i] = IF i = 1 THEN s[i] ELSE h[i-1] \o s[i]  BY <2>4 DEF FlattenEq
  <2> HIDE DEF n
  <2> DEFINE P == {i \in 0..n : i = 0 \/ h[i] = upto(i)}
  <2>7. 0 \in P  BY <1>1
  <2>8. ASSUME NEW k \in 1..n, k - 1 \in P PROVE k \in P
    <3>1. k \in 0..n /\ (k # 1 => h[k-1] = upto(k-1))  BY <2>8
    <3>2. h[k] = IF k = 1 THEN s[k] ELSE upto(k-1) \o s[k]  BY <2>6, <3>1
    <3> QED  BY <2>1, <3>1, <3>2
  <2>9. \A k \in 0..n : k \in P
    <3> HIDE DEF P
    <3> QED  BY <1>1, <2>7, <2>8, Upward
  <2>10. n \in 0..n  BY <1>1
  <2>11. h[n] = upto(n)  BY <1>3, <2>9, <2>10
  <2> QED  BY <2>5, <2>11 DEF n, upto
<1> QED  BY <1>2, <1>3

-----------------------------------------------------------------------------
(* The invariant.                                                          *)

(* The bytes of the file before chunk n of those held.                      *)
Base(n) == (remaining + Len(buffers) - n) * size
Used(n) == IF n = 1 THEN pos ELSE size

Typed ==
  /\ pc \in {"write", "read", "steps", "done", "panic"} /\ kind \in {"elab", "frat"}
  /\ size \in BufferSizes
  /\ file \in Seq(Bytes) /\ (file = <<>> \/ Ended(file))
  /\ remaining \in Nat /\ pos \in 0..size /\ lastRead \in 0..size
  /\ buffers \in Seq([1..size -> Bytes]) /\ b \in 1..Len(buffers)+1
  /\ \E S : segs \in Seq(S)

(* The read position is behind the chunk that was read last, and a segment   *)
(* that is not parsed yet has its last byte in the first chunk held.         *)
Placed ==
  /\ buffers # <<>> /\ Left <= Len(file)
  /\ cursor = remaining * size + lastRead
  /\ pos = 0 => Left = 0
  /\ Left > 0 => file[Left] = 0

(* The chunks held are stretches of the file, one before the other.          *)
Held == \A n \in 1..Len(buffers) : \A j \in 1..Used(n) : buffers[n][j] = file[Base(n) + j]

(* No 0 in the chunks scanned, but for the one at the end.                   *)
Seen == b > 1 => \A p \in Base(b-1)+1..Left-1 : file[p] # 0

IInv ==
  /\ Typed
  /\ pc = "write" => buffers = <<>>
  /\ pc = "read" => Placed /\ Held /\ Seen
  /\ pc \in {"steps", "done", "panic"} => Left = 0

(* What the steps of the invariant need of a chunk's place.                  *)
LEMMA Places ==
  ASSUME IInv, pc = "read"
  PROVE  /\ size \in Nat /\ size > 0 /\ Len(buffers) \in Nat /\ Len(buffers) > 0
         /\ \A n \in 1..Len(buffers) :
              /\ Base(n) \in Nat /\ Used(n) \in 0..size
              /\ Base(n) + Used(n) <= Left /\ Base(n) <= Base(1)
              /\ n > 1 => Base(n - 1) = Base(n) + size
         /\ Left = Base(1) + pos /\ Left \in Nat /\ Left <= Len(file) /\ Len(file) \in Nat
         /\ Base(Len(buffers)) = remaining * size
<1> DEFINE N == Len(buffers)
<1>1. /\ size \in Nat /\ size > 0 /\ N \in Nat /\ remaining \in Nat /\ pos \in 0..size
      /\ Len(file) \in Nat
  BY Bounds DEF IInv, Typed
<1>2. N > 0 /\ Left <= Len(file)
  <2>1. buffers # <<>> /\ Left <= Len(file)  BY DEF IInv, Placed
  <2>2. buffers \in Seq([1..size -> Bytes])  BY DEF IInv, Typed
  <2> QED  BY <2>1, <2>2, EmptySeq
<1>3. ASSUME NEW n \in 1..N
      PROVE  /\ Base(n) \in Nat /\ Used(n) \in 0..size
             /\ Base(n) + Used(n) <= Left /\ Base(n) <= Base(1)
             /\ n > 1 => Base(n - 1) = Base(n) + size
  <2> DEFINE x == remaining + N - n
             y == n - 1
             z == x + y
  <2>1. x \in Nat /\ y \in Nat /\ z = remaining + N - 1  BY <1>1
  <2>2. Base(n) = x * size /\ Base(1) = z * size /\ Left = z * size + pos
    BY <2>1 DEF Base, Left
  <2>3. n > 1 => Base(n - 1) = (x + 1) * size
    <3>1. remaining + N - (n - 1) = x + 1  BY <1>1
    <3> QED  BY <3>1 DEF Base
  <2>4. y > 0 => \E u \in Nat : y = u + 1
    <3> SUFFICES ASSUME y > 0 PROVE \E u \in Nat : y = u + 1  OBVIOUS
    <3>1. y - 1 \in Nat /\ y = (y - 1) + 1  BY <2>1
    <3> QED  BY <3>1
  <2>5. Used(n) \in 0..size /\ (n = 1 => Used(n) = pos) /\ (n # 1 => Used(n) = size)
    BY <1>1 DEF Used
  <2>6. n = 1 => y = 0  OBVIOUS
  <2>7. n # 1 => y > 0  BY <1>1
  <2> HIDE DEF x, y
  <2>8. z * size = x * size + y * size  BY <1>1, <2>1
  <2>9. x * size \in Nat /\ y * size \in Nat  BY <1>1, <2>1
  <2>10. (x + 1) * size = x * size + size  BY <1>1, <2>1
  <2>11. y > 0 => y * size >= size
    <3> SUFFICES ASSUME y > 0 PROVE y * size >= size  OBVIOUS
    <3>1. PICK u \in Nat : y = u + 1  BY <2>4
    <3>2. (u + 1) * size = u * size + size /\ u * size \in Nat  BY <1>1
    <3> QED  BY <1>1, <3>1, <3>2
  <2> HIDE DEF z
  <2>12. Base(n) + Used(n) <= Left
    <3>1. CASE n = 1
      <4>1. y * size = 0  BY <1>1, <2>6, <3>1
      <4> QED  BY <1>1, <2>2, <2>5, <2>8, <2>9, <3>1, <4>1
    <3>2. CASE n # 1
      <4>1. y * size >= size  BY <2>7, <2>11, <3>2
      <4> QED  BY <1>1, <2>2, <2>5, <2>8, <2>9, <3>2, <4>1
    <3> QED  BY <3>1, <3>2
  <2> QED  BY <1>1, <2>2, <2>3, <2>5, <2>8, <2>9, <2>10, <2>12
<1>4. Left = Base(1) + pos  BY DEF Left, Base
<1>5. Base(1) \in Nat  BY <1>1, <1>2, <1>3
<1>6. Base(N) = remaining * size
  <2>1. remaining + N - N = remaining  BY <1>1
  <2> QED  BY <2>1 DEF Base
<1> QED  BY <1>1, <1>2, <1>3, <1>4, <1>5, <1>6

(* The bytes that parse_segment_from() hands to the parser are a stretch of  *)
(* the file, whatever the number of chunks they lie in.                     *)
LEMMA ChunksAreFile ==
  ASSUME IInv, pc = "read", NEW n \in 1..Len(buffers), NEW i \in 0..Used(n)
  PROVE  Chunks(n, i) = SubSeq(file, Base(n) + i + 1, Left)
<1>1. /\ size \in Nat /\ size > 0 /\ Len(buffers) \in Nat /\ Len(buffers) > 0
      /\ \A m \in 1..Len(buffers) :
           /\ Base(m) \in Nat /\ Used(m) \in 0..size
           /\ Base(m) + Used(m) <= Left /\ Base(m) <= Base(1)
           /\ m > 1 => Base(m - 1) = Base(m) + size
      /\ Left = Base(1) + pos /\ Left \in Nat /\ Left <= Len(file) /\ Len(file) \in Nat
  BY Places
<1>2. file \in Seq(Bytes) /\ pos \in 0..size /\ buffers \in Seq([1..size -> Bytes])
  BY DEF IInv, Typed
<1>3. \A m \in 1..Len(buffers) : \A j \in 1..Used(m) : buffers[m][j] = file[Base(m) + j]
  BY DEF IInv, Held
<1>4. ASSUME NEW m \in 1..Len(buffers), NEW k \in 0..Used(m)
      PROVE  SubSeq(buffers[m], k + 1, Used(m)) = SubSeq(file, Base(m) + k + 1, Base(m) + Used(m))
  <2>1. buffers[m] \in [1..size -> Bytes]  BY <1>2
  <2>2. buffers[m] \in Seq(Bytes) /\ Len(buffers[m]) = size  BY <1>1, <2>1
  <2>3. /\ Base(m) \in Nat /\ Used(m) \in Nat /\ Base(m) + Used(m) <= Len(file)
        /\ Used(m) <= Len(buffers[m])
    <3>1. Base(m) \in Nat /\ Used(m) \in 0..size /\ Base(m) + Used(m) <= Left  BY <1>1
    <3> QED  BY <1>1, <2>2, <3>1
  <2> QED  BY ONLY <1>2, <1>3, <1>4, <2>2, <2>3, Slice
<1>5. 1 \in 1..Len(buffers)  BY <1>1
<1>6. Used(1) = pos /\ (n # 1 => Used(n) = size)  BY DEF Used
<1>7. CASE n = 1
  <2>1. Chunks(1, i) = SubSeq(buffers[1], i + 1, pos)  BY DEF Chunks
  <2> QED  BY <1>1, <1>4, <1>6, <1>7, <2>1
<1>8. CASE n # 1
  <2> DEFINE s == Reverse(SubSeq(buffers, 2, n - 1))
             a == Base(n - 1)
             M == n - 2
  <2>1. /\ n - 1 \in 1..Len(buffers) /\ n > 1 /\ M \in Nat /\ n \in Nat
    BY <1>1, <1>8
  <2>2. /\ Chunks(n, i) = SubSeq(buffers[n], i + 1, size) \o FlattenSeq(s) \o SubSeq(buffers[1], 1, pos)
    BY <1>8 DEF Chunks
  <2>3. SubSeq(buffers[n], i + 1, size) = SubSeq(file, Base(n) + i + 1, a)
    <3>1. a = Base(n) + size  BY <1>1, <2>1
    <3> QED  BY <1>4, <1>6, <1>8, <3>1
  <2>4. SubSeq(buffers[1], 1, pos) = SubSeq(file, Base(1) + 1, Left)
    <3>1. 0 \in 0..Used(1) /\ 0 + 1 = 1  BY <1>2, <1>6
    <3>2. Base(1) + 0 + 1 = Base(1) + 1  BY <1>1, <1>5
    <3> QED  BY <1>1, <1>4, <1>5, <1>6, <3>1, <3>2
  <2>5. /\ s \in Seq(Seq(Bytes)) /\ Len(s) = M
        /\ \A k \in 1..M : s[k] = buffers[n - k]
    <3> DEFINE t == SubSeq(buffers, 2, n - 1)
    <3>1. \A k \in 2..n-1 : buffers[k] \in [1..size -> Bytes]  BY <1>1, <1>2
    <3>2. \A k \in 2..n-1 : buffers[k] \in Seq(Bytes)
      <4> TAKE k \in 2..n-1
      <4>1. buffers[k] \in [1..size -> Bytes]  BY <3>1
      <4> QED  BY <1>1, <4>1
    <3>3. 2 \in Int /\ n - 1 \in Int /\ n - 1 - 2 + 1 = M /\ (~(2 <= n - 1) => M = 0)
      BY <2>1
    <3>4. /\ t \in Seq(Seq(Bytes)) /\ Len(t) = IF 2 <= n - 1 THEN n - 1 - 2 + 1 ELSE 0
          /\ \A k \in 1..n-1-2+1 : t[k] = buffers[2+k-1]
      BY ONLY <3>2, <3>3, SubSeqProperties
    <3> HIDE DEF t, M
    <3>5. Len(t) = M /\ \A k \in 1..M : t[k] = buffers[2+k-1]  BY <3>3, <3>4
    <3>6. s = [k \in 1..M |-> t[(M - k) + 1]]  BY <3>5 DEF Reverse, t
    <3> HIDE DEF s
    <3>7. \A k \in 1..M : (M - k) + 1 \in 1..M /\ t[(M - k) + 1] \in Seq(Bytes)
      <4> TAKE k \in 1..M
      <4>1. (M - k) + 1 \in 1..M  BY <2>1
      <4> QED  BY <3>4, <3>5, <4>1
    <3>8. s \in Seq(Seq(Bytes)) /\ Len(s) = M
      <4>1. s \in [1..M -> Seq(Bytes)]  BY <3>6, <3>7
      <4> QED  BY <2>1, <4>1
    <3>9. \A k \in 1..M : s[k] = buffers[n - k]
      <4> TAKE k \in 1..M
      <4>1. 2 + ((M - k) + 1) - 1 = n - k  BY <2>1 DEF M
      <4>2. s[k] = t[(M - k) + 1]  BY <3>6
      <4> QED  BY <3>5, <3>7, <4>1, <4>2
    <3> QED  BY <3>8, <3>9
  <2>6. \A k \in 0..M : Base(n - 1 - k) = a + k * size /\ n - 1 - k \in 1..Len(buffers)
    <3> TAKE k \in 0..M
    <3> DEFINE x == remaining + Len(buffers) - (n - 1)
    <3>1. remaining + Len(buffers) - (n - 1 - k) = x + k /\ x \in Int /\ k \in Int
      BY <1>1, <2>1 DEF IInv, Typed
    <3>2. Base(n - 1 - k) = (x + k) * size /\ a = x * size  BY <3>1 DEF Base
    <3>3. n - 1 - k \in 1..Len(buffers)  BY <1>1, <2>1
    <3> HIDE DEF x
    <3>4. (x + k) * size = x * size + k * size  BY <1>1, <3>1
    <3> QED  BY <3>2, <3>3, <3>4
  <2>7. a + M * size = Base(1)
    <3>1. M \in 0..M /\ n - 1 - M = 1  BY <2>1
    <3> QED  BY <2>6, <3>1
  <2>8. \A k \in 1..M : s[k] = SubSeq(file, a + (k - 1) * size + 1, a + k * size)
    <3> TAKE k \in 1..M
    <3>1. /\ s[k] = buffers[n - k] /\ n - k \in 1..Len(buffers) /\ n - k # 1
          /\ k - 1 \in 0..M /\ n - 1 - (k - 1) = n - k /\ k \in 0..M
      BY <1>1, <2>1, <2>5
    <3>2. Base(n - k) = a + (k - 1) * size  BY <2>6, <3>1
    <3>3. Base(n - 1 - k) = a + k * size  BY <2>6, <3>1
    <3>4. n - 1 - k = (n - k) - 1 /\ n - k > 1
      <4>1. k \in 1..n-2 /\ n \in Nat  BY <2>1
      <4> QED  BY ONLY <4>1
    <3>5. Base(n - k) + size = a + k * size  BY <1>1, <3>1, <3>3, <3>4
    <3>6. Used(n - k) = size  BY <3>1 DEF Used
    <3> DEFINE c == buffers[n - k]
    <3>7. c \in [1..size -> Bytes]  BY <1>2, <3>1
    <3> HIDE DEF c
    <3>8. c \in Seq(Bytes) /\ Len(c) = size  BY <1>1, <3>7
    <3>9. SubSeq(c, 1, size) = c  BY <3>8, SubSeqFull
    <3>10. 0 \in 0..Used(n - k) /\ 0 + 1 = 1 /\ Base(n - k) + 0 + 1 = Base(n - k) + 1
      <4>1. Base(n - k) \in Nat  BY <1>1, <3>1
      <4> QED  BY ONLY <1>1, <3>6, <4>1
    <3>11. SubSeq(c, 1, size) = SubSeq(file, Base(n - k) + 1, Base(n - k) + size)
      BY <1>4, <3>1, <3>6, <3>10 DEF c
    <3> QED  BY <3>1, <3>2, <3>5, <3>9, <3>11 DEF c
  <2>9. a \in Nat /\ a <= Base(1) /\ Base(1) <= Left  BY <1>1, <1>2, <1>5, <2>1
  <2>10. FlattenSeq(s) = SubSeq(file, a + 1, Base(1))
    <3> HIDE DEF a, M, s
    <3>1. a + Len(s) * size <= Len(file)  BY <1>1, <2>5, <2>7, <2>9
    <3>2. \A k \in 1..Len(s) : s[k] = SubSeq(file, a + (k - 1) * size + 1, a + k * size)
      BY <2>5, <2>8
    <3>3. FlattenSeq(s) = SubSeq(file, a + 1, a + Len(s) * size)
      BY ONLY <1>1, <1>2, <2>5, <2>9, <3>1, <3>2, Whole
    <3> QED  BY <2>5, <2>7, <3>3
  <2> DEFINE e == Base(n) + i
             q == Base(1)
  <2>11. e \in Nat /\ e <= a
    <3>1. a = Base(n) + size /\ Base(n) \in Nat  BY <1>1, <2>1
    <3>2. i \in 0..size  BY <1>6, <1>8
    <3> QED  BY <1>1, <3>1, <3>2
  <2> HIDE DEF e, q, s, a
  <2>12. SubSeq(file, e + 1, a) \o SubSeq(file, a + 1, q) = SubSeq(file, e + 1, q)
    <3>1. e + 1 \in 1..Len(file)+1 /\ a \in (e+1)-1..Len(file) /\ q \in a..Len(file)
      <4>1. q \in Nat /\ a <= q /\ q <= Len(file)  BY <1>1, <1>5, <2>9 DEF q
      <4> QED  BY <1>1, <2>9, <2>11, <4>1
    <3> QED  BY ONLY <1>2, <3>1, ConcatAdjacentSubSeq
  <2>13. SubSeq(file, e + 1, q) \o SubSeq(file, q + 1, Left) = SubSeq(file, e + 1, Left)
    <3>1. e + 1 \in 1..Len(file)+1 /\ q \in (e+1)-1..Len(file) /\ Left \in q..Len(file)
      <4>1. q \in Nat /\ a <= q /\ q <= Left  BY <1>1, <1>5, <2>9 DEF q
      <4> QED  BY <1>1, <2>9, <2>11, <4>1
    <3> QED  BY ONLY <1>2, <3>1, ConcatAdjacentSubSeq
  <2>14. Chunks(n, i) = (SubSeq(file, e + 1, a) \o SubSeq(file, a + 1, q)) \o SubSeq(file, q + 1, Left)
    BY <2>2, <2>3, <2>4, <2>10 DEF e, q
  <2> QED  BY <2>12, <2>13, <2>14 DEF e
<1> QED  BY <1>7, <1>8

-----------------------------------------------------------------------------
(* The steps.                                                              *)

LEMMA InitInv == Init => IInv
<1> SUFFICES ASSUME Init PROVE IInv  OBVIOUS
<1>1. segs \in Seq({})  BY DEF Init
<1>2. size \in BufferSizes /\ size \in Nat  BY Bounds DEF Init
<1>3. file \in Seq(Bytes) /\ file = <<>>  BY DEF Init
<1>4. buffers = <<>> /\ b \in 1..Len(buffers)+1 /\ buffers \in Seq([1..size -> Bytes])
  BY DEF Init
<1>5. 0 \in 0..size  BY <1>2
<1> QED  BY <1>1, <1>2, <1>3, <1>4, <1>5 DEF Init, IInv, Typed

LEMMA WriteBytes ==
  ASSUME IInv, NEW s, s \in IF kind = "elab" THEN ElabSteps ELSE FratSteps, Write(s)
  PROVE  \E bytes : /\ Ended(bytes) /\ file' = file \o bytes
                    /\ bytes \in {ElabBytes(x) : x \in ElabSteps} \union {StepBytes(x) : x \in FratSteps}
<1>1. CASE kind = "elab"
  <2>1. s \in ElabSteps /\ IsStep(s) /\ file' = file \o ElabBytes(s)  BY <1>1, StepsAreSteps DEF Write
  <2> QED  BY <2>1, ElabEnded
<1>2. CASE kind # "elab"
  <2>1. s \in FratSteps /\ IsStep(s) /\ file' = file \o StepBytes(s)  BY <1>2, StepsAreSteps DEF Write
  <2> QED  BY <2>1, StepEnded
<1> QED  BY <1>1, <1>2

LEMMA WriteInv ==
  ASSUME IInv, NEW s, s \in IF kind = "elab" THEN ElabSteps ELSE FratSteps, Write(s)
  PROVE  IInv'
<1>1. PICK bytes : Ended(bytes) /\ file' = file \o bytes  BY WriteBytes
<1>2. file' \in Seq(Bytes) /\ Ended(file')
  <2>1. file \in Seq(Bytes) /\ bytes \in Seq(Bytes)  BY <1>1 DEF IInv, Typed, Ended
  <2> QED  BY <1>1, <2>1, Concat
<1>3. /\ pc = "write" /\ pc' = pc /\ kind' = kind /\ size' = size /\ remaining' = remaining
      /\ pos' = pos /\ lastRead' = lastRead /\ buffers' = buffers /\ b' = b /\ segs' = segs
  BY DEF Write, reader
<1> QED  BY <1>2, <1>3 DEF IInv, Typed, Ended

(* The length of the file is that of whole chunks and of the last one.       *)
LEMMA OpenPlaces ==
  ASSUME IInv, Open
  PROVE  /\ remaining' \in Nat /\ pos' \in 0..size /\ pos' <= Len(file)
         /\ remaining' * size + pos' = Len(file)
         /\ pos' = 0 => file = <<>>
<1>1. size \in Nat /\ size > 0 /\ file \in Seq(Bytes)  BY Bounds DEF IInv, Typed
<1>2. Len(file) \in Nat  BY <1>1
<1>3. CASE file = <<>>
  <2>1. pos' = 0 /\ remaining' = Len(file) \div size - (IF pos' = size THEN 1 ELSE 0)
    BY <1>3 DEF Open
  <2>2. Len(file) = 0  BY <1>3
  <2>3. 0 \div size = 0
    <3>1. 0 = 0 * size + 0 /\ 0 \in Nat /\ 0 \in 0..size-1  BY <1>1
    <3> QED  BY ONLY <1>1, <3>1
  <2>4. remaining' = 0  BY <1>1, <2>1, <2>2, <2>3
  <2> QED  BY <1>1, <1>3, <2>1, <2>2, <2>4
<1>4. CASE file # <<>>
  <2> DEFINE m == Len(file) - 1
  <2>1. m \in Nat /\ Len(file) = m + 1  BY <1>1, <1>2, <1>4, EmptySeq
  <2>2. pos' = (m % size) + 1 /\ remaining' = Len(file) \div size - (IF pos' = size THEN 1 ELSE 0)
    BY <1>4 DEF Open
  <2> HIDE DEF m
  <2>3. PICK q \in Nat, r \in 0..size-1 :
          /\ m = q * size + r /\ m % size = r
          /\ (m + 1) \div size = IF r + 1 = size THEN q + 1 ELSE q
    BY ONLY <1>1, <2>1, Division
  <2>4. pos' = r + 1  BY <2>2, <2>3
  <2>5. remaining' = q  BY <2>1, <2>2, <2>3, <2>4
  <2> DEFINE x == q * size
  <2>6. x \in Nat /\ remaining' * size = x /\ m = x + r  BY <1>1, <2>3, <2>5
  <2> HIDE DEF x
  <2>7. x + pos' = Len(file) /\ pos' \in 0..size /\ pos' <= Len(file) /\ pos' # 0
    BY <1>1, <2>1, <2>4, <2>6
  <2> QED  BY <2>5, <2>6, <2>7
<1> QED  BY <1>3, <1>4

LEMMA OpenInv ==
  ASSUME IInv, Open
  PROVE  IInv' /\ Left' = Len(file)
<1>1. /\ size \in Nat /\ size > 0 /\ file \in Seq(Bytes) /\ Len(file) \in Nat
      /\ (file = <<>> \/ Ended(file))
  BY Bounds DEF IInv, Typed
<1>2. /\ remaining' \in Nat /\ pos' \in 0..size /\ pos' <= Len(file)
      /\ remaining' * size + pos' = Len(file) /\ (pos' = 0 => file = <<>>)
  BY OpenPlaces
<1>3. /\ pc' = "read" /\ kind' = kind /\ size' = size /\ file' = file /\ segs' = segs
      /\ cursor' = Len(file) /\ lastRead' = pos' /\ b' = 1
      /\ buffers' = <<ReadAt(Len(file) - pos', pos')>>
  BY DEF Open
<1> DEFINE c == ReadAt(Len(file) - pos', pos')
           x == remaining' * size
<1>4. x \in Nat /\ x + pos' = Len(file)
  <2>1. remaining' \in Nat /\ size \in Nat  BY <1>1, <1>2
  <2>2. \A r, z \in Nat : r * z \in Nat  OBVIOUS
  <2>3. x \in Nat  BY <2>1, <2>2
  <2> QED  BY <1>2, <2>3
<1>5. c \in [1..size -> Bytes] /\ \A j \in 1..pos' : c[j] = file[x + j]
  <2> HIDE DEF x
  <2>1. Len(file) - pos' = x  BY <1>1, <1>2, <1>4
  <2>2. c = [j \in 1..size |-> IF j <= pos' THEN file[x + j] ELSE 0]  BY <2>1 DEF ReadAt
  <2>3. \A j \in 1..size : j <= pos' => x + j \in 1..Len(file)  BY <1>1, <1>2, <1>4
  <2>4. \A j \in 1..size : j <= pos' => file[x + j] \in Bytes  BY <1>1, <2>3
  <2>5. 0 \in Bytes  BY DEF Bytes
  <2>6. \A j \in 1..pos' : j \in 1..size /\ j <= pos'  BY <1>1, <1>2
  <2> QED  BY <2>2, <2>4, <2>5, <2>6
<1> HIDE DEF c
<1>6. /\ buffers' = <<c>> /\ Len(buffers') = 1 /\ buffers'[1] = c /\ buffers' # <<>>
      /\ buffers' \in Seq([1..size -> Bytes])
  BY <1>3, <1>5 DEF c
<1>7. Left' = x + pos' /\ Base(1)' = x
  <2>1. \A r \in Nat : r + 1 - 1 = r  OBVIOUS
  <2>2. remaining' + 1 - 1 = remaining'  BY <1>2, <2>1
  <2> QED  BY <1>3, <1>6, <2>2 DEF Left, Base
<1> HIDE DEF x
<1>8. Left' = Len(file)  BY <1>4, <1>7
<1>9. Typed'
  <2>1. 1 \in 1..Len(buffers')+1  BY <1>6
  <2>2. /\ kind \in {"elab", "frat"} /\ size \in BufferSizes /\ \E S : segs \in Seq(S)
    BY DEF IInv, Typed
  <2> QED  BY <1>1, <1>2, <1>3, <1>6, <2>1, <2>2 DEF Typed
<1>10. Placed'
  <2>1. cursor' = remaining' * size' + lastRead'  BY <1>2, <1>3
  <2>2. pos' = 0 => Left' = 0  BY <1>2, <1>8
  <2>3. Left' > 0 => file'[Left'] = 0  BY <1>1, <1>3, <1>8 DEF Ended
  <2>4. Left' <= Len(file')  BY <1>1, <1>3, <1>8
  <2> QED  BY <1>6, <2>1, <2>2, <2>3, <2>4 DEF Placed
<1>11. Held'
  <2>1. \A n \in 1..Len(buffers') : n = 1  BY <1>6
  <2>2. Used(1)' = pos'  BY DEF Used
  <2>3. \A j \in 1..Used(1)' : buffers'[1][j] = file'[Base(1)' + j]  BY <1>3, <1>5, <1>6, <1>7, <2>2
  <2> QED  BY <2>1, <2>3 DEF Held
<1>12. Seen'  BY <1>3 DEF Seen
<1> QED  BY <1>3, <1>8, <1>9, <1>10, <1>11, <1>12 DEF IInv

LEMMA ReadChunkInv ==
  ASSUME IInv, ReadChunk
  PROVE  IInv' /\ Left' = Left
<1>1. pc = "read" /\ b > Len(buffers) /\ remaining > 0  BY DEF ReadChunk, Reading
<1>2. /\ size \in Nat /\ size > 0 /\ Len(buffers) \in Nat /\ Len(buffers) > 0
      /\ Left \in Nat /\ Left <= Len(file) /\ Len(file) \in Nat
      /\ Base(Len(buffers)) = remaining * size
      /\ Base(Len(buffers)) + Used(Len(buffers)) <= Left
      /\ Used(Len(buffers)) \in Nat
  BY <1>1, Places
<1>3. /\ Typed /\ Placed /\ Held /\ Seen  BY <1>1 DEF IInv
<1>4. /\ file \in Seq(Bytes) /\ remaining \in Nat /\ pos \in 0..size /\ lastRead \in 0..size
      /\ buffers \in Seq([1..size -> Bytes]) /\ b \in 1..Len(buffers)+1
      /\ cursor = remaining * size + lastRead
  BY <1>3 DEF Typed, Placed
<1> DEFINE start == cursor - (size + lastRead)
           c == ReadAt(start, size)
           N == Len(buffers)
<1>5. /\ pc' = pc /\ kind' = kind /\ size' = size /\ file' = file /\ segs' = segs /\ b' = b
      /\ pos' = pos /\ lastRead' = size /\ remaining' = remaining - 1
      /\ buffers' = Append(buffers, c) /\ cursor' = start + size
  BY DEF ReadChunk, Reading
<1> DEFINE x == remaining' * size
<1>6. x \in Nat /\ x + size = remaining * size /\ start = x
  <2>1. remaining' \in Nat /\ remaining = remaining' + 1  BY <1>1, <1>4, <1>5
  <2>2. (remaining' + 1) * size = remaining' * size + size /\ remaining' * size \in Nat
    <3>1. \A r, z \in Nat : (r + 1) * z = r * z + z /\ r * z \in Nat  OBVIOUS
    <3> QED  BY <1>2, <2>1, <3>1
  <2>3. x + size = remaining * size /\ x \in Nat  BY <2>1, <2>2
  <2> HIDE DEF x
  <2> DEFINE y == remaining * size
  <2>4. cursor = y + lastRead /\ y = x + size  BY <1>4, <2>3
  <2> HIDE DEF y
  <2>5. start = x  BY <1>2, <1>4, <2>3, <2>4
  <2> QED  BY <2>3, <2>5
<1> HIDE DEF start
<1>7. c \in [1..size -> Bytes] /\ \A j \in 1..size : c[j] = file[x + j]
  <2>1. x + size <= Len(file)
    <3> DEFINE y == Base(N)
               u == Used(N)
    <3>1. x + size = y /\ y + u <= Left /\ u \in Nat  BY <1>2, <1>6
    <3> HIDE DEF x, y, u
    <3> QED  BY <1>2, <1>6, <3>1
  <2> HIDE DEF x
  <2>2. c = [j \in 1..size |-> IF j <= size THEN file[x + j] ELSE 0]  BY <1>6 DEF ReadAt
  <2>3. \A j \in 1..size : x + j \in 1..Len(file) /\ j <= size  BY <1>2, <1>6, <2>1
  <2>4. \A j \in 1..size : file[x + j] \in Bytes  BY <1>4, <2>3
  <2> QED  BY <2>2, <2>3, <2>4
<1> HIDE DEF c
<1>8. /\ buffers' \in Seq([1..size -> Bytes]) /\ Len(buffers') = N + 1 /\ buffers' # <<>>
      /\ buffers'[N + 1] = c /\ \A n \in 1..N : buffers'[n] = buffers[n]
  BY <1>4, <1>5, <1>7
<1>9. \A n \in Int : remaining' + Len(buffers') - n = remaining + N - n
  BY <1>2, <1>4, <1>5, <1>8
<1>10. \A n \in Int : Base(n)' = Base(n)  BY <1>5, <1>9 DEF Base
<1>11. Left' = Left
  <2>1. remaining' + Len(buffers') - 1 = remaining + N - 1
    <3>1. 1 \in Int  OBVIOUS
    <3> QED  BY ONLY <1>9, <3>1
  <2> QED  BY <1>5, <2>1 DEF Left
<1>12. \A n : n = N + 1 => Base(n)' = x
  <2> SUFFICES ASSUME NEW n, n = N + 1 PROVE Base(n)' = x  OBVIOUS
  <2>1. remaining' + Len(buffers') - n = remaining'  BY <1>2, <1>4, <1>5, <1>8
  <2> QED  BY <1>5, <2>1 DEF Base
<1> HIDE DEF x
<1>13. remaining' \in Nat /\ size \in 0..size /\ b \in 1..(N+1)+1  BY <1>1, <1>2, <1>4, <1>5
<1>14. Typed'
  <2> HIDE DEF N
  <2>1. b \in 1..Len(buffers')+1  BY <1>8, <1>13
  <2> QED  BY <1>3, <1>4, <1>5, <1>8, <1>13, <2>1 DEF Typed
<1>15. Placed'
  <2>1. cursor' = remaining' * size' + lastRead'  BY <1>5, <1>6 DEF x
  <2> QED  BY <1>3, <1>5, <1>8, <1>11, <2>1 DEF Placed
<1>16. Held'
  <2> SUFFICES ASSUME NEW n \in 1..Len(buffers'), NEW j \in 1..Used(n)'
               PROVE  buffers'[n][j] = file'[Base(n)' + j]
    BY DEF Held
  <2>1. Used(n)' = Used(n)  BY <1>5 DEF Used
  <2>2. CASE n = N + 1
    <3>1. Used(n) = size  BY <1>2, <2>2 DEF Used
    <3>2. buffers'[n] = c /\ Base(n)' = x  BY <1>8, <1>12, <2>2
    <3> QED  BY <1>5, <1>7, <2>1, <3>1, <3>2
  <2>3. CASE n # N + 1
    <3>1. n \in 1..N /\ n \in Int  BY <1>2, <1>8, <2>3
    <3>2. buffers[n][j] = file[Base(n) + j]  BY <1>3, <2>1, <3>1 DEF Held
    <3> QED  BY <1>5, <1>8, <1>10, <3>1, <3>2
  <2> QED  BY <2>2, <2>3
<1>17. Seen'
  <2>1. b - 1 \in Int  BY <1>4
  <2>2. remaining' + Len(buffers') - (b' - 1) = remaining + N - (b - 1)  BY <1>5, <1>9, <2>1
  <2>3. Base(b - 1)' = Base(b - 1)  BY <1>5, <2>2 DEF Base
  <2> QED  BY <1>3, <1>5, <1>11, <2>3 DEF Seen
<1> QED  BY <1>1, <1>5, <1>11, <1>14, <1>15, <1>16, <1>17 DEF IInv

(* A 0 behind what precedes buffer b is in buffer b.                         *)
LEMMA Scan ==
  ASSUME IInv, pc = "read", b <= Len(buffers),
         NEW p \in Base(b)+1..Left-1, file[p] = 0
  PROVE  p - Base(b) \in Zeros(b)
<1>1. /\ size \in Nat /\ size > 0 /\ Left = Base(1) + pos /\ Left \in Nat
      /\ b \in 1..Len(buffers) /\ pos \in 0..size
      /\ Base(b) \in Nat /\ (b > 1 => Base(b - 1) = Base(b) + size)
  <2>1. b \in 1..Len(buffers) /\ pos \in 0..size
    <3>1. b \in 1..Len(buffers)+1 /\ Len(buffers) \in Nat /\ pos \in 0..size
      BY Places DEF IInv, Typed
    <3> QED  BY <3>1
  <2> QED  BY <2>1, Places
<1>2. Held /\ Seen  BY DEF IInv
<1> DEFINE j == p - Base(b)
<1>3. p \in Int /\ j \in Int /\ p = Base(b) + j /\ j >= 1 /\ p <= Left - 1  BY <1>1
<1>4. j \in 1..Scanned(b) /\ j \in 1..Used(b)
  <2>1. CASE b = 1
    <3>1. j <= pos - 1  BY <1>1, <1>3, <2>1
    <3>2. Scanned(b) = pos - 1 /\ Used(b) = pos
      <4>1. pos # 0  BY <1>1, <1>3, <3>1
      <4> QED  BY <2>1, <4>1 DEF Scanned, Used
    <3> QED  BY <1>1, <1>3, <3>1, <3>2
  <2>2. CASE b # 1
    <3>1. b > 1  BY <1>1, <2>2
    <3>2. ~(p \in Base(b-1)+1..Left-1)  BY <1>2, <3>1 DEF Seen
    <3>3. p <= Base(b) + size  BY <1>1, <1>3, <3>1, <3>2
    <3>4. Scanned(b) = size /\ Used(b) = size  BY <2>2, <3>1 DEF Scanned, Used
    <3> QED  BY <1>1, <1>3, <3>3, <3>4
  <2> QED  BY <2>1, <2>2
<1>5. buffers[b][j] = file[Base(b) + j]  BY <1>1, <1>2, <1>4 DEF Held
<1> QED  BY <1>3, <1>4, <1>5 DEF Zeros

LEMMA MissInv ==
  ASSUME IInv, Miss
  PROVE  IInv' /\ Left' = Left
<1>1. /\ pc = "read" /\ b <= Len(buffers) /\ Zeros(b) = {} /\ b' = b + 1
      /\ pc' = pc /\ cursor' = cursor /\ remaining' = remaining /\ pos' = pos
      /\ lastRead' = lastRead /\ buffers' = buffers /\ segs' = segs
      /\ kind' = kind /\ file' = file /\ size' = size
  BY DEF Miss, Reading
<1>2. Typed /\ Placed /\ Held /\ Seen  BY <1>1 DEF IInv
<1>3. b \in Int /\ b' \in 1..Len(buffers)+1 /\ b' - 1 = b
  <2>1. b \in 1..Len(buffers)+1 /\ Len(buffers) \in Nat  BY <1>1, <1>2, Places DEF Typed
  <2> QED  BY <1>1, <2>1
<1>4. Left' = Left /\ \A n : Base(n)' = Base(n)  BY <1>1 DEF Left, Base
<1>5. Seen'
  <2>1. \A p \in Base(b)+1..Left-1 : file[p] # 0  BY <1>1, Scan
  <2> QED  BY <1>1, <1>3, <1>4, <2>1 DEF Seen
<1>6. Typed'  BY <1>1, <1>2, <1>3 DEF Typed
<1>7. Placed'  BY <1>1, <1>2, <1>4 DEF Placed
<1>8. Held'  BY <1>1, <1>2, <1>4 DEF Held, Used
<1> QED  BY <1>1, <1>4, <1>5, <1>6, <1>7, <1>8 DEF IInv

LEMMA LongerSeq ==
  ASSUME NEW S, NEW s \in Seq(S), NEW x
  PROVE  Append(s, x) \in Seq(S \union {x})
<1>1. s \in Seq(S \union {x})
  <2>1. s \in [1..Len(s) -> S \union {x}] /\ Len(s) \in Nat  OBVIOUS
  <2> QED  BY <2>1
<1> QED  BY <1>1

LEMMA Parsed ==
  ASSUME IInv, pc = "read", Reading, pc' = pc,
         NEW n \in 1..Len(buffers), NEW i \in 0..Used(n), ParseSegmentFrom(n, i),
         i = 0 => Base(n) = 0, i > 0 => file[Base(n) + i] = 0
  PROVE  /\ IInv' /\ Left' = Base(n) + i /\ Base(n) + i \in Nat /\ Base(n) + i <= Left
         /\ segs' = Append(segs, Read(SubSeq(file, Base(n) + i + 1, Left)))
<1>1. /\ kind' = kind /\ file' = file /\ size' = size
      /\ segs' = Append(segs, Read(Chunks(n, i))) /\ pos' = i
      /\ buffers' = SubSeq(buffers, n, Len(buffers)) /\ b' = 1
      /\ cursor' = cursor /\ remaining' = remaining /\ lastRead' = lastRead
  BY DEF ParseSegmentFrom, Reading
<1>2. Typed /\ Placed /\ Held  BY DEF IInv
<1>3. /\ size \in Nat /\ Len(buffers) \in Nat
      /\ Base(n) \in Nat /\ Used(n) \in 0..size /\ Base(n) + Used(n) <= Left
      /\ Left \in Nat /\ Left <= Len(file) /\ Len(file) \in Nat
  BY Places
<1>4. remaining \in Nat /\ buffers \in Seq([1..size -> Bytes])  BY <1>2 DEF Typed
<1> DEFINE N == Len(buffers)
           M == N - n + 1
<1>5. M \in Nat /\ M >= 1 /\ n <= N /\ n \in Nat  BY <1>3
<1>6. /\ buffers' \in Seq([1..size -> Bytes]) /\ Len(buffers') = M
      /\ \A m \in 1..M : buffers'[m] = buffers[n + m - 1]
  <2>1. \A k \in n..N : buffers[k] \in [1..size -> Bytes]  BY <1>4, <1>5
  <2>2. n \in Int /\ N \in Int /\ n <= N  BY <1>3, <1>5
  <2> HIDE DEF N
  <2>3. /\ SubSeq(buffers, n, N) \in Seq([1..size -> Bytes])
        /\ Len(SubSeq(buffers, n, N)) = IF n <= N THEN N - n + 1 ELSE 0
        /\ \A k \in 1..N-n+1 : SubSeq(buffers, n, N)[k] = buffers[n+k-1]
    BY ONLY <2>1, <2>2, SubSeqProperties
  <2> QED  BY <1>1, <2>2, <2>3 DEF N
<1>7. \A m \in 1..M : Base(m)' = Base(n + m - 1) /\ n + m - 1 \in 1..N
  <2> TAKE m \in 1..M
  <2>1. /\ remaining + M - m = remaining + N - (n + m - 1) /\ n + m - 1 \in 1..N
    BY <1>3, <1>4, <1>5
  <2> HIDE DEF M, N
  <2> QED  BY <1>1, <1>6, <2>1 DEF Base, N
<1>8. Left' = Base(n) + i
  <2>1. remaining + M - 1 = remaining + N - n  BY <1>3, <1>4, <1>5
  <2> HIDE DEF M, N
  <2> QED  BY <1>1, <1>6, <2>1 DEF Left, Base, N
<1>9. Base(n) + i \in Nat /\ Base(n) + i <= Left /\ i \in 0..size  BY <1>3
<1>10. segs' = Append(segs, Read(SubSeq(file, Base(n) + i + 1, Left)))  BY <1>1, ChunksAreFile
<1>11. Typed'
  <2>1. \E S : segs' \in Seq(S)
    <3>1. PICK S : segs \in Seq(S)  BY <1>2 DEF Typed
    <3> QED  BY <1>1, <3>1, LongerSeq
  <2>2. 1 \in 1..Len(buffers')+1  BY <1>5, <1>6
  <2> HIDE DEF M
  <2> QED  BY <1>1, <1>2, <1>4, <1>6, <1>9, <2>1, <2>2 DEF Typed
<1>12. Placed'
  <2>1. buffers' # <<>>
    <3>1. Len(buffers') # 0  BY <1>5, <1>6
    <3> QED  BY <3>1
  <2>2. Left' <= Len(file)  BY <1>3, <1>8, <1>9
  <2>3. i = 0 => Left' = 0  BY <1>8, <1>9
  <2>4. Left' > 0 => file[Left'] = 0
    <3>1. CASE i = 0  BY <2>3, <3>1
    <3>2. CASE i > 0  BY <1>8, <3>2
    <3> QED  BY <3>1, <3>2
  <2> QED  BY <1>1, <1>2, <2>1, <2>2, <2>3, <2>4 DEF Placed
<1>13. Held'
  <2> SUFFICES ASSUME NEW m \in 1..M, NEW j \in 1..Used(m)'
               PROVE  buffers'[m][j] = file'[Base(m)' + j]
    BY <1>6 DEF Held
  <2>1. j \in 1..Used(n + m - 1)
    <3>1. CASE m = 1
      <4>1. Used(m)' = i /\ n + m - 1 = n  BY <1>1, <1>5, <3>1 DEF Used
      <4> QED  BY <1>3, <4>1
    <3>2. CASE m # 1
      <4>1. Used(m)' = size /\ n + m - 1 # 1  BY <1>1, <1>5, <3>2 DEF Used
      <4>2. Used(n + m - 1) = size  BY <4>1 DEF Used
      <4> QED  BY <4>1, <4>2
    <3> QED  BY <3>1, <3>2
  <2>2. buffers[n + m - 1][j] = file[Base(n + m - 1) + j]  BY <1>2, <1>7, <2>1 DEF Held
  <2> QED  BY <1>1, <1>6, <1>7, <2>2
<1>14. Seen'  BY <1>1 DEF Seen
<1> QED  BY <1>8, <1>9, <1>10, <1>11, <1>12, <1>13, <1>14 DEF IInv

LEMMA HitParses ==
  ASSUME IInv, Hit
  PROVE  \E e \in 0..Left-1 :
           /\ IInv' /\ Left' = e /\ file[e] = 0 /\ e > 0
           /\ \A p \in e+1..Left-1 : file[p] # 0
           /\ segs' = Append(segs, Read(SubSeq(file, e + 1, Left)))
<1>1. pc = "read" /\ Reading /\ b <= Len(buffers) /\ pc' = pc  BY DEF Hit, Reading
<1>2. PICK i \in Zeros(b) : (\A j \in Zeros(b) : j <= i) /\ ParseSegmentFrom(b, i)  BY DEF Hit
<1>3. /\ b \in 1..Len(buffers) /\ size \in Nat /\ Left \in Nat /\ pos \in 0..size
      /\ Base(b) \in Nat /\ Used(b) \in 0..size /\ Base(b) + Used(b) <= Left
      /\ Left = Base(1) + pos
  <2>1. b \in 1..Len(buffers) /\ pos \in 0..size
    <3>1. b \in 1..Len(buffers)+1 /\ Len(buffers) \in Nat /\ pos \in 0..size
      BY <1>1, Places DEF IInv, Typed
    <3> QED  BY <1>1, <3>1
  <2> QED  BY <1>1, <2>1, Places
<1>4. i \in Int /\ i >= 1 /\ i <= Used(b) /\ (b = 1 => i <= pos - 1) /\ buffers[b][i] = 0
  <2>1. i \in 1..Scanned(b) /\ buffers[b][i] = 0  BY <1>2 DEF Zeros
  <2>2. CASE b = 1
    <3>1. Scanned(b) = IF pos = 0 THEN 0 ELSE pos - 1  BY <2>2 DEF Scanned
    <3>2. Used(b) = pos  BY <2>2 DEF Used
    <3> QED  BY <1>3, <2>1, <2>2, <3>1, <3>2
  <2>3. CASE b # 1
    <3>1. Scanned(b) = size /\ Used(b) = size  BY <1>3, <2>3 DEF Scanned, Used
    <3> QED  BY <1>3, <2>1, <2>3, <3>1
  <2> QED  BY <2>2, <2>3
<1> DEFINE e == Base(b) + i
<1>5. i \in 0..Used(b) /\ i \in 1..Used(b)  BY <1>3, <1>4
<1>6. file[e] = 0
  <2>1. Held  BY <1>1 DEF IInv
  <2>2. buffers[b][i] = file[Base(b) + i]  BY <1>3, <1>5, <2>1 DEF Held
  <2> QED  BY <1>4, <2>2
<1>7. i > 0 /\ i # 0  BY <1>4
<1>8. /\ IInv' /\ Left' = e /\ e \in Nat /\ e <= Left
      /\ segs' = Append(segs, Read(SubSeq(file, e + 1, Left)))
  <2> DEFINE n == b
  <2>1. n \in 1..Len(buffers) /\ i \in 0..Used(n) /\ ParseSegmentFrom(n, i)
    BY <1>2, <1>3, <1>5
  <2>2. (i = 0 => Base(n) = 0) /\ (i > 0 => file[Base(n) + i] = 0)  BY <1>6, <1>7
  <2> QED  BY <1>1, <2>1, <2>2, Parsed
<1>9. e > 0 /\ e <= Left - 1
  <2>1. CASE b = 1
    <3>1. Left = Base(b) + pos /\ i <= pos - 1  BY <1>3, <1>4, <2>1
    <3> QED  BY <1>3, <1>4, <3>1
  <2>2. CASE b # 1
    <3>1. b > 1 /\ b - 1 \in 1..Len(buffers)  BY <1>3, <2>2
    <3>2. Base(b-1) = Base(b) + size /\ Base(b-1) \in Nat  BY <1>1, <1>3, <3>1, Places
    <3>3. Base(b-1) <= Base(1) /\ Base(1) \in Nat  BY <1>1, <1>3, <3>1, Places
    <3>4. pos # 0
      <4>1. pos = 0 => Left = 0  BY <1>1 DEF IInv, Placed
      <4> QED  BY <1>3, <1>4, <4>1
    <3>5. Used(b) = size  BY <2>2 DEF Used
    <3> QED  BY <1>3, <1>4, <3>2, <3>3, <3>4, <3>5
  <2> QED  BY <2>1, <2>2
<1>10. \A p \in e+1..Left-1 : file[p] # 0
  <2> SUFFICES ASSUME NEW p \in e+1..Left-1, file[p] = 0 PROVE FALSE  OBVIOUS
  <2>1. p \in Base(b)+1..Left-1 /\ p - Base(b) > i /\ p - Base(b) \in Int  BY <1>3, <1>4
  <2>2. p - Base(b) \in Zeros(b)  BY <1>1, <2>1, Scan
  <2>3. p - Base(b) <= i  BY <1>2, <2>2
  <2> QED  BY <1>4, <2>1, <2>3
<1>11. e \in 0..Left-1  BY <1>3, <1>8, <1>9
<1> HIDE DEF e
<1> QED  BY <1>6, <1>8, <1>9, <1>10, <1>11

(* The start of the file: the last segment, or none.                        *)
LEMMA FileStartParses ==
  ASSUME IInv, FileStart
  PROVE  \/ /\ IInv' /\ Left = 0 /\ pc' = "steps" /\ Left' = Left /\ segs' = segs
         \/ /\ IInv' /\ Left' = 0 /\ pc' = pc /\ Left > 0
            /\ \A p \in 1..Left-1 : file[p] # 0
            /\ segs' = Append(segs, Read(SubSeq(file, 1, Left)))
<1>1. pc = "read" /\ Reading /\ b > Len(buffers) /\ remaining = 0  BY DEF FileStart, Reading
<1>2. /\ b \in Nat /\ b = Len(buffers) + 1 /\ Len(buffers) \in Nat /\ Len(buffers) > 0
      /\ size \in Nat /\ size > 0 /\ pos \in 0..size /\ Left \in Nat /\ Left = Base(1) + pos
      /\ Base(Len(buffers)) = 0 /\ Used(Len(buffers)) \in 0..size /\ Base(1) \in Nat
  <2>1. b \in 1..Len(buffers)+1 /\ pos \in 0..size  BY <1>1 DEF IInv, Typed
  <2>2. /\ Len(buffers) \in Nat /\ Len(buffers) > 0 /\ size \in Nat /\ size > 0
        /\ Left \in Nat /\ Left = Base(1) + pos /\ Base(Len(buffers)) = remaining * size
    BY <1>1, Places
  <2>3. 0 * size = 0  BY <2>2
  <2>4. Used(Len(buffers)) \in 0..size /\ Base(1) \in Nat  BY <1>1, <2>2, Places
  <2> QED  BY <1>1, <2>1, <2>2, <2>3, <2>4
<1>3. CASE b = 2 /\ pos = 0
  <2>1. /\ pc' = "steps" /\ remaining' = remaining /\ buffers' = buffers /\ size' = size
        /\ pos' = pos /\ segs' = segs /\ b' = b /\ lastRead' = lastRead /\ file' = file
        /\ kind' = kind
    BY <1>3 DEF FileStart, Reading, reader
  <2>2. Left = 0  BY <1>1, <1>3 DEF IInv, Placed
  <2>3. Left' = Left  BY <2>1 DEF Left
  <2>4. Typed'  BY <2>1 DEF IInv, Typed
  <2> QED  BY <2>1, <2>2, <2>3, <2>4 DEF IInv
<1>4. CASE ~(b = 2 /\ pos = 0)
  <2> DEFINE n == b - 1
  <2>1. ParseSegmentFrom(n, 0) /\ pc' = pc  BY <1>4 DEF FileStart
  <2>2. n = Len(buffers) /\ n \in 1..Len(buffers) /\ 0 \in 0..Used(n)
    <3>1. n = Len(buffers)  BY <1>2
    <3>2. 0 \in 0..Used(n)  BY <1>2, <3>1
    <3> QED  BY <1>2, <3>1, <3>2
  <2>3. Base(n) = 0 /\ Base(n) + 0 = 0 /\ Base(n) + 0 + 1 = 1 /\ ~(0 > 0)  BY <1>2, <2>2
  <2>4. /\ IInv' /\ Left' = Base(n) + 0
        /\ segs' = Append(segs, Read(SubSeq(file, Base(n) + 0 + 1, Left)))
    <3> HIDE DEF n
    <3>1. 0 = 0 => Base(n) = 0  BY <2>3
    <3>2. 0 > 0 => file[Base(n) + 0] = 0  BY <2>3
    <3> QED  BY ONLY IInv, <1>1, <2>1, <2>2, <3>1, <3>2, Parsed
  <2>5. \A p \in 1..Left-1 : file[p] # 0
    <3>1. Seen /\ b > 1 /\ Base(b - 1) = 0 /\ 0 + 1 = 1  BY <1>1, <1>2, <2>3 DEF IInv
    <3> QED  BY <3>1 DEF Seen
  <2>6. Left > 0
    <3>1. CASE pos # 0  BY <1>2, <3>1
    <3>2. CASE pos = 0
      <4>1. 2 \in 1..Len(buffers) /\ 1 = 2 - 1 /\ 2 > 1  BY <1>2, <1>4, <3>2
      <4>2. Base(2 - 1) = Base(2) + size /\ Base(2) \in Nat  BY <1>1, <4>1, Places
      <4> QED  BY <1>2, <4>1, <4>2
    <3> QED  BY <3>1, <3>2
  <2> QED  BY <2>1, <2>3, <2>4, <2>5, <2>6
<1> QED  BY <1>3, <1>4

LEMMA ShapesTaken ==
  ASSUME NEW S, segs \in Seq(S), NEW h \in Matching(Shapes, segs)
  PROVE  Len(h) \in 1..Len(segs)
<1>1. h \in ElabShapes \union StepShapes /\ IsPrefix(h, Tags(segs))  BY DEF Matching, Shapes
<1>2. Len(h) \in 1..4
  <2>1. \A x \in Common : Len(x) \in 1..4  BY SMT DEF Common
  <2>2. \A x \in StepShapes \ Common : Len(x) \in 1..4  BY SMT DEF StepShapes
  <2>3. \A x \in ElabShapes \ Common : Len(x) \in 1..4  BY SMT DEF ElabShapes
  <2> QED  BY <1>1, <2>1, <2>2, <2>3
<1>3. Len(Tags(segs)) = Len(segs) /\ Len(segs) \in Nat  BY DEF Tags
<1>4. Len(h) <= Len(Tags(segs))  BY <1>1 DEF IsPrefix
<1> QED  BY <1>2, <1>3, <1>4

LEMMA TakeStepInv ==
  ASSUME IInv, TakeStep
  PROVE  /\ IInv' /\ Left' = Left /\ Left = 0 /\ pc = "steps" /\ pc' \in {"steps", "panic"}
         /\ \E n \in 1..Len(segs) : segs' = SubSeq(segs, n + 1, Len(segs))
<1>1. /\ pc = "steps" /\ pc' \in {"steps", "panic"} /\ kind' = kind /\ file' = file /\ size' = size
      /\ remaining' = remaining /\ pos' = pos /\ lastRead' = lastRead /\ buffers' = buffers /\ b' = b
  BY DEF TakeStep
<1>2. PICK h \in Matching(Shapes, segs) : segs' = SubSeq(segs, Len(h) + 1, Len(segs))
  BY DEF TakeStep
<1>3. PICK S : segs \in Seq(S)  BY DEF IInv, Typed
<1>4. Len(h) \in 1..Len(segs) /\ Len(segs) \in Nat  BY <1>3, ShapesTaken
<1>5. segs' \in Seq(S)
  <2> DEFINE lo == Len(h) + 1
             hi == Len(segs)
  <2>1. lo \in Int /\ hi \in Int /\ \A k \in lo..hi : segs[k] \in S  BY <1>3, <1>4
  <2> HIDE DEF lo, hi
  <2>2. SubSeq(segs, lo, hi) \in Seq(S)  BY ONLY <2>1, SubSeqProperties
  <2> QED  BY <1>2, <2>2 DEF lo, hi
<1>6. Left' = Left /\ Left = 0  BY <1>1 DEF Left, IInv
<1>7. Typed'  BY <1>1, <1>5 DEF IInv, Typed
<1> QED  BY <1>1, <1>2, <1>4, <1>6, <1>7 DEF IInv

LEMMA NoChange ==
  ASSUME IInv, NoStep \/ End \/ UNCHANGED vars
  PROVE  /\ IInv' /\ Left' = Left /\ segs' = segs /\ file' = file
         /\ pc' = pc \/ (pc = "steps" /\ pc' \in {"panic", "done"} /\ Left = 0)
<1>1. /\ kind' = kind /\ file' = file /\ size' = size /\ cursor' = cursor /\ segs' = segs
      /\ remaining' = remaining /\ pos' = pos /\ lastRead' = lastRead /\ buffers' = buffers /\ b' = b
  BY DEF NoStep, End, vars, reader
<1>2. pc' = pc \/ (pc = "steps" /\ pc' \in {"panic", "done"})  BY DEF NoStep, End, vars
<1>3. Left' = Left /\ \A n : Base(n)' = Base(n)  BY <1>1 DEF Left, Base
<1>4. Typed'  BY <1>1, <1>2 DEF IInv, Typed
<1>5. pc' = "read" => Placed' /\ Held' /\ Seen'
  <2> SUFFICES ASSUME pc' = "read" PROVE Placed' /\ Held' /\ Seen'  OBVIOUS
  <2>1. pc = "read" /\ Placed /\ Held /\ Seen  BY <1>2 DEF IInv
  <2>2. Placed'  BY <1>1, <1>3, <2>1 DEF Placed
  <2>3. Held'  BY <1>1, <1>3, <2>1 DEF Held, Used
  <2>4. Seen'  BY <1>1, <1>3, <2>1 DEF Seen, Base
  <2> QED  BY <2>2, <2>3, <2>4
<1> QED  BY <1>1, <1>2, <1>3, <1>4, <1>5 DEF IInv

LEMMA NextInv ==
  ASSUME IInv, [Next]_vars PROVE IInv'
<1>1. CASE \E s \in IF kind = "elab" THEN ElabSteps ELSE FratSteps : Write(s)
  BY <1>1, WriteInv
<1>2. CASE Open  BY <1>2, OpenInv
<1>3. CASE ReadChunk  BY <1>3, ReadChunkInv
<1>4. CASE Hit  BY <1>4, HitParses
<1>5. CASE Miss  BY <1>5, MissInv
<1>6. CASE FileStart  BY <1>6, FileStartParses
<1>7. CASE TakeStep  BY <1>7, TakeStepInv
<1>8. CASE NoStep \/ End \/ UNCHANGED vars  BY <1>8, NoChange
<1> QED  BY <1>1, <1>2, <1>3, <1>4, <1>5, <1>6, <1>7, <1>8 DEF Next, Reader

-----------------------------------------------------------------------------
(* The refinement.                                                         *)

(* A stretch of the bytes not read is one of the file.                      *)
LEMMA UnreadIs ==
  ASSUME NEW f \in Seq(Bytes), NEW m \in 0..Len(f)
  PROVE  LET d == SubSeq(f, 1, m) IN
         /\ d \in Seq(Bytes) /\ Len(d) = m /\ \A j \in 1..m : d[j] = f[j]
         /\ \A e \in 0..m : SubSeq(d, e + 1, m) = SubSeq(f, e + 1, m)
                            /\ SubSeq(d, 1, e) = SubSeq(f, 1, e)
<1> DEFINE d == SubSeq(f, 1, m)
<1>1. Len(f) \in Nat /\ m \in Nat /\ m <= Len(f)  OBVIOUS
<1>2. d \in Seq(Bytes) /\ Len(d) = m /\ \A j \in 1..m : d[j] = f[j]
  <2>1. 1 \in Int /\ m \in Int /\ \A j \in 1..m : f[j] \in Bytes  BY <1>1
  <2>2. /\ SubSeq(f, 1, m) \in Seq(Bytes) /\ Len(SubSeq(f, 1, m)) = IF 1 <= m THEN m - 1 + 1 ELSE 0
        /\ \A j \in 1..m-1+1 : SubSeq(f, 1, m)[j] = f[1+j-1]
    BY ONLY <2>1, SubSeqProperties
  <2> HIDE DEF d
  <2>3. (IF 1 <= m THEN m - 1 + 1 ELSE 0) = m /\ m - 1 + 1 = m /\ \A j \in 1..m : 1+j-1 = j
    BY <1>1
  <2> QED  BY <2>2, <2>3 DEF d
<1> HIDE DEF d
<1>3. ASSUME NEW e \in 0..m
      PROVE  SubSeq(d, e + 1, m) = SubSeq(f, e + 1, m) /\ SubSeq(d, 1, e) = SubSeq(f, 1, e)
  <2>1. \A j \in 1..m : d[j] = f[0 + j]
    <3> TAKE j \in 1..m
    <3>1. 0 + j = j  OBVIOUS
    <3> QED  BY <1>2, <3>1
  <2>2. \A j \in 1..e : d[j] = f[0 + j]
    <3> TAKE j \in 1..e
    <3>1. 0 + j = j /\ j \in 1..m  BY <1>1
    <3> QED  BY <1>2, <3>1
  <2>3. /\ 0 \in Nat /\ 0 + m <= Len(f) /\ m <= Len(d) /\ 0 + e <= Len(f) /\ e <= Len(d)
        /\ e \in Nat /\ 0 \in 0..e
    BY <1>1, <1>2
  <2>4. SubSeq(d, e + 1, m) = SubSeq(f, 0 + e + 1, 0 + m)
    BY ONLY f \in Seq(Bytes), <1>1, <1>2, <1>3, <2>1, <2>3, Slice
  <2>5. SubSeq(d, 0 + 1, e) = SubSeq(f, 0 + 0 + 1, 0 + e)
    BY ONLY f \in Seq(Bytes), <1>1, <1>2, <1>3, <2>2, <2>3, Slice
  <2>6. 0 + e + 1 = e + 1 /\ 0 + m = m /\ 0 + 1 = 1 /\ 0 + 0 + 1 = 1 /\ 0 + e = e  BY <1>1
  <2> QED  BY <2>4, <2>5, <2>6
<1> QED  BY <1>2, <1>3 DEF d

(* The last segment of what is not read.                                    *)
LEMMA Segmented ==
  ASSUME IInv, pc = "read", pc' = "read", file' = file, NEW e \in 0..Left-1, Left' = e,
         e > 0 => file[e] = 0, \A p \in e+1..Left-1 : file[p] # 0,
         segs' = Append(segs, Read(SubSeq(file, e + 1, Left)))
  PROVE  V!NextSegment
<1>1. /\ Left \in Nat /\ Left <= Len(file) /\ Len(file) \in Nat /\ file \in Seq(Bytes)
      /\ file[Left] = 0 /\ e \in 0..Left /\ e \in Nat
  <2>1. Left \in Nat /\ Left <= Len(file) /\ Len(file) \in Nat  BY Places
  <2>2. Left > 0 /\ e \in 0..Left /\ e \in Nat  BY <2>1
  <2>3. file \in Seq(Bytes) /\ file[Left] = 0  BY <2>2 DEF IInv, Typed, Placed
  <2> QED  BY <2>1, <2>2, <2>3
<1> DEFINE d == SubSeq(file, 1, Left)
<1>2. Unread = d /\ Unread' = SubSeq(file, 1, e)  BY DEF Unread
<1>3. /\ Len(d) = Left /\ \A j \in 1..Left : d[j] = file[j]
      /\ SubSeq(d, e + 1, Left) = SubSeq(file, e + 1, Left) /\ SubSeq(d, 1, e) = SubSeq(file, 1, e)
  <2>1. Left \in 0..Len(file)  BY <1>1
  <2> QED  BY <1>1, <2>1, UnreadIs
<1> HIDE DEF d
<1>4. d # <<>> /\ d[Len(d)] = 0
  <2>1. Left \in 1..Left  BY <1>1
  <2>2. Len(d) # 0  BY <1>1, <1>3
  <2> QED  BY <1>1, <1>3, <2>1, <2>2
<1> DEFINE zeros == {j \in 1..Len(d)-1 : d[j] = 0}
<1>5. e \in zeros \union {0}
  <2>1. CASE e = 0  BY <2>1
  <2>2. CASE e # 0
    <3>1. e \in 1..Left-1 /\ e \in 1..Left /\ e > 0  BY <1>1, <2>2
    <3> QED  BY <1>3, <3>1
  <2> QED  BY <2>1, <2>2
<1>6. \A j \in zeros : j <= e
  <2> SUFFICES ASSUME NEW j \in zeros, ~(j <= e) PROVE FALSE  OBVIOUS
  <2>1. j \in 1..Left-1 /\ d[j] = 0  BY <1>3
  <2>2. j \in 1..Left /\ j \in e+1..Left-1  BY <1>1, <2>1
  <2> QED  BY <1>3, <2>1, <2>2
<1>7. Unread' = SubSeq(d, 1, e) /\ segs' = Append(segs, Read(SubSeq(d, e + 1, Len(d))))
  BY <1>2, <1>3
<1>8. (IF pc \in {"write", "read"} THEN pc ELSE "steps") = "read"  OBVIOUS
<1>9. (IF pc' \in {"write", "read"} THEN pc' ELSE "steps") = "read"  OBVIOUS
<1>10. /\ Unread # <<>> /\ Unread[Len(Unread)] = 0
       /\ zeros = {j \in 1..Len(Unread)-1 : Unread[j] = 0}
       /\ segs' = Append(segs, Read(SubSeq(Unread, e + 1, Len(Unread))))
       /\ Unread' = SubSeq(Unread, 1, e)
  BY <1>2, <1>4, <1>7
<1> HIDE DEF zeros
<1> QED  BY ONLY <1>5, <1>6, <1>8, <1>9, <1>10 DEF V!NextSegment

LEMMA RefinesInit == Init => V!Init
<1> SUFFICES ASSUME Init PROVE V!Init  OBVIOUS
<1>1. pc = "write" /\ file = <<>> /\ segs = <<>>  BY DEF Init
<1> QED  BY <1>1 DEF V!Init, Unread

LEMMA RefinesNext ==
  ASSUME IInv, IInv', [Next]_vars PROVE [V!Next]_V!vars
<1>1. CASE \E s \in IF kind = "elab" THEN ElabSteps ELSE FratSteps : Write(s)
  <2>1. PICK s : s \in (IF kind = "elab" THEN ElabSteps ELSE FratSteps) /\ Write(s)  BY <1>1
  <2>2. PICK bytes : /\ file' = file \o bytes
                     /\ bytes \in {ElabBytes(x) : x \in ElabSteps} \union {StepBytes(x) : x \in FratSteps}
    BY <2>1, WriteBytes
  <2>3. pc = "write" /\ pc' = "write" /\ segs' = segs  BY <2>1 DEF Write, reader
  <2>4. Unread = file /\ Unread' = file'  BY <2>3 DEF Unread
  <2>5. V!Write  BY <2>2, <2>3, <2>4 DEF V!Write
  <2> QED  BY <2>5 DEF V!Next
<1>2. CASE Open
  <2>1. pc = "write" /\ pc' = "read" /\ segs' = segs /\ file' = file  BY <1>2 DEF Open
  <2>2. Left' = Len(file) /\ file \in Seq(Bytes)  BY <1>2, OpenInv DEF IInv, Typed
  <2>3. Unread' = SubSeq(file, 1, Len(file)) /\ Unread = file  BY <2>1, <2>2 DEF Unread
  <2>4. Unread' = Unread  BY <2>2, <2>3, SubSeqFull
  <2>5. V!Open  BY <2>1, <2>4 DEF V!Open
  <2> QED  BY <2>5 DEF V!Next
<1>3. CASE ReadChunk \/ Miss
  <2>1. pc = "read" /\ pc' = pc /\ segs' = segs /\ file' = file
    BY <1>3 DEF ReadChunk, Miss, Reading
  <2>2. Left' = Left  BY <1>3, ReadChunkInv, MissInv
  <2>3. Unread' = Unread  BY <2>1, <2>2 DEF Unread
  <2> QED  BY <2>1, <2>3 DEF V!vars
<1>4. CASE Hit
  <2>1. pc = "read" /\ pc' = "read" /\ file' = file  BY <1>4 DEF Hit, Reading
  <2>2. V!NextSegment  BY <1>4, <2>1, HitParses, Segmented
  <2> QED  BY <2>2 DEF V!Next
<1>5. CASE FileStart
  <2>1. pc = "read" /\ file' = file  BY <1>5 DEF FileStart, Reading
  <2>2. CASE Left = 0 /\ pc' = "steps" /\ Left' = Left /\ segs' = segs
    <3>1. Unread = SubSeq(file, 1, 0) /\ Unread' = SubSeq(file, 1, 0)  BY <2>1, <2>2 DEF Unread
    <3>2. SubSeq(file, 1, 0) = <<>>
      <4>1. 1 \in Int /\ 0 \in Int /\ 0 < 1  OBVIOUS
      <4> QED  BY ONLY <4>1, SubSeqEmpty
    <3>3. V!NoSegment  BY <2>1, <2>2, <3>1, <3>2 DEF V!NoSegment
    <3> QED  BY <3>3 DEF V!Next
  <2>3. CASE /\ Left' = 0 /\ pc' = pc /\ Left > 0
             /\ \A p \in 1..Left-1 : file[p] # 0
             /\ segs' = Append(segs, Read(SubSeq(file, 1, Left)))
    <3>1. 0 \in 0..Left-1 /\ 0 + 1 = 1 /\ ~(0 > 0)
      <4>1. Left \in Nat  BY <2>1, Places
      <4> QED  BY <2>3, <4>1
    <3>2. V!NextSegment
      <4>1. \A p \in 0+1..Left-1 : file[p] # 0  BY <2>3, <3>1
      <4>2. segs' = Append(segs, Read(SubSeq(file, 0 + 1, Left)))  BY <2>3, <3>1
      <4>3. 0 > 0 => file[0] = 0  BY <3>1
      <4>4. pc = "read" /\ pc' = "read" /\ file' = file /\ Left' = 0  BY <2>1, <2>3
      <4> QED  BY ONLY IInv, <3>1, <4>1, <4>2, <4>3, <4>4, Segmented
    <3> QED  BY <3>2 DEF V!Next
  <2> QED  BY <1>5, <2>2, <2>3, FileStartParses
<1>6. CASE TakeStep
  <2>1. /\ Left' = Left /\ Left = 0 /\ pc = "steps" /\ pc' \in {"steps", "panic"} /\ file' = file
        /\ \E n \in 1..Len(segs) : segs' = SubSeq(segs, n + 1, Len(segs))
    <3>1. file' = file  BY <1>6 DEF TakeStep
    <3> QED  BY <1>6, <3>1, TakeStepInv
  <2>2. Unread' = Unread  BY <2>1 DEF Unread
  <2>3. pc \notin {"write", "read"} /\ pc' \notin {"write", "read"}  BY <2>1
  <2>4. V!Take  BY <2>1, <2>2, <2>3 DEF V!Take
  <2> QED  BY <2>4 DEF V!Next
<1>7. CASE NoStep \/ End \/ UNCHANGED vars
  <2>1. /\ Left' = Left /\ segs' = segs /\ file' = file
        /\ pc' = pc \/ (pc = "steps" /\ pc' \in {"panic", "done"})
    BY <1>7, NoChange
  <2>2. Unread' = Unread  BY <2>1 DEF Unread
  <2> QED  BY <2>1, <2>2 DEF V!vars
<1> QED  BY <1>1, <1>2, <1>3, <1>4, <1>5, <1>6, <1>7 DEF Next, Reader

-----------------------------------------------------------------------------
(* The theorems.                                                           *)

THEOREM ReaderInv == Spec => []IInv
<1>1. Init => IInv  BY InitInv
<1>2. IInv /\ [Next]_vars => IInv'  BY NextInv
<1> QED  BY <1>1, <1>2, PTL DEF Spec

LEMMA InvTyped == IInv => TypeOK
<1> SUFFICES ASSUME IInv PROVE TypeOK  OBVIOUS
<1>1. /\ pc \in {"write", "read", "steps", "done", "panic"} /\ file \in Seq(Bytes)
      /\ pos \in 0..size /\ b \in 1..Len(buffers)+1
  BY DEF IInv, Typed
<1>2. \A j \in DOMAIN file : file[j] \in 0..255
  <2>1. \A j \in DOMAIN file : file[j] \in Bytes
    <3> TAKE j \in DOMAIN file
    <3>1. file \in Seq(Bytes) /\ DOMAIN file = 1..Len(file)  BY <1>1
    <3> QED  BY <3>1
  <2> QED  BY <2>1 DEF Bytes
<1>3. pc = "read" => /\ cursor = remaining * size + lastRead
                     /\ remaining * size + (Len(buffers) - 1) * size + pos <= Len(file)
  <2> SUFFICES ASSUME pc = "read"
               PROVE  remaining * size + (Len(buffers) - 1) * size + pos <= Len(file)
    BY DEF IInv, Placed
  <2> DEFINE y == Len(buffers) - 1
  <2>1. remaining \in Nat /\ y \in Nat /\ size \in Nat /\ remaining + Len(buffers) - 1 = remaining + y
    BY Places DEF IInv, Typed
  <2>2. Left = (remaining + y) * size + pos /\ Left <= Len(file)
    BY <2>1, Places DEF Left
  <2> HIDE DEF y
  <2>3. \A r, u, z \in Nat : (r + u) * z = r * z + u * z  OBVIOUS
  <2>4. (remaining + y) * size = remaining * size + y * size  BY <2>1, <2>3
  <2>5. remaining * size + y * size + pos <= Len(file)  BY <2>2, <2>4
  <2> QED  BY <2>5 DEF y
<1> QED  BY <1>1, <1>2, <1>3 DEF TypeOK

(* The read position and the chunks held are consistent with the file, and   *)
(* never before its start.                                                 *)
THEOREM TypeCorrect == Spec => []TypeOK
  BY ReaderInv, InvTyped, PTL

(* BackParser implements VecBackParser: whatever the size of a buffer, and   *)
(* wherever a chunk ends, each segment that is read is the stretch of the    *)
(* file behind the last 0 but for its own.                                 *)
THEOREM ReadsLikeVec == Spec => ReadsAsVec
<1>1. Init => V!Init  BY RefinesInit
<1>2. IInv /\ IInv' /\ [Next]_vars => [V!Next]_V!vars  BY RefinesNext
<1> QED  BY <1>1, <1>2, ReaderInv, PTL DEF Spec, V!Spec, ReadsAsVec
=============================================================================
