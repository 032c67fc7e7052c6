---------------------------- MODULE RatStepProofs ----------------------------
(***************************************************************************)
(* Proofs about RatStep, for every instance: the hint that is written for an  *)
(* add step is accepted by a checker that reads it once.                     *)
(*                                                                         *)
(* The engine is called for a clause that it is not told of: the lemma is     *)
(* assumed false, and then the literals of each resolvent.  Its invariant     *)
(* (IInv of UnitPropProofs) is about one goal.  The invariant here, LInv,   *)
(* says that the engine, seen through the mapping EPc, EStage, EGoal, ERest,    *)
(* is at work on the lemma and the resolvent together -- or, between two       *)
(* resolvents, waits with the lemma assumed -- and keeps the invariant it has; *)
(* Holding adds what was written so far: the steps of the shared part make a    *)
(* checker hold the marked literals of it, and with these the hints of each    *)
(* resolvent refute it.                                                    *)
(***************************************************************************)
EXTENDS RatStep, UnitPropProofs

-----------------------------------------------------------------------------
(* What the engine leaves alone.                                            *)

(* Literals are only moved about within their clauses, and the trail grows.   *)
Permuted == names' = names /\ \A i \in Ids : Range(clauses'[i]) = Range(clauses[i])
Longer ==
  /\ Len(truStack') \in Nat /\ Len(truStack) <= Len(truStack')
  /\ \A k \in 1..Len(truStack) :
       truStack'[k] = truStack[k] /\ reasons'[truStack[k]] = reasons[truStack[k]]

LEMMA LongerBy ==
  ASSUME TypedTrail, NEW l \in Lits, NEW r \in Ids \union {None}, Assign(l, r)
  PROVE  Longer
<1>1. /\ truStack' \in Seq(Lits)
      /\ \A k \in 1..Len(truStack) :
           truStack'[k] = truStack[k] /\ reasons'[truStack[k]] = reasons[truStack[k]]
      /\ IsTrue(l) => truStack' = truStack
      /\ ~IsTrue(l) => Len(truStack') = Len(truStack) + 1
  BY Assigned
<1>2. Len(truStack) \in Nat /\ Len(truStack') \in Nat  BY <1>1 DEF TypedTrail
<1> QED  BY <1>1, <1>2 DEF Longer

LEMMA SameLonger ==
  ASSUME TypedTrail, UNCHANGED <<truStack, reasons>> PROVE Longer
  BY DEF TypedTrail, Longer

LEMMA Reordered ==
  ASSUME TypedContext, NEW i \in Ids, NEW t, Range(t) = Range(clauses[i]),
         names' = names, clauses' = [clauses EXCEPT ![i] = t]
  PROVE  Permuted
  BY DEF TypedContext, Permuted

LEMMA UseHintLeaves ==
  ASSUME TypedContext, TypedTrail, hints \in Seq(names), UseHint
  PROVE  Permuted /\ Longer /\ UNCHANGED <<firstHyp, firstUnprocessed, unitsProcessed>>
<1> DEFINE i == Head(hints)
           c == clauses[i]
<1>1. TypedContext /\ TypedTrail  OBVIOUS
<1>2. /\ i \in Ids /\ c \in Seq(Literals) /\ IsInjective(c)
      /\ Len(truStack) \in Nat
  <2>1. hints # <<>>  BY DEF UseHint
  <2>2. i \in names  BY <2>1
  <2> QED  BY <1>1, <2>2 DEF TypedContext, TypedTrail
<1>3. CASE UNCHANGED <<context, va>>
  BY <1>1, <1>3, SameLonger DEF context, va, Permuted
<1>4. ASSUME NEW n \in HintLit(c), clauses' = [clauses EXCEPT ![i] = Swap(c, 1, n)],
             Assign(c[n], i), UNCHANGED <<names, firstHyp, firstUnprocessed, unitsProcessed>>
      PROVE  Permuted /\ Longer
  <2>1. n \in 1..Len(c) /\ 1 \in 1..Len(c)  BY <1>2 DEF HintLit
  <2>2. c[n] \in Lits  BY <1>2, <2>1 DEF Literals
  <2>3. Range(Swap(c, 1, n)) = Range(c)  BY <1>2, <2>1, SwapFacts
  <2>4. Permuted  BY <1>1, <1>2, <1>4, <2>3, Reordered
  <2> QED  BY <1>1, <1>2, <1>4, <2>2, <2>4, LongerBy
<1>5. CASE Assign(UnitLit(c), i) /\ UNCHANGED <<context, firstHyp, firstUnprocessed, unitsProcessed>>
  <2>1. UnitLit(c) \in Lits  BY <1>2, Sizes DEF UnitLit, Literals, Lits
  <2>2. Permuted  BY <1>5 DEF Permuted, context
  <2> QED  BY <1>1, <1>2, <1>5, <2>1, <2>2, LongerBy
<1> QED  BY <1>3, <1>4, <1>5 DEF UseHint, va, context

LEMMA VisitLeaves ==
  ASSUME TypedContext, TypedTrail, Lists, cur \in [class : BOOLEAN, lit : Lits, at : Nat \ {0}],
         Visit
  PROVE  /\ Permuted /\ Longer /\ unitsProcessed' = unitsProcessed
         /\ UNCHANGED <<firstHyp, firstUnprocessed>>
            \/ (pc' = "found" /\ firstUnprocessed' = Len(truStack') /\ (~root => firstHyp' = firstHyp))
<1> DEFINE is == watch[cur.class][-cur.lit]
           i == is[cur.at]
           old == clauses[i]
           c == IF old[1] = -cur.lit THEN Swap(old, 1, 2) ELSE old
<1>1. CASE UNCHANGED <<context, va>>
  BY <1>1, SameLonger DEF context, va, Permuted
<1>2. ASSUME cur.at <= Len(is), Imply(i, c) \/ \E n \in 3..Len(c) : Replace(i, c, n)
      PROVE  /\ Permuted /\ Longer /\ unitsProcessed' = unitsProcessed
             /\ UNCHANGED <<firstHyp, firstUnprocessed>>
                \/ (pc' = "found" /\ firstUnprocessed' = Len(truStack')
                    /\ (~root => firstHyp' = firstHyp))
  <2>1. cur.class \in BOOLEAN /\ -cur.lit \in Lits /\ cur.at \in Nat \ {0}  BY Negation
  <2>2. is \in Seq(Ids) /\ Range(is) = Watchers(cur.class, -cur.lit)
    BY <2>1 DEF TypedContext, Watches, Lists
  <2> HIDE DEF is
  <2>3. cur.at \in 1..Len(is)  BY <1>2, <2>1, <2>2
  <2>4. i \in Watchers(cur.class, -cur.lit)  BY <2>2, <2>3, InRange
  <2> HIDE DEF i
  <2>5. i \in Ids /\ old \in Seq(Literals) /\ IsInjective(old) /\ Len(old) >= 2
    BY <2>4 DEF Watchers, TypedContext
  <2> HIDE DEF old
  <2>6. 1 \in 1..Len(old) /\ 2 \in 1..Len(old)  BY <2>5
  <2>7. c \in Seq(Literals) /\ IsInjective(c) /\ Len(c) = Len(old) /\ Range(c) = Range(old)
    BY <2>5, <2>6, SwapFacts
  <2> HIDE DEF c
  <2>8. ASSUME NEW n \in 3..Len(c), Replace(i, c, n)
        PROVE  Permuted /\ Longer /\ UNCHANGED <<firstHyp, firstUnprocessed, unitsProcessed>>
    <3>1. n \in 1..Len(c) /\ 2 \in 1..Len(c)  BY <2>5, <2>7
    <3>2. Range(Swap(c, 2, n)) = Range(clauses[i])  BY <2>7, <3>1, SwapFacts DEF old
    <3>3. /\ names' = names /\ clauses' = [clauses EXCEPT ![i] = Swap(c, 2, n)] /\ UNCHANGED va
      BY <2>8 DEF Replace
    <3>4. Permuted  BY <2>5, <3>2, <3>3, Reordered
    <3> QED  BY <3>3, <3>4, SameLonger DEF va
  <2>9. CASE Imply(i, c)
    <3>1. c[1] \in Lits  BY <2>6, <2>7 DEF Literals
    <3>2. /\ names' = names /\ clauses' = [clauses EXCEPT ![i] = c] /\ Assign(c[1], i)
          /\ unitsProcessed' = unitsProcessed
          /\ UNCHANGED <<firstHyp, firstUnprocessed>>
             \/ (pc' = "found" /\ firstUnprocessed' = Len(truStack') /\ (~root => firstHyp' = firstHyp))
      BY <2>9 DEF Imply
    <3>3. Range(c) = Range(clauses[i])  BY <2>7 DEF old
    <3>4. Permuted  BY <2>5, <3>2, <3>3, Reordered
    <3>5. Longer  BY <2>5, <3>1, <3>2, LongerBy
    <3> QED  BY <3>2, <3>4, <3>5
  <2> QED  BY <1>2, <2>8, <2>9
<1>3. \/ UNCHANGED <<context, va>>
      \/ cur.at <= Len(is) /\ (Imply(i, c) \/ \E n \in 3..Len(c) : Replace(i, c, n))
  BY DEF Visit
<1> HIDE DEF i, c, is
<1> QED  BY <1>1, <1>2, <1>3 DEF va

-----------------------------------------------------------------------------
(* Sequences.                                                              *)

LEMMA RangeNext ==
  ASSUME NEW S, NEW s \in Seq(S), NEW x \in S
  PROVE  /\ Range(<<>>) = {}
         /\ Append(s, x) \in Seq(S) /\ Range(Append(s, x)) = Range(s) \union {x}
<1> DEFINE t == Append(s, x)
<1>1. /\ t \in Seq(S) /\ Len(t) = Len(s) + 1 /\ t[Len(s) + 1] = x
      /\ \A k \in 1..Len(s) : t[k] = s[k]
  BY AppendProperties
<1>2. Len(s) \in Nat  OBVIOUS
<1> HIDE DEF t
<1>3. \A y : (\E k \in 1..Len(t) : t[k] = y) <=> (\E k \in 1..Len(s) : s[k] = y) \/ y = x
  BY <1>1, <1>2
<1>4. \A y : y \in Range(t) <=> y \in Range(s) \/ y = x  BY <1>1, <1>3, InRange
<1>5. Range(<<>>) = {}  BY DEF Range
<1> QED  BY <1>1, <1>4, <1>5 DEF t

(* Induction over the prefixes of a sequence.                              *)
LEMMA ByPrefix ==
  ASSUME NEW S, NEW s \in Seq(S), NEW P, <<>> \in P,
         \A k \in 1..Len(s) : SubSeq(s, 1, k-1) \in P => Append(SubSeq(s, 1, k-1), s[k]) \in P
  PROVE  s \in P
<1> DEFINE n == Len(s)
           t(k) == SubSeq(s, 1, k)
           Q == {k \in 0..n : t(k) \in P}
<1>1. n \in Nat  OBVIOUS
<1>2. t(0) = <<>> /\ t(n) = s  OBVIOUS
<1>3. \A k \in 1..n : t(k) = Append(t(k-1), s[k])  OBVIOUS
<1>a. \A k \in 1..n : t(k-1) \in P => Append(t(k-1), s[k]) \in P  OBVIOUS
<1> HIDE DEF n, t
<1>4. 0 \in Q
  <2>1. 0 \in 0..n  BY <1>1
  <2> QED  BY <1>2, <2>1
<1>5. \A k \in 1..n : k - 1 \in Q => k \in Q
  <2> SUFFICES ASSUME NEW k \in 1..n, k - 1 \in Q PROVE k \in Q  OBVIOUS
  <2>1. k \in 0..n  BY <1>1
  <2>2. t(k-1) \in P  OBVIOUS
  <2>3. t(k) \in P  BY <1>3, <1>a, <2>2
  <2> QED  BY <2>1, <2>3
<1>6. \A k \in 0..n : k \in Q
  <2> HIDE DEF Q
  <2> QED  BY <1>1, <1>4, <1>5, Upward
<1>7. n \in 0..n  BY <1>1
<1> QED  BY <1>2, <1>6, <1>7

LEMMA PrefixIs ==
  ASSUME NEW S, NEW s \in Seq(S), NEW k \in 1..Len(s)
  PROVE  /\ SubSeq(s, 1, k-1) \in Seq(S) /\ Len(SubSeq(s, 1, k-1)) = k - 1 /\ s[k] \in S
         /\ \A j \in 1..k-1 : SubSeq(s, 1, k-1)[j] = s[j]
         /\ \A x : x \in Range(SubSeq(s, 1, k-1)) <=> \E j \in 1..k-1 : s[j] = x
<1> DEFINE t == SubSeq(s, 1, k-1)
<1>1. /\ t \in Seq(S) /\ Len(t) = k - 1 /\ s[k] \in S
      /\ \A j \in 1..k-1 : t[j] = s[j]
  OBVIOUS
<1> HIDE DEF t
<1>2. \A x : x \in Range(t) <=> \E j \in 1..Len(t) : t[j] = x  BY <1>1, InRange
<1>3. \A x : x \in Range(t) <=> \E j \in 1..k-1 : s[j] = x  BY <1>1, <1>2
<1> QED  BY <1>1, <1>3 DEF t

(* Two loops that take the same turns.                                     *)
LEMMA SameLoop ==
  ASSUME NEW n \in Nat, NEW g, NEW h, g[0] = h[0],
         \A k \in 1..n : g[k-1] = h[k-1] => g[k] = h[k]
  PROVE  g[n] = h[n]
<1> DEFINE P == {k \in 0..n : g[k] = h[k]}
<1>1. 0 \in P  OBVIOUS
<1>2. \A k \in 1..n : k - 1 \in P => k \in P  OBVIOUS
<1>3. \A k \in 0..n : k \in P
  <2> HIDE DEF P
  <2> QED  BY <1>1, <1>2, Upward
<1>4. n \in 0..n  OBVIOUS
<1> QED  BY <1>3, <1>4

-----------------------------------------------------------------------------
(* Keep.                                                                   *)

KeepTurn(t, x, T) == IF x \in T THEN Append(t, x) ELSE t
KeepEq(g, s, T) ==
  g = [n \in 0..Len(s) |-> IF n = 0 THEN <<>> ELSE KeepTurn(g[n-1], s[n], T)]

LEMMA KeepLoop ==
  ASSUME NEW S, NEW s \in Seq(S), NEW T
  PROVE  \E g : /\ g \in [0..Len(s) -> Seq(S)] /\ g[0] = <<>>
                /\ \A k \in 1..Len(s) : g[k] = KeepTurn(g[k-1], s[k], T)
                /\ Keep(s, T) = g[Len(s)]
<1> DEFINE n == Len(s)
           F(k, t) == KeepTurn(t, s[k], T)
<1>1. n \in Nat  OBVIOUS
<1>2. ASSUME NEW k \in 1..n, NEW t \in Seq(S) PROVE F(k, t) \in Seq(S)
  <2>1. s[k] \in S  OBVIOUS
  <2> QED  BY <2>1, AppendProperties DEF KeepTurn
<1>3. <<>> \in Seq(S)  OBVIOUS
<1>4. Keep(s, T) = (CHOOSE g : KeepEq(g, s, T))[n]
  BY DEF Keep, KeepEq, KeepTurn
<1> HIDE DEF n, F
<1>5. \E g : KeepEq(g, s, T)
  <2> DEFINE G == [p \in (1..n) \X Seq(S) |-> F(p[1], p[2])]
  <2>1. G \in [(1..n) \X Seq(S) -> Seq(S)]  BY <1>2
  <2>2. \A k \in 1..n : \A t \in Seq(S) : G[<<k, t>>] = F(k, t)  OBVIOUS
  <2> HIDE DEF G
  <2>3. PICK g : LoopOf(g, n, Seq(S), <<>>, G)  BY ONLY <1>1, <1>3, <2>1, LoopExists
  <2>4. /\ g \in [0..n -> Seq(S)] /\ g[0] = <<>>
        /\ \A k \in 1..n : g[k] = G[<<k, g[k-1]>>]
    BY <2>3 DEF LoopOf
  <2>5. \A k \in 0..n : g[k] = IF k = 0 THEN <<>> ELSE F(k, g[k-1])
    <3> TAKE k \in 0..n
    <3>1. k = 0 \/ (k \in 1..n /\ k - 1 \in 0..n)  BY <1>1
    <3> QED  BY <2>2, <2>4, <3>1
  <2>6. g = [k \in 0..n |-> g[k]]  BY <2>4
  <2>7. g = [k \in 0..n |-> IF k = 0 THEN <<>> ELSE F(k, g[k-1])]  BY <2>5, <2>6
  <2> QED  BY <2>7 DEF KeepEq, n, F
<1> DEFINE g == CHOOSE g : KeepEq(g, s, T)
<1>6. KeepEq(g, s, T)  BY <1>5
<1>7. Keep(s, T) = g[n]  BY <1>4
<1> HIDE DEF g
<1>8. /\ \A k \in 0..n : g[k] = IF k = 0 THEN <<>> ELSE F(k, g[k-1])
      /\ DOMAIN g = 0..n /\ g = [k \in 0..n |-> g[k]]
  BY <1>6 DEF KeepEq, n, F
<1>9. g[0] = <<>>
  <2>1. 0 \in 0..n  BY <1>1
  <2> QED  BY <1>8, <2>1
<1>10. \A k \in 1..n : g[k] = F(k, g[k-1])
  <2> TAKE k \in 1..n
  <2>1. k \in 0..n /\ k # 0  BY <1>1
  <2> QED  BY <1>8, <2>1
<1> DEFINE P == {k \in 0..n : g[k] \in Seq(S)}
<1>11. 0 \in P
  <2>1. g[0] \in Seq(S) /\ 0 \in 0..n  BY <1>1, <1>3, <1>9
  <2> QED  BY <2>1
<1>12. ASSUME NEW k \in 1..n, k - 1 \in P PROVE k \in P
  <2>1. k \in 0..n  BY <1>1
  <2>2. g[k] \in Seq(S)  BY <1>2, <1>10, <1>12
  <2> QED  BY <2>1, <2>2
<1>13. \A k \in 0..n : k \in P
  <2> HIDE DEF P
  <2> QED  BY <1>1, <1>11, <1>12, Upward
<1>14. g \in [0..n -> Seq(S)]  BY <1>8, <1>13
<1> QED  BY <1>7, <1>9, <1>10, <1>14 DEF n, F

LEMMA KeepNext ==
  ASSUME NEW S, NEW s \in Seq(S), NEW x \in S, NEW T
  PROVE  /\ Keep(<<>>, T) = <<>>
         /\ Keep(s, T) \in Seq(S)
         /\ Keep(Append(s, x), T) = IF x \in T THEN Append(Keep(s, T), x) ELSE Keep(s, T)
<1> DEFINE t == Append(s, x)
           n == Len(s)
<1>1. /\ t \in Seq(S) /\ Len(t) = n + 1 /\ t[n + 1] = x /\ n \in Nat
      /\ \A k \in 1..n : t[k] = s[k]
  BY AppendProperties
<1>2. <<>> \in Seq(S) /\ Len(<<>>) = 0  OBVIOUS
<1>3. Keep(<<>>, T) = <<>>
  <2>1. PICK g : g[0] = <<>> /\ Keep(<<>>, T) = g[Len(<<>>)]  BY <1>2, KeepLoop
  <2> QED  BY <1>2, <2>1
<1>4. PICK g : /\ g \in [0..n -> Seq(S)] /\ g[0] = <<>>
               /\ \A k \in 1..n : g[k] = KeepTurn(g[k-1], s[k], T)
               /\ Keep(s, T) = g[n]
  BY KeepLoop
<1> HIDE DEF t
<1>5. PICK h : /\ h[0] = <<>>
               /\ \A k \in 1..Len(t) : h[k] = KeepTurn(h[k-1], t[k], T)
               /\ Keep(t, T) = h[Len(t)]
  BY <1>1, KeepLoop
<1> HIDE DEF n
<1>6. \A k \in 1..n : h[k] = KeepTurn(h[k-1], s[k], T)
  <2>1. \A k \in 1..n : k \in 1..Len(t)  BY <1>1
  <2> QED  BY <1>1, <1>5, <2>1
<1>7. g[n] = h[n]
  <2>1. \A k \in 1..n : g[k-1] = h[k-1] => g[k] = h[k]  BY <1>4, <1>6
  <2>2. g[0] = h[0]  BY <1>4, <1>5
  <2> QED  BY ONLY <1>1, <2>1, <2>2, SameLoop
<1>8. Keep(t, T) = KeepTurn(h[n], x, T)
  <2>1. n + 1 \in 1..Len(t) /\ n + 1 - 1 = n  BY <1>1
  <2> QED  BY <1>1, <1>5, <2>1
<1>9. Keep(s, T) \in Seq(S)
  <2>1. n \in 0..n  BY <1>1
  <2> QED  BY <1>4, <2>1
<1> QED  BY <1>3, <1>4, <1>7, <1>8, <1>9 DEF KeepTurn, t

LEMMA KeepFacts ==
  ASSUME NEW S, NEW s \in Seq(S), NEW T
  PROVE  Keep(s, T) \in Seq(S) /\ Range(Keep(s, T)) = Range(s) \intersect T
<1> DEFINE Good(t) == Range(Keep(t, T)) = Range(t) \intersect T
           P == {t \in Seq(S) : Good(t)}
<1>1. ASSUME NEW x \in S, NEW t \in Seq(S), Good(t)
      PROVE  Append(t, x) \in Seq(S) /\ Good(Append(t, x))
  <2>1. Keep(t, T) \in Seq(S)  BY KeepNext
  <2>2. Keep(Append(t, x), T) = IF x \in T THEN Append(Keep(t, T), x) ELSE Keep(t, T)
    BY KeepNext
  <2>3. Append(t, x) \in Seq(S) /\ Range(Append(t, x)) = Range(t) \union {x}
    BY RangeNext
  <2>4. Range(Append(Keep(t, T), x)) = Range(Keep(t, T)) \union {x}
    BY <2>1, RangeNext
  <2> QED  BY <1>1, <2>2, <2>3, <2>4
<1>2. <<>> \in Seq(S) /\ Good(<<>>)
  <2>1. Range(<<>>) = {} /\ <<>> \in Seq(S) /\ Len(<<>>) = 0  BY DEF Range
  <2>2. Keep(<<>>, T) = <<>>
    <3>1. PICK g : g[0] = <<>> /\ Keep(<<>>, T) = g[Len(<<>>)]  BY <2>1, KeepLoop
    <3> QED  BY <2>1, <3>1
  <2> QED  BY <2>1, <2>2
<1> HIDE DEF Good
<1>3. <<>> \in P  BY <1>2
<1>4. \A k \in 1..Len(s) : SubSeq(s, 1, k-1) \in P => Append(SubSeq(s, 1, k-1), s[k]) \in P
  <2> TAKE k \in 1..Len(s)
  <2>1. s[k] \in S  OBVIOUS
  <2> QED  BY <1>1, <2>1
<1> HIDE DEF P
<1>5. s \in P  BY <1>3, <1>4, ByPrefix
<1>6. Keep(s, T) \in Seq(S)
  <2>1. PICK g : /\ g \in [0..Len(s) -> Seq(S)] /\ Keep(s, T) = g[Len(s)]  BY KeepLoop
  <2>2. Len(s) \in 0..Len(s)  OBVIOUS
  <2> QED  BY <2>1, <2>2
<1> QED  BY <1>5, <1>6 DEF P, Good

-----------------------------------------------------------------------------
(* Steps.                                                                  *)

LEMMA StepsNext ==
  ASSUME TypedTrail, NEW s \in Seq(Lits), NEW x \in Lits
  PROVE  /\ Steps(<<>>) = <<>>
         /\ Steps(s) \in Seq(Ids)
         /\ Steps(Append(s, x)) =
              IF reasons[x] = None THEN Steps(s) ELSE Append(Steps(s), reasons[x])
<1> DEFINE T == {l \in Lits : reasons[l] # None}
           f == Keep(s, T)
           g(c) == [n \in DOMAIN c |-> reasons[c[n]]]
<1>1. /\ Keep(<<>>, T) = <<>> /\ f \in Seq(Lits)
      /\ Keep(Append(s, x), T) = IF x \in T THEN Append(f, x) ELSE f
  <2> HIDE DEF T
  <2> QED  BY KeepNext
<1>2. /\ \A c : Steps(c) = g(Keep(c, T))
      /\ Steps(s) = g(f)
  BY DEF Steps
<1>3. Range(f) \subseteq T  BY KeepFacts
<1>4. \A n \in 1..Len(f) : f[n] \in T
  <2> HIDE DEF f, T
  <2> QED  BY <1>1, <1>3, InRange
<1>5. \A l \in T : reasons[l] \in Ids  BY DEF TypedTrail
<1>6. x \in T <=> reasons[x] # None  OBVIOUS
<1> HIDE DEF T, f
<1>7. g(f) \in Seq(Ids) /\ Len(g(f)) = Len(f)  BY <1>1, <1>4, <1>5
<1>8. g(<<>>) = <<>>  OBVIOUS
<1>9. ASSUME x \in T PROVE g(Append(f, x)) = Append(g(f), reasons[x])
  <2> DEFINE n == Len(f)
             u == g(f)
             v == g(Append(f, x))
             w == Append(u, reasons[x])
  <2>1. /\ Append(f, x) \in Seq(Lits) /\ Len(Append(f, x)) = n + 1 /\ Append(f, x)[n + 1] = x
        /\ n \in Nat /\ \A k \in 1..n : Append(f, x)[k] = f[k]
    BY <1>1, AppendProperties
  <2>2. DOMAIN Append(f, x) = 1..n+1  BY <2>1
  <2>3. v = [k \in 1..n+1 |-> reasons[Append(f, x)[k]]]  BY <2>2
  <2>4. reasons[x] \in Ids  BY <1>5, <1>9
  <2>5. /\ w \in Seq(Ids) /\ Len(w) = n + 1 /\ w[n + 1] = reasons[x]
        /\ \A k \in 1..n : w[k] = u[k]
    BY <1>7, <2>4, AppendProperties
  <2>6. \A k \in 1..n : u[k] = reasons[f[k]]  BY <1>1
  <2>7. w = [k \in 1..n+1 |-> w[k]]  BY <2>5
  <2>8. \A k \in 1..n+1 : w[k] = reasons[Append(f, x)[k]]
    <3> HIDE DEF w, u
    <3> TAKE k \in 1..n+1
    <3>1. k \in 1..n \/ k = n + 1  BY <2>1
    <3> QED  BY <2>1, <2>5, <2>6, <3>1
  <2> QED  BY <2>3, <2>7, <2>8
<1> HIDE DEF g
<1> QED  BY <1>1, <1>2, <1>6, <1>7, <1>8, <1>9

LEMMA StepsFacts ==
  ASSUME TypedTrail, NEW s \in Seq(Lits)
  PROVE  /\ Steps(s) \in Seq(Ids)
         /\ \A n \in 1..Len(Steps(s)) : \E x \in Range(s) : Steps(s)[n] = reasons[x] /\ reasons[x] # None
<1> DEFINE T == {l \in Lits : reasons[l] # None}
           f == Keep(s, T)
<1>1. f \in Seq(Lits) /\ Range(f) = Range(s) \intersect T  BY KeepFacts
<1>2. Steps(s) = [n \in DOMAIN f |-> reasons[f[n]]]  BY DEF Steps
<1>3. \A l \in T : reasons[l] \in Ids  BY DEF TypedTrail
<1>4. \A n \in 1..Len(f) : f[n] \in Range(s) /\ f[n] \in T
  <2> HIDE DEF f, T
  <2> QED  BY <1>1, InRange
<1>5. \A l \in T : reasons[l] # None  OBVIOUS
<1> HIDE DEF f, T
<1>6. Steps(s) \in Seq(Ids) /\ Len(Steps(s)) = Len(f)  BY <1>1, <1>2, <1>3, <1>4
<1>7. \A n \in 1..Len(f) : Steps(s)[n] = reasons[f[n]]  BY <1>1, <1>2
<1> QED  BY <1>4, <1>5, <1>6, <1>7

-----------------------------------------------------------------------------
(* The checker.                                                            *)

ReplayTurns ==
  TypedContext =>
    \A A \in SUBSET Lits : \A h \in Seq(Ids) :
      /\ ReplayFrom(A, <<>>) = Begun(A)
      /\ ReplayFrom(A, h) \in States
      /\ \A i \in Ids : ReplayFrom(A, Append(h, i)) = Use(ReplayFrom(A, h), clauses[i])

LEMMA ReplayNext == ReplayTurns
<1> SUFFICES ASSUME TypedContext, NEW A \in SUBSET Lits, NEW s \in Seq(Ids)
             PROVE  /\ ReplayFrom(A, <<>>) = Begun(A)
                    /\ ReplayFrom(A, s) \in States
                    /\ \A i \in Ids : ReplayFrom(A, Append(s, i)) = Use(ReplayFrom(A, s), clauses[i])
  BY DEF ReplayTurns
<1>1. ReplayFrom(A, <<>>) = Begun(A)
  <2>1. <<>> \in Seq(Ids) /\ Len(<<>>) = 0  OBVIOUS
  <2>2. PICK g : g[0] = Begun(A) /\ ReplayFrom(A, <<>>) = g[Len(<<>>)]  BY <2>1, ReplayLoop
  <2> QED  BY <2>1, <2>2
<1> DEFINE n == Len(s)
<1>2. PICK g : /\ g \in [0..n -> States] /\ g[0] = Begun(A)
               /\ \A k \in 1..n : g[k] = Use(g[k-1], clauses[s[k]])
               /\ ReplayFrom(A, s) = g[n]
  BY ReplayLoop
<1>3. n \in Nat /\ n \in 0..n  OBVIOUS
<1>4. ReplayFrom(A, s) \in States  BY <1>2, <1>3
<1>5. ASSUME NEW i \in Ids PROVE ReplayFrom(A, Append(s, i)) = Use(ReplayFrom(A, s), clauses[i])
  <2> DEFINE t == Append(s, i)
  <2>1. /\ t \in Seq(Ids) /\ Len(t) = n + 1 /\ t[n + 1] = i
        /\ \A k \in 1..n : t[k] = s[k]
    BY AppendProperties
  <2> HIDE DEF t
  <2>2. PICK h : /\ h[0] = Begun(A)
                 /\ \A k \in 1..Len(t) : h[k] = Use(h[k-1], clauses[t[k]])
                 /\ ReplayFrom(A, t) = h[Len(t)]
    BY <2>1, ReplayLoop
  <2> HIDE DEF n
  <2>3. \A k \in 1..n : h[k] = Use(h[k-1], clauses[s[k]])
    <3>1. \A k \in 1..n : k \in 1..Len(t)  BY <1>3, <2>1
    <3> QED  BY <2>1, <2>2, <3>1
  <2>4. g[n] = h[n]
    <3>1. \A k \in 1..n : g[k-1] = h[k-1] => g[k] = h[k]  BY <1>2, <2>3
    <3>2. g[0] = h[0]  BY <1>2, <2>2
    <3> QED  BY ONLY <1>3, <3>1, <3>2, SameLoop
  <2>5. ReplayFrom(A, t) = Use(h[n], clauses[i])
    <3>1. n + 1 \in 1..Len(t) /\ n + 1 - 1 = n  BY <1>3, <2>1
    <3>2. \A k \in 1..Len(t) : k - 1 = n => h[k] = Use(h[n], clauses[t[k]])  BY <2>2
    <3>3. h[n+1] = Use(h[n], clauses[i])  BY <1>3, <2>1, <3>1, <3>2
    <3>4. ReplayFrom(A, t) = h[n+1]  BY <2>1, <2>2
    <3> QED  BY <3>3, <3>4
  <2> QED  BY <1>2, <2>4, <2>5 DEF t
<1> QED  BY <1>1, <1>4, <1>5

(* A hint in two parts.                                                     *)
LEMMA ReplayJoin ==
  ASSUME TypedContext, NEW A \in SUBSET Lits, NEW B \in SUBSET Lits,
         NEW s \in Seq(Ids), NEW r \in Seq(Ids), ReplayFrom(A, s) = Begun(B)
  PROVE  ReplayFrom(A, s \o r) = ReplayFrom(B, r)
<1> DEFINE Good(t) == ReplayFrom(A, s \o t) = ReplayFrom(B, t)
           P == {t \in Seq(Ids) : Good(t)}
<1>1. <<>> \in Seq(Ids) /\ Good(<<>>)
  <2>1. s \o <<>> = s /\ <<>> \in Seq(Ids)  OBVIOUS
  <2>2. ReplayFrom(B, <<>>) = Begun(B)  BY <2>1, ReplayNext DEF ReplayTurns
  <2> QED  BY <2>1, <2>2
<1>2. ASSUME NEW t \in Seq(Ids), NEW i \in Ids, Good(t)
      PROVE  Append(t, i) \in Seq(Ids) /\ Good(Append(t, i))
  <2>1. s \o Append(t, i) = Append(s \o t, i) /\ s \o t \in Seq(Ids)  OBVIOUS
  <2>2. ReplayFrom(A, Append(s \o t, i)) = Use(ReplayFrom(A, s \o t), clauses[i])
    BY <2>1, ReplayNext DEF ReplayTurns
  <2>3. ReplayFrom(B, Append(t, i)) = Use(ReplayFrom(B, t), clauses[i])
    BY ReplayNext DEF ReplayTurns
  <2> QED  BY <1>2, <2>1, <2>2, <2>3
<1> HIDE DEF Good
<1>3. <<>> \in P  BY <1>1
<1>4. \A k \in 1..Len(r) : SubSeq(r, 1, k-1) \in P => Append(SubSeq(r, 1, k-1), r[k]) \in P
  <2> TAKE k \in 1..Len(r)
  <2>1. r[k] \in Ids  OBVIOUS
  <2> QED  BY <1>2, <2>1
<1> HIDE DEF P
<1>5. r \in P  BY <1>3, <1>4, ByPrefix
<1> QED  BY <1>5 DEF P, Good

-----------------------------------------------------------------------------
(* What a checker makes of marked literals that rest on each other.          *)

Coherent(A) == \A l \in A : -l \notin A

LEMMA UseTurn ==
  ASSUME NEW st \in States, ~st.rejected, st.proved \/ Coherent(st.true),
         NEW x \in Lits, NEW c \in Seq(Literals),
         st.proved \/ \A l \in Range(c) : l = x \/ -l \in st.true
  PROVE  LET u == Use(st, c) IN
         /\ u \in States /\ ~u.rejected
         /\ u.proved \/ (Coherent(u.true) /\ u.true = st.true \union {x})
         /\ x \in Range(c) \union {0} /\ Coherent(st.true \union {x}) /\ ~st.proved => ~u.proved
<1> DEFINE free == {l \in Range(c) : -l \notin st.true}
           u == Use(st, c)
<1>1. CASE st.proved
  <2>1. u = st  BY <1>1 DEF Use
  <2> QED  BY <1>1, <2>1
<1>2. CASE ~st.proved
  <2>1. Coherent(st.true) /\ \A l \in Range(c) : l = x \/ -l \in st.true  BY <1>2
  <2>2. st.true \subseteq Lits  BY DEF States
  <2>3. Range(c) \subseteq Literals /\ \A l \in Literals : l \in Lits /\ l # 0
    BY InRange DEF Literals
  <2>4. \A l \in Lits : -l \in Lits /\ -(-l) = l /\ (l = -l <=> l = 0)  BY Negation
  <2>5. CASE Range(c) \intersect st.true # {}
    <3>1. u = st  BY <2>5 DEF Use
    <3>2. PICK l \in Range(c) : l \in st.true  BY <2>5
    <3>3. l = x  BY <2>1, <3>2 DEF Coherent
    <3>4. st.true \union {x} = st.true  BY <3>2, <3>3
    <3> QED  BY <1>2, <2>1, <3>1, <3>4
  <2>6. CASE Range(c) \intersect st.true = {}
    <3>1. u = [true |-> st.true \union free, proved |-> free = {}, rejected |-> Cardinality(free) > 1]
      BY <1>2, <2>6 DEF Use
    <3>2. free \subseteq {x} /\ free \subseteq Lits  BY <2>1, <2>3
    <3>3. free = {} \/ free = {x}  BY <3>2
    <3>4. Cardinality({}) = 0 /\ Cardinality({x}) = 1  BY FS_EmptySet, FS_Singleton
    <3>5. ~(Cardinality(free) > 1)
      <4> HIDE DEF free
      <4>1. Cardinality(free) = 0 \/ Cardinality(free) = 1  BY <3>3, <3>4
      <4> QED  BY <4>1
    <3>6. u.rejected = (Cardinality(free) > 1) /\ u.proved = (free = {})
          /\ u.true = st.true \union free
      BY <3>1
    <3>7. u \in States
      <4>1. st.true \union free \in SUBSET Lits  BY <2>2, <3>2
      <4>2. (free = {}) \in BOOLEAN /\ (Cardinality(free) > 1) \in BOOLEAN  OBVIOUS
      <4> HIDE DEF free
      <4> QED  BY <3>1, <4>1, <4>2 DEF States
    <3>8. free # {} => Coherent(u.true) /\ u.true = st.true \union {x}
      <4> SUFFICES ASSUME free # {} PROVE Coherent(u.true) /\ u.true = st.true \union {x}
        OBVIOUS
      <4>1. free = {x}  BY <3>3
      <4>2. x \in Range(c) /\ -x \notin st.true  BY <4>1
      <4>3. x \notin st.true /\ x # 0 /\ -x # x  BY <2>3, <2>4, <2>6, <4>2
      <4>4. u.true = st.true \union {x}  BY <3>6, <4>1
      <4>5. Coherent(st.true \union {x})
        <5> SUFFICES ASSUME NEW l \in st.true \union {x}, -l \in st.true \union {x} PROVE FALSE
          BY DEF Coherent
        <5>1. CASE l \in st.true /\ -l \in st.true  BY <2>1, <5>1 DEF Coherent
        <5>2. CASE l \in st.true /\ -l = x
          <6>1. l = -x  BY <2>2, <2>4, <5>2
          <6> QED  BY <4>2, <5>2, <6>1
        <5>3. CASE l = x  BY <4>2, <4>3, <5>3
        <5> QED  BY <5>1, <5>2, <5>3
      <4> QED  BY <4>4, <4>5
    <3>9. ASSUME x \in Range(c) \union {0}, Coherent(st.true \union {x}), free = {} PROVE FALSE
      <4>1. CASE x = 0  BY <2>4, <3>9, <4>1 DEF Coherent
      <4>2. CASE x \in Range(c)
        <5>1. -x \in st.true  BY <3>9, <4>2
        <5> QED  BY <3>9, <5>1 DEF Coherent
      <4> QED  BY <3>9, <4>1, <4>2
    <3> HIDE DEF free, u
    <3>10. ~u.rejected  BY <3>5, <3>6, Zenon
    <3>11. u.proved <=> free = {}  BY <3>6, Zenon
    <3> QED  BY <3>7, <3>8, <3>9, <3>10, <3>11 DEF u
  <2> QED  BY <2>5, <2>6
<1> QED  BY <1>1, <1>2

(* Literal n of s holds in A, or its reason makes it hold: the others are     *)
(* false in A or by earlier literals of s that are in T.                     *)
Supported(A, s, T, n) ==
  LET i == reasons[s[n]] IN
  IF i = None THEN s[n] \in A
  ELSE /\ s[n] \in Range(clauses[i]) \union {0}
       /\ \A l \in Range(clauses[i]) :
            l = s[n] \/ -l \in A \/ \E m \in 1..n-1 : s[m] = -l /\ s[m] \in T

(* Their steps prove something, or what they add is what is marked.           *)
LEMMA Follow ==
  ASSUME TypedContext, TypedTrail, NEW A \in SUBSET Lits, Coherent(A),
         NEW s \in Seq(Lits), NEW T,
         \A n \in 1..Len(s) : s[n] \in T => Supported(A, s, T, n)
  PROVE  LET u == ReplayFrom(A, Steps(Keep(s, T)))
             B == A \union (Range(s) \intersect T)
         IN /\ u \in States /\ ~u.rejected
            /\ u.proved \/ (Coherent(u.true) /\ u.true = B)
            /\ Coherent(B) => ~u.proved
<1> DEFINE R(t) == ReplayFrom(A, Steps(Keep(t, T)))
           B(t) == A \union (Range(t) \intersect T)
           Good(t) == /\ R(t) \in States /\ ~R(t).rejected
                      /\ R(t).proved \/ (Coherent(R(t).true) /\ R(t).true = B(t))
                      /\ Coherent(B(t)) => ~R(t).proved
           P == {t \in Seq(Lits) : Good(t)}
<1>1. <<>> \in Seq(Lits) /\ Good(<<>>)
  <2>1. <<>> \in Seq(Lits) /\ <<>> \in Seq(Ids) /\ 0 \in Lits
    BY Sizes DEF Lits
  <2>2. Keep(<<>>, T) = <<>> /\ Steps(<<>>) = <<>> /\ Range(<<>>) = {}
    BY <2>1, KeepNext, StepsNext, RangeNext
  <2>3. R(<<>>) = Begun(A)  BY <2>1, <2>2, ReplayNext DEF ReplayTurns
  <2>4. B(<<>>) = A  BY <2>2
  <2>5. Begun(A) \in States  BY DEF Begun, States
  <2>6. Begun(A).true = A /\ ~Begun(A).rejected /\ ~Begun(A).proved  BY DEF Begun
  <2> HIDE DEF R, B
  <2> QED  BY <2>1, <2>3, <2>4, <2>5, <2>6
<1>2. ASSUME NEW k \in 1..Len(s), SubSeq(s, 1, k-1) \in P
      PROVE  Append(SubSeq(s, 1, k-1), s[k]) \in P
  <2> DEFINE t == SubSeq(s, 1, k-1)
             x == s[k]
             v == Append(t, x)
  <2>1. /\ t \in Seq(Lits) /\ x \in Lits
        /\ \A y : y \in Range(t) <=> \E j \in 1..k-1 : s[j] = y
    BY PrefixIs
  <2>2. Good(t)  BY <1>2
  <2> HIDE DEF t
  <2>3. /\ v \in Seq(Lits) /\ Range(v) = Range(t) \union {x}
        /\ Keep(t, T) \in Seq(Lits)
        /\ Keep(v, T) = IF x \in T THEN Append(Keep(t, T), x) ELSE Keep(t, T)
    <3>1. v \in Seq(Lits) /\ Range(v) = Range(t) \union {x}  BY <2>1, RangeNext
    <3>2. /\ Keep(t, T) \in Seq(Lits)
          /\ Keep(v, T) = IF x \in T THEN Append(Keep(t, T), x) ELSE Keep(t, T)
      <4> HIDE DEF x
      <4> QED  BY <2>1, KeepNext
    <3> QED  BY <3>1, <3>2
  <2> HIDE DEF v, P
  <2>4. CASE x \notin T
    <3>1. Keep(v, T) = Keep(t, T)  BY <2>3, <2>4
    <3>2. Range(v) \intersect T = Range(t) \intersect T  BY <2>3, <2>4
    <3>3. R(v) = R(t)  BY <3>1
    <3>4. B(v) = B(t)  BY <3>2
    <3> HIDE DEF R, B
    <3>5. Good(v)  BY <2>2, <3>3, <3>4
    <3> QED  BY <2>3, <3>5 DEF P, v, t
  <2>5. CASE x \in T
    <3> DEFINE f == Keep(t, T)
               h == Steps(f)
               i == reasons[x]
    <3>1. Supported(A, s, T, k)  BY <2>5
    <3>2. /\ f \in Seq(Lits) /\ h \in Seq(Ids)
          /\ Steps(Keep(v, T)) = IF i = None THEN h ELSE Append(h, i)
      BY <2>1, <2>3, <2>5, StepsNext
    <3>3. B(v) = B(t) \union {x}  BY <2>3, <2>5
    <3>4. i \in Ids \union {None}  BY <2>1 DEF TypedTrail
    <3> HIDE DEF f, B
    <3>5. CASE i = None
      <4>1. x \in A  BY <3>1, <3>5 DEF Supported
      <4>2. B(v) = B(t)  BY <3>3, <4>1 DEF B
      <4>3. R(v) = R(t)  BY <3>2, <3>5 DEF f
      <4> HIDE DEF R
      <4>4. Good(v)  BY <2>2, <4>2, <4>3
      <4> QED  BY <2>3, <4>4 DEF P, v, t
    <3>6. CASE i # None
      <4> DEFINE st == R(t)
                 u == Use(st, clauses[i])
      <4>1. i \in Ids /\ clauses[i] \in Seq(Literals)  BY <3>4, <3>6 DEF TypedContext
      <4>2. R(v) = u
        <5>1. Steps(Keep(v, T)) = Append(h, i)  BY <3>2, <3>6
        <5>2. ReplayFrom(A, Append(h, i)) = Use(ReplayFrom(A, h), clauses[i])
          BY <3>2, <4>1, ReplayNext DEF ReplayTurns
        <5> QED  BY <5>1, <5>2 DEF f
      <4>3. /\ st \in States /\ ~st.rejected
            /\ st.proved \/ (Coherent(st.true) /\ st.true = B(t))
            /\ Coherent(B(t)) => ~st.proved
        BY <2>2
      <4>4. /\ x \in Range(clauses[i]) \union {0}
            /\ \A l \in Range(clauses[i]) : l = x \/ -l \in B(t)
        <5>1. \A l : (\E m \in 1..k-1 : s[m] = -l /\ s[m] \in T) => -l \in Range(t) \intersect T
          BY <2>1
        <5> QED  BY <3>1, <3>6, <5>1 DEF Supported, B
      <4>5. st.proved \/ \A l \in Range(clauses[i]) : l = x \/ -l \in st.true
        BY <4>3, <4>4
      <4> HIDE DEF st, R
      <4>6. /\ u \in States /\ ~u.rejected
            /\ u.proved \/ (Coherent(u.true) /\ u.true = st.true \union {x})
            /\ x \in Range(clauses[i]) \union {0} /\ Coherent(st.true \union {x}) /\ ~st.proved
                 => ~u.proved
        <5>1. st.proved \/ Coherent(st.true)  BY <4>3
        <5> QED  BY <2>1, <4>1, <4>3, <4>5, <5>1, UseTurn
      <4>7. st.proved => u.proved  BY DEF Use
      <4> HIDE DEF u
      <4>8. u.proved \/ (Coherent(u.true) /\ u.true = B(v))  BY <3>3, <4>3, <4>6, <4>7
      <4>9. Coherent(B(v)) => ~u.proved
        <5> SUFFICES ASSUME Coherent(B(v)) PROVE ~u.proved  OBVIOUS
        <5>1. Coherent(B(t))  BY <3>3 DEF Coherent
        <5>2. ~st.proved /\ st.true = B(t)  BY <4>3, <5>1
        <5> QED  BY <3>3, <4>4, <4>6, <5>2
      <4>10. Good(v)  BY <4>2, <4>6, <4>8, <4>9
      <4> QED  BY <2>3, <4>10 DEF P, v, t
    <3> QED  BY <3>5, <3>6
  <2> QED  BY <2>4, <2>5
<1> HIDE DEF Good
<1>3. <<>> \in P  BY <1>1
<1> HIDE DEF P
<1>4. s \in P
  <2>1. \A k \in 1..Len(s) : SubSeq(s, 1, k-1) \in P => Append(SubSeq(s, 1, k-1), s[k]) \in P
    BY <1>2
  <2> QED  BY <1>3, <2>1, ByPrefix
<1> QED  BY <1>4 DEF P, Good

-----------------------------------------------------------------------------
(* Literals are only moved about within their clauses.                       *)

LEMMA SameReplay ==
  ASSUME TypedContext, TypedContext', Permuted, NEW A \in SUBSET Lits, NEW s \in Seq(Ids)
  PROVE  ReplayFrom(A, s)' = ReplayFrom(A, s)
<1> DEFINE Good(t) == ReplayFrom(A, t)' = ReplayFrom(A, t)
           P == {t \in Seq(Ids) : Good(t)}
<1>0. ReplayTurns  BY ReplayNext
<1>1. ReplayTurns'  BY ReplayNext, PTL
<1>2. \A t \in Seq(Ids) :
        /\ ReplayFrom(A, <<>>) = Begun(A)
        /\ \A i \in Ids : ReplayFrom(A, Append(t, i)) = Use(ReplayFrom(A, t), clauses[i])
  BY <1>0 DEF ReplayTurns
<1>3. \A t \in Seq(Ids) :
        /\ ReplayFrom(A, <<>>)' = Begun(A)
        /\ \A i \in Ids : ReplayFrom(A, Append(t, i))' = Use(ReplayFrom(A, t)', clauses'[i])
  BY <1>1 DEF ReplayTurns, Begun, Use, Lits
<1>4. \A i \in Ids : \A st : Use(st, clauses'[i]) = Use(st, clauses[i])
  BY DEF Use, Permuted
<1>5. ASSUME NEW t \in Seq(Ids), NEW i \in Ids, Good(t)
      PROVE  Append(t, i) \in Seq(Ids) /\ Good(Append(t, i))
  <2>1. ReplayFrom(A, Append(t, i)) = Use(ReplayFrom(A, t), clauses[i])  BY <1>2
  <2>2. ReplayFrom(A, Append(t, i))' = Use(ReplayFrom(A, t)', clauses'[i])  BY <1>3
  <2>3. Append(t, i) \in Seq(Ids)  OBVIOUS
  <2>4. Use(ReplayFrom(A, t)', clauses'[i]) = Use(ReplayFrom(A, t)', clauses[i])  BY <1>4
  <2> QED  BY <1>5, <2>1, <2>2, <2>3, <2>4
<1>6. <<>> \in Seq(Ids) /\ Good(<<>>)  BY <1>2, <1>3
<1> HIDE DEF Good
<1>7. <<>> \in P  BY <1>6
<1>8. \A k \in 1..Len(s) : SubSeq(s, 1, k-1) \in P => Append(SubSeq(s, 1, k-1), s[k]) \in P
  <2> TAKE k \in 1..Len(s)
  <2>1. s[k] \in Ids  OBVIOUS
  <2> QED  BY <1>5, <2>1
<1> HIDE DEF P
<1>9. s \in P  BY <1>7, <1>8, ByPrefix
<1> QED  BY <1>9 DEF P, Good

LEMMA SameRup ==
  ASSUME TypedContext, TypedContext', Permuted, lemma' = lemma
  PROVE  Rup(lemma)' <=> Rup(lemma)
<1> DEFINE In(c, S) == \/ c # <<>> /\ \E l \in Range(c) : l \in S
                       \/ Cardinality({l \in Range(c) : -l \notin S}) > 1
<1>1. ASSUME NEW i \in names, NEW S PROVE In(clauses'[i], S) <=> In(clauses[i], S)
  <2>1. Range(clauses'[i]) = Range(clauses[i])  BY DEF Permuted, TypedContext
  <2>2. Range(<<>>) = {}  BY DEF Range
  <2>3. \A c : In(c, S) <=> \/ \E l \in Range(c) : l \in S
                            \/ Cardinality({l \in Range(c) : -l \notin S}) > 1
    BY <2>2
  <2> HIDE DEF In
  <2> QED  BY <2>1, <2>3
<1>2. Rup(lemma) <=>
        \A S \in SUBSET Lits :
          {-l : l \in Range(lemma)} \subseteq S /\ (\A i \in names : In(clauses[i], S))
            => \E l \in S : l # 0 /\ -l \in S
  BY DEF Rup, Refuted, Negated
<1>3. Rup(lemma)' <=>
        \A S \in SUBSET Lits :
          {-l : l \in Range(lemma)} \subseteq S /\ (\A i \in names : In(clauses'[i], S))
            => \E l \in S : l # 0 /\ -l \in S
  BY DEF Rup, Refuted, Negated, Permuted, Lits
<1> HIDE DEF In
<1> QED  BY <1>1, <1>2, <1>3

LEMMA KeepInjective ==
  ASSUME NEW S, NEW s \in Seq(S), IsInjective(s), NEW T
  PROVE  IsInjective(Keep(s, T))
<1> DEFINE Good(t) == IsInjective(Keep(t, T))
           P == {t \in Seq(S) : Good(t)}
<1>1. <<>> \in P
  <2>1. IsInjective(<<>>)  BY DEF IsInjective
  <2>2. Keep(<<>>, T) = <<>>
    <3>1. <<>> \in Seq(S) /\ Len(<<>>) = 0  OBVIOUS
    <3>2. PICK g : g[0] = <<>> /\ Keep(<<>>, T) = g[Len(<<>>)]  BY <3>1, KeepLoop
    <3> QED  BY <3>1, <3>2
  <2> QED  BY <2>1, <2>2
<1>2. ASSUME NEW k \in 1..Len(s), SubSeq(s, 1, k-1) \in P
      PROVE  Append(SubSeq(s, 1, k-1), s[k]) \in P
  <2> DEFINE t == SubSeq(s, 1, k-1)
             x == s[k]
             f == Keep(t, T)
  <2>1. /\ t \in Seq(S) /\ x \in S
        /\ \A y : y \in Range(t) <=> \E j \in 1..k-1 : s[j] = y
    BY PrefixIs
  <2>2. Good(t)  BY <1>2
  <2>3. x \notin Range(t)
    <3>1. \A j, h \in 1..Len(s) : s[j] = s[h] => j = h  BY InRange
    <3>2. \A j \in 1..k-1 : j \in 1..Len(s) /\ j # k  OBVIOUS
    <3> QED  BY <2>1, <3>1, <3>2
  <2> HIDE DEF t, x, P
  <2>4. f \in Seq(S) /\ Range(f) = Range(t) \intersect T  BY <2>1, KeepFacts
  <2>5. Keep(Append(t, x), T) = IF x \in T THEN Append(f, x) ELSE f  BY <2>1, KeepNext
  <2>6. IsInjective(f)  BY <2>2
  <2> HIDE DEF f
  <2>7. IsInjective(Append(f, x))  BY <2>1, <2>3, <2>4, <2>6, AppendFacts
  <2>8. Append(t, x) \in Seq(S)  BY <2>1
  <2> QED  BY <2>5, <2>6, <2>7, <2>8 DEF P, t, x
<1> HIDE DEF P
<1>3. s \in P
  <2>1. \A k \in 1..Len(s) : SubSeq(s, 1, k-1) \in P => Append(SubSeq(s, 1, k-1), s[k]) \in P
    BY <1>2
  <2> QED  BY <1>1, <2>1, ByPrefix
<1> QED  BY <1>3 DEF P

-----------------------------------------------------------------------------
(* The marks, each after those that it rests on.                            *)

Link(s, n) ==
  LET c == clauses[reasons[s[n]]] IN
  /\ IsTrue(s[n])
  /\ reasons[s[n]] # None => \A k \in 2..Len(c) : \E m \in 1..n-1 : s[m] = -c[k]

(* The marks after the first b of them.                                     *)
Linked(o, b) ==
  /\ o \in Outs /\ b <= Len(o.temp)
  /\ \A n \in 1..Len(o.temp) : n > b => Link(o.temp, n)

Prolongs(u, o) ==
  Len(o.temp) <= Len(u.temp) /\ \A n \in 1..Len(o.temp) : u.temp[n] = o.temp[n]

Grounded == \A n \in 1..Len(truStack) : reasons[truStack[n]] # None => Forced(n)

LinksTo(f, d, b) ==
  \A m \in 1..Len(truStack), o \in Outs :
    m <= d /\ Linked(o, b) =>
      LET u == f[<<truStack[m], o>>]
      IN Linked(u, b) /\ Prolongs(u, o) /\ truStack[m] \in Range(u.temp)

LEMMA ProlongOn ==
  ASSUME NEW o \in Outs, NEW u \in Outs, NEW v \in Outs
  PROVE  /\ Prolongs(o, o)
         /\ Prolongs(u, o) /\ Prolongs(v, u) => Prolongs(v, o)
         /\ Prolongs(u, o) => Range(o.temp) \subseteq Range(u.temp)
<1>1. Len(o.temp) \in Nat /\ Len(u.temp) \in Nat /\ Len(v.temp) \in Nat  BY OutsAre
<1>2. ASSUME Prolongs(u, o), Prolongs(v, u) PROVE Prolongs(v, o)
  <2>1. Len(o.temp) <= Len(v.temp)  BY <1>1, <1>2 DEF Prolongs
  <2>2. ASSUME NEW n \in 1..Len(o.temp) PROVE v.temp[n] = o.temp[n]
    <3>1. n \in 1..Len(u.temp)  BY <1>1, <1>2 DEF Prolongs
    <3> QED  BY <1>2, <3>1 DEF Prolongs
  <2> QED  BY <2>1, <2>2 DEF Prolongs
<1>3. ASSUME Prolongs(u, o), NEW x \in Range(o.temp) PROVE x \in Range(u.temp)
  <2>1. PICK n \in 1..Len(o.temp) : o.temp[n] = x  BY OutsAre, InRange
  <2>2. n \in 1..Len(u.temp) /\ u.temp[n] = x  BY <1>1, <1>3, <2>1 DEF Prolongs
  <2> QED  BY <2>2, OutsAre, InRange
<1> QED  BY <1>1, <1>2, <1>3 DEF Prolongs

LEMMA EachLinks ==
  ASSUME TypedTrail, NEW f \in Marker, NEW others \in Seq(Lits), NEW d \in Nat, NEW b \in Nat,
         LinksTo(f, d, b), NEW o \in Outs, Linked(o, b),
         \A k \in 1..Len(others) : \E m \in 1..Len(truStack) : m <= d /\ truStack[m] = -others[k]
  PROVE  LET u == MarkEach(f, others, o)
         IN Linked(u, b) /\ Prolongs(u, o) /\ \A k \in 1..Len(others) : -others[k] \in Range(u.temp)
<1> DEFINE n == Len(others)
<1>0. n \in Nat  OBVIOUS
<1>1. PICK g : /\ g \in [0..n -> Outs] /\ g[0] = o
               /\ \A k \in 1..n : g[k] = EachTurn(f, others, k, g[k-1])
               /\ MarkEach(f, others, o) = g[n]
  BY EachLoop
<1> DEFINE Here(k) == /\ Linked(g[k], b) /\ Prolongs(g[k], o)
                      /\ \A j \in 1..k : -others[j] \in Range(g[k].temp)
           P == {k \in 0..n : Here(k)}
<1>2. 0 \in P
  <2>1. Prolongs(o, o)  BY ProlongOn
  <2> QED  BY <1>0, <1>1, <2>1
<1>3. ASSUME NEW k \in 1..n, k - 1 \in P PROVE k \in P
  <2> DEFINE x == g[k-1]
             u == g[k]
  <2>1. k \in 0..n /\ k - 1 \in 0..n  BY <1>0
  <2>2. /\ x \in Outs /\ u \in Outs /\ u = EachTurn(f, others, k, x)
        /\ Linked(x, b) /\ Prolongs(x, o)
        /\ \A j \in 1..k-1 : -others[j] \in Range(x.temp)
    BY <1>1, <1>3, <2>1
  <2> HIDE DEF x, u
  <2>3. Linked(u, b) /\ Prolongs(u, x) /\ -others[k] \in Range(u.temp)
    <3>1. CASE -others[k] \in Range(x.temp)
      <4>1. u = x  BY <2>2, <3>1 DEF EachTurn
      <4> QED  BY <2>2, <3>1, <4>1, ProlongOn
    <3>2. CASE -others[k] \notin Range(x.temp)
      <4>1. u = f[<<-others[k], x>>]  BY <2>2, <3>2 DEF EachTurn
      <4>2. PICK m \in 1..Len(truStack) : m <= d /\ truStack[m] = -others[k]  OBVIOUS
      <4> QED  BY <2>2, <4>1, <4>2 DEF LinksTo
    <3> QED  BY <3>1, <3>2
  <2>4. Prolongs(u, o)  BY <2>2, <2>3, ProlongOn
  <2>5. \A j \in 1..k : -others[j] \in Range(u.temp)
    <3> TAKE j \in 1..k
    <3>1. j = k \/ j \in 1..k-1  BY <1>0
    <3>2. Range(x.temp) \subseteq Range(u.temp)  BY <2>2, <2>3, ProlongOn
    <3> QED  BY <2>2, <2>3, <3>1, <3>2
  <2> QED  BY <2>1, <2>3, <2>4, <2>5 DEF u
<1>4. \A k \in 0..n : k \in P
  <2> HIDE DEF P
  <2> QED  BY <1>0, <1>2, <1>3, Upward
<1>5. Here(n)
  <2>1. n \in 0..n  BY <1>0
  <2> QED  BY <1>4, <2>1
<1> QED  BY <1>1, <1>5

LEMMA OneLinks ==
  ASSUME TypedContext, TypedTrail, Grounded,
         NEW f \in Marker, NEW m \in 1..Len(truStack), NEW b \in Nat, LinksTo(f, m - 1, b),
         NEW o \in Outs, Linked(o, b)
  PROVE  LET u == MarkOne(f, truStack[m], o)
         IN Linked(u, b) /\ Prolongs(u, o) /\ truStack[m] \in Range(u.temp)
<1> DEFINE l == truStack[m]
           i == reasons[l]
           e == MarkEach(f, Others(l), o)
           p == Listed(e, l)
           u == Marked(p, l)
<1>0. /\ truStack \in Seq(Lits) /\ Len(truStack) \in Nat /\ l \in Lits /\ IsTrue(l)
      /\ Others(l) \in Seq(Lits) /\ m - 1 \in Nat
  BY OthersAre, OnTrail DEF TypedTrail
<1>1. i # None => Forced(m)  BY DEF Grounded
<1>2. \A k \in 1..Len(Others(l)) :
        \E h \in 1..Len(truStack) : h <= m - 1 /\ truStack[h] = -Others(l)[k]
  <2> TAKE k \in 1..Len(Others(l))
  <2>0. i # None  BY <1>0, OthersAre
  <2>1. k + 1 \in 2..Len(clauses[i]) /\ Others(l)[k] = clauses[i][k+1]
    <3>0. Others(l) # <<>>  BY <1>0
    <3>1. Len(Others(l)) = Len(clauses[i]) - 1 /\ Others(l)[k] = clauses[i][k+1]
      BY <1>0, <2>0, <3>0, OthersAre
    <3>2. Len(Others(l)) \in Nat  BY <1>0
    <3>3. Len(clauses[i]) \in Nat  BY <1>0, <2>0, OthersAre DEF TypedContext
    <3> QED  BY <3>1, <3>2, <3>3
  <2>2. PICK h \in 1..m-1 : truStack[h] = -clauses[i][k+1]
    BY <1>1, <2>0, <2>1 DEF Forced
  <2>3. h \in 1..Len(truStack) /\ h <= m - 1  BY <1>0
  <2> QED  BY <2>1, <2>2, <2>3
<1>3. /\ Linked(e, b) /\ Prolongs(e, o)
      /\ \A k \in 1..Len(Others(l)) : -Others(l)[k] \in Range(e.temp)
  BY <1>0, <1>2, EachLinks
<1>4. e \in Outs /\ e.temp \in Seq(Lits) /\ Len(e.temp) \in Nat
  BY <1>3, OutsAre DEF Linked
<1>5. MarkOne(f, l, o) = u  BY DEF MarkOne
<1> HIDE DEF e, l, i
<1>6. p \in Outs /\ p.temp = e.temp  BY <1>0, <1>4, Writing
<1> HIDE DEF p
<1>7. u \in Outs /\ u.temp = Append(e.temp, l)
  <2>1. p \in Outs /\ l \in Lits  BY <1>0, <1>6
  <2>2. Marked(p, l) \in Outs /\ Marked(p, l).temp = Append(p.temp, l)  BY <2>1, Writing
  <2> QED  BY <1>6, <2>2
<1> HIDE DEF u
<1> DEFINE s == e.temp
           N == Len(s)
           t == Append(s, l)
<1>8. /\ t \in Seq(Lits) /\ Len(t) = N + 1 /\ t[N+1] = l /\ N \in Nat
      /\ \A n \in 1..N : t[n] = s[n]
  BY <1>0, <1>4, AppendProperties
<1>9. u.temp = t  BY <1>7
<1>10. Prolongs(u, e)
  <2> HIDE DEF t
  <2>1. N <= Len(t)  BY <1>8
  <2> QED  BY <1>8, <1>9, <2>1 DEF Prolongs
<1>11. l \in Range(u.temp)
  <2> HIDE DEF t
  <2>1. N + 1 \in 1..Len(t)  BY <1>8
  <2> QED  BY <1>8, <1>9, <2>1, InRange
<1>12. Link(t, N + 1)
  <2> HIDE DEF t
  <2> SUFFICES ASSUME i # None, NEW k \in 2..Len(clauses[i])
               PROVE  \E h \in 1..N+1-1 : t[h] = -clauses[i][k]
    BY <1>0, <1>8 DEF Link, i
  <2>0. i \in Ids  BY <1>0, OthersAre DEF i
  <2>1. Len(clauses[i]) \in Nat  BY <2>0 DEF TypedContext
  <2>2. Len(Others(l)) = Len(clauses[i]) - 1  BY <1>0, <2>1, OthersAre DEF i
  <2>3. k - 1 \in 1..Len(Others(l)) /\ k - 1 + 1 = k  BY <2>1, <2>2
  <2>4. Others(l)[k-1] = clauses[i][k-1+1]  BY <1>0, <2>3, OthersAre DEF i
  <2>5. -clauses[i][k] \in Range(s)  BY <1>3, <2>3, <2>4
  <2>6. PICK h \in 1..N : s[h] = -clauses[i][k]  BY <1>4, <2>5, InRange
  <2>7. h \in 1..N+1-1  BY <1>8
  <2> QED  BY <1>8, <2>6, <2>7
<1>13. ASSUME NEW n \in 1..N, n > b PROVE Link(t, n)
  <2> HIDE DEF t
  <2>1. Link(s, n)  BY <1>3, <1>13 DEF Linked
  <2>2. t[n] = s[n] /\ \A k \in 1..n-1 : t[k] = s[k]  BY <1>8
  <2> QED  BY <2>1, <2>2 DEF Link
<1>14. Linked(u, b)
  <2> HIDE DEF t, s
  <2>1. b <= N  BY <1>3 DEF Linked, s
  <2>2. b <= Len(u.temp)  BY <1>8, <1>9, <2>1
  <2>3. \A n \in 1..Len(u.temp) : n > b => Link(u.temp, n)
    <3> TAKE n \in 1..Len(u.temp)
    <3>1. n \in 1..N \/ n = N + 1  BY <1>8, <1>9
    <3> QED  BY <1>9, <1>12, <1>13, <3>1
  <2> QED  BY <1>7, <2>2, <2>3 DEF Linked
<1>15. Prolongs(u, o)  BY <1>3, <1>4, <1>7, <1>10, ProlongOn
<1> QED  BY <1>5, <1>11, <1>14, <1>15 DEF l, u

LEMMA MarkLinks ==
  ASSUME TypedContext, TypedTrail, Grounded, NEW l, IsTrue(l), NEW b \in Nat,
         NEW o \in Outs, Linked(o, b)
  PROVE  Linked(Mark(l, o), b) /\ Prolongs(Mark(l, o), o) /\ l \in Range(Mark(l, o).temp)
<1> DEFINE n == Len(truStack)
<1>1. n \in Nat /\ truStack \in Seq(Lits)  BY DEF TypedTrail
<1>2. PICK g : /\ g \in [0..n -> Marker]
               /\ \A d \in 1..n, x \in Lits, u \in Outs :
                    g[d][<<x, u>>] = MarkOne(g[d-1], x, u)
               /\ \A x, u : Mark(x, u) = g[n][<<x, u>>]
  BY MarkLoop
<1>3. PICK m \in 1..n : truStack[m] = l  BY <1>1, OnTrail
<1>4. l \in Lits  BY <1>1, <1>3
<1> HIDE DEF n
<1> DEFINE P == {d \in 0..n : LinksTo(g[d], d, b)}
<1>5. 0 \in P
  <2>1. LinksTo(g[0], 0, b)  BY DEF LinksTo
  <2> QED  BY <1>1, <2>1
<1>6. ASSUME NEW d \in 1..n, d - 1 \in P PROVE d \in P
  <2>1. d \in 0..n /\ d - 1 \in 0..n /\ g[d-1] \in Marker  BY <1>1, <1>2
  <2>2. LinksTo(g[d-1], d - 1, b)  BY <1>6
  <2>3. LinksTo(g[d], d, b)
    <3> SUFFICES ASSUME NEW h \in 1..Len(truStack), NEW u \in Outs, h <= d, Linked(u, b)
                 PROVE  LET v == g[d][<<truStack[h], u>>]
                        IN Linked(v, b) /\ Prolongs(v, u) /\ truStack[h] \in Range(v.temp)
      BY DEF LinksTo
    <3>1. truStack[h] \in Lits  BY <1>1
    <3>2. g[d][<<truStack[h], u>>] = MarkOne(g[d-1], truStack[h], u)  BY <1>2, <3>1
    <3>3. LinksTo(g[d-1], h - 1, b)
      <4>1. \A j \in 1..Len(truStack) : j <= h - 1 => j <= d - 1  BY <1>1
      <4> QED  BY <2>2, <4>1 DEF LinksTo
    <3> QED  BY <2>1, <3>2, <3>3, OneLinks
  <2> QED  BY <2>1, <2>3
<1>7. \A d \in 0..n : d \in P
  <2> HIDE DEF P
  <2> QED  BY <1>1, <1>5, <1>6, Upward
<1>8. n \in 0..n /\ m <= n  BY <1>1, <1>3
<1>9. LinksTo(g[n], n, b)  BY <1>7, <1>8
<1>10. Mark(l, o) = g[n][<<l, o>>]  BY <1>2
<1>13. LET u == g[n][<<truStack[m], o>>]
       IN Linked(u, b) /\ Prolongs(u, o) /\ truStack[m] \in Range(u.temp)
  BY <1>8, <1>9 DEF LinksTo, n
<1> QED  BY <1>3, <1>10, <1>13

-----------------------------------------------------------------------------
(* The engine at work for a resolvent, seen as if it had been asked for the   *)
(* lemma and the resolvent together.                                       *)

Reduced(w, c) == {l \in Range(c) : -l \notin w}
Arranged(T) == CHOOSE s \in Seq(Literals) : Range(s) = T
Both == Range(lemma) \union Reduced(witness, clauses[resolvent])

(* The hypotheses are not on the trail, or all of them hold without.         *)
AtRoot == task = "resolve" /\ stage = "root" /\ root

EPc ==
  IF pc = "write" THEN IF task = "rat" THEN "assume" ELSE "found"
  ELSE IF pc \in {"resolvents", "resolve"} \/ (task = "resolve" /\ pc = "hint") THEN "assume"
  ELSE IF task = "rats" /\ pc = "stuck" THEN "hints"
  ELSE pc
EStage ==
  IF task = "rat" THEN "hint"
  ELSE IF task = "resolve" /\ stage = "root" /\ ~root THEN "goal"
  ELSE stage
EGoal ==
  IF task = "rat" THEN lemma ELSE IF task = "resolve" /\ ~AtRoot THEN Arranged(Both) ELSE goal
ERest == IF task = "rat" THEN <<>> ELSE rest

E == INSTANCE UnitPropProofs WITH pc <- EPc, stage <- EStage, goal <- EGoal, rest <- ERest

-----------------------------------------------------------------------------
(* The inductive invariant.                                                *)

Groups == [clause : names, hints : Seq(names)]

RatTyped ==
  /\ task \in {"none", "begin", "rup", "rats", "rat", "resolve"}
  /\ lemma \in Seq(Literals) /\ pivot \in Lits /\ witness \subseteq Literals
  /\ groups \in Seq(Groups) /\ written \in Seq(Groups)
  /\ depth \in Nat /\ preRat \in Seq(names) /\ temp \in Seq(Lits)

(* Where the engine may be in which task.                                   *)
Tasks ==
  /\ pc = "idle" <=> task \in {"none", "begin"}
  /\ task \in {"none", "begin"} => groups = <<>>
  /\ task \in {"none", "begin", "rup", "rats"} => written = <<>> /\ temp = <<>> /\ ~closed
  /\ task \in {"none", "begin", "rup", "rats"} /\ pc # "write" => preRat = <<>>
  /\ task \in {"rup", "rats"} =>
       /\ pc \in {"hint", "units", "assume", "hints", "propagate", "prop", "visit",
                  "found", "stuck", "write"}
       /\ goal = lemma
  /\ task = "rats" =>
       /\ pc \in {"hint", "units", "assume", "hints", "found", "stuck", "write"}
       /\ Hinted
  /\ task = "rat" => pc \in {"resolvents", "write"}
  /\ task = "resolve" =>
       /\ \/ pc \in {"resolve", "hint", "assume", "hints", "propagate"} /\ stage = "hint"
          \/ pc \in {"prop", "visit", "stuck"} /\ stage = "root"
          \/ pc = "found" /\ stage \in {"hint", "root"}
       /\ goal = <<>> /\ (pc \notin {"resolve", "found"} => rest = <<>>)
       /\ resolvent \in names

(* What is known of the lemma when RAT steps are tried.                      *)
Open ==
  /\ pc \in {"assume", "hints", "prop", "visit", "stuck", "resolvents", "resolve"}
       \/ task = "resolve" => unitsProcessed
  /\ task = "rats" \/ (task \in {"rat", "resolve"} /\ pc # "write" /\ ~closed) => ~Rup(lemma)
  /\ closed => firstHyp <= firstUnprocessed
  /\ closed /\ AtRoot => /\ pc \in {"prop", "stuck"}
                         /\ \A m \in BOOLEAN : unprocessed[m] = Len(truStack)
  /\ task = "rup" /\ pc = "stuck" => firstUnprocessed = Len(truStack)

(* The literals of the lemma are assumed false.                             *)
Denied ==
  task \in {"rup", "rats"} =>
    /\ pc = "assume" \/ (pc = "units" /\ Hinted) =>
         \A l \in Range(lemma) : l \in Range(rest) \/ IsFalse(l)
    /\ pc = "hints" \/ (pc = "stuck" /\ Hinted)
         \/ (pc \in {"prop", "visit", "stuck"} /\ stage = "goal") =>
       \A l \in Range(lemma) : IsFalse(l)
    /\ pc = "stuck" /\ stage = "root" => lemma = <<>>

(* The part of the trail that the resolvents share.                         *)
Shared == {truStack[n] : n \in 1..depth}

(* Before the first resolvent, the hint makes the marked shared literals      *)
(* hold.                                                                   *)
Started == ReplayFrom(Negated(lemma), preRat) = Begun(Negated(lemma) \union Range(temp))

(* Whoever holds them and the resolvent false finds the conflict with the     *)
(* hints of g.                                                             *)
Refuting(g) ==
  \A A \in SUBSET Lits :
    /\ Coherent(A)
    /\ Negated(lemma) \union Range(temp) \subseteq A
    /\ {-l : l \in Reduced(witness, clauses[g.clause])} \subseteq A
    => ReplayFrom(A, g.hints).proved

Sharing ==
  /\ depth <= Len(truStack) /\ firstHyp <= depth
  /\ \A n \in 1..depth : ~UnsatAt(n)
  /\ Negated(lemma) \subseteq Shared
  /\ \A n \in 1..depth : reasons[truStack[n]] = None => truStack[n] \in Negated(lemma)
  /\ Range(temp) \subseteq Shared
  /\ Started
  /\ \A g \in Range(written) : Refuting(g)

Holding ==
  pc = "resolvents" \/ (task = "resolve" /\ ~AtRoot) =>
    Sharing /\ (pc = "resolvents" => depth = Len(truStack))

LInv == E!IInv /\ RatTyped /\ Tasks /\ Open /\ Denied /\ Holding /\ HintsAccepted
RInv == pc = "panic" \/ LInv

-----------------------------------------------------------------------------
LEMMA Constants ==
  /\ NumVars \in Nat /\ MaxHints \in Nat /\ None \notin Ids
  /\ Inputs \union Goals \subseteq {c \in Seq(E!Lits \ {0}) : E!IsInjective(c)}
  BY Sizes, NoneIsNoId, InputsAreClauses DEF E!Lits, Lits, E!IsInjective, IsInjective

LEMMA SameContext ==
  /\ E!TypedContext <=> TypedContext
  /\ E!TypedTrail <=> TypedTrail
  /\ E!Lists <=> Lists
  /\ E!Lits = Lits /\ E!Literals = Literals
  /\ \A s : E!Range(s) = Range(s)
<1>1. E!Lits = Lits /\ E!Literals = Literals /\ \A s : E!Range(s) = Range(s)
  BY DEF E!Lits, Lits, E!Literals, Literals, E!Range, Range
<1>2. E!TypedContext <=> TypedContext
  BY DEF E!TypedContext, TypedContext, E!Literals, Literals, E!Watches, Watches, E!Lits, Lits,
         E!IsInjective, IsInjective
<1>3. E!Lists <=> Lists
  BY DEF E!Lists, Lists, E!AllOnce, AllOnce, E!Lits, Lits, E!IsInjective, IsInjective,
         E!Watchers, Watchers, E!Range, Range
<1>4. E!TypedTrail <=> TypedTrail
  BY DEF E!TypedTrail, TypedTrail, E!Lits, Lits, E!IsInjective, IsInjective
<1> QED  BY <1>1, <1>2, <1>3, <1>4

LEMMA SameTruth ==
  /\ E!Unsat <=> Unsat
  /\ \A n : E!UnsatAt(n) <=> UnsatAt(n)
  /\ \A l : (E!IsTrue(l) <=> IsTrue(l)) /\ (E!IsFalse(l) <=> IsFalse(l))
  /\ E!ConflictLast <=> ConflictLast
  /\ \A n : E!Forced(n) <=> Forced(n)
  /\ \A c : E!UnitLit(c) = UnitLit(c)
<1>1. \A n : E!UnsatAt(n) <=> UnsatAt(n)  BY DEF E!UnsatAt, UnsatAt
<1>2. E!Unsat <=> Unsat  BY <1>1 DEF E!Unsat, Unsat
<1>3. \A l : (E!IsTrue(l) <=> IsTrue(l)) /\ (E!IsFalse(l) <=> IsFalse(l))
  BY DEF E!IsTrue, IsTrue, E!IsFalse, IsFalse, E!Range, Range
<1>4. E!ConflictLast <=> ConflictLast  BY <1>1 DEF E!ConflictLast, ConflictLast
<1>5. \A c : E!UnitLit(c) = UnitLit(c)  BY DEF E!UnitLit, UnitLit
<1>6. \A n : E!Forced(n) <=> Forced(n)  BY <1>5 DEF E!Forced, Forced
<1> QED  BY <1>1, <1>2, <1>3, <1>4, <1>5, <1>6

LEMMA SameGoal ==
  /\ \A c : (E!Rup(c) <=> Rup(c)) /\ E!Negated(c) = Negated(c)
  /\ \A c : E!Tautology(c) <=> Tautology(c)
  /\ \A A : E!Refuted(A) <=> Refuted(A)
<1>1. \A c : E!Negated(c) = Negated(c)  BY DEF E!Negated, Negated, E!Range, Range
<1>2. \A A : E!Refuted(A) <=> Refuted(A)
  BY DEF E!Refuted, Refuted, E!Range, Range, E!Lits, Lits, E!Cardinality, Cardinality
<1>3. \A c : E!Rup(c) <=> Rup(c)  BY <1>1, <1>2 DEF E!Rup, Rup
<1>4. \A c : E!Tautology(c) <=> Tautology(c)  BY DEF E!Tautology, Tautology, E!Range, Range
<1> QED  BY <1>1, <1>2, <1>3, <1>4

LEMMA SameHint ==
  /\ E!FinalHint = FinalHint
  /\ \A c, h : E!Replay(c, h) = Replay(c, h)
<1>1. \A l, o : E!Mark(l, o) = Mark(l, o)
  BY DEF E!Mark, Mark, E!MarkOne, MarkOne, E!MarkEach, MarkEach, E!Listed, Listed, E!Marked, Marked,
     E!Others, Others, E!Lits, Lits, E!Outs, Outs, E!Range, Range
<1>2. E!FinalHint = FinalHint  BY <1>1 DEF E!FinalHint, FinalHint, E!NoHint, NoHint
<1>3. \A c, h : E!Replay(c, h) = Replay(c, h)
  BY DEF E!Replay, Replay, E!ReplayFrom, ReplayFrom, E!Use, Use, E!Negated, Negated, E!Range, Range,
     E!Cardinality, Cardinality
<1> QED  BY <1>2, <1>3

-----------------------------------------------------------------------------
(* The engine's actions are the same.                                       *)

LEMMA SameMoves ==
  ASSUME EPc = pc, EPc' = pc', UNCHANGED <<EStage, EGoal, ERest>>
  PROVE  /\ UseHint => E!UseHint
         /\ NextPropLit => E!NextPropLit
         /\ Visit => E!Visit
<1>1. UseHint => E!UseHint
  <2>1. /\ \A c : E!HintLit(c) = HintLit(c)
        /\ \A S : E!Cardinality(S) = Cardinality(S)
        /\ \A S : E!Range(S) = Range(S)
        /\ \A l : E!IsTrue(l) <=> IsTrue(l)
        /\ \A c : E!UnitLit(c) = UnitLit(c)
    BY DEF HintLit, E!HintLit, IsTrue, E!IsTrue, IsFalse, E!IsFalse, Range, E!Range,
           Cardinality, E!Cardinality, UnitLit, E!UnitLit
  <2>2. \A s, m, n : E!Swap(s, m, n) = Swap(s, m, n)  BY DEF Swap, E!Swap
  <2>3. \A w, m, l, i : E!WatchAdd(w, m, l, i) = WatchAdd(w, m, l, i)
    BY DEF WatchAdd, E!WatchAdd
  <2>4. \A w, m, l, i : E!WatchDel(w, m, l, i) = WatchDel(w, m, l, i)
    BY DEF WatchDel, E!WatchDel, SwapRemove, E!SwapRemove
  <2>5. \A l, r : Assign(l, r) => E!Assign(l, r)  BY <2>1 DEF Assign, E!Assign
  <2> SUFFICES ASSUME UseHint PROVE E!UseHint  OBVIOUS
  <2> DEFINE i == Head(hints)
             c == clauses[i]
             m == i \in marked
  <2>6. /\ pc = "hints" /\ hints # <<>> /\ hints' = Tail(hints)
        /\ UNCHANGED <<stage, goal, rest, unprocessed, cur, root>>
    BY DEF UseHint
  <2>7. \/ /\ \E l \in Range(c) : IsTrue(l)
           /\ UNCHANGED <<context, va, pc, conflict, queue, progress>>
        \/ /\ \A l \in Range(c) : ~IsTrue(l)
           /\ Cardinality(HintLit(c)) > 1
           /\ queue' = Append(queue, i)
           /\ UNCHANGED <<context, va, pc, conflict, progress>>
        \/ /\ \A l \in Range(c) : ~IsTrue(l)
           /\ \E n \in HintLit(c) :
              /\ HintLit(c) = {n}
              /\ clauses' = [clauses EXCEPT ![i] = Swap(c, 1, n)]
              /\ watch' = IF n > 2 THEN WatchAdd(WatchDel(watch, m, c[1], i), m, c[n], i)
                          ELSE watch
              /\ Assign(c[n], i)
           /\ progress' = TRUE
           /\ UNCHANGED <<names, marked, firstHyp, firstUnprocessed, unitsProcessed,
                          pc, conflict, queue>>
        \/ /\ HintLit(c) = {}
           /\ \A l \in Range(c) : ~IsTrue(l)
           /\ Assign(UnitLit(c), i)
           /\ conflict' = UnitLit(c)
           /\ pc' = "found"
           /\ UNCHANGED <<context, firstHyp, firstUnprocessed, unitsProcessed, queue, progress>>
    BY DEF UseHint
  <2>8. CASE /\ \E l \in Range(c) : IsTrue(l)
             /\ UNCHANGED <<context, va, pc, conflict, queue, progress>>
    BY <2>1, <2>6, <2>8 DEF E!UseHint, context, E!context, va, E!va
  <2>9. CASE /\ \A l \in Range(c) : ~IsTrue(l)
             /\ Cardinality(HintLit(c)) > 1
             /\ queue' = Append(queue, i)
             /\ UNCHANGED <<context, va, pc, conflict, progress>>
    BY <2>1, <2>6, <2>9 DEF E!UseHint, context, E!context, va, E!va
  <2>10. CASE /\ \A l \in Range(c) : ~IsTrue(l)
              /\ \E n \in HintLit(c) :
                 /\ HintLit(c) = {n}
                 /\ clauses' = [clauses EXCEPT ![i] = Swap(c, 1, n)]
                 /\ watch' = IF n > 2 THEN WatchAdd(WatchDel(watch, m, c[1], i), m, c[n], i)
                             ELSE watch
                 /\ Assign(c[n], i)
              /\ progress' = TRUE
              /\ UNCHANGED <<names, marked, firstHyp, firstUnprocessed, unitsProcessed,
                             pc, conflict, queue>>
    BY <2>1, <2>2, <2>3, <2>4, <2>5, <2>6, <2>10 DEF E!UseHint
  <2>11. CASE /\ HintLit(c) = {}
              /\ \A l \in Range(c) : ~IsTrue(l)
              /\ Assign(UnitLit(c), i)
              /\ conflict' = UnitLit(c)
              /\ pc' = "found"
              /\ UNCHANGED <<context, firstHyp, firstUnprocessed, unitsProcessed, queue, progress>>
    BY <2>1, <2>5, <2>6, <2>11 DEF E!UseHint, context, E!context
  <2> QED  BY <2>7, <2>8, <2>9, <2>10, <2>11
<1>2. NextPropLit => E!NextPropLit
  BY DEF NextPropLit, E!NextPropLit, context, E!context, va, E!va
<1>3. Visit => E!Visit
  BY DEF Visit, E!Visit, Replace, E!Replace, Imply, E!Imply, Swap, E!Swap, WatchAdd, E!WatchAdd,
         WatchDel, E!WatchDel, SwapRemove, E!SwapRemove, Assign, E!Assign,
         IsTrue, E!IsTrue, IsFalse, E!IsFalse, Range, E!Range, context, E!context, va, E!va
<1> QED  BY <1>1, <1>2, <1>3

LEMMA SameRun ==
  ASSUME EPc = pc, EPc' = pc', EStage = stage, EStage' = stage',
         EGoal = goal, EGoal' = goal', ERest = rest, ERest' = rest'
  PROVE  /\ StartHint => E!StartHint
         /\ Propagate => E!Propagate
         /\ ProcessUnits => E!ProcessUnits
         /\ Assume => E!Assume
         /\ PropDone => E!PropDone
<1>1. StartHint => E!StartHint
  BY DEF StartHint, E!StartHint, Unsat, E!Unsat, UnsatAt, E!UnsatAt, Found, E!Found,
         context, E!context, va, E!va
<1>2. Propagate => E!Propagate
  BY DEF Propagate, E!Propagate, Unsat, E!Unsat, UnsatAt, E!UnsatAt, Found, E!Found,
         ClearTo, E!ClearTo, Lits, E!Lits, context, E!context, va, E!va
<1>3. ProcessUnits => E!ProcessUnits
  BY DEF ProcessUnits, E!ProcessUnits, UnitClauses, E!UnitClauses, UnitLit, E!UnitLit,
         AddUnit, E!AddUnit, Assign, E!Assign, Hinted, E!Hinted,
         IsTrue, E!IsTrue, IsFalse, E!IsFalse, Range, E!Range, context, E!context
<1>4. Assume => E!Assume
  BY DEF Assume, E!Assume, Assign, E!Assign, Hinted, E!Hinted,
         IsTrue, E!IsTrue, IsFalse, E!IsFalse, Range, E!Range, context, E!context
<1>5. PropDone => E!PropDone
  BY DEF PropDone, E!PropDone, Unsat, E!Unsat, UnsatAt, E!UnsatAt, Found, E!Found,
         context, E!context, va, E!va
<1> QED  BY <1>1, <1>2, <1>3, <1>4, <1>5

LEMMA SameCalls ==
  ASSUME EPc = pc, EPc' = pc', EStage = stage, EStage' = stage',
         EGoal = goal, EGoal' = goal', ERest = rest, ERest' = rest',
         NEW i, NEW c, NEW m
  PROVE  /\ InsertClause(i, c, m) => E!InsertClause(i, c, m)
         /\ RemoveClause(i) => E!RemoveClause(i)
         /\ MarkClause(i) => E!MarkClause(i)
         /\ \A h : Step(c, h, m) => E!Step(c, h, m)
<1>1. InsertClause(i, c, m) => E!InsertClause(i, c, m)
  BY DEF InsertClause, E!InsertClause, Sorted, E!Sorted, Swap, E!Swap, IsUnit, E!IsUnit,
         Unsat, E!Unsat, UnsatAt, E!UnsatAt, AddUnit, E!AddUnit, UnitLit, E!UnitLit,
         Assign, E!Assign, WatchAdd, E!WatchAdd, IsTrue, E!IsTrue, IsFalse, E!IsFalse,
         Range, E!Range, Cardinality, E!Cardinality, control, E!control
<1>2. RemoveClause(i) => E!RemoveClause(i)
  BY DEF RemoveClause, E!RemoveClause, WatchDel, E!WatchDel, SwapRemove, E!SwapRemove,
         Unassign, E!Unassign, UnitLit, E!UnitLit, IsTrue, E!IsTrue, Range, E!Range,
         Lits, E!Lits, control, E!control, va, E!va
<1>3. MarkClause(i) => E!MarkClause(i)
  BY DEF MarkClause, E!MarkClause, WatchDel, E!WatchDel, SwapRemove, E!SwapRemove,
         WatchAdd, E!WatchAdd, control, E!control, va, E!va
<1>4. \A h : Step(c, h, m) => E!Step(c, h, m)
  BY DEF Step, E!Step, context, E!context, va, E!va
<1> QED  BY <1>1, <1>2, <1>3, <1>4

-----------------------------------------------------------------------------
(* What the engine's invariant says.                                        *)

LEMMA EFacts ==
  ASSUME E!IInv
  PROVE  /\ TypedContext /\ TypedTrail /\ Lists /\ ConflictLast /\ Grounded
         /\ \A n \in 1..Len(truStack) : reasons[truStack[n]] = None =>
              n > firstHyp /\ truStack[n] \in Negated(EGoal)
         /\ E!TypedControl /\ E!Stages /\ E!Consistently
         /\ EPc \in {"units", "assume", "hints", "prop", "visit", "stuck"} => ~Unsat
         /\ truStack \in Seq(Lits) /\ Len(truStack) \in Nat
         /\ firstHyp \in 0..Len(truStack) /\ firstUnprocessed \in 0..Len(truStack)
         /\ unprocessed \in [BOOLEAN -> Nat] /\ root \in BOOLEAN /\ conflict \in Lits
         /\ cur \in [class : BOOLEAN, lit : Lits, at : Nat \ {0}]
         /\ hints \in Seq(names) /\ queue \in Seq(names)
<1>1. /\ E!TypedContext /\ E!TypedTrail /\ E!Lists /\ E!ConflictLast /\ E!Derivation
      /\ E!TypedControl /\ E!Stages /\ E!Consistently
  BY DEF E!IInv, E!Typed, E!TrailInv
<1>2. TypedContext /\ TypedTrail /\ Lists /\ ConflictLast
  BY <1>1, SameContext, SameTruth
<1>3. \A n \in 1..Len(truStack) :
        /\ reasons[truStack[n]] = None => n > firstHyp /\ truStack[n] \in Negated(EGoal)
        /\ reasons[truStack[n]] # None => Forced(n)
  BY <1>1, SameTruth, SameGoal DEF E!Derivation, E!Hypothesis
<1>4. Grounded  BY <1>3 DEF Grounded
<1>5. EPc \in {"units", "assume", "hints", "prop", "visit", "stuck"} => ~Unsat
  BY <1>1, SameTruth DEF E!Consistently
<1>6. /\ truStack \in Seq(Lits) /\ Len(truStack) \in Nat
      /\ firstHyp \in 0..Len(truStack) /\ firstUnprocessed \in 0..Len(truStack)
  BY <1>2 DEF TypedTrail
<1>7. /\ unprocessed \in [BOOLEAN -> Nat] /\ root \in BOOLEAN /\ conflict \in Lits
      /\ cur \in [class : BOOLEAN, lit : Lits, at : Nat \ {0}]
      /\ hints \in Seq(names) /\ queue \in Seq(names)
  BY <1>1, SameContext DEF E!TypedControl
<1> QED  BY <1>1, <1>2, <1>3, <1>4, <1>5, <1>6, <1>7

LEMMA SameContextNext ==
  /\ E!TypedContext' <=> TypedContext'
  /\ E!TypedTrail' <=> TypedTrail'
  /\ E!Lists' <=> Lists'
<1> DEFINE F == /\ E!TypedContext <=> TypedContext
                /\ E!TypedTrail <=> TypedTrail
                /\ E!Lists <=> Lists
<1>1. F  BY SameContext
<1>2. F'  BY <1>1, PTL
<1> QED  BY <1>2

(* The engine is asked for more, or no hypothesis is on its trail.           *)
LEMMA Regoaled ==
  ASSUME E!IInv, UNCHANGED <<context, va>>,
         Range(EGoal) \subseteq Range(EGoal') \/ firstHyp = Len(truStack),
         E!TypedControl', E!Stages', E!Consistently'
  PROVE  E!IInv'
<1>1. /\ E!TypedTrail /\ E!TrailInv /\ TypedTrail
      /\ truStack \in Seq(Lits) /\ Len(truStack) \in Nat
      /\ firstHyp \in 0..Len(truStack)
  BY EFacts DEF E!IInv, E!Typed
<1>2. E!TypedContext' /\ E!Lists'
  BY Constants, E!Frame DEF context, E!context
<1>3. E!TypedTrail'
  <2>1. TypedTrail'  BY <1>1 DEF TypedTrail, va
  <2> QED  BY <2>1, SameContextNext
<1>4. E!KeepsTo(Len(truStack))
  <2>1. ASSUME NEW k \in 1..Len(truStack), reasons[truStack[k]] = None
        PROVE  k > firstHyp /\ truStack[k] \in E!Negated(EGoal')
    <3>1. k > firstHyp /\ truStack[k] \in Negated(EGoal)  BY <2>1, EFacts
    <3>2. k <= Len(truStack) /\ firstHyp # Len(truStack)  BY <1>1, <3>1
    <3>3. Range(EGoal) \subseteq Range(EGoal')  BY <3>2
    <3>4. truStack[k] \in Negated(EGoal')  BY <3>1, <3>3 DEF Negated
    <3> QED  BY <3>1, <3>4, SameGoal
  <2>2. ASSUME NEW k \in 1..Len(truStack), reasons[truStack[k]] # None
        PROVE  reasons[truStack[k]] \in names
    BY <2>2, EFacts DEF Grounded, Forced
  <2>3. Len(truStack) \in 0..Len(truStack)  BY <1>1
  <2>4. truStack' \in Seq(E!Lits)  BY <1>1, SameContext DEF va
  <2>5. UNCHANGED <<truStack, reasons, firstHyp, names, clauses>>  BY DEF va, context
  <2> QED  BY <2>1, <2>2, <2>3, <2>4, <2>5 DEF E!KeepsTo, E!Negated
<1>5. E!TrailInv'
  <2>1. Len(truStack') = Len(truStack)  BY DEF va
  <2> QED  BY <1>1, <1>4, <2>1, Constants, E!TrailStep
<1> QED  BY <1>2, <1>3, <1>5 DEF E!IInv, E!Typed

(* The engine is left as it is.                                             *)
LEMMA Untroubled ==
  ASSUME E!IInv, UNCHANGED <<context, va, unprocessed, cur, root, conflict, hints, queue, progress>>,
         UNCHANGED <<EPc, EStage, EGoal, ERest>>
  PROVE  E!IInv'
<1>1. UNCHANGED E!vars
  BY DEF context, va, E!vars, E!context, E!va, E!control
<1> QED  BY <1>1, Constants, E!NextInv

-----------------------------------------------------------------------------
(* The lemma and the resolvent together are a clause.                        *)

Arrangeable ==
  TypedContext /\ RatTyped /\ resolvent \in names =>
    Arranged(Both) \in Seq(Literals) /\ Range(Arranged(Both)) = Both

LEMMA ArrangedBoth == Arrangeable
<1> SUFFICES ASSUME TypedContext, RatTyped, resolvent \in names
             PROVE  Arranged(Both) \in Seq(Literals) /\ Range(Arranged(Both)) = Both
  BY DEF Arrangeable
<1> DEFINE c == clauses[resolvent]
           T == {l \in Range(c) : -l \notin witness}
           s == lemma \o Keep(c, T)
<1>1. c \in Seq(Literals) /\ lemma \in Seq(Literals)  BY DEF TypedContext, RatTyped
<1>2. Keep(c, T) \in Seq(Literals) /\ Range(Keep(c, T)) = Range(c) \intersect T
  <2> HIDE DEF c, T
  <2> QED  BY <1>1, KeepFacts
<1>3. Range(c) \intersect T = Reduced(witness, c)  BY DEF Reduced
<1> DEFINE r == Keep(c, T)
<1> HIDE DEF r
<1>4. s \in Seq(Literals) /\ Range(s) = Range(lemma) \union Range(r)
  <2>1. s = lemma \o r  BY DEF r
  <2>2. r \in Seq(Literals)  BY <1>2 DEF r
  <2> HIDE DEF s
  <2>3. /\ s \in Seq(Literals) /\ Len(s) = Len(lemma) + Len(r)
        /\ \A k \in 1..Len(lemma) : s[k] = lemma[k]
        /\ \A k \in 1..Len(r) : s[Len(lemma) + k] = r[k]
    BY <1>1, <2>1, <2>2
  <2>4. Len(lemma) \in Nat /\ Len(r) \in Nat  BY <1>1, <2>2
  <2>5. ASSUME NEW x PROVE x \in Range(s) <=> x \in Range(lemma) \/ x \in Range(r)
    <3>1. x \in Range(s) <=> \E k \in 1..Len(s) : s[k] = x  BY <2>3, InRange
    <3>2. x \in Range(lemma) <=> \E k \in 1..Len(lemma) : lemma[k] = x  BY <1>1, InRange
    <3>3. x \in Range(r) <=> \E k \in 1..Len(r) : r[k] = x  BY <2>2, InRange
    <3>4. \A k \in 1..Len(lemma) : k \in 1..Len(s)  BY <2>3, <2>4
    <3>5. \A k \in 1..Len(r) : Len(lemma) + k \in 1..Len(s)  BY <2>3, <2>4
    <3>6. \A k \in 1..Len(s) : k \in 1..Len(lemma) \/ (k - Len(lemma) \in 1..Len(r)
                                                     /\ Len(lemma) + (k - Len(lemma)) = k)
      BY <2>3, <2>4
    <3> QED  BY <2>3, <3>1, <3>2, <3>3, <3>4, <3>5, <3>6
  <2> QED  BY <2>3, <2>5
<1>5. s \in Seq(Literals) /\ Range(s) = Both  BY <1>2, <1>3, <1>4 DEF Both, r
<1> HIDE DEF s
<1> QED  BY <1>5 DEF Arranged

LEMMA ReductIs ==
  ASSUME NEW c \in Seq(Literals), NEW w
  PROVE  Reduct(w, c) \in Seq(Literals) /\ Range(Reduct(w, c)) = Reduced(w, c)
<1> DEFINE T == {l \in Range(c) : -l \notin w}
<1>1. Keep(c, T) \in Seq(Literals) /\ Range(Keep(c, T)) = Range(c) \intersect T
  <2> HIDE DEF T
  <2> QED  BY KeepFacts
<1>2. Range(c) \intersect T = Reduced(w, c)  BY DEF Reduced
<1> QED  BY <1>1, <1>2 DEF Reduct

-----------------------------------------------------------------------------
(* Between steps.                                                          *)

AtRest ==
  /\ task \in {"none", "begin"} /\ pc = "idle"
  /\ groups = <<>> /\ written = <<>> /\ temp = <<>> /\ ~closed /\ preRat = <<>>
  /\ lemma \in Seq(Literals) /\ pivot \in Lits /\ witness \subseteq Literals /\ depth \in Nat

RestHolds == AtRest => RatTyped /\ Tasks /\ Open /\ Denied /\ Holding /\ HintsAccepted

LEMMA Resting == RestHolds
<1> SUFFICES ASSUME AtRest PROVE RatTyped /\ Tasks /\ Open /\ Denied /\ Holding /\ HintsAccepted
  BY DEF RestHolds
<1>1. RatTyped
  <2>1. <<>> \in Seq(Groups) /\ <<>> \in Seq(names) /\ <<>> \in Seq(Lits)  OBVIOUS
  <2> QED  BY <2>1 DEF AtRest, RatTyped
<1>2. Tasks  BY DEF AtRest, Tasks
<1>3. Open  BY DEF AtRest, Open, AtRoot
<1>4. Denied  BY DEF AtRest, Denied
<1>5. Holding  BY DEF AtRest, Holding
<1>6. HintsAccepted  BY DEF AtRest, HintsAccepted
<1> QED  BY <1>1, <1>2, <1>3, <1>4, <1>5, <1>6

LEMMA RestNext ==
  ASSUME AtRest' PROVE RatTyped' /\ Tasks' /\ Open' /\ Denied' /\ Holding' /\ HintsAccepted'
<1>1. RestHolds'  BY Resting, PTL
<1> QED  BY <1>1 DEF RestHolds

LEMMA AtRestNow ==
  ASSUME LInv, task \in {"none", "begin"} \/ pc = "idle"
  PROVE  AtRest
  BY DEF LInv, RatTyped, Tasks, AtRest

(* The tasks in which the engine is seen as it is.                           *)
Plainly == task \in {"none", "begin", "rup", "rats"} /\ pc # "write" /\ ~(task = "rats" /\ pc = "stuck")
           /\ pc \notin {"resolvents", "resolve"}
PlainIs == Plainly => EPc = pc /\ EStage = stage /\ EGoal = goal /\ ERest = rest

LEMMA PlainView == PlainIs
  BY DEF PlainIs, Plainly, EPc, EStage, EGoal, ERest, AtRoot

LEMMA PlainViewNext ==
  ASSUME Plainly' PROVE EPc' = pc' /\ EStage' = stage' /\ EGoal' = goal' /\ ERest' = rest'
<1>1. PlainIs'  BY PlainView, PTL
<1> QED  BY <1>1 DEF PlainIs

LEMMA RatInitInv == RatInit => LInv
<1> SUFFICES ASSUME RatInit PROVE LInv  OBVIOUS
<1>1. AtRest
  <2>1. <<>> \in Seq(Literals) /\ 0 \in Lits  BY Sizes DEF Lits
  <2> QED  BY <2>1 DEF RatInit, Init, AtRest
<1>2. Plainly  BY DEF RatInit, Init, Plainly
<1>3. E!Init
  <2>1. EPc = pc /\ EStage = stage /\ EGoal = goal /\ ERest = rest
    BY <1>2, PlainView DEF PlainIs
  <2> QED  BY <2>1 DEF RatInit, Init, E!Init, Lits, E!Lits
<1>4. E!IInv  BY <1>3, Constants, E!InitInv
<1> QED  BY <1>1, <1>4, Resting DEF LInv, RestHolds

LEMMA InsertL ==
  ASSUME LInv, NEW i \in Ids, Insert(i)
  PROVE  LInv'
<1>1. /\ task = "none" /\ InsertClause(i, Clauses[i], Clauses[i] = <<>>)
      /\ UNCHANGED step
  BY DEF Insert
<1>2. AtRest  BY <1>1, AtRestNow
<1>3. pc' = "idle"  BY <1>1, <1>2 DEF InsertClause, AtRest
<1>4. AtRest'  BY <1>1, <1>2, <1>3 DEF AtRest, step
<1>5. Plainly /\ Plainly'  BY <1>1, <1>2, <1>3 DEF Plainly, AtRest, step
<1>6. /\ EPc = pc /\ EStage = stage /\ EGoal = goal /\ ERest = rest
      /\ EPc' = pc' /\ EStage' = stage' /\ EGoal' = goal' /\ ERest' = rest'
  BY <1>5, PlainView, PlainViewNext DEF PlainIs
<1>7. E!InsertClause(i, Clauses[i], Clauses[i] = <<>>)  BY <1>1, <1>6, SameCalls
<1>8. E!IInv'
  <2>1. Clauses[i] \in Inputs /\ (Clauses[i] = <<>>) \in BOOLEAN  BY ClausesAreInputs
  <2>2. E!IInv  BY DEF LInv
  <2>3. \A m \in BOOLEAN : E!InsertClause(i, Clauses[i], m) => E!IInv'
    BY <2>1, <2>2, Constants, E!InsertInv
  <2> QED  BY <1>7, <2>1, <2>3
<1> QED  BY <1>4, <1>8, RestNext DEF LInv

LEMMA NeedL ==
  ASSUME LInv, NEW i \in Ids, Need(i)
  PROVE  LInv'
<1>1. task = "none" /\ MarkClause(i) /\ UNCHANGED step  BY DEF Need
<1>2. AtRest  BY <1>1, AtRestNow
<1>3. pc' = "idle"  BY <1>1, <1>2 DEF MarkClause, AtRest
<1>4. AtRest'  BY <1>1, <1>2, <1>3 DEF AtRest, step
<1>5. Plainly /\ Plainly'  BY <1>1, <1>2, <1>3 DEF Plainly, AtRest, step
<1>6. /\ EPc = pc /\ EStage = stage /\ EGoal = goal /\ ERest = rest
      /\ EPc' = pc' /\ EStage' = stage' /\ EGoal' = goal' /\ ERest' = rest'
  BY <1>5, PlainView, PlainViewNext DEF PlainIs
<1>7. E!MarkClause(i)  BY <1>1, <1>6, SameCalls
<1>8. E!IInv'
  <2>1. E!IInv  BY DEF LInv
  <2> QED  BY <1>7, <2>1, Constants, E!MarkInv
<1> QED  BY <1>4, <1>8, RestNext DEF LInv

LEMMA TakeL ==
  ASSUME LInv, NEW i \in Ids, Take(i)
  PROVE  LInv'
<1>1. /\ task = "none" /\ RemoveClause(i)
      /\ (task' = "begin" /\ lemma' = clauses[i]) \/ UNCHANGED <<task, lemma>>
      /\ UNCHANGED <<pivot, witness, groups, depth, closed, preRat, written, temp>>
  BY DEF Take
<1>2. AtRest  BY <1>1, AtRestNow
<1>3. pc' = "idle"  BY <1>1, <1>2 DEF RemoveClause, AtRest
<1>4. AtRest'
  <2>1. TypedContext  BY EFacts DEF LInv
  <2>2. lemma' \in Seq(Literals)  BY <1>1, <1>2, <2>1 DEF TypedContext, AtRest
  <2>3. task' \in {"none", "begin"}  BY <1>1
  <2> QED  BY <1>1, <1>2, <1>3, <2>2, <2>3 DEF AtRest
<1>5. Plainly /\ Plainly'  BY <1>1, <1>2, <1>3 DEF Plainly, AtRest
<1>6. /\ EPc = pc /\ EStage = stage /\ EGoal = goal /\ ERest = rest
      /\ EPc' = pc' /\ EStage' = stage' /\ EGoal' = goal' /\ ERest' = rest'
  BY <1>5, PlainView, PlainViewNext DEF PlainIs
<1>7. E!RemoveClause(i)  BY <1>1, <1>6, SameCalls
<1>8. E!IInv'
  <2>1. E!IInv  BY DEF LInv
  <2> QED  BY <1>7, <2>1, Constants, E!RemoveInv
<1> QED  BY <1>4, <1>8, RestNext DEF LInv

-----------------------------------------------------------------------------
(* A step begins.                                                          *)

LEMMA ValidStepsAre ==
  ASSUME NEW c \in Seq(Literals), NEW s \in ValidSteps(c)
  PROVE  s[1] \in Lits /\ s[2] \subseteq Literals
<1>1. /\ s \in (IF c = <<>> THEN {0} ELSE Range(c)) \X (Witnesses \union {{}})
  BY DEF ValidSteps
<1>2. 0 \in Lits /\ Literals \subseteq Lits  BY Sizes DEF Lits, Literals
<1>3. Range(c) \subseteq Literals  BY InRange
<1>4. s[1] \in {0} \union Range(c) /\ s[2] \in Witnesses \union {{}}  BY <1>1
<1>5. \A w \in Witnesses : w \subseteq Literals  BY WitnessesAreLits DEF Literals
<1> QED  BY <1>2, <1>3, <1>4, <1>5

LEMMA RatHintsAre ==
  ASSUME NEW rats \in RatHints
  PROVE  rats \in Seq(Groups)
<1>1. PICK n \in 0..MaxRats :
        rats \in [1..n -> {[clause |-> i, hints |-> h] : i \in names, h \in HintLists}]
  BY DEF RatHints
<1>2. {[clause |-> i, hints |-> h] : i \in names, h \in HintLists} \subseteq Groups
  BY HintSeqs DEF Groups
<1>3. n \in Nat  BY Bounds
<1>4. rats \in [1..n -> Groups]  BY <1>1, <1>2
<1> QED  BY <1>3, <1>4

LEMMA BeginL ==
  ASSUME LInv, task = "begin", NEW p \in Lits, NEW w \in SUBSET Literals,
         NEW h \in Seq(names), NEW hinted \in BOOLEAN, NEW rats \in Seq(Groups),
         rats # <<>> => hinted /\ ~Rup(lemma),
         Begin(p, w, h, hinted, rats)
  PROVE  LInv'
<1>1. AtRest  BY AtRestNow
<1>2. /\ Step(lemma, h, hinted)
      /\ task' = IF rats = <<>> THEN "rup" ELSE "rats"
      /\ pivot' = p /\ witness' = w /\ groups' = rats
      /\ UNCHANGED <<cache, lemma, depth, closed, unseen, resolvent, given, preRat, written, temp>>
  BY DEF Begin
<1>3. /\ pc = "idle" /\ goal' = lemma
      /\ pc' = IF hinted THEN "hint" ELSE "propagate"
      /\ stage' = IF h = <<>> THEN "empty" ELSE "hint"
      /\ UNCHANGED <<names, clauses>>
  BY <1>2 DEF Step, context
<1>4. Plainly /\ Plainly'  BY <1>1, <1>2, <1>3 DEF Plainly, AtRest
<1>5. /\ EPc = pc /\ EStage = stage /\ EGoal = goal /\ ERest = rest
      /\ EPc' = pc' /\ EStage' = stage' /\ EGoal' = goal' /\ ERest' = rest'
  BY <1>4, PlainView, PlainViewNext DEF PlainIs
<1>6. E!Step(lemma, h, hinted)  BY <1>2, <1>5, SameCalls
<1>7. lemma \in Seq(Literals)  BY <1>1 DEF AtRest
<1>8. E!IInv /\ TypedContext  BY EFacts DEF LInv
<1>9. E!IInv'
  <2>1. lemma \in Seq(E!Literals)  BY <1>7, SameContext
  <2> QED  BY <1>6, <1>8, <2>1, Constants, E!StepInv
<1>10. TypedContext'  BY <1>9, SameContextNext DEF E!IInv, E!Typed
<1>11. RatTyped'
  <2>1. Groups' = Groups  BY <1>3 DEF Groups
  <2>2. preRat' \in Seq(names') /\ written' \in Seq(Groups') /\ temp' \in Seq(Lits)
    <3>1. <<>> \in Seq(names') /\ <<>> \in Seq(Groups') /\ <<>> \in Seq(Lits)  OBVIOUS
    <3> QED  BY <1>1, <1>2, <3>1 DEF AtRest
  <2> QED  BY <1>1, <1>2, <1>7, <2>1, <2>2 DEF RatTyped, AtRest
<1>12. Tasks'  BY <1>1, <1>2, <1>3 DEF Tasks, AtRest, Hinted
<1>13. Open'
  <2>1. Permuted  BY <1>3 DEF Permuted
  <2>2. Rup(lemma)' <=> Rup(lemma)  BY <1>2, <1>8, <1>10, <2>1, SameRup
  <2> QED  BY <1>1, <1>2, <1>3, <2>2 DEF Open, AtRest, AtRoot
<1>14. Denied'  BY <1>2, <1>3 DEF Denied
<1>15. Holding'  BY <1>2, <1>3 DEF Holding
<1>16. HintsAccepted'  BY <1>3 DEF HintsAccepted
<1> QED  BY <1>9, <1>11, <1>12, <1>13, <1>14, <1>15, <1>16 DEF LInv

LEMMA BeginStepL == ASSUME LInv, BeginStep PROVE LInv'
<1>1. task = "begin" /\ lemma \in Seq(Literals)  BY DEF BeginStep, LInv, RatTyped
<1>2. PICK s \in ValidSteps(lemma) :
        \/ Begin(s[1], s[2], <<>>, FALSE, <<>>)
        \/ \E rats \in (IF Rup(lemma) THEN {<<>>} ELSE RatHints), h \in HintLists :
             Begin(s[1], s[2], h, TRUE, rats)
  BY DEF BeginStep
<1>3. s[1] \in Lits /\ s[2] \in SUBSET Literals  BY <1>1, ValidStepsAre
<1> DEFINE p == s[1]
           w == s[2]
<1> HIDE DEF p, w
<1>4. CASE Begin(p, w, <<>>, FALSE, <<>>)
  <2>1. <<>> \in Seq(names) /\ <<>> \in Seq(Groups)  OBVIOUS
  <2>2. ~(<<>> # <<>>)  OBVIOUS
  <2> QED  BY <1>1, <1>3, <1>4, <2>1, BeginL DEF p, w
<1>5. ASSUME NEW rats \in (IF Rup(lemma) THEN {<<>>} ELSE RatHints), NEW h \in HintLists,
             Begin(p, w, h, TRUE, rats)
      PROVE  LInv'
  <2>1. h \in Seq(names)  BY HintSeqs
  <2>2. rats \in Seq(Groups)
    <3>1. <<>> \in Seq(Groups)  OBVIOUS
    <3> QED  BY <3>1, RatHintsAre
  <2>3. rats # <<>> => ~Rup(lemma)  OBVIOUS
  <2> QED  BY <1>1, <1>3, <1>5, <2>1, <2>2, <2>3, BeginL DEF p, w
<1> QED  BY <1>2, <1>4, <1>5 DEF p, w

-----------------------------------------------------------------------------
(* The engine at work for the clause of the step.                           *)

LEMMA StillTrue ==
  ASSUME TypedTrail, truStack' \in Seq(Lits), Longer
  PROVE  \A l : IsTrue(l) => l \in Range(truStack')
<1> SUFFICES ASSUME NEW l, IsTrue(l) PROVE l \in Range(truStack')  OBVIOUS
<1>1. PICK k \in 1..Len(truStack) : truStack[k] = l  BY OnTrail DEF TypedTrail
<1>2. Len(truStack) \in Nat /\ Len(truStack') \in Nat  BY DEF TypedTrail
<1>3. k \in 1..Len(truStack') /\ truStack'[k] = l  BY <1>1, <1>2 DEF Longer
<1> QED  BY <1>3, InRange

(* At work, before RAT is tried.                                           *)
LEMMA Working ==
  ASSUME LInv, task \in {"rup", "rats"}, pc # "write", UNCHANGED step,
         names' = names, goal' = goal,
         pc' \in {"hint", "units", "assume", "hints", "propagate", "prop", "visit", "found", "stuck"},
         task = "rats" => pc' \in {"hint", "units", "assume", "hints", "found"} /\ Hinted'
  PROVE  RatTyped' /\ Tasks' /\ Holding' /\ HintsAccepted' /\ Plainly'
<1>1. UNCHANGED <<task, lemma, pivot, witness, groups, depth, closed, unseen, resolvent, given,
                  preRat, written, temp>>
  BY DEF step
<1>2. Groups' = Groups  BY DEF Groups
<1>3. RatTyped'  BY <1>1, <1>2 DEF LInv, RatTyped
<1>4. Tasks'  BY <1>1 DEF LInv, Tasks
<1>5. Holding'  BY <1>1 DEF Holding
<1>6. HintsAccepted'  BY DEF HintsAccepted
<1>7. Plainly'  BY <1>1 DEF Plainly
<1> QED  BY <1>3, <1>4, <1>5, <1>6, <1>7

(* What to show of an action of the engine.                                 *)
LEMMA PlainStep ==
  ASSUME LInv, task \in {"rup", "rats"}, pc # "write", UNCHANGED step,
         names' = names, goal' = goal,
         pc' \in {"hint", "units", "assume", "hints", "propagate", "prop", "visit", "found", "stuck"},
         task = "rats" => pc' \in {"hint", "units", "assume", "hints", "found"} /\ Hinted',
         pc \in {"hint", "units", "assume", "hints", "propagate", "prop", "visit"}
  PROVE  /\ EPc = pc /\ EStage = stage /\ EGoal = goal /\ ERest = rest
         /\ EPc' = pc' /\ EStage' = stage' /\ EGoal' = goal' /\ ERest' = rest'
         /\ /\ E!IInv' /\ Permuted /\ Denied'
            /\ pc' \in {"assume", "hints", "prop", "visit", "stuck"} => unitsProcessed'
            /\ task = "rup" /\ pc' = "stuck" => firstUnprocessed' = Len(truStack')
            => LInv'
<1>1. RatTyped' /\ Tasks' /\ Holding' /\ HintsAccepted' /\ Plainly'  BY Working
<1>2. Plainly  BY DEF Plainly
<1>3. /\ EPc = pc /\ EStage = stage /\ EGoal = goal /\ ERest = rest
      /\ EPc' = pc' /\ EStage' = stage' /\ EGoal' = goal' /\ ERest' = rest'
  BY <1>1, <1>2, PlainView, PlainViewNext DEF PlainIs
<1>4. ASSUME E!IInv', Permuted,
             pc' \in {"assume", "hints", "prop", "visit", "stuck"} => unitsProcessed',
             task = "rup" /\ pc' = "stuck" => firstUnprocessed' = Len(truStack'),
             Denied'
      PROVE  LInv'
  <2>1. task' = task /\ lemma' = lemma /\ closed' = closed  BY DEF step
  <2>2. TypedContext  BY EFacts DEF LInv
  <2>3. TypedContext'  BY <1>4, SameContextNext DEF E!IInv, E!Typed
  <2>4. Rup(lemma)' <=> Rup(lemma)  BY <1>4, <2>1, <2>2, <2>3, SameRup
  <2>5. ~closed  BY DEF LInv, Tasks
  <2>6. task = "rats" => ~Rup(lemma)  BY DEF LInv, Open
  <2>7. Open'  BY <1>4, <2>1, <2>4, <2>5, <2>6 DEF Open
  <2> QED  BY <1>1, <1>4, <2>7 DEF LInv
<1> QED  BY <1>3, <1>4

LEMMA PlainPlaces ==
  ASSUME LInv, task \in {"rup", "rats"}
  PROVE  /\ goal = lemma /\ (task = "rats" => Hinted)
         /\ pc \in {"propagate", "prop", "visit"} => task = "rup"
         /\ pc \in {"prop", "visit", "stuck"} /\ pc # "write" /\ task = "rup" => ~Hinted
         /\ E!IInv /\ TypedTrail /\ TypedContext /\ lemma \in Seq(Literals) /\ ~closed
<1>1. E!IInv /\ TypedTrail /\ TypedContext /\ E!Stages  BY EFacts DEF LInv
<1>2. /\ goal = lemma /\ (task = "rats" => Hinted) /\ ~closed
      /\ pc \in {"propagate", "prop", "visit"} => task = "rup"
  BY DEF LInv, Tasks
<1>3. ASSUME pc \in {"prop", "visit", "stuck"}, task = "rup" PROVE ~Hinted
  <2>1. EPc = pc /\ EStage = stage  BY <1>3 DEF EPc, EStage
  <2> QED  BY <1>1, <1>3, <2>1 DEF E!Stages, E!Hinted, Hinted
<1>4. lemma \in Seq(Literals)  BY DEF LInv, RatTyped
<1> QED  BY <1>1, <1>2, <1>3, <1>4

AtWork == LInv /\ task \in {"rup", "rats"} /\ UNCHANGED step

LEMMA StartHintL == ASSUME AtWork, StartHint PROVE LInv'
<1>1. /\ pc = "hint" /\ UNCHANGED <<context, va, goal, stage>>
      /\ pc' = "found" \/ (rest' = goal /\ pc' = IF unitsProcessed THEN "assume" ELSE "units")
  BY DEF StartHint, Found
<1>2. UNCHANGED <<names, clauses, unitsProcessed>> /\ pc' # "stuck"  BY <1>1 DEF context, va
<1>3. LInv /\ task \in {"rup", "rats"} /\ UNCHANGED step  BY DEF AtWork
<1>4. /\ goal = lemma /\ (task = "rats" => Hinted) /\ E!IInv
  BY <1>3, PlainPlaces
<1>5. task' = task /\ lemma' = lemma  BY <1>3 DEF step
<1>6. task = "rats" => Hinted'  BY <1>1, <1>4 DEF Hinted
<1>7. /\ EPc = pc /\ EStage = stage /\ EGoal = goal /\ ERest = rest
      /\ EPc' = pc' /\ EStage' = stage' /\ EGoal' = goal' /\ ERest' = rest'
      /\ /\ E!IInv' /\ Permuted /\ Denied'
         /\ pc' \in {"assume", "hints", "prop", "visit", "stuck"} => unitsProcessed'
         /\ task = "rup" /\ pc' = "stuck" => firstUnprocessed' = Len(truStack')
         => LInv'
  BY <1>1, <1>2, <1>3, <1>6, PlainStep
<1>8. E!IInv'
  <2>1. E!StartHint  BY <1>7, SameRun
  <2> QED  BY <1>4, <2>1, Constants, E!StartHintInv
<1>9. Denied'
  <2>1. pc' = "found" \/ (rest' = lemma' /\ pc' \in {"assume", "units"})  BY <1>1, <1>4, <1>5
  <2> QED  BY <2>1 DEF Denied
<1>10. Permuted  BY <1>2 DEF Permuted
<1> QED  BY <1>1, <1>2, <1>7, <1>8, <1>9, <1>10

LEMMA UseHintL == ASSUME AtWork, UseHint PROVE LInv'
<1>1. /\ pc = "hints" /\ UNCHANGED <<stage, goal, rest>> /\ pc' \in {"hints", "found"}
  BY DEF UseHint
<1>3. LInv /\ task \in {"rup", "rats"} /\ UNCHANGED step  BY DEF AtWork
<1>4. /\ goal = lemma /\ (task = "rats" => Hinted) /\ E!IInv /\ TypedTrail
  BY <1>3, PlainPlaces
<1>5. task' = task /\ lemma' = lemma  BY <1>3 DEF step
<1>6. task = "rats" => Hinted'  BY <1>1, <1>4 DEF Hinted
<1>2. names' = names  BY DEF UseHint, context
<1>7. /\ EPc = pc /\ EStage = stage /\ EGoal = goal /\ ERest = rest
      /\ EPc' = pc' /\ EStage' = stage' /\ EGoal' = goal' /\ ERest' = rest'
      /\ /\ E!IInv' /\ Permuted /\ Denied'
         /\ pc' \in {"assume", "hints", "prop", "visit", "stuck"} => unitsProcessed'
         /\ task = "rup" /\ pc' = "stuck" => firstUnprocessed' = Len(truStack')
         => LInv'
  BY <1>1, <1>2, <1>3, <1>6, PlainStep
<1>8. E!UseHint  BY <1>1, <1>7, SameMoves
<1>9. E!IInv'  BY <1>4, <1>8, Constants, E!UseHintInv
<1>10. Permuted /\ Longer /\ UNCHANGED unitsProcessed
  BY <1>4, EFacts, UseHintLeaves
<1>11. truStack' \in Seq(Lits)
  <2>1. TypedTrail'  BY <1>9, SameContextNext DEF E!IInv, E!Typed
  <2> QED  BY <2>1 DEF TypedTrail
<1>12. unitsProcessed  BY <1>1, <1>3 DEF LInv, Open
<1>13. Denied'
  <2>1. \A l \in Range(lemma) : IsFalse(l)  BY <1>1, <1>3 DEF LInv, Denied
  <2>2. \A l \in Range(lemma) : -l \in Range(truStack')
    BY <1>4, <1>10, <1>11, <2>1, StillTrue DEF IsFalse
  <2> QED  BY <1>1, <1>5, <2>2 DEF Denied, IsFalse, IsTrue
<1> QED  BY <1>1, <1>7, <1>9, <1>10, <1>12, <1>13

LEMMA PropagateL == ASSUME AtWork, Propagate PROVE LInv'
<1>1. /\ pc = "propagate" /\ UNCHANGED <<context, goal>>
      /\ \/ pc' = "found"
         \/ stage' = "root" /\ pc' = "units"
         \/ stage' = "root" /\ pc' = "prop" /\ unitsProcessed'
  BY DEF Propagate, Found, va
<1>2. UNCHANGED <<names, clauses>> /\ pc' # "stuck"  BY <1>1 DEF context
<1>3. LInv /\ task \in {"rup", "rats"} /\ UNCHANGED step  BY DEF AtWork
<1>4. /\ goal = lemma /\ E!IInv /\ task = "rup"
  BY <1>1, <1>3, PlainPlaces
<1>5. task' = task /\ lemma' = lemma  BY <1>3 DEF step
<1>7. /\ EPc = pc /\ EStage = stage /\ EGoal = goal /\ ERest = rest
      /\ EPc' = pc' /\ EStage' = stage' /\ EGoal' = goal' /\ ERest' = rest'
      /\ /\ E!IInv' /\ Permuted /\ Denied'
         /\ pc' \in {"assume", "hints", "prop", "visit", "stuck"} => unitsProcessed'
         /\ task = "rup" /\ pc' = "stuck" => firstUnprocessed' = Len(truStack')
         => LInv'
  BY <1>1, <1>2, <1>3, <1>4, PlainStep
<1>8. E!IInv'
  <2>1. E!Propagate  BY <1>7, SameRun
  <2> QED  BY <1>4, <2>1, Constants, E!PropagateInv
<1>9. Denied'  BY <1>1 DEF Denied, Hinted
<1>10. Permuted  BY <1>2 DEF Permuted
<1> QED  BY <1>1, <1>2, <1>7, <1>8, <1>9, <1>10

LEMMA ProcessUnitsL == ASSUME AtWork, ProcessUnits PROVE LInv'
<1>1. /\ pc = "units" /\ UNCHANGED <<context, goal, stage, rest>>
      /\ \/ pc' = "found"
         \/ pc' = "units"
         \/ pc' = (IF Hinted THEN "assume" ELSE "prop") /\ unitsProcessed'
      /\ \/ UNCHANGED <<truStack, reasons>>
         \/ \E i \in UnitClauses : Assign(UnitLit(clauses[i]), i)
  BY DEF ProcessUnits, AddUnit
<1>2. UNCHANGED <<names, clauses>> /\ pc' # "stuck"  BY <1>1 DEF context
<1>3. LInv /\ task \in {"rup", "rats"} /\ UNCHANGED step  BY DEF AtWork
<1>4. /\ goal = lemma /\ E!IInv /\ TypedTrail /\ TypedContext /\ (task = "rats" => Hinted)
  BY <1>1, <1>3, PlainPlaces
<1>5. task' = task /\ lemma' = lemma  BY <1>3 DEF step
<1>6. (Hinted' <=> Hinted) /\ (pc' = "prop" => ~Hinted /\ task = "rup")
  <2>1. stage' = stage /\ (Hinted => pc' # "prop")  BY <1>1
  <2>2. Hinted' <=> Hinted  BY <2>1 DEF Hinted
  <2>3. ~Hinted => task = "rup"  BY <1>3, <1>4
  <2> QED  BY <2>1, <2>2, <2>3
<1>7. /\ EPc = pc /\ EStage = stage /\ EGoal = goal /\ ERest = rest
      /\ EPc' = pc' /\ EStage' = stage' /\ EGoal' = goal' /\ ERest' = rest'
      /\ /\ E!IInv' /\ Permuted /\ Denied'
         /\ pc' \in {"assume", "hints", "prop", "visit", "stuck"} => unitsProcessed'
         /\ task = "rup" /\ pc' = "stuck" => firstUnprocessed' = Len(truStack')
         => LInv'
  <2>1. task = "rats" => pc' \in {"hint", "units", "assume", "hints", "found"} /\ Hinted'
    BY <1>1, <1>4, <1>6
  <2>2. pc' \in {"hint", "units", "assume", "hints", "propagate", "prop", "visit", "found", "stuck"}
    BY <1>1
  <2> QED  BY <1>1, <1>2, <1>3, <2>1, <2>2, PlainStep
<1>8. E!IInv'
  <2>1. E!ProcessUnits  BY <1>7, SameRun
  <2> QED  BY <1>4, <2>1, Constants, E!ProcessUnitsInv
<1>9. Longer
  <2>1. ASSUME NEW i \in UnitClauses, Assign(UnitLit(clauses[i]), i) PROVE Longer
    <3>1. i \in Ids /\ clauses[i] \in Seq(Literals)  BY <1>4 DEF UnitClauses, TypedContext
    <3>2. UnitLit(clauses[i]) \in Lits  BY <3>1, Sizes DEF UnitLit, Literals, Lits
    <3> QED  BY <1>4, <2>1, <3>1, <3>2, LongerBy
  <2> QED  BY <1>1, <1>4, <2>1, SameLonger
<1>10. truStack' \in Seq(Lits)
  <2>1. TypedTrail'  BY <1>8, SameContextNext DEF E!IInv, E!Typed
  <2> QED  BY <2>1 DEF TypedTrail
<1>11. Denied'
  <2>1. ASSUME Hinted PROVE \A l \in Range(lemma) : l \in Range(rest) \/ -l \in Range(truStack')
    <3>1. \A l \in Range(lemma) : l \in Range(rest) \/ IsFalse(l)
      BY <1>1, <1>3, <2>1 DEF LInv, Denied
    <3> QED  BY <1>4, <1>9, <1>10, <3>1, StillTrue DEF IsFalse
  <2>2. stage = "goal" => FALSE
    <3>1. E!Stages /\ EPc = "units" /\ EStage = stage  BY <1>1, <1>4, <1>7, EFacts
    <3> QED  BY <3>1 DEF E!Stages
  <2>3. pc' = "assume" => Hinted  BY <1>1
  <2>4. pc' \in {"found", "units", "assume", "prop"} /\ stage' = stage /\ rest' = rest
    BY <1>1
  <2> QED  BY <1>1, <1>5, <1>6, <2>1, <2>2, <2>3, <2>4 DEF Denied, IsFalse, IsTrue
<1>12. Permuted  BY <1>2 DEF Permuted
<1> QED  BY <1>1, <1>2, <1>7, <1>8, <1>11, <1>12

LEMMA AssumeL == ASSUME AtWork, Assume PROVE LInv'
<1>1. /\ pc = "assume" /\ UNCHANGED <<context, goal, stage, unitsProcessed>>
      /\ \/ /\ rest # <<>> /\ Assign(-Head(rest), None) /\ rest' = Tail(rest)
            /\ pc' \in {"found", "assume"}
         \/ /\ rest = <<>> /\ pc' = (IF Hinted THEN "hints" ELSE "prop")
            /\ UNCHANGED <<truStack, reasons, rest>>
  BY DEF Assume
<1>2. UNCHANGED <<names, clauses>> /\ pc' # "stuck"  BY <1>1 DEF context
<1>3. LInv /\ task \in {"rup", "rats"} /\ UNCHANGED step  BY DEF AtWork
<1>4. /\ goal = lemma /\ E!IInv /\ TypedTrail /\ TypedContext /\ (task = "rats" => Hinted)
  BY <1>1, <1>3, PlainPlaces
<1>5. task' = task /\ lemma' = lemma  BY <1>3 DEF step
<1>6. (Hinted' <=> Hinted) /\ (pc' = "prop" => ~Hinted /\ task = "rup")
  <2>1. stage' = stage /\ (Hinted => pc' # "prop")  BY <1>1
  <2>2. Hinted' <=> Hinted  BY <2>1 DEF Hinted
  <2>3. ~Hinted => task = "rup"  BY <1>3, <1>4
  <2> QED  BY <2>1, <2>2, <2>3
<1>7. /\ EPc = pc /\ EStage = stage /\ EGoal = goal /\ ERest = rest
      /\ EPc' = pc' /\ EStage' = stage' /\ EGoal' = goal' /\ ERest' = rest'
      /\ /\ E!IInv' /\ Permuted /\ Denied'
         /\ pc' \in {"assume", "hints", "prop", "visit", "stuck"} => unitsProcessed'
         /\ task = "rup" /\ pc' = "stuck" => firstUnprocessed' = Len(truStack')
         => LInv'
  <2>1. task = "rats" => pc' \in {"hint", "units", "assume", "hints", "found"} /\ Hinted'
    BY <1>1, <1>4, <1>6
  <2>2. pc' \in {"hint", "units", "assume", "hints", "propagate", "prop", "visit", "found", "stuck"}
    BY <1>1
  <2> QED  BY <1>1, <1>2, <1>3, <2>1, <2>2, PlainStep
<1>8. E!IInv'
  <2>1. E!Assume  BY <1>7, SameRun
  <2> QED  BY <1>4, <2>1, Constants, E!AssumeInv
<1>9. unitsProcessed  BY <1>1, <1>3 DEF LInv, Open
<1>10. truStack' \in Seq(Lits) /\ IsInjective(truStack')
  <2>1. TypedTrail'  BY <1>8, SameContextNext DEF E!IInv, E!Typed
  <2> QED  BY <2>1 DEF TypedTrail
<1>11. \A l \in Range(lemma) : l \in Range(rest) \/ IsFalse(l)
  BY <1>1, <1>3 DEF LInv, Denied
<1>12. CASE /\ rest # <<>> /\ Assign(-Head(rest), None) /\ rest' = Tail(rest)
            /\ pc' \in {"found", "assume"}
  <2>1. rest \in Seq(Literals)
    <3>1. E!TypedControl  BY <1>4, EFacts
    <3> QED  BY <1>7, <3>1, SameContext DEF E!TypedControl
  <2>2. rest[1] \in Literals /\ Head(rest) = rest[1]  BY <1>12, <2>1
  <2>3. -Head(rest) \in Lits  BY <2>2, Negation DEF Literals
  <2>4. Longer  BY <1>4, <1>12, <2>3, LongerBy
  <2>5. -Head(rest) \in Range(truStack')
    <3>1. Len(truStack) \in Nat  BY <1>4 DEF TypedTrail
    <3>2. CASE IsTrue(-Head(rest))  BY <1>4, <1>10, <2>4, <3>2, StillTrue
    <3>3. CASE ~IsTrue(-Head(rest))
      <4>1. Len(truStack') = Len(truStack) + 1 /\ truStack'[Len(truStack) + 1] = -Head(rest)
        BY <1>4, <1>12, <2>3, <3>3, Assigned
      <4>2. Len(truStack) + 1 \in 1..Len(truStack')  BY <3>1, <4>1
      <4> QED  BY <1>10, <4>1, <4>2, InRange
    <3> QED  BY <3>2, <3>3
  <2>6. \A x \in Range(rest) : x = Head(rest) \/ x \in Range(Tail(rest))
    <3>1. ASSUME NEW x \in Range(rest), x # Head(rest) PROVE x \in Range(Tail(rest))
      <4>1. PICK k \in 1..Len(rest) : rest[k] = x  BY <2>1, InRange
      <4>2. Tail(rest) \in Seq(Literals) /\ k - 1 \in 1..Len(Tail(rest)) /\ Tail(rest)[k-1] = rest[k]
        BY <1>12, <2>1, <2>2, <3>1, <4>1
      <4> QED  BY <4>1, <4>2, InRange
    <3> QED  BY <3>1
  <2>7. \A l \in Range(lemma) : l \in Range(rest') \/ -l \in Range(truStack')
    BY <1>4, <1>10, <1>11, <1>12, <2>4, <2>5, <2>6, StillTrue DEF IsFalse
  <2>8. Denied'  BY <1>5, <1>12, <2>7 DEF Denied, IsFalse, IsTrue
  <2>9. Permuted  BY <1>2 DEF Permuted
  <2> QED  BY <1>1, <1>2, <1>7, <1>8, <1>9, <2>8, <2>9
<1>13. CASE /\ rest = <<>> /\ pc' = (IF Hinted THEN "hints" ELSE "prop")
            /\ UNCHANGED <<truStack, reasons, rest>>
  <2>1. \A l \in Range(lemma) : IsFalse(l)
    <3>1. Range(rest) = {}  BY <1>13 DEF Range
    <3> QED  BY <1>11, <3>1
  <2>2. Denied'  BY <1>5, <1>13, <2>1 DEF Denied, IsFalse, IsTrue
  <2>3. Permuted  BY <1>2 DEF Permuted
  <2> QED  BY <1>1, <1>2, <1>7, <1>8, <1>9, <2>2, <2>3
<1> QED  BY <1>1, <1>12, <1>13

LEMMA NextPropLitL == ASSUME AtWork, NextPropLit PROVE LInv'
<1>1. pc = "prop" /\ pc' = "visit" /\ UNCHANGED <<context, va, stage, goal, rest>>
  BY DEF NextPropLit
<1>2. UNCHANGED <<names, clauses, truStack, unitsProcessed>>  BY <1>1 DEF context, va
<1>3. LInv /\ task \in {"rup", "rats"} /\ UNCHANGED step  BY DEF AtWork
<1>4. goal = lemma /\ E!IInv /\ task = "rup"  BY <1>1, <1>3, PlainPlaces
<1>5. task' = task /\ lemma' = lemma  BY <1>3 DEF step
<1>7. /\ EPc = pc /\ EStage = stage /\ EGoal = goal /\ ERest = rest
      /\ EPc' = pc' /\ EStage' = stage' /\ EGoal' = goal' /\ ERest' = rest'
      /\ /\ E!IInv' /\ Permuted /\ Denied'
         /\ pc' \in {"assume", "hints", "prop", "visit", "stuck"} => unitsProcessed'
         /\ task = "rup" /\ pc' = "stuck" => firstUnprocessed' = Len(truStack')
         => LInv'
  BY <1>1, <1>2, <1>3, <1>4, PlainStep
<1>8. E!IInv'
  <2>1. E!NextPropLit  BY <1>1, <1>7, SameMoves
  <2> QED  BY <1>4, <2>1, Constants, E!NextPropLitInv
<1>9. Denied /\ unitsProcessed  BY <1>1, <1>3 DEF LInv, Open
<1>10. Denied'  BY <1>1, <1>2, <1>3, <1>5, <1>9 DEF Denied, IsFalse, IsTrue
<1>11. Permuted  BY <1>2 DEF Permuted
<1> QED  BY <1>1, <1>2, <1>7, <1>8, <1>9, <1>10, <1>11

LEMMA VisitL == ASSUME AtWork, Visit PROVE LInv'
<1>1. pc = "visit" /\ pc' \in {"prop", "visit", "found"} /\ UNCHANGED <<stage, goal, rest>>
      /\ names' = names
  BY DEF Visit, Replace, Imply, context
<1>3. LInv /\ task \in {"rup", "rats"} /\ UNCHANGED step  BY DEF AtWork
<1>4. goal = lemma /\ E!IInv /\ task = "rup" /\ TypedTrail  BY <1>1, <1>3, PlainPlaces
<1>5. task' = task /\ lemma' = lemma  BY <1>3 DEF step
<1>7. /\ EPc = pc /\ EStage = stage /\ EGoal = goal /\ ERest = rest
      /\ EPc' = pc' /\ EStage' = stage' /\ EGoal' = goal' /\ ERest' = rest'
      /\ /\ E!IInv' /\ Permuted /\ Denied'
         /\ pc' \in {"assume", "hints", "prop", "visit", "stuck"} => unitsProcessed'
         /\ task = "rup" /\ pc' = "stuck" => firstUnprocessed' = Len(truStack')
         => LInv'
  BY <1>1, <1>3, <1>4, PlainStep
<1>8. E!Visit  BY <1>1, <1>7, SameMoves
<1>9. E!IInv'  BY <1>4, <1>8, Constants, E!VisitInv
<1>10. Permuted /\ Longer /\ unitsProcessed' = unitsProcessed
  BY <1>4, EFacts, VisitLeaves
<1>11. truStack' \in Seq(Lits)
  <2>1. TypedTrail'  BY <1>9, SameContextNext DEF E!IInv, E!Typed
  <2> QED  BY <2>1 DEF TypedTrail
<1>12. Denied /\ unitsProcessed  BY <1>1, <1>3 DEF LInv, Open
<1>13. Denied'
  <2>1. stage = "goal" => \A l \in Range(lemma) : -l \in Range(truStack')
    BY <1>1, <1>3, <1>4, <1>10, <1>11, <1>12, StillTrue DEF Denied, IsFalse
  <2> QED  BY <1>1, <1>5, <2>1 DEF Denied, IsFalse, IsTrue
<1> QED  BY <1>1, <1>7, <1>9, <1>10, <1>12, <1>13

LEMMA PropDoneL == ASSUME AtWork, PropDone PROVE LInv'
<1>1. /\ pc = "prop" /\ UNCHANGED <<context, truStack, unitsProcessed, goal>>
      /\ firstUnprocessed' = Len(truStack)
      /\ \/ pc' = "found" /\ UNCHANGED <<stage, rest>>
         \/ stage = "root" /\ goal # <<>> /\ pc' = "assume" /\ stage' = "goal" /\ rest' = goal
         \/ ~(stage = "root" /\ goal # <<>>) /\ pc' = "stuck" /\ UNCHANGED <<stage, rest>>
  BY DEF PropDone, Found
<1>2. UNCHANGED <<names, clauses>>  BY <1>1 DEF context
<1>3. LInv /\ task \in {"rup", "rats"} /\ UNCHANGED step  BY DEF AtWork
<1>4. goal = lemma /\ E!IInv /\ task = "rup" /\ ~Hinted  BY <1>1, <1>3, PlainPlaces
<1>5. task' = task /\ lemma' = lemma  BY <1>3 DEF step
<1>7. /\ EPc = pc /\ EStage = stage /\ EGoal = goal /\ ERest = rest
      /\ EPc' = pc' /\ EStage' = stage' /\ EGoal' = goal' /\ ERest' = rest'
      /\ /\ E!IInv' /\ Permuted /\ Denied'
         /\ pc' \in {"assume", "hints", "prop", "visit", "stuck"} => unitsProcessed'
         /\ task = "rup" /\ pc' = "stuck" => firstUnprocessed' = Len(truStack')
         => LInv'
  <2>1. pc' \in {"hint", "units", "assume", "hints", "propagate", "prop", "visit", "found", "stuck"}
    BY <1>1
  <2> QED  BY <1>1, <1>2, <1>3, <1>4, <2>1, PlainStep
<1>8. E!IInv'
  <2>1. E!PropDone  BY <1>7, SameRun
  <2> QED  BY <1>4, <2>1, Constants, E!PropDoneInv
<1>9. Denied /\ unitsProcessed  BY <1>1, <1>3 DEF LInv, Open
<1>10. stage = "goal" => \A l \in Range(lemma) : IsFalse(l)
  BY <1>1, <1>3, <1>9 DEF Denied
<1>11. Denied'
  <2>1. CASE pc' = "found"  BY <2>1 DEF Denied
  <2>2. CASE pc' = "assume" /\ stage' = "goal" /\ rest' = goal
    BY <1>4, <1>5, <2>2 DEF Denied
  <2>3. CASE ~(stage = "root" /\ goal # <<>>) /\ pc' = "stuck" /\ UNCHANGED <<stage, rest>>
    <3>1. ~Hinted'  BY <1>4, <2>3 DEF Hinted
    <3>2. stage' = "root" => lemma' = <<>>  BY <1>4, <1>5, <2>3
    <3>3. stage' = "goal" => \A l \in Range(lemma') : IsFalse(l)'
      BY <1>1, <1>5, <1>10, <2>3 DEF IsFalse, IsTrue
    <3> QED  BY <2>3, <3>1, <3>2, <3>3 DEF Denied
  <2> QED  BY <1>1, <2>1, <2>2, <2>3
<1>12. Permuted  BY <1>2 DEF Permuted
<1> QED  BY <1>1, <1>2, <1>7, <1>8, <1>9, <1>11, <1>12

LEMMA RunWork == ASSUME LInv, Run, task \in {"rup", "rats"} PROVE LInv'
<1>1. AtWork  BY DEF AtWork, Run
<1>2. StartHint \/ UseHint \/ Propagate \/ ProcessUnits \/ Assume \/ NextPropLit \/ PropDone \/ Visit
  BY DEF Run
<1> QED  BY <1>1, <1>2, StartHintL, UseHintL, PropagateL, ProcessUnitsL, AssumeL, NextPropLitL,
            PropDoneL, VisitL

-----------------------------------------------------------------------------
(* What the resolvents share stays while one is worked on.                   *)

(* Started, said of sets and sequences that do not change.                   *)
StartedIs ==
  TypedContext /\ RatTyped =>
    (Started <=> \A A \in SUBSET Lits, h \in Seq(Ids) :
                   A = Negated(lemma) /\ h = preRat =>
                     ReplayFrom(A, h) = Begun(A \union Range(temp)))

LEMMA NegatedLits ==
  ASSUME NEW c \in Seq(Literals) PROVE Negated(c) \in SUBSET Lits
<1>1. Range(c) \subseteq Literals  BY InRange
<1> QED  BY <1>1, Negation DEF Negated, Literals

LEMMA NamesAreIds ==
  ASSUME TypedContext PROVE Seq(names) \subseteq Seq(Ids)
  BY DEF TypedContext

LEMMA StartedSays == StartedIs
<1> SUFFICES ASSUME TypedContext, RatTyped
             PROVE  Started <=> \A A \in SUBSET Lits, h \in Seq(Ids) :
                                  A = Negated(lemma) /\ h = preRat =>
                                    ReplayFrom(A, h) = Begun(A \union Range(temp))
  BY DEF StartedIs
<1>1. Negated(lemma) \in SUBSET Lits /\ preRat \in Seq(Ids)
  BY NegatedLits, NamesAreIds DEF RatTyped
<1> QED  BY <1>1 DEF Started

LEMMA StartedNext ==
  ASSUME TypedContext', RatTyped'
  PROVE  Started' <=> \A A \in SUBSET Lits, h \in Seq(Ids) :
                        A = Negated(lemma') /\ h = preRat' =>
                          ReplayFrom(A, h)' = Begun(A \union Range(temp'))
<1>1. StartedIs'  BY StartedSays, PTL
<1> QED  BY <1>1 DEF StartedIs, Negated, Begun

LEMMA RefutingNext ==
  ASSUME TypedContext, TypedContext', Permuted, UNCHANGED <<lemma, temp, witness>>,
         NEW g, g.clause \in Ids, g.hints \in Seq(Ids), Refuting(g)
  PROVE  Refuting(g)'
<1>1. Range(clauses'[g.clause]) = Range(clauses[g.clause])  BY DEF Permuted
<1>2. Reduced(witness', clauses'[g.clause]) = Reduced(witness, clauses[g.clause])
  BY <1>1 DEF Reduced
<1> SUFFICES ASSUME NEW A \in SUBSET Lits, Coherent(A),
                    Negated(lemma) \union Range(temp) \subseteq A,
                    {-l : l \in Reduced(witness, clauses[g.clause])} \subseteq A
             PROVE  ReplayFrom(A, g.hints)'.proved
  BY <1>2 DEF Refuting, Coherent, Negated, Reduced
<1>3. ReplayFrom(A, g.hints).proved  BY DEF Refuting
<1>4. ReplayFrom(A, g.hints)' = ReplayFrom(A, g.hints)  BY SameReplay
<1> QED  BY <1>3, <1>4

LEMMA SharingStep ==
  ASSUME TypedContext, TypedTrail, RatTyped, Sharing, TypedContext', RatTyped',
         Permuted, truStack' \in Seq(Lits), UNCHANGED <<lemma, temp, witness, preRat, written, depth>>,
         depth <= Len(truStack'),
         \A k \in 1..depth :
            truStack'[k] = truStack[k] /\ reasons'[truStack[k]] = reasons[truStack[k]],
         firstHyp' = firstHyp
  PROVE  Sharing'
<1>1. /\ depth \in Nat /\ Len(truStack) \in Nat /\ firstHyp <= depth
      /\ \A n \in 1..depth : ~UnsatAt(n)
      /\ Negated(lemma) \subseteq Shared
      /\ \A n \in 1..depth : reasons[truStack[n]] = None => truStack[n] \in Negated(lemma)
      /\ Range(temp) \subseteq Shared
      /\ Started
      /\ \A g \in Range(written) : Refuting(g)
  BY DEF Sharing, RatTyped, TypedTrail
<1>2. Shared' = Shared  BY DEF Shared
<1>3. \A n \in 1..depth' : ~UnsatAt(n)'
  <2> SUFFICES ASSUME NEW n \in 1..depth PROVE ~UnsatAt(n)'  OBVIOUS
  <2>1. ~UnsatAt(n)  BY <1>1
  <2>2. \A m \in 1..n : m \in 1..depth  BY <1>1
  <2>3. \A m \in 1..n : truStack'[m] = truStack[m]  BY <2>2
  <2>4. n \in 1..n  BY <1>1
  <2> QED  BY <2>1, <2>3, <2>4 DEF UnsatAt
<1>4. Negated(lemma)' = Negated(lemma)  BY DEF Negated
<1>5. Started'
  <2>1. ASSUME NEW A \in SUBSET Lits, NEW h \in Seq(Ids), A = Negated(lemma'), h = preRat'
        PROVE  ReplayFrom(A, h)' = Begun(A \union Range(temp'))
    <3>1. A = Negated(lemma) /\ h = preRat  BY <2>1
    <3>2. ReplayFrom(A, h) = Begun(A \union Range(temp))  BY <1>1, <3>1, StartedSays DEF StartedIs
    <3>3. ReplayFrom(A, h)' = ReplayFrom(A, h)  BY SameReplay
    <3> QED  BY <3>2, <3>3
  <2> QED  BY <2>1, StartedNext
<1>6. \A g \in Range(written') : Refuting(g)'
  <2> SUFFICES ASSUME NEW g \in Range(written) PROVE Refuting(g)'  OBVIOUS
  <2>1. written \in Seq(Groups)  BY DEF RatTyped
  <2>2. g \in Groups  BY <2>1, InRange
  <2>3. g.clause \in Ids /\ g.hints \in Seq(Ids)  BY <2>2, NamesAreIds DEF Groups, TypedContext
  <2>4. Refuting(g)  BY <1>1
  <2> QED  BY <2>3, <2>4, RefutingNext
<1> QED  BY <1>1, <1>2, <1>3, <1>4, <1>5, <1>6 DEF Sharing

(* What to show of a step of the engine for a resolvent.                     *)
LEMMA ResolveStep ==
  ASSUME LInv, task = "resolve", UNCHANGED step, Permuted, E!IInv', unitsProcessed',
         goal' = <<>>, pc' \notin {"resolve", "found"} => rest' = <<>>,
         \/ pc' \in {"resolve", "hint", "assume", "hints", "propagate"} /\ stage' = "hint"
         \/ pc' \in {"prop", "visit", "stuck"} /\ stage' = "root"
         \/ pc' = "found" /\ stage' \in {"hint", "root"},
         closed => firstHyp' <= firstUnprocessed',
         closed /\ AtRoot' => /\ pc' \in {"prop", "stuck"}
                              /\ \A m \in BOOLEAN : unprocessed'[m] = Len(truStack'),
         AtRoot' \/ (~AtRoot /\ Longer /\ firstHyp' = firstHyp)
  PROVE  LInv'
<1>1. /\ TypedContext /\ TypedTrail /\ RatTyped /\ Len(truStack) \in Nat
  BY EFacts DEF LInv
<1>2. TypedContext' /\ TypedTrail'  BY SameContextNext DEF E!IInv, E!Typed
<1>3. UNCHANGED <<task, lemma, pivot, witness, groups, depth, closed, unseen, resolvent, given,
                  preRat, written, temp>> /\ names' = names
  BY DEF step, Permuted
<1>4. RatTyped'
  <2>1. Groups' = Groups  BY <1>3 DEF Groups
  <2> QED  BY <1>1, <1>3, <2>1 DEF RatTyped
<1>5. Tasks'  BY <1>3 DEF LInv, Tasks
<1>6. Open'
  <2>1. Rup(lemma)' <=> Rup(lemma)  BY <1>1, <1>2, <1>3, SameRup
  <2>2. pc # "write" /\ (~closed => ~Rup(lemma))  BY DEF LInv, Tasks, Open
  <2> QED  BY <1>3, <2>1, <2>2 DEF Open
<1>7. Denied'  BY <1>3 DEF Denied
<1>8. Holding'
  <2>1. CASE AtRoot'
    <3>1. pc' # "resolvents"  OBVIOUS
    <3> QED  BY <2>1, <3>1 DEF Holding
  <2>2. CASE ~AtRoot /\ Longer /\ firstHyp' = firstHyp
    <3>1. Sharing  BY <2>2 DEF LInv, Holding
    <3>2. depth \in Nat /\ depth <= Len(truStack) /\ Len(truStack) \in Nat
      BY <1>1, <3>1 DEF Sharing, RatTyped
    <3>3. \A k \in 1..depth : k \in 1..Len(truStack)  BY <3>2
    <3>4. Len(truStack') \in Nat /\ depth <= Len(truStack')  BY <2>2, <3>2 DEF Longer
    <3>5. \A k \in 1..depth :
            truStack'[k] = truStack[k] /\ reasons'[truStack[k]] = reasons[truStack[k]]
      BY <2>2, <3>3 DEF Longer
    <3>6. truStack' \in Seq(Lits)  BY <1>2 DEF TypedTrail
    <3>7. Sharing'
      BY <1>1, <1>2, <1>3, <1>4, <2>2, <3>1, <3>4, <3>5, <3>6, SharingStep
    <3>8. pc' # "resolvents"  OBVIOUS
    <3> QED  BY <3>7, <3>8 DEF Holding
  <2> QED  BY <2>1, <2>2
<1>9. HintsAccepted'  BY DEF HintsAccepted
<1> QED  BY <1>4, <1>5, <1>6, <1>7, <1>8, <1>9 DEF LInv

-----------------------------------------------------------------------------
(* A round of hints is over.                                               *)

(* What the engine is seen to do when it turns to propagate().              *)
LEMMA RoundView ==
  ASSUME E!IInv, pc = "hints", hints = <<>>, EPc = "hints",
         UNCHANGED <<context, va, goal, cur, unprocessed, root, conflict>>,
         UNCHANGED <<EStage, EGoal, ERest>>,
         \/ /\ progress /\ EPc' = EPc
            /\ hints' = queue /\ queue' = <<>> /\ progress' = FALSE
         \/ /\ ~progress /\ EPc' = "propagate"
            /\ UNCHANGED <<hints, queue, progress>>
  PROVE  E!IInv'
<1>1. E!HintRound
  <2>0. UNCHANGED <<names, clauses, marked, watch, truStack, reasons, firstHyp, firstUnprocessed,
                    unitsProcessed, cur, unprocessed, root, conflict>>
    BY DEF context, va
  <2>1. CASE progress /\ EPc' = EPc /\ hints' = queue /\ queue' = <<>> /\ progress' = FALSE
    BY <2>0, <2>1 DEF E!HintRound, E!va, E!context
  <2>2. CASE ~progress /\ EPc' = "propagate" /\ UNCHANGED <<hints, queue, progress>>
    <3>1. UNCHANGED <<E!va, E!control, E!context>>
      BY <2>0, <2>2 DEF E!va, E!control, E!context
    <3>2. \E p \in E!Range(EGoal) \union {0} :
            ~(EStage = "empty" /\ p # 0 /\ E!Fresh(p))
      <4>1. 0 \in E!Range(EGoal) \union {0}  OBVIOUS
      <4> QED  BY <4>1
    <3> QED  BY <2>2, <3>1, <3>2 DEF E!HintRound
  <2> QED  BY <2>1, <2>2
<1> QED  BY <1>1, Constants, E!HintRoundInv

LEMMA WorkRound ==
  ASSUME LInv, RoundEnds, task \in {"rup", "rats"},
         \/ progress
         \/ ~progress /\ task = "rup" /\ pc' = "propagate" /\ UNCHANGED <<task, witness>>
  PROVE  LInv'
<1>1. /\ pc = "hints" /\ hints = <<>>
      /\ UNCHANGED <<context, va, stage, goal, rest, unprocessed, cur, root, conflict>>
      /\ \/ progress /\ hints' = queue /\ queue' = <<>> /\ progress' = FALSE /\ pc' = pc
         \/ ~progress /\ pc' = "propagate" /\ UNCHANGED <<hints, queue, progress>>
      /\ UNCHANGED step
  BY DEF RoundEnds, step
<1>2. UNCHANGED <<names, clauses, truStack, unitsProcessed>>  BY <1>1 DEF context, va
<1>3. goal = lemma /\ (task = "rats" => Hinted) /\ E!IInv  BY PlainPlaces
<1>4. task' = task /\ lemma' = lemma  BY <1>1 DEF step
<1>5. Hinted' <=> Hinted  BY <1>1 DEF Hinted
<1>6. /\ EPc = pc /\ EStage = stage /\ EGoal = goal /\ ERest = rest
      /\ EPc' = pc' /\ EStage' = stage' /\ EGoal' = goal' /\ ERest' = rest'
      /\ /\ E!IInv' /\ Permuted /\ Denied'
         /\ pc' \in {"assume", "hints", "prop", "visit", "stuck"} => unitsProcessed'
         /\ task = "rup" /\ pc' = "stuck" => firstUnprocessed' = Len(truStack')
         => LInv'
  <2>1. pc' \in {"hints", "propagate"}  BY <1>1
  <2>2. task = "rats" => pc' \in {"hint", "units", "assume", "hints", "found"} /\ Hinted'
    BY <1>1, <1>3, <1>5
  <2> QED  BY <1>1, <1>2, <2>1, <2>2, PlainStep
<1>7. E!IInv'  BY <1>1, <1>3, <1>6, RoundView
<1>8. Denied /\ unitsProcessed  BY <1>1 DEF LInv, Open
<1>9. Denied'
  <2>1. \A l \in Range(lemma') : IsFalse(l)'  BY <1>1, <1>2, <1>4, <1>8 DEF Denied, IsFalse, IsTrue
  <2>2. pc' \in {"hints", "propagate"}  BY <1>1
  <2> QED  BY <2>1, <2>2 DEF Denied
<1>10. Permuted  BY <1>2 DEF Permuted
<1> QED  BY <1>1, <1>2, <1>6, <1>7, <1>8, <1>9, <1>10

LEMMA ReplayNothing ==
  ASSUME TypedContext, NEW A \in SUBSET Lits
  PROVE  ReplayFrom(A, <<>>) = Begun(A)
<1>1. <<>> \in Seq(Ids)  OBVIOUS
<1> QED  BY <1>1, ReplayNext DEF ReplayTurns

(* Nothing to resolve with: a checker holds the hypotheses, and is done.     *)
AcceptedBare == TypedContext /\ RatTyped /\ pc = "write" /\ task = "rat"
                  /\ preRat = <<>> /\ written = <<>> => HintsAccepted

LEMMA BareAccepted == AcceptedBare
<1> SUFFICES ASSUME TypedContext, RatTyped, task = "rat", preRat = <<>>, written = <<>>
             PROVE  HintsAccepted
  BY DEF AcceptedBare
<1>1. Negated(lemma) \in SUBSET Lits  BY NegatedLits DEF RatTyped
<1>2. ReplayFrom(Negated(lemma), preRat) = Begun(Negated(lemma))  BY <1>1, ReplayNothing
<1>3. ~ReplayFrom(Negated(lemma), preRat).rejected  BY <1>2 DEF Begun
<1> QED  BY <1>3 DEF HintsAccepted

LEMMA SpecialRound ==
  ASSUME LInv, RoundEnds, task = "rup", ~progress, task' = "rat"
  PROVE  LInv'
<1>1. /\ pc = "hints" /\ hints = <<>> /\ stage = "empty" /\ pivot # 0
      /\ pc' = "write" /\ witness' = {pivot}
      /\ UNCHANGED <<context, va, stage, goal, rest, unprocessed, cur, root, conflict,
                     hints, queue, progress,
                     cache, lemma, pivot, groups, depth, closed, unseen, resolvent, given,
                     preRat, written, temp>>
  BY DEF RoundEnds
<1>2. UNCHANGED <<names, clauses, truStack, unitsProcessed, firstHyp, marked, watch>>
  BY <1>1 DEF context, va
<1>3. goal = lemma /\ E!IInv /\ TypedContext /\ lemma \in Seq(Literals) /\ ~closed  BY PlainPlaces
<1>4. /\ EPc = "hints" /\ EStage = "empty" /\ EGoal = lemma /\ ERest = rest
      /\ EPc' = "assume" /\ EStage' = "hint" /\ EGoal' = lemma /\ ERest' = <<>>
  BY <1>1, <1>3 DEF EPc, EStage, EGoal, ERest, AtRoot
<1>5. ~Unsat /\ E!TypedControl /\ E!Consistently  BY <1>3, <1>4, EFacts
<1>6. E!TypedControl'
  <2>1. <<>> \in Seq(E!Literals) /\ E!Range(<<>>) = {}  BY DEF E!Range
  <2>2. lemma \in Seq(E!Literals)  BY <1>3, SameContext
  <2> QED  BY <1>1, <1>2, <1>4, <1>5, <2>1, <2>2 DEF E!TypedControl, E!Places
<1>7. E!Stages'  BY <1>4 DEF E!Stages
<1>8. E!Consistently'
  <2>1. ~E!Unsat'
    <3>1. ~E!Unsat  BY <1>5, SameTruth
    <3> QED  BY <1>2, <3>1 DEF E!Unsat, E!UnsatAt
  <2> QED  BY <1>4, <2>1 DEF E!Consistently
<1>9. E!IInv'  BY <1>1, <1>3, <1>4, <1>6, <1>7, <1>8, Regoaled
<1>10. preRat = <<>> /\ written = <<>> /\ RatTyped  BY <1>1 DEF LInv, Tasks
<1>11. RatTyped'
  <2>1. Groups' = Groups  BY <1>2 DEF Groups
  <2>2. witness' \subseteq Literals  BY <1>1, <1>10 DEF RatTyped, Literals
  <2> QED  BY <1>1, <1>2, <1>10, <2>1, <2>2 DEF RatTyped
<1>12. TypedContext'  BY <1>9, SameContextNext DEF E!IInv, E!Typed
<1>13. Tasks'  BY <1>1 DEF Tasks
<1>14. Open'  BY <1>1, <1>3 DEF Open, AtRoot
<1>15. Denied'  BY DEF Denied
<1>16. Holding'  BY <1>1 DEF Holding
<1>17. HintsAccepted'
  <2>1. AcceptedBare'  BY BareAccepted, PTL
  <2>2. preRat' = <<>> /\ written' = <<>>  BY <1>1, <1>10
  <2> QED  BY <1>1, <1>11, <1>12, <2>1, <2>2 DEF AcceptedBare
<1> QED  BY <1>9, <1>11, <1>13, <1>14, <1>15, <1>16, <1>17 DEF LInv

LEMMA GivenUpRound ==
  ASSUME LInv, RoundEnds, task = "rats", ~progress
  PROVE  LInv'
<1>1. /\ pc = "hints" /\ hints = <<>> /\ pc' = "stuck"
      /\ UNCHANGED <<context, va, stage, goal, rest, unprocessed, cur, root, conflict,
                     hints, queue, progress>>
      /\ UNCHANGED step
  BY DEF RoundEnds, step
<1>2. UNCHANGED <<names, clauses, truStack, unitsProcessed>>  BY <1>1 DEF context, va
<1>3. goal = lemma /\ Hinted /\ E!IInv /\ TypedContext  BY PlainPlaces
<1>4. UNCHANGED <<task, lemma, pivot, witness, groups, depth, closed, unseen, resolvent, given,
                  preRat, written, temp>>
  BY <1>1 DEF step
<1>5. UNCHANGED <<EPc, EStage, EGoal, ERest>>
  BY <1>1, <1>4 DEF EPc, EStage, EGoal, ERest, AtRoot
<1>6. E!IInv'  BY <1>1, <1>3, <1>5, Untroubled
<1>7. TypedContext'  BY <1>6, SameContextNext DEF E!IInv, E!Typed
<1>8. RatTyped'
  <2>1. Groups' = Groups  BY <1>2 DEF Groups
  <2> QED  BY <1>2, <1>4, <2>1 DEF LInv, RatTyped
<1>9. Hinted'  BY <1>1, <1>3 DEF Hinted
<1>10. Tasks'  BY <1>1, <1>4, <1>9 DEF LInv, Tasks
<1>11. Open'
  <2>1. Permuted  BY <1>2 DEF Permuted
  <2>2. Rup(lemma)' <=> Rup(lemma)  BY <1>3, <1>4, <1>7, <2>1, SameRup
  <2>3. unitsProcessed /\ ~Rup(lemma) /\ ~closed  BY <1>1 DEF LInv, Open, Tasks
  <2> QED  BY <1>1, <1>2, <1>4, <2>2, <2>3 DEF Open
<1>12. Denied'
  <2>1. \A l \in Range(lemma') : IsFalse(l)'
    BY <1>1, <1>2, <1>4 DEF LInv, Denied, IsFalse, IsTrue
  <2>2. stage' # "root"  BY <1>9 DEF Hinted
  <2> QED  BY <1>1, <2>1, <2>2 DEF Denied
<1>13. Holding'  BY <1>1, <1>4 DEF Holding
<1>14. HintsAccepted'  BY <1>1 DEF HintsAccepted
<1> QED  BY <1>6, <1>8, <1>10, <1>11, <1>12, <1>13, <1>14 DEF LInv

-----------------------------------------------------------------------------
(* The engine at work for a resolvent.                                      *)

ResolveIs ==
  task = "resolve" /\ pc \notin {"write", "resolvents"} =>
    /\ EPc = IF pc \in {"resolve", "hint"} THEN "assume" ELSE pc
    /\ EStage = IF stage = "root" /\ ~root THEN "goal" ELSE stage
    /\ EGoal = IF AtRoot THEN goal ELSE Arranged(Both)
    /\ ERest = rest

LEMMA ResolveView == ResolveIs
  BY DEF ResolveIs, EPc, EStage, EGoal, ERest, AtRoot

LEMMA ResolvePlaces ==
  ASSUME LInv, task = "resolve"
  PROVE  /\ pc \notin {"write", "resolvents", "idle", "units"} /\ goal = <<>> /\ resolvent \in names
         /\ unitsProcessed /\ (closed => firstHyp <= firstUnprocessed)
         /\ EPc = IF pc \in {"resolve", "hint"} THEN "assume" ELSE pc
         /\ EStage = IF stage = "root" /\ ~root THEN "goal" ELSE stage
         /\ EGoal = IF AtRoot THEN <<>> ELSE Arranged(Both)
         /\ ERest = rest
         /\ E!IInv /\ TypedContext /\ TypedTrail
         /\ Arranged(Both) \in Seq(Literals) /\ Range(Arranged(Both)) = Both
         /\ pc \notin {"found", "propagate"} => ~Unsat
<1>1. /\ pc \notin {"write", "resolvents", "idle", "units"} /\ goal = <<>> /\ resolvent \in names
      /\ unitsProcessed /\ (closed => firstHyp <= firstUnprocessed)
      /\ RatTyped /\ pc \in {"resolve", "hint", "assume", "hints", "propagate", "prop", "visit", "stuck", "found"}
  BY DEF LInv, Tasks, Open
<1>2. E!IInv /\ TypedContext /\ TypedTrail  BY EFacts DEF LInv
<1>3. /\ EPc = IF pc \in {"resolve", "hint"} THEN "assume" ELSE pc
      /\ EStage = IF stage = "root" /\ ~root THEN "goal" ELSE stage
      /\ EGoal = IF AtRoot THEN <<>> ELSE Arranged(Both)
      /\ ERest = rest
  BY <1>1, ResolveView DEF ResolveIs
<1>4. Arranged(Both) \in Seq(Literals) /\ Range(Arranged(Both)) = Both
  BY <1>1, <1>2, ArrangedBoth DEF Arrangeable
<1>5. pc \notin {"found", "propagate"} => ~Unsat
  <2>1. pc \notin {"found", "propagate"} => EPc \in {"assume", "hints", "prop", "visit", "stuck"}
    BY <1>1, <1>3
  <2> QED  BY <1>2, <2>1, EFacts
<1> QED  BY <1>1, <1>2, <1>3, <1>4, <1>5

LEMMA BothNext ==
  ASSUME TypedContext, resolvent \in names, UNCHANGED step, Permuted
  PROVE  Arranged(Both)' = Arranged(Both)
<1>1. resolvent \in Ids  BY DEF TypedContext
<1>2. UNCHANGED <<lemma, witness, resolvent>>  BY DEF step
<1>3. Range(clauses'[resolvent]) = Range(clauses[resolvent])  BY <1>1 DEF Permuted
<1>4. Both' = Both  BY <1>2, <1>3 DEF Both, Reduced
<1>5. \A T : Arranged(T)' = Arranged(T)  BY DEF Arranged
<1> QED  BY <1>4 DEF Arranged

(* The view of the engine after a step of it.                               *)
LEMMA ResolveNext ==
  ASSUME LInv, task = "resolve", UNCHANGED step, Permuted, pc' \notin {"write", "resolvents"},
         goal' = goal
  PROVE  /\ EPc' = IF pc' \in {"resolve", "hint"} THEN "assume" ELSE pc'
         /\ EStage' = IF stage' = "root" /\ ~root' THEN "goal" ELSE stage'
         /\ EGoal' = IF AtRoot' THEN <<>> ELSE Arranged(Both)
         /\ ERest' = rest'
<1>1. task' = "resolve"  BY DEF step
<1>2. goal = <<>> /\ TypedContext /\ resolvent \in names  BY ResolvePlaces
<1>3. Arranged(Both)' = Arranged(Both)  BY <1>2, BothNext
<1>4. ResolveIs'  BY ResolveView, PTL
<1> QED  BY <1>1, <1>2, <1>3, <1>4 DEF ResolveIs

AtResolvent == LInv /\ task = "resolve" /\ UNCHANGED step

LEMMA StartHintR == ASSUME AtResolvent, StartHint PROVE LInv'
<1>1. LInv /\ task = "resolve" /\ UNCHANGED step  BY DEF AtResolvent
<1>2. /\ pc = "hint" /\ UNCHANGED <<context, va, unprocessed, cur, root, conflict, hints, queue, progress>>
      /\ UNCHANGED <<stage, goal>> /\ rest' = goal /\ pc' = "assume"
  BY <1>1, ResolvePlaces DEF StartHint
<1>3. stage = "hint" /\ rest = <<>>  BY <1>1, <1>2 DEF LInv, Tasks
<1>4. UNCHANGED <<names, clauses, truStack, reasons, firstHyp, firstUnprocessed, unitsProcessed>>
  BY <1>2 DEF context, va
<1>5. Permuted  BY <1>4 DEF Permuted
<1>6. UNCHANGED <<EPc, EStage, EGoal, ERest>>
  BY <1>1, <1>2, <1>3, <1>5, ResolvePlaces, ResolveNext DEF AtRoot
<1>7. E!IInv'  BY <1>1, <1>2, <1>6, ResolvePlaces, Untroubled
<1>8. Longer  BY <1>1, <1>4, ResolvePlaces, SameLonger
<1>9. ~AtRoot /\ ~AtRoot'  BY <1>2, <1>3 DEF AtRoot
<1> QED  BY <1>1, <1>2, <1>3, <1>4, <1>5, <1>7, <1>8, <1>9, ResolvePlaces, ResolveStep

LEMMA UseHintR == ASSUME AtResolvent, UseHint PROVE LInv'
<1>1. LInv /\ task = "resolve" /\ UNCHANGED step  BY DEF AtResolvent
<1>2. /\ pc = "hints" /\ UNCHANGED <<stage, goal, rest>> /\ pc' \in {"hints", "found"}
  BY DEF UseHint
<1>3. stage = "hint" /\ rest = <<>>  BY <1>1, <1>2 DEF LInv, Tasks
<1>4. Permuted /\ Longer /\ UNCHANGED <<firstHyp, firstUnprocessed, unitsProcessed>>
  BY <1>1, EFacts, UseHintLeaves DEF LInv
<1>5. EPc = pc /\ EPc' = pc' /\ UNCHANGED <<EStage, EGoal, ERest>>
  BY <1>1, <1>2, <1>3, <1>4, ResolvePlaces, ResolveNext DEF AtRoot
<1>6. E!IInv'
  <2>1. E!UseHint  BY <1>5, SameMoves
  <2> QED  BY <1>1, <2>1, Constants, ResolvePlaces, E!UseHintInv
<1>7. ~AtRoot /\ ~AtRoot'  BY <1>2, <1>3 DEF AtRoot
<1> QED  BY <1>1, <1>2, <1>3, <1>4, <1>6, <1>7, ResolvePlaces, ResolveStep

LEMMA AssumeR == ASSUME AtResolvent, Assume PROVE LInv'
<1>1. LInv /\ task = "resolve" /\ UNCHANGED step  BY DEF AtResolvent
<1>2. stage = "hint" /\ rest = <<>> /\ pc = "assume"  BY <1>1 DEF Assume, LInv, Tasks
<1>3. /\ pc' = "hints"
      /\ UNCHANGED <<context, va, stage, goal, rest, conflict, root, unprocessed, cur, hints, queue, progress>>
  BY <1>2 DEF Assume, Hinted, va
<1>4. UNCHANGED <<names, clauses, marked, watch, truStack, reasons, firstHyp, firstUnprocessed, unitsProcessed>>
  BY <1>3 DEF context, va
<1>5. Permuted  BY <1>4 DEF Permuted
<1>6. EPc = "assume" /\ EPc' = "hints" /\ EStage = "hint" /\ ERest = <<>>
      /\ UNCHANGED <<EStage, EGoal, ERest>>
  BY <1>1, <1>2, <1>3, <1>5, ResolvePlaces, ResolveNext DEF AtRoot
<1>7. E!IInv'
  <2>1. E!Assume  BY <1>3, <1>4, <1>6 DEF E!Assume, E!Hinted, E!context
  <2> QED  BY <1>1, <2>1, Constants, ResolvePlaces, E!AssumeInv
<1>8. Longer  BY <1>1, <1>4, ResolvePlaces, SameLonger
<1>9. ~AtRoot /\ ~AtRoot'  BY <1>2, <1>3 DEF AtRoot
<1> QED  BY <1>1, <1>2, <1>3, <1>4, <1>5, <1>7, <1>8, <1>9, ResolvePlaces, ResolveStep

LEMMA RoundR == ASSUME LInv, RoundEnds, task = "resolve" PROVE LInv'
<1>1. /\ pc = "hints" /\ hints = <<>>
      /\ UNCHANGED <<context, va, stage, goal, rest, unprocessed, cur, root, conflict>>
      /\ \/ progress /\ hints' = queue /\ queue' = <<>> /\ progress' = FALSE /\ pc' = pc
         \/ ~progress /\ pc' = "propagate" /\ UNCHANGED <<hints, queue, progress>>
      /\ UNCHANGED step
  BY DEF RoundEnds, step
<1>2. stage = "hint" /\ rest = <<>>  BY <1>1 DEF LInv, Tasks
<1>4. UNCHANGED <<names, clauses, truStack, reasons, firstHyp, firstUnprocessed, unitsProcessed>>
  BY <1>1 DEF context, va
<1>5. Permuted  BY <1>4 DEF Permuted
<1>6. pc' \in {"hints", "propagate"}  BY <1>1
<1>7. EPc = pc /\ EPc' = pc' /\ UNCHANGED <<EStage, EGoal, ERest>>
  BY <1>1, <1>2, <1>5, <1>6, ResolvePlaces, ResolveNext DEF AtRoot
<1>8. E!IInv'  BY <1>1, <1>7, ResolvePlaces, RoundView
<1>9. Longer  BY <1>4, ResolvePlaces, SameLonger
<1>10. ~AtRoot /\ ~AtRoot'  BY <1>1, <1>2 DEF AtRoot
<1> QED  BY <1>1, <1>2, <1>4, <1>5, <1>6, <1>8, <1>9, <1>10, ResolvePlaces, ResolveStep

LEMMA NextPropLitR == ASSUME AtResolvent, NextPropLit PROVE LInv'
<1>1. LInv /\ task = "resolve" /\ UNCHANGED step  BY DEF AtResolvent
<1>2. /\ pc = "prop" /\ pc' = "visit" /\ UNCHANGED <<context, va, stage, goal, rest, root>>
      /\ \E m \in BOOLEAN : unprocessed[m] < Len(truStack)
  BY DEF NextPropLit
<1>3. stage = "root" /\ rest = <<>>  BY <1>1, <1>2 DEF LInv, Tasks
<1>4. UNCHANGED <<names, clauses, truStack, reasons, firstHyp, firstUnprocessed, unitsProcessed>>
  BY <1>2 DEF context, va
<1>5. Permuted  BY <1>4 DEF Permuted
<1>6. AtRoot' <=> AtRoot  BY <1>1, <1>2 DEF AtRoot, step
<1>7. EPc = "prop" /\ EPc' = "visit" /\ UNCHANGED <<EStage, EGoal, ERest>>
  BY <1>1, <1>2, <1>3, <1>5, <1>6, ResolvePlaces, ResolveNext
<1>8. E!IInv'
  <2>1. E!NextPropLit  BY <1>2, <1>7, SameMoves
  <2> QED  BY <1>1, <2>1, Constants, ResolvePlaces, E!NextPropLitInv
<1>9. ~(closed /\ AtRoot)
  <2>1. closed /\ AtRoot => \A m \in BOOLEAN : unprocessed[m] = Len(truStack)
    BY <1>1 DEF LInv, Open
  <2>2. Len(truStack) \in Nat  BY <1>1, EFacts DEF LInv
  <2> QED  BY <1>2, <2>1, <2>2
<1>10. Longer  BY <1>1, <1>4, ResolvePlaces, SameLonger
<1> QED  BY <1>1, <1>2, <1>3, <1>4, <1>5, <1>6, <1>8, <1>9, <1>10, ResolvePlaces, ResolveStep

LEMMA VisitR == ASSUME AtResolvent, Visit PROVE LInv'
<1>1. LInv /\ task = "resolve" /\ UNCHANGED step  BY DEF AtResolvent
<1>2. /\ pc = "visit" /\ pc' \in {"prop", "visit", "found"} /\ UNCHANGED <<stage, goal, rest, root>>
  BY DEF Visit, Replace, Imply
<1>3. stage = "root" /\ rest = <<>>  BY <1>1, <1>2 DEF LInv, Tasks
<1>4. E!IInv  BY <1>1 DEF LInv
<1>5. /\ Permuted /\ Longer /\ unitsProcessed' = unitsProcessed
      /\ UNCHANGED <<firstHyp, firstUnprocessed>>
         \/ (firstUnprocessed' = Len(truStack') /\ (~root => firstHyp' = firstHyp))
  BY <1>4, EFacts, VisitLeaves
<1>6. AtRoot' <=> AtRoot  BY <1>1, <1>2 DEF AtRoot, step
<1>7. EPc = pc /\ EPc' = pc' /\ UNCHANGED <<EStage, EGoal, ERest>>
  BY <1>1, <1>2, <1>3, <1>5, <1>6, ResolvePlaces, ResolveNext
<1>8. E!IInv'
  <2>1. E!Visit  BY <1>7, SameMoves
  <2> QED  BY <1>1, <2>1, Constants, ResolvePlaces, E!VisitInv
<1>9. closed => ~AtRoot /\ firstHyp <= firstUnprocessed  BY <1>1, <1>2 DEF LInv, Open
<1>10. ~AtRoot => ~root  BY <1>1, <1>3 DEF AtRoot
<1>11. ~AtRoot => firstHyp' = firstHyp  BY <1>5, <1>10
<1>12. closed => firstHyp' <= firstUnprocessed'
  <2>1. firstHyp \in 0..Len(truStack) /\ Len(truStack) \in Nat /\ Len(truStack') \in Nat
        /\ Len(truStack) <= Len(truStack')
    BY <1>4, <1>5, EFacts DEF Longer
  <2> QED  BY <1>5, <1>9, <1>11, <2>1
<1> QED  BY <1>1, <1>2, <1>3, <1>5, <1>6, <1>8, <1>9, <1>11, <1>12, ResolvePlaces, ResolveStep

LEMMA PropDoneR == ASSUME AtResolvent, PropDone PROVE LInv'
<1>1. LInv /\ task = "resolve" /\ UNCHANGED step  BY DEF AtResolvent
<1>2. pc = "prop"  BY DEF PropDone
<1>3. stage = "root" /\ rest = <<>> /\ goal = <<>> /\ ~Unsat /\ EPc = "prop"
  BY <1>1, <1>2, ResolvePlaces DEF LInv, Tasks
<1>4. /\ \A m \in BOOLEAN : unprocessed[m] = Len(truStack)
      /\ firstUnprocessed' = Len(truStack)
      /\ firstHyp' = IF root THEN Len(truStack) ELSE firstHyp
      /\ pc' = "stuck"
      /\ UNCHANGED <<stage, rest, goal, unprocessed, cur, root, conflict, hints, queue, progress>>
      /\ UNCHANGED <<context, truStack, reasons, unitsProcessed>>
  BY <1>3 DEF PropDone
<1>5. UNCHANGED <<names, clauses, marked, watch>>  BY <1>4 DEF context
<1>6. Permuted  BY <1>5 DEF Permuted
<1>7. AtRoot' <=> AtRoot  BY <1>1, <1>4 DEF AtRoot, step
<1>8. EPc' = "stuck" /\ UNCHANGED <<EStage, EGoal, ERest>>
  BY <1>1, <1>3, <1>4, <1>6, <1>7, ResolvePlaces, ResolveNext
<1>9. ~(EStage = "root" /\ EGoal # <<>>)
  BY <1>1, <1>3, ResolvePlaces DEF AtRoot
<1>10. E!IInv'
  <2>1. ~E!Unsat  BY <1>3, SameTruth
  <2>2. E!PropDone  BY <1>3, <1>4, <1>5, <1>8, <1>9, <2>1 DEF E!PropDone, E!context
  <2> QED  BY <1>1, <2>2, Constants, ResolvePlaces, E!PropDoneInv
<1>11. Longer  BY <1>1, <1>4, ResolvePlaces, SameLonger
<1>12. ~AtRoot => firstHyp' = firstHyp
  BY <1>1, <1>3, <1>4 DEF AtRoot
<1>13. firstHyp' <= firstUnprocessed'
  <2>1. firstHyp \in 0..Len(truStack) /\ Len(truStack) \in Nat  BY <1>1, EFacts DEF LInv
  <2> QED  BY <1>4, <2>1
<1>14. unitsProcessed'  BY <1>1, <1>4, ResolvePlaces
<1>15. \A m \in BOOLEAN : unprocessed'[m] = Len(truStack')  BY <1>4
<1> QED  BY <1>1, <1>3, <1>4, <1>6, <1>7, <1>10, <1>11, <1>12, <1>13, <1>14, <1>15, ResolveStep

(* propagate() goes on from the hints.                                      *)
LEMMA PropagateTurn ==
  ASSUME AtResolvent, pc = "propagate", pc' = "prop", stage' = "root",
         UNCHANGED <<context, goal, rest, cur, conflict, hints, queue, progress>>,
         unprocessed' \in [BOOLEAN -> Nat], root' \in BOOLEAN
  PROVE  /\ EPc' = "prop" /\ EStage' = (IF root' THEN "root" ELSE "goal")
         /\ EGoal' = (IF root' THEN <<>> ELSE EGoal)
         /\ E!TypedControl' /\ E!Stages' /\ (AtRoot' <=> root')
         /\ E!IInv /\ ~AtRoot /\ LInv /\ task = "resolve" /\ UNCHANGED step /\ Permuted
         /\ goal' = <<>> /\ rest' = <<>> /\ unitsProcessed
<1>1. LInv /\ task = "resolve" /\ UNCHANGED step  BY DEF AtResolvent
<1>2. stage = "hint" /\ rest = <<>> /\ goal = <<>>  BY <1>1 DEF LInv, Tasks
<1>3. ~AtRoot  BY <1>2 DEF AtRoot
<1>4. UNCHANGED <<names, clauses>>  BY DEF context
<1>5. Permuted  BY <1>4 DEF Permuted
<1>6. AtRoot' <=> root'  BY <1>1 DEF AtRoot, step
<1>7. /\ EPc' = "prop" /\ EStage' = (IF root' THEN "root" ELSE "goal")
      /\ EGoal' = (IF root' THEN <<>> ELSE EGoal) /\ ERest' = <<>>
  BY <1>1, <1>2, <1>3, <1>5, <1>6, ResolvePlaces, ResolveNext
<1>8. E!IInv /\ E!TypedControl /\ EGoal \in Seq(Literals) /\ unitsProcessed
  BY <1>1, <1>3, ResolvePlaces, EFacts
<1>9. E!TypedControl'
  <2>1. <<>> \in Seq(E!Literals) /\ E!Range(<<>>) = {}  BY DEF E!Range
  <2>2. EGoal' \in Seq(E!Literals)  BY <1>7, <1>8, <2>1, SameContext
  <2>3. EPc' \in E!Places /\ EStage' \in {"hint", "empty", "root", "goal"}  BY <1>7 DEF E!Places
  <2>4. E!Range(ERest') \subseteq E!Range(EGoal')  BY <1>7, <2>1
  <2>5. E!Range(ERest)' = E!Range(ERest') /\ E!Range(EGoal)' = E!Range(EGoal')  BY DEF E!Range
  <2>6. ERest' \in Seq(E!Literals)  BY <1>7, <2>1
  <2> QED  BY <1>4, <1>8, <2>2, <2>3, <2>4, <2>5, <2>6 DEF E!TypedControl
<1>10. E!Stages'  BY <1>7 DEF E!Stages, E!Hinted
<1> QED  BY <1>1, <1>2, <1>3, <1>5, <1>6, <1>7, <1>8, <1>9, <1>10

(* The hypotheses are dropped.                                             *)
LEMMA DroppedR ==
  ASSUME AtResolvent, pc = "propagate", pc' = "prop", stage' = "root", root' = TRUE,
         UNCHANGED <<context, goal, rest, cur, conflict, hints, queue, progress>>,
         UNCHANGED <<firstHyp, unitsProcessed>>, ~Unsat,
         firstHyp < Len(truStack), ClearTo(firstHyp),
         unprocessed' = [m \in BOOLEAN |-> firstUnprocessed']
  PROVE  E!IInv'
<1>1. E!IInv  BY DEF AtResolvent, LInv
<1>2. /\ truStack \in Seq(Lits) /\ Len(truStack) \in Nat /\ firstHyp \in 0..Len(truStack)
      /\ firstUnprocessed \in 0..Len(truStack) /\ firstHyp \in Nat /\ TypedTrail /\ ConflictLast
      /\ \A n \in 1..Len(truStack) : reasons[truStack[n]] = None => n > firstHyp
      /\ Grounded
  BY <1>1, EFacts
<1>3. CutTo(firstHyp) /\ firstUnprocessed' = IF firstHyp < firstUnprocessed THEN firstHyp
                                             ELSE firstUnprocessed
  BY ClearCuts
<1>4. UNCHANGED <<names, clauses>>  BY DEF context
<1>5. \A k \in 1..firstHyp : /\ reasons[truStack[k]] # None
                             /\ reasons[truStack[k]] \in names'
                             /\ clauses'[reasons[truStack[k]]] = clauses[reasons[truStack[k]]]
  <2> TAKE k \in 1..firstHyp
  <2>1. k \in 1..Len(truStack) /\ ~(k > firstHyp)  BY <1>2
  <2>2. reasons[truStack[k]] # None  BY <1>2, <2>1
  <2>3. reasons[truStack[k]] \in names  BY <1>2, <2>1, <2>2 DEF Grounded, Forced
  <2> QED  BY <1>4, <2>2, <2>3
<1>6. E!TrailInv' /\ E!TypedTrail'
  <2>1. E!TypedTrail /\ E!TrailInv  BY <1>1 DEF E!IInv, E!Typed
  <2>2. E!CutTo(firstHyp)  BY <1>3 DEF CutTo, E!CutTo, Lits, E!Lits
  <2>3. firstHyp \in 0..firstHyp  BY <1>2
  <2>4. /\ E!TrailInv' /\ Len(truStack') = firstHyp
        /\ truStack' \in Seq(E!Lits) /\ E!IsInjective(truStack')
        /\ reasons' \in [E!Lits -> Ids \union {None}]
    BY <1>5, <2>1, <2>2, <2>3, Constants, E!CutTrail
  <2>5. firstHyp' \in 0..Len(truStack') /\ firstUnprocessed' \in 0..Len(truStack')
    BY <1>2, <1>3, <2>4
  <2>6. unitsProcessed' \in BOOLEAN  BY <1>2 DEF TypedTrail
  <2> QED  BY <2>4, <2>5, <2>6 DEF E!TypedTrail
<1>7. /\ Len(truStack') = firstHyp
      /\ \A k \in 1..firstHyp :
           truStack'[k] = truStack[k] /\ reasons'[truStack[k]] = reasons[truStack[k]]
  BY <1>2, <1>3, Cut
<1>8. unprocessed' \in [BOOLEAN -> Nat]
  <2>1. firstUnprocessed' \in Nat  BY <1>2, <1>3
  <2> QED  BY <2>1
<1>9. EPc' = "prop" /\ E!TypedControl' /\ E!Stages'  BY <1>8, PropagateTurn
<1>10. E!Consistently'
  <2>1. ~UnsatAt(firstHyp)
    <3>1. E!TypedTrail /\ E!ConflictLast /\ ~E!Unsat  BY <1>2, SameContext, SameTruth
    <3>2. ~E!UnsatAt(firstHyp)  BY <1>2, <3>1, E!NoConflictAt, Constants
    <3> QED  BY <3>2, SameTruth
  <2>2. ~E!Unsat'
    <3>1. \A k \in 1..firstHyp : \A j \in 1..firstHyp : truStack[j] = -truStack[k] <=>
                                                        truStack'[j] = -truStack'[k]
      BY <1>7
    <3>2. firstHyp > 0 => firstHyp \in 1..firstHyp  BY <1>2
    <3> QED  BY <1>7, <2>1, <3>1, <3>2 DEF UnsatAt, E!Unsat, E!UnsatAt
  <2>3. \A n \in 1..Len(truStack') : reasons'[truStack'[n]] # None  BY <1>5, <1>7
  <2> QED  BY <1>9, <2>2, <2>3 DEF E!Consistently
<1>11. E!TypedContext' /\ E!Lists'  BY <1>1, Constants, E!Frame DEF context, E!context
<1> QED  BY <1>6, <1>9, <1>10, <1>11 DEF E!IInv, E!Typed

(* They are kept, or there are none.                                        *)
LEMMA KeptOnR ==
  ASSUME AtResolvent, pc = "propagate", pc' = "prop", stage' = "root", root' \in BOOLEAN,
         UNCHANGED <<context, va, goal, rest, cur, conflict, hints, queue, progress>>,
         ~Unsat, root' => firstHyp = Len(truStack), unprocessed' \in [BOOLEAN -> Nat]
  PROVE  E!IInv'
<1>1. /\ EPc' = "prop" /\ EGoal' = (IF root' THEN <<>> ELSE EGoal)
      /\ E!TypedControl' /\ E!Stages' /\ E!IInv
  BY PropagateTurn
<1>2. UNCHANGED <<truStack, reasons, firstHyp>>  BY DEF va
<1>3. E!Consistently'
  <2>1. ~E!Unsat  BY SameTruth
  <2>2. ~E!Unsat'  BY <1>2, <2>1 DEF E!Unsat, E!UnsatAt
  <2>3. root' => \A n \in 1..Len(truStack) : reasons[truStack[n]] # None
    <3> SUFFICES ASSUME root', NEW n \in 1..Len(truStack), reasons[truStack[n]] = None PROVE FALSE
      OBVIOUS
    <3>1. n > firstHyp /\ firstHyp = Len(truStack) /\ Len(truStack) \in Nat  BY <1>1, EFacts
    <3> QED  BY <3>1
  <2> QED  BY <1>1, <1>2, <2>2, <2>3 DEF E!Consistently
<1>4. Range(EGoal) \subseteq Range(EGoal') \/ firstHyp = Len(truStack)  BY <1>1
<1> QED  BY <1>1, <1>3, <1>4, Regoaled

LEMMA PropagateR == ASSUME AtResolvent, Propagate PROVE LInv'
<1>1. LInv /\ task = "resolve" /\ UNCHANGED step  BY DEF AtResolvent
<1>2. pc = "propagate" /\ UNCHANGED context  BY DEF Propagate
<1>3. stage = "hint" /\ rest = <<>> /\ goal = <<>> /\ ~AtRoot
  BY <1>1, <1>2 DEF LInv, Tasks, AtRoot
<1>4. E!IInv /\ unitsProcessed /\ TypedTrail /\ (closed => firstHyp <= firstUnprocessed)
  BY <1>1, ResolvePlaces
<1>5. /\ Len(truStack) \in Nat /\ firstHyp \in 0..Len(truStack)
      /\ firstUnprocessed \in 0..Len(truStack) /\ ConflictLast
  BY <1>4, EFacts
<1>6. UNCHANGED <<names, clauses>>  BY <1>2 DEF context
<1>7. Permuted  BY <1>6 DEF Permuted
<1>8. CASE Unsat /\ Found(truStack[Len(truStack)]) /\ UNCHANGED va
  <2>1. /\ pc' = "found" /\ conflict' = truStack[Len(truStack)]
        /\ UNCHANGED <<stage, goal, rest, unprocessed, cur, root, hints, queue, progress>>
        /\ UNCHANGED <<truStack, reasons, firstHyp, firstUnprocessed, unitsProcessed>>
    BY <1>8 DEF Found, va
  <2>2. ~AtRoot'  BY <1>3, <2>1 DEF AtRoot
  <2>3. EPc = "propagate" /\ EPc' = "found" /\ UNCHANGED <<EStage, EGoal, ERest>>
    BY <1>1, <1>2, <1>3, <1>7, <2>1, <2>2, ResolvePlaces, ResolveNext
  <2>4. E!IInv'
    <3>1. E!Unsat  BY <1>8, SameTruth
    <3>2. E!Propagate  BY <1>2, <1>8, <2>1, <2>3, <3>1 DEF E!Propagate, E!Found, E!va, va, E!context, context
    <3> QED  BY <1>4, <3>2, Constants, E!PropagateInv
  <2>5. Longer  BY <1>4, <2>1, SameLonger
  <2> QED  BY <1>1, <1>3, <1>4, <1>7, <2>1, <2>2, <2>4, <2>5, ResolveStep
<1>9. CASE /\ ~Unsat
           /\ ~unitsProcessed \/ firstUnprocessed < firstHyp
           /\ IF firstHyp < Len(truStack) THEN ClearTo(firstHyp)
              ELSE UNCHANGED <<truStack, reasons, firstUnprocessed>>
           /\ UNCHANGED <<firstHyp, unitsProcessed>>
           /\ IF UnsatAt(firstHyp) THEN Found(truStack[firstHyp])
              ELSE /\ stage' = "root"
                   /\ root' = TRUE
                   /\ unprocessed' = [m \in BOOLEAN |-> firstUnprocessed']
                   /\ pc' = IF unitsProcessed THEN "prop" ELSE "units"
                   /\ UNCHANGED <<goal, rest, cur, conflict, hints, queue, progress>>
  <2>1. ~UnsatAt(firstHyp)
    <3>1. E!TypedTrail /\ E!ConflictLast /\ ~E!Unsat  BY <1>4, <1>5, <1>9, SameContext, SameTruth
    <3>2. ~E!UnsatAt(firstHyp)  BY <1>5, <3>1, E!NoConflictAt, Constants
    <3> QED  BY <3>2, SameTruth
  <2>2. /\ stage' = "root" /\ root' = TRUE /\ pc' = "prop"
        /\ unprocessed' = [m \in BOOLEAN |-> firstUnprocessed']
        /\ UNCHANGED <<goal, rest, cur, conflict, hints, queue, progress>>
    BY <1>4, <1>9, <2>1
  <2>3. ~closed  BY <1>4, <1>5, <1>9
  <2>4. AtRoot'  BY <1>1, <2>2 DEF AtRoot, step
  <2>5. E!IInv'
    <3>1. CASE firstHyp < Len(truStack)
      BY <1>2, <1>9, <2>2, <3>1, DroppedR
    <3>2. CASE ~(firstHyp < Len(truStack))
      <4>1. UNCHANGED va /\ firstHyp = Len(truStack)  BY <1>5, <1>9, <3>2 DEF va
      <4>2. unprocessed' \in [BOOLEAN -> Nat]
        <5>1. firstUnprocessed' \in Nat  BY <1>5, <4>1 DEF va
        <5> QED  BY <2>2, <5>1
      <4>3. UNCHANGED <<context, va, goal, rest, cur, conflict, hints, queue, progress>>
        BY <1>2, <2>2, <4>1
      <4> QED  BY <1>2, <1>9, <2>2, <4>1, <4>2, <4>3, KeptOnR
    <3> QED  BY <3>1, <3>2
  <2>6. unitsProcessed'  BY <1>4, <1>9
  <2> QED  BY <1>1, <1>3, <1>7, <2>2, <2>3, <2>4, <2>5, <2>6, ResolveStep
<1>10. CASE /\ ~Unsat
            /\ unitsProcessed /\ firstUnprocessed >= firstHyp
            /\ stage' = "root"
            /\ root' = (firstHyp >= Len(truStack))
            /\ unprocessed' = [m \in BOOLEAN |-> firstUnprocessed]
            /\ pc' = "prop"
            /\ UNCHANGED <<va, goal, rest, cur, conflict, hints, queue, progress>>
  <2>1. /\ UNCHANGED <<truStack, reasons, firstHyp, firstUnprocessed, unitsProcessed>>
        /\ root' \in BOOLEAN
    BY <1>10 DEF va
  <2>2. root' => firstHyp = Len(truStack) /\ firstUnprocessed = Len(truStack)
    <3>1. root' => firstHyp >= Len(truStack)  BY <1>10, Zenon
    <3> QED  BY <1>5, <1>10, <3>1
  <2>3. unprocessed' \in [BOOLEAN -> Nat]
    <3>1. firstUnprocessed \in Nat  BY <1>5
    <3> QED  BY <1>10, <3>1
  <2>4. E!IInv'  BY <1>2, <1>10, <2>1, <2>2, <2>3, KeptOnR
  <2>5. Longer  BY <1>4, <2>1, SameLonger
  <2>6. AtRoot' => root'  BY DEF AtRoot
  <2>7. AtRoot' => \A m \in BOOLEAN : unprocessed'[m] = Len(truStack')  BY <1>10, <2>1, <2>2, <2>6
  <2>8. closed => firstHyp' <= firstUnprocessed'  BY <1>4, <2>1
  <2> QED  BY <1>1, <1>3, <1>4, <1>7, <1>10, <2>1, <2>4, <2>5, <2>7, <2>8, ResolveStep
<1> QED  BY <1>8, <1>9, <1>10 DEF Propagate

LEMMA RunResolve == ASSUME LInv, Run, task = "resolve" PROVE LInv'
<1>1. AtResolvent  BY DEF AtResolvent, Run
<1>2. StartHint \/ UseHint \/ Propagate \/ ProcessUnits \/ Assume \/ NextPropLit \/ PropDone \/ Visit
  BY DEF Run
<1>3. pc # "units"  BY <1>1, ResolvePlaces
<1>4. ~ProcessUnits  BY <1>3 DEF ProcessUnits
<1> QED  BY <1>1, <1>2, <1>4, StartHintR, UseHintR, PropagateR, AssumeR, NextPropLitR,
            PropDoneR, VisitR

LEMMA RunL == ASSUME LInv, Run PROVE LInv'
  BY RunWork, RunResolve DEF Run

LEMMA RoundL == ASSUME LInv, RoundEnds PROVE LInv'
<1>1. task \in {"rup", "rats", "resolve"}
  <2>1. pc = "hints"  BY DEF RoundEnds
  <2> QED  BY <2>1 DEF LInv, RatTyped, Tasks
<1>2. CASE task = "resolve"  BY <1>2, RoundR
<1>3. CASE task \in {"rup", "rats"} /\ progress  BY <1>3, WorkRound
<1>4. CASE task = "rats" /\ ~progress  BY <1>4, GivenUpRound
<1>5. CASE task = "rup" /\ ~progress
  <2>1. task' = "rat" \/ (pc' = "propagate" /\ UNCHANGED <<task, witness>>)
    BY <1>5 DEF RoundEnds
  <2>2. CASE task' = "rat"  BY <1>5, <2>2, SpecialRound
  <2>3. CASE pc' = "propagate" /\ UNCHANGED <<task, witness>>  BY <1>5, <2>3, WorkRound
  <2> QED  BY <2>1, <2>2, <2>3
<1> QED  BY <1>1, <1>2, <1>3, <1>4, <1>5

-----------------------------------------------------------------------------
(* The step is proved, and a stuttering step.                               *)

(* HintsAccepted, said of sets and sequences that do not change.              *)
FirstAccepted ==
  TypedContext /\ RatTyped /\ pc = "write" /\ ~HintsAccepted =>
    ~Tautology(lemma) /\
    \E A \in SUBSET Lits, h \in Seq(Ids) :
      A = Negated(lemma) /\ h = preRat
        /\ ~(ReplayFrom(A, h).proved /\ ~ReplayFrom(A, h).rejected)

LEMMA AcceptedFirst == FirstAccepted
<1> SUFFICES ASSUME TypedContext, RatTyped, ~HintsAccepted
             PROVE  ~Tautology(lemma) /\
                    \E A \in SUBSET Lits, h \in Seq(Ids) :
                      A = Negated(lemma) /\ h = preRat
                        /\ ~(ReplayFrom(A, h).proved /\ ~ReplayFrom(A, h).rejected)
  BY DEF FirstAccepted
<1>1. Negated(lemma) \in SUBSET Lits /\ preRat \in Seq(Ids)
  BY NegatedLits, NamesAreIds DEF RatTyped
<1>2. ~Tautology(lemma)  BY DEF HintsAccepted
<1>3. ~(ReplayFrom(Negated(lemma), preRat).proved /\ ~ReplayFrom(Negated(lemma), preRat).rejected)
  BY DEF HintsAccepted
<1> QED  BY <1>1, <1>2, <1>3

LEMMA ProvedL == ASSUME LInv, Proved PROVE LInv'
<1>1. /\ pc = "found" /\ task \in {"rup", "rats"} /\ pc' = "write" /\ preRat' = FinalHint
      /\ UNCHANGED <<context, va, stage, goal, rest, unprocessed, cur, root, conflict, hints,
                     queue, progress>>
      /\ UNCHANGED <<task, lemma, pivot, witness, groups, depth, closed, unseen, resolvent,
                     given, written, temp>>
  BY DEF Proved, control
<1>2. UNCHANGED <<names, clauses>>  BY <1>1 DEF context
<1>3. goal = lemma /\ (task = "rats" => Hinted) /\ E!IInv /\ TypedContext /\ lemma \in Seq(Literals)
  BY <1>1, PlainPlaces
<1>4. EPc = "found" /\ EGoal = lemma /\ EPc' = "found" /\ UNCHANGED <<EStage, EGoal, ERest>>
  BY <1>1, <1>3 DEF EPc, EStage, EGoal, ERest, AtRoot
<1>5. E!IInv'  BY <1>1, <1>3, <1>4, Untroubled
<1>6. TypedContext'  BY <1>5, SameContextNext DEF E!IInv, E!Typed
<1>7. Permuted  BY <1>2 DEF Permuted
<1>8. FinalHint \in Seq(names)
  <2>1. /\ E!FinalHint \in Seq(Ids)
        /\ \A n \in 1..Len(E!FinalHint) : E!Rests(E!FinalHint, n)
    BY <1>3, <1>4, Constants, E!HintOrdered
  <2>2. \A n \in 1..Len(E!FinalHint) : E!FinalHint[n] \in names
    BY <2>1 DEF E!Rests
  <2>3. E!FinalHint \in Seq(names)  BY <2>1, <2>2
  <2> QED  BY <2>3, SameHint
<1>9. RatTyped'
  <2>1. Groups' = Groups  BY <1>2 DEF Groups
  <2> QED  BY <1>1, <1>2, <1>8, <2>1 DEF LInv, RatTyped
<1>10. Tasks'
  <2>1. Hinted' <=> Hinted  BY <1>1 DEF Hinted
  <2> QED  BY <1>1, <1>3, <2>1 DEF LInv, Tasks
<1>11. Open'
  <2>1. Rup(lemma)' <=> Rup(lemma)  BY <1>1, <1>3, <1>6, <1>7, SameRup
  <2>2. ~closed /\ (task = "rats" => ~Rup(lemma))  BY <1>1 DEF LInv, Tasks, Open
  <2> QED  BY <1>1, <2>1, <2>2 DEF Open
<1>12. Denied'  BY <1>1 DEF Denied
<1>13. Holding'  BY <1>1 DEF Holding
<1>14. HintsAccepted'
  <2>1. FirstAccepted'  BY AcceptedFirst, PTL
  <2> SUFFICES ASSUME ~HintsAccepted' PROVE FALSE  OBVIOUS
  <2>2. ~Tautology(lemma)' /\
        \E A \in SUBSET Lits, h \in Seq(Ids) :
          A = Negated(lemma)' /\ h = preRat'
            /\ ~(ReplayFrom(A, h)'.proved /\ ~ReplayFrom(A, h)'.rejected)
    BY <1>1, <1>6, <1>9, <2>1 DEF FirstAccepted
  <2>3. PICK A \in SUBSET Lits, h \in Seq(Ids) :
          A = Negated(lemma)' /\ h = preRat'
            /\ ~(ReplayFrom(A, h)'.proved /\ ~ReplayFrom(A, h)'.rejected)
    BY <2>2
  <2>4. A = Negated(lemma) /\ h = FinalHint  BY <1>1, <2>3 DEF Negated
  <2>5. ReplayFrom(A, h)' = ReplayFrom(A, h)  BY <1>3, <1>6, <1>7, SameReplay
  <2>6. ~Tautology(lemma)  BY <1>1, <2>2 DEF Tautology
  <2>7. Replay(lemma, FinalHint).proved /\ ~Replay(lemma, FinalHint).rejected
    <3>1. ~E!Tautology(EGoal)  BY <1>4, <2>6, SameGoal
    <3>2. E!Replay(EGoal, E!FinalHint).proved /\ ~E!Replay(EGoal, E!FinalHint).rejected
      BY <1>3, <1>4, <3>1, Constants, E!FinalHintAccepted
    <3>3. E!Replay(EGoal, E!FinalHint) = Replay(lemma, FinalHint)  BY <1>4, SameHint
    <3> QED  BY <3>2, <3>3
  <2> QED  BY <2>3, <2>4, <2>5, <2>7 DEF Replay
<1> QED  BY <1>5, <1>9, <1>10, <1>11, <1>12, <1>13, <1>14 DEF LInv

LEMMA StillAccepted ==
  ASSUME HintsAccepted, UNCHANGED <<pc, lemma, preRat, task, written, witness, clauses>>
  PROVE  HintsAccepted'
<1>1. \A A, h : ReplayFrom(A, h)' = ReplayFrom(A, h)  BY DEF ReplayFrom, Use
<1>2. \A w, c : Reduct(w, c)' = Reduct(w, c)  BY DEF Reduct, Keep
<1>3. \A c : Tautology(c)' <=> Tautology(c)  BY DEF Tautology
<1>4. \A c : Negated(c)' = Negated(c)  BY DEF Negated
<1> QED  BY <1>1, <1>2, <1>3, <1>4 DEF HintsAccepted

LEMMA StutterL == ASSUME LInv, UNCHANGED ratVars PROVE LInv'
<1>1. /\ UNCHANGED <<context, va, pc, stage, goal, rest, unprocessed, cur, root, conflict, hints,
                     queue, progress>>
      /\ UNCHANGED <<task, lemma, pivot, witness, groups, depth, closed, unseen, resolvent,
                     given, preRat, written, temp>>
  BY DEF ratVars, vars, control, cache, step
<1>2. UNCHANGED <<names, clauses, truStack, reasons, firstHyp, firstUnprocessed, unitsProcessed>>
  BY <1>1 DEF context, va
<1>3. E!IInv /\ TypedContext /\ TypedTrail  BY EFacts DEF LInv
<1>4. AtRoot' <=> AtRoot  BY <1>1 DEF AtRoot
<1>5. EPc' = EPc /\ EStage' = EStage /\ ERest' = ERest
  BY <1>1 DEF EPc, EStage, ERest
<1>6. EGoal' = EGoal
  <2>1. Both' = Both  BY <1>1, <1>2 DEF Both, Reduced
  <2>2. \A T : Arranged(T)' = Arranged(T)  BY DEF Arranged
  <2>3. Arranged(Both)' = Arranged(Both)  BY <2>1, <2>2 DEF Arranged
  <2> QED  BY <1>1, <1>4, <2>3 DEF EGoal
<1>7. E!IInv'  BY <1>1, <1>3, <1>5, <1>6, Untroubled
<1>8. TypedContext'  BY <1>7, SameContextNext DEF E!IInv, E!Typed
<1>9. Permuted  BY <1>2 DEF Permuted
<1>10. RatTyped'
  <2>1. Groups' = Groups  BY <1>2 DEF Groups
  <2> QED  BY <1>1, <1>2, <2>1 DEF LInv, RatTyped
<1>11. Tasks'  BY <1>1, <1>2 DEF LInv, Tasks, Hinted
<1>12. Open'
  <2>1. Rup(lemma)' <=> Rup(lemma)  BY <1>1, <1>3, <1>8, <1>9, SameRup
  <2> QED  BY <1>1, <1>2, <1>4, <2>1 DEF LInv, Open
<1>13. Denied'
  <2>1. Hinted' <=> Hinted  BY <1>1 DEF Hinted
  <2>2. \A l : IsFalse(l)' <=> IsFalse(l)  BY <1>2 DEF IsFalse, IsTrue
  <2> QED  BY <1>1, <2>1, <2>2 DEF LInv, Denied
<1>14. Holding'
  <2>1. CASE pc = "resolvents" \/ (task = "resolve" /\ ~AtRoot)
    <3>1. Sharing /\ (pc = "resolvents" => depth = Len(truStack))
      BY <2>1 DEF LInv, Holding
    <3>2. depth <= Len(truStack')  BY <1>2, <3>1 DEF Sharing
    <3>3. truStack' \in Seq(Lits)  BY <1>2, <1>3 DEF TypedTrail
    <3>4. Sharing'
      BY <1>1, <1>2, <1>3, <1>8, <1>9, <1>10, <3>1, <3>2, <3>3, SharingStep DEF LInv
    <3> QED  BY <1>1, <1>2, <3>1, <3>4 DEF Holding
  <2>2. CASE ~(pc = "resolvents" \/ (task = "resolve" /\ ~AtRoot))
    BY <1>1, <1>4, <2>2 DEF Holding
  <2> QED  BY <2>1, <2>2
<1>15. HintsAccepted'  BY <1>1, <1>2, StillAccepted DEF LInv
<1> QED  BY <1>7, <1>10, <1>11, <1>12, <1>13, <1>14, <1>15 DEF LInv

-----------------------------------------------------------------------------
(* The step is not proved: its resolvents are tried.                        *)

(* The engine waits for the next resolvent.                                 *)
LEMMA Settled ==
  ASSUME E!IInv, ~Unsat, UNCHANGED <<context, va, unprocessed, cur, root, conflict>>,
         EPc' = "assume", EStage' = "hint", ERest' \in Seq(Literals), EGoal' \in Seq(Literals),
         Range(EGoal) \subseteq Range(EGoal'), Range(ERest') \subseteq Range(EGoal'),
         hints' \in Seq(names), queue' \in Seq(names), progress' \in BOOLEAN
  PROVE  E!IInv'
<1>1. E!TypedControl  BY EFacts
<1>2. UNCHANGED <<truStack, names>>  BY DEF va, context
<1>3. E!TypedControl'
  <2>2. EGoal' \in Seq(E!Literals) /\ ERest' \in Seq(E!Literals)  BY SameContext
  <2>3. E!Range(ERest') \subseteq E!Range(EGoal')  BY SameContext
  <2>4. E!Range(ERest)' = E!Range(ERest') /\ E!Range(EGoal)' = E!Range(EGoal')  BY DEF E!Range
  <2>5. EPc' \in E!Places  BY DEF E!Places
  <2> QED  BY <1>1, <1>2, <2>2, <2>3, <2>4, <2>5 DEF E!TypedControl
<1>4. E!Stages'  BY DEF E!Stages
<1>5. E!Consistently'
  <2>1. ~E!Unsat  BY SameTruth
  <2>2. ~E!Unsat'  BY <1>2, <2>1 DEF E!Unsat, E!UnsatAt
  <2> QED  BY <2>2 DEF E!Consistently
<1> QED  BY <1>3, <1>4, <1>5, Regoaled

NothingYet == TypedContext /\ RatTyped /\ preRat = <<>> /\ temp = <<>> => Started

LEMMA NothingStarted == NothingYet
<1> SUFFICES ASSUME TypedContext, RatTyped, preRat = <<>>, temp = <<>> PROVE Started
  BY DEF NothingYet
<1>1. Negated(lemma) \in SUBSET Lits  BY NegatedLits DEF RatTyped
<1>2. ReplayFrom(Negated(lemma), preRat) = Begun(Negated(lemma))  BY <1>1, ReplayNothing
<1>3. Negated(lemma) \union Range(temp) = Negated(lemma)
  <2>1. Range(<<>>) = {}  BY DEF Range
  <2> QED  BY <2>1
<1> QED  BY <1>2, <1>3 DEF Started

LEMMA StuckFacts ==
  ASSUME LInv, pc = "stuck", task \in {"rup", "rats"}
  PROVE  /\ E!IInv /\ EGoal = lemma /\ ~Unsat /\ unitsProcessed
         /\ lemma \in Seq(Literals) /\ TypedTrail /\ TypedContext
         /\ Negated(lemma) \subseteq Range(truStack)
         /\ \A n \in 0..Len(truStack) : ~UnsatAt(n)
         /\ \A n \in 1..Len(truStack) : reasons[truStack[n]] = None => truStack[n] \in Negated(lemma)
         /\ preRat = <<>> /\ written = <<>> /\ temp = <<>>
         /\ (task = "rup" => firstHyp <= firstUnprocessed)
         /\ (task = "rats" => ~Rup(lemma))
<1>1. /\ goal = lemma /\ E!IInv /\ TypedTrail /\ TypedContext /\ lemma \in Seq(Literals)
      /\ (task = "rats" => Hinted)
  BY PlainPlaces
<1>2. /\ EGoal = lemma /\ EStage = stage /\ EPc \in {"stuck", "hints"}
      /\ (task = "rup" => EPc = "stuck")
  BY <1>1 DEF EGoal, EPc, EStage, AtRoot
<1>3. /\ ~Unsat /\ ConflictLast /\ Len(truStack) \in Nat /\ firstHyp \in 0..Len(truStack)
      /\ E!TypedControl
      /\ \A n \in 1..Len(truStack) : reasons[truStack[n]] = None => truStack[n] \in Negated(EGoal)
  BY <1>1, <1>2, EFacts
<1>4. \A n \in 0..Len(truStack) : ~UnsatAt(n)
  <2>1. E!TypedTrail /\ E!ConflictLast /\ ~E!Unsat  BY <1>1, <1>3, SameContext, SameTruth
  <2>2. \A n \in 0..Len(truStack) : ~E!UnsatAt(n)  BY <2>1, E!NoConflictAt, Constants
  <2> QED  BY <2>2, SameTruth
<1>5. Negated(lemma) \subseteq Range(truStack)
  <2>1. stage \in {"hint", "empty", "root", "goal"}  BY <1>2, <1>3 DEF E!TypedControl
  <2>2. CASE stage = "root"
    <3>1. lemma = <<>>  BY <2>2 DEF LInv, Denied
    <3> QED  BY <3>1 DEF Negated, Range
  <2>3. CASE stage # "root"
    <3>1. Hinted \/ stage = "goal"  BY <2>1, <2>3 DEF Hinted
    <3>2. \A l \in Range(lemma) : IsFalse(l)  BY <3>1 DEF LInv, Denied
    <3> QED  BY <3>2 DEF Negated, IsFalse, IsTrue
  <2> QED  BY <2>2, <2>3
<1>6. /\ preRat = <<>> /\ written = <<>> /\ temp = <<>> /\ unitsProcessed
      /\ (task = "rats" => ~Rup(lemma))
      /\ (task = "rup" => firstUnprocessed = Len(truStack))
  BY DEF LInv, Tasks, Open
<1>7. task = "rup" => firstHyp <= firstUnprocessed  BY <1>3, <1>6
<1> QED  BY <1>1, <1>2, <1>3, <1>4, <1>5, <1>6, <1>7

LEMMA NotProvedL == ASSUME LInv, NotProved PROVE LInv' \/ pc' = "panic"
<1> SUFFICES ASSUME pc' # "panic" PROVE LInv'  OBVIOUS
<1> DEFINE w == IF witness = {} THEN {pivot} \ {0} ELSE {l \in witness : ~IsTrue(l)}
<1>1. /\ pc = "stuck" /\ task \in {"rup", "rats"}
      /\ witness' = w /\ depth' = Len(truStack) /\ closed' = (task = "rup")
      /\ task' = "rat" /\ pc' = "resolvents"
      /\ UNCHANGED <<context, va, stage, goal, rest, unprocessed, cur, root, conflict, hints,
                     queue, progress, lemma, pivot, groups, preRat, written, temp>>
  BY DEF NotProved, Panics, control
<1>2. w \subseteq Literals
  <2>1. pivot \in Lits /\ witness \subseteq Literals  BY DEF LInv, RatTyped
  <2> QED  BY <2>1 DEF Literals
<1> HIDE DEF w
<1>3. UNCHANGED <<names, clauses, truStack, reasons, firstHyp, firstUnprocessed, unitsProcessed>>
  BY <1>1 DEF context, va
<1>4. /\ E!IInv /\ EGoal = lemma /\ ~Unsat /\ unitsProcessed
      /\ lemma \in Seq(Literals) /\ TypedTrail /\ TypedContext
      /\ Negated(lemma) \subseteq Range(truStack)
      /\ \A n \in 0..Len(truStack) : ~UnsatAt(n)
      /\ \A n \in 1..Len(truStack) : reasons[truStack[n]] = None => truStack[n] \in Negated(lemma)
      /\ preRat = <<>> /\ written = <<>> /\ temp = <<>>
      /\ (task = "rup" => firstHyp <= firstUnprocessed)
      /\ (task = "rats" => ~Rup(lemma))
  BY <1>1, StuckFacts
<1>5. EPc' = "assume" /\ EStage' = "hint" /\ EGoal' = lemma /\ ERest' = <<>>
  BY <1>1 DEF EPc, EStage, EGoal, ERest
<1>6. E!IInv'
  <2>1. hints \in Seq(names) /\ queue \in Seq(names) /\ progress \in BOOLEAN
    <3>1. E!TypedControl  BY <1>4, EFacts
    <3> QED  BY <3>1 DEF E!TypedControl
  <2>2. <<>> \in Seq(Literals) /\ Range(<<>>) = {}  BY DEF Range
  <2> QED  BY <1>1, <1>4, <1>5, <2>1, <2>2, Settled
<1>7. TypedContext'  BY <1>6, SameContextNext DEF E!IInv, E!Typed
<1>8. Len(truStack) \in Nat /\ firstHyp \in 0..Len(truStack)  BY <1>4 DEF TypedTrail
<1>9. RatTyped'
  <2>1. Groups' = Groups  BY <1>3 DEF Groups
  <2> QED  BY <1>1, <1>2, <1>3, <1>8, <2>1 DEF LInv, RatTyped
<1>10. Tasks'  BY <1>1 DEF Tasks
<1>11. Open'
  <2>1. Permuted  BY <1>3 DEF Permuted
  <2>2. Rup(lemma)' <=> Rup(lemma)  BY <1>1, <1>4, <1>7, <2>1, SameRup
  <2> QED  BY <1>1, <1>3, <1>4, <2>2 DEF Open, AtRoot
<1>12. Denied'  BY <1>1 DEF Denied
<1>13. Holding'
  <2>1. Shared' = Range(truStack)
    <3>1. \A x : x \in Range(truStack) <=> \E n \in 1..Len(truStack) : truStack[n] = x
      BY <1>4, InRange DEF TypedTrail
    <3> QED  BY <1>1, <1>3, <3>1 DEF Shared
  <2>2. Negated(lemma)' = Negated(lemma)  BY <1>1 DEF Negated
  <2>3. Range(temp') = {} /\ Range(written') = {} /\ preRat' = <<>> /\ temp' = <<>>
    BY <1>1, <1>4 DEF Range
  <2>4. Started'
    <3>1. NothingYet'  BY NothingStarted, PTL
    <3> QED  BY <1>7, <1>9, <2>3, <3>1 DEF NothingYet
  <2>5. \A n \in 1..depth' : ~UnsatAt(n)'
    <3> SUFFICES ASSUME NEW n \in 1..Len(truStack) PROVE ~UnsatAt(n)'  BY <1>1
    <3>1. ~UnsatAt(n)  BY <1>4, <1>8
    <3> QED  BY <1>3, <3>1 DEF UnsatAt
  <2>6. depth' <= Len(truStack') /\ firstHyp' <= depth' /\ depth' = Len(truStack')
    BY <1>1, <1>3, <1>8
  <2>7. \A n \in 1..depth' : reasons'[truStack'[n]] = None => truStack'[n] \in Negated(lemma)'
    BY <1>1, <1>3, <1>4, <2>2
  <2>8. Range(temp)' = Range(temp') /\ Range(written)' = Range(written')  BY DEF Range
  <2>9. Sharing'  BY <1>4, <2>1, <2>2, <2>3, <2>4, <2>5, <2>6, <2>7, <2>8 DEF Sharing
  <2> QED  BY <2>6, <2>9 DEF Holding
<1>14. HintsAccepted'  BY <1>1 DEF HintsAccepted
<1> QED  BY <1>6, <1>9, <1>10, <1>11, <1>12, <1>13, <1>14 DEF LInv

-----------------------------------------------------------------------------
(* The next resolvent.                                                      *)

(* A checker that holds what the shared part says refutes them all.          *)
WrittenRefuted ==
  /\ TypedContext /\ RatTyped /\ task = "rat" /\ Started
  /\ \A g \in Range(written) : Refuting(g)
  => HintsAccepted

LEMMA RefutedAccepted == WrittenRefuted
<1> SUFFICES ASSUME TypedContext, RatTyped, task = "rat", Started,
                    \A g \in Range(written) : Refuting(g)
             PROVE  HintsAccepted
  BY DEF WrittenRefuted
<1> DEFINE first == ReplayFrom(Negated(lemma), preRat)
           A(g) == first.true \union Negated(Reduct(witness, clauses[g.clause]))
           B == Negated(lemma) \union Range(temp)
<1>1. first = Begun(B)  BY DEF Started
<1> HIDE DEF first, B
<1>2. first.true = B /\ ~first.rejected  BY <1>1 DEF Begun
<1>3. B \in SUBSET Lits
  <2>1. Negated(lemma) \in SUBSET Lits  BY NegatedLits DEF RatTyped
  <2>2. Range(temp) \subseteq Lits  BY InRange DEF RatTyped
  <2> QED  BY <2>1, <2>2 DEF B
<1>4. ASSUME NEW n \in DOMAIN written
      PROVE  \/ \E l \in A(written[n]) : -l \in A(written[n])
             \/ ReplayFrom(A(written[n]), written[n].hints).proved
  <2> DEFINE g == written[n]
             c == clauses[g.clause]
             r == Reduct(witness, c)
  <2>1. written \in Seq(Groups)  BY DEF RatTyped
  <2>2. g \in Groups /\ g \in Range(written)
    <3>1. n \in 1..Len(written)  BY <2>1
    <3> QED  BY <2>1, <3>1, InRange
  <2>3. Refuting(g)  BY <2>2
  <2>4. c \in Seq(Literals)
    <3>1. g.clause \in Ids  BY <2>2 DEF Groups, TypedContext
    <3> QED  BY <3>1 DEF TypedContext
  <2> HIDE DEF c
  <2>5. r \in Seq(Literals) /\ Range(r) = Reduced(witness, c)  BY <2>4, ReductIs
  <2> HIDE DEF r
  <2>6. Negated(r) \in SUBSET Lits /\ Negated(r) = {-l : l \in Reduced(witness, c)}
    BY <2>5, NegatedLits DEF Negated
  <2>7. A(g) = B \union Negated(r)  BY <1>2 DEF r, c
  <2>8. A(g) \in SUBSET Lits  BY <1>3, <2>6, <2>7
  <2> HIDE DEF A
  <2>9. CASE Coherent(A(g))
    <3>1. Negated(lemma) \union Range(temp) \subseteq A(g)  BY <2>7 DEF B
    <3>2. {-l : l \in Reduced(witness, clauses[g.clause])} \subseteq A(g)  BY <2>6, <2>7 DEF c
    <3> QED  BY <2>3, <2>8, <2>9, <3>1, <3>2 DEF Refuting
  <2>10. CASE ~Coherent(A(g))  BY <2>10 DEF Coherent
  <2> QED  BY <2>9, <2>10
<1> QED  BY <1>2, <1>4 DEF HintsAccepted, first

(* Nothing is resolved with, or nothing is left.                            *)
LEMMA WaitL ==
  ASSUME LInv, pc = "resolvents", pc' \in {"resolvents", "write"},
         UNCHANGED <<context, va, stage, goal, rest, unprocessed, cur, root, conflict, hints,
                     queue, progress, task, lemma, pivot, witness, depth, closed, resolvent,
                     preRat, written, temp>>,
         groups' \in Seq(Groups)
  PROVE  LInv'
<1>1. task = "rat"  BY DEF LInv, RatTyped, Tasks
<1>2. UNCHANGED <<names, clauses, truStack, reasons, firstHyp, firstUnprocessed, unitsProcessed>>
  BY DEF context, va
<1>3. E!IInv /\ TypedContext /\ TypedTrail /\ RatTyped  BY EFacts DEF LInv
<1>4. UNCHANGED <<EPc, EStage, EGoal, ERest>>
  BY <1>1 DEF EPc, EStage, EGoal, ERest
<1>5. E!IInv'  BY <1>3, <1>4, Untroubled
<1>6. TypedContext'  BY <1>5, SameContextNext DEF E!IInv, E!Typed
<1>7. Permuted  BY <1>2 DEF Permuted
<1>8. RatTyped'
  <2>1. Groups' = Groups  BY <1>2 DEF Groups
  <2> QED  BY <1>2, <1>3, <2>1 DEF RatTyped
<1>9. Tasks'  BY <1>1 DEF Tasks
<1>10. Open'
  <2>1. Rup(lemma)' <=> Rup(lemma)  BY <1>3, <1>6, <1>7, SameRup
  <2>2. unitsProcessed /\ (~closed => ~Rup(lemma)) /\ (closed => firstHyp <= firstUnprocessed)
    BY <1>1 DEF LInv, Open
  <2> QED  BY <1>1, <1>2, <2>1, <2>2 DEF Open, AtRoot
<1>11. Denied'  BY <1>1 DEF Denied
<1>12. Sharing' /\ depth' = Len(truStack')
  <2>1. Sharing /\ depth = Len(truStack)  BY DEF LInv, Holding
  <2>2. depth <= Len(truStack')  BY <1>2, <2>1 DEF Sharing
  <2>3. truStack' \in Seq(Lits)  BY <1>2, <1>3 DEF TypedTrail
  <2>4. Sharing'
    BY <1>2, <1>3, <1>6, <1>7, <1>8, <2>1, <2>2, <2>3, SharingStep
  <2> QED  BY <1>2, <2>1, <2>4
<1>13. Holding'  BY <1>12 DEF Holding
<1>14. HintsAccepted'
  <2>1. WrittenRefuted'  BY RefutedAccepted, PTL
  <2> QED  BY <1>1, <1>6, <1>8, <1>12, <2>1 DEF WrittenRefuted, Sharing
<1> QED  BY <1>5, <1>8, <1>9, <1>10, <1>11, <1>13, <1>14 DEF LInv

LEMMA TakeUpL ==
  ASSUME LInv, pc = "resolvents", NEW i \in names, NEW h \in Seq(names),
         ~Unsat, resolvent' = i, task' = "resolve", pc' = "resolve", goal' = <<>>,
         rest' = Reduct(witness, clauses[i]), hints' = h, queue' = <<>>, progress' = FALSE,
         stage' = "hint", groups' \in Seq(Groups),
         UNCHANGED <<context, va, unprocessed, cur, root, conflict, lemma, pivot, witness, depth,
                     closed, preRat, written, temp>>
  PROVE  LInv'
<1>1. task = "rat"  BY DEF LInv, RatTyped, Tasks
<1>2. UNCHANGED <<names, clauses, truStack, reasons, firstHyp, firstUnprocessed, unitsProcessed>>
  BY DEF context, va
<1>3. E!IInv /\ TypedContext /\ TypedTrail /\ RatTyped  BY EFacts DEF LInv
<1>4. Permuted  BY <1>2 DEF Permuted
<1>5. RatTyped'
  <2>1. Groups' = Groups  BY <1>2 DEF Groups
  <2> QED  BY <1>2, <1>3, <2>1 DEF RatTyped
<1>6. TypedContext'
  <2>1. E!TypedContext'  BY <1>3, Constants, E!Frame DEF context, E!context
  <2> QED  BY <2>1, SameContextNext
<1>7. ~AtRoot'  BY DEF AtRoot
<1>8. /\ EPc' = "assume" /\ EStage' = "hint" /\ EGoal' = Arranged(Both)' /\ ERest' = rest'
      /\ EGoal = lemma
  BY <1>1, <1>7 DEF EPc, EStage, EGoal, ERest
<1>9. EGoal' \in Seq(Literals) /\ Range(EGoal') = Both'
  <2>1. Arrangeable'  BY ArrangedBoth, PTL
  <2>2. Arranged(Both)' \in Seq(Literals) /\ Range(Arranged(Both))' = Both'
    BY <1>2, <1>5, <1>6, <2>1 DEF Arrangeable, Literals, Lits
  <2>3. Range(Arranged(Both))' = Range(Arranged(Both)')  BY DEF Range
  <2> QED  BY <1>8, <2>2, <2>3
<1>10. Both' = Range(lemma) \union Reduced(witness, clauses[i])
  BY <1>2 DEF Both, Reduced, Range
<1>11. rest' \in Seq(Literals) /\ Range(rest') = Reduced(witness, clauses[i])
  <2>1. clauses[i] \in Seq(Literals)  BY <1>3 DEF TypedContext
  <2> DEFINE c == clauses[i]
  <2> HIDE DEF c
  <2>2. Reduct(witness, c) \in Seq(Literals) /\ Range(Reduct(witness, c)) = Reduced(witness, c)
    BY <2>1, ReductIs DEF c
  <2> QED  BY <2>2 DEF c
<1>12. E!IInv'
  <2>1. <<>> \in Seq(names')  OBVIOUS
  <2> QED  BY <1>2, <1>3, <1>8, <1>9, <1>10, <1>11, <2>1, Settled
<1>13. Tasks'  BY <1>2 DEF Tasks
<1>14. Open'
  <2>1. Rup(lemma)' <=> Rup(lemma)  BY <1>3, <1>4, <1>6, SameRup
  <2>2. unitsProcessed /\ (~closed => ~Rup(lemma)) /\ (closed => firstHyp <= firstUnprocessed)
    BY <1>1 DEF LInv, Open
  <2> QED  BY <1>2, <1>7, <2>1, <2>2 DEF Open
<1>15. Denied'  BY DEF Denied
<1>16. Holding'
  <2>1. Sharing /\ depth = Len(truStack)  BY DEF LInv, Holding
  <2>2. depth <= Len(truStack')  BY <1>2, <2>1 DEF Sharing
  <2>3. truStack' \in Seq(Lits)  BY <1>2, <1>3 DEF TypedTrail
  <2>4. Sharing'
    BY <1>2, <1>3, <1>4, <1>5, <1>6, <2>1, <2>2, <2>3, SharingStep
  <2> QED  BY <2>4 DEF Holding
<1>17. HintsAccepted'  BY DEF HintsAccepted
<1> QED  BY <1>5, <1>12, <1>13, <1>14, <1>15, <1>16, <1>17 DEF LInv

LEMMA ResolveL ==
  ASSUME LInv, pc = "resolvents", NEW i, NEW h \in Seq(names), NEW hinted,
         Resolve(i, h, hinted), groups' \in Seq(Groups)
  PROVE  LInv' \/ pc' = "panic"
<1>1. ~Unsat
  <2>1. EPc = "assume"  BY DEF EPc
  <2> QED  BY <2>1, EFacts DEF LInv
<1>2. /\ UNCHANGED <<context, va, unprocessed, cur, root, lemma, pivot, witness, depth, closed,
                     preRat, written, temp>>
      /\ \/ /\ pc' = pc \/ pc' = "panic"
            /\ UNCHANGED <<goal, rest, hints, queue, progress, stage, conflict, task, resolvent>>
         \/ /\ i \in names /\ resolvent' = i /\ task' = "resolve" /\ pc' = "resolve"
            /\ conflict' = conflict /\ goal' = <<>> /\ rest' = Reduct(witness, clauses[i])
            /\ hints' = h /\ queue' = <<>> /\ progress' = FALSE /\ stage' = "hint"
  BY <1>1 DEF Resolve
<1>3. CASE pc' = "panic"  BY <1>3
<1>4. CASE pc' = pc /\ UNCHANGED <<goal, rest, hints, queue, progress, stage, conflict, task,
                                   resolvent>>
  BY <1>2, <1>4, WaitL
<1>5. CASE /\ i \in names /\ resolvent' = i /\ task' = "resolve" /\ pc' = "resolve"
           /\ conflict' = conflict /\ goal' = <<>> /\ rest' = Reduct(witness, clauses[i])
           /\ hints' = h /\ queue' = <<>> /\ progress' = FALSE /\ stage' = "hint"
  BY <1>1, <1>2, <1>5, TakeUpL
<1> QED  BY <1>2, <1>3, <1>4, <1>5

LEMMA NextResolventL == ASSUME LInv, NextResolvent PROVE LInv' \/ pc' = "panic"
<1>1. pc = "resolvents" /\ groups \in Seq(Groups)  BY DEF NextResolvent, LInv, RatTyped
<1>2. CASE groups # <<>> /\ groups' = Tail(groups)
           /\ IF Head(groups).clause \in unseen
              THEN Resolve(Head(groups).clause, Head(groups).hints, TRUE)
              ELSE UNCHANGED <<context, va, pc, control, cache, task, lemma, pivot, witness,
                               depth, closed, unseen, resolvent, given, preRat, written, temp>>
  <2>1. groups' \in Seq(Groups) /\ Head(groups) \in Groups  BY <1>1, <1>2
  <2>2. Head(groups).hints \in Seq(names)  BY <2>1 DEF Groups
  <2>3. CASE Head(groups).clause \in unseen  BY <1>1, <1>2, <2>1, <2>2, <2>3, ResolveL
  <2>4. CASE Head(groups).clause \notin unseen  BY <1>1, <1>2, <2>1, <2>4, WaitL DEF control
  <2> QED  BY <2>3, <2>4
<1>3. ASSUME NEW i \in unseen, Resolve(i, <<>>, FALSE), UNCHANGED groups
      PROVE  LInv' \/ pc' = "panic"
  <2>1. <<>> \in Seq(names)  OBVIOUS
  <2> QED  BY <1>1, <1>3, <2>1, ResolveL
<1>4. CASE pc' = "write" /\ UNCHANGED <<context, va, control, cache, step>>
  BY <1>1, <1>4, WaitL DEF control, step
<1> QED  BY <1>2, <1>3, <1>4 DEF NextResolvent

-----------------------------------------------------------------------------
(* The resolvent is assumed false.                                          *)

LEMMA AtResolve ==
  ASSUME LInv, pc = "resolve"
  PROVE  /\ task = "resolve" /\ stage = "hint" /\ goal = <<>> /\ ~AtRoot /\ E!IInv
         /\ TypedContext /\ TypedTrail /\ unitsProcessed /\ (closed => firstHyp <= firstUnprocessed)
         /\ EPc = "assume" /\ EStage = "hint" /\ ERest = rest
<1>1. task = "resolve"  BY DEF LInv, RatTyped, Tasks
<1>2. stage = "hint" /\ goal = <<>>  BY <1>1 DEF LInv, Tasks
<1> QED  BY <1>1, <1>2, ResolvePlaces DEF AtRoot

LEMMA AssumeReductL == ASSUME LInv, AssumeReduct PROVE LInv'
<1>1. /\ pc = "resolve"
      /\ UNCHANGED <<context, firstHyp, firstUnprocessed, unitsProcessed, stage, goal,
                     unprocessed, cur, root, hints, queue, progress>>
      /\ UNCHANGED step
  BY DEF AssumeReduct
<1>2. /\ task = "resolve" /\ stage = "hint" /\ goal = <<>> /\ ~AtRoot /\ E!IInv
      /\ TypedContext /\ TypedTrail /\ unitsProcessed /\ (closed => firstHyp <= firstUnprocessed)
      /\ EPc = "assume" /\ EStage = "hint" /\ ERest = rest
  BY <1>1, AtResolve
<1>3. UNCHANGED <<names, clauses, marked, watch>>  BY <1>1 DEF context
<1>4. Permuted  BY <1>3 DEF Permuted
<1>5. ~AtRoot'  BY <1>1, <1>2 DEF AtRoot
<1>6. CASE /\ rest # <<>>
           /\ Assign(-Head(rest), None)
           /\ rest' = Tail(rest)
           /\ IF IsTrue(Head(rest)) THEN pc' = "found" /\ conflict' = Head(rest)
              ELSE UNCHANGED <<pc, conflict>>
  <2>1. /\ pc' \in {"found", "resolve"}
        /\ EPc' = IF pc' = "resolve" THEN "assume" ELSE "found"
        /\ EStage' = "hint" /\ EGoal' = EGoal /\ ERest' = rest'
    <3>1. pc' \in {"found", "resolve"}  BY <1>1, <1>6
    <3> QED  BY <1>1, <1>2, <1>4, <1>5, <3>1, ResolvePlaces, ResolveNext
  <2>2. E!IInv'
    <3>1. E!Assign(-Head(rest), None)
      BY <1>6 DEF Assign, E!Assign, IsTrue, E!IsTrue, Range, E!Range
    <3>2. E!IsTrue(Head(rest)) <=> IsTrue(Head(rest))  BY SameTruth
    <3>3. IF E!IsTrue(Head(rest)) THEN EPc' = "found" /\ conflict' = Head(rest)
          ELSE UNCHANGED <<EPc, conflict>>
      BY <1>1, <1>2, <1>6, <2>1, <3>2
    <3>4. E!Assume
      BY <1>1, <1>2, <1>3, <1>6, <2>1, <3>1, <3>3 DEF E!Assume, E!context
    <3> QED  BY <1>2, <3>4, Constants, E!AssumeInv
  <2>3. Longer
    <3>1. rest \in Seq(Literals)
      <4>1. E!TypedControl  BY <1>2, EFacts
      <4> QED  BY <1>2, <4>1, SameContext DEF E!TypedControl
    <3>2. Head(rest) \in Literals  BY <1>6, <3>1
    <3>3. -Head(rest) \in Lits  BY <3>2, Negation DEF Literals
    <3> QED  BY <1>2, <1>6, <3>3, LongerBy
  <2> QED  BY <1>1, <1>2, <1>4, <1>5, <2>1, <2>2, <2>3, ResolveStep
<1>7. CASE /\ rest = <<>>
           /\ pc' = IF given THEN "hint" ELSE "propagate"
           /\ UNCHANGED <<truStack, reasons, rest, conflict>>
  <2>1. /\ pc' \in {"hint", "propagate"}
        /\ EPc' = IF pc' = "hint" THEN "assume" ELSE "propagate"
        /\ EStage' = EStage /\ EGoal' = EGoal /\ ERest' = ERest
    <3>1. pc' \in {"hint", "propagate"}  BY <1>7
    <3> QED  BY <1>1, <1>2, <1>4, <1>5, <1>7, <3>1, ResolvePlaces, ResolveNext
  <2>2. UNCHANGED <<context, va, unprocessed, cur, root, conflict, hints, queue, progress>>
    BY <1>1, <1>7 DEF va
  <2>3. CASE pc' = "hint"
    <3>1. UNCHANGED <<EPc, EStage, EGoal, ERest>>  BY <1>2, <2>1, <2>3
    <3> QED
      <4>1. E!IInv'  BY <1>2, <2>2, <3>1, Untroubled
      <4>2. Longer  BY <1>2, <1>7, SameLonger
      <4> QED  BY <1>1, <1>2, <1>4, <1>5, <1>7, <2>3, <4>1, <4>2, ResolveStep
  <2>4. CASE pc' = "propagate"
    <3>1. E!TypedControl'
      <4>1. E!TypedControl  BY <1>2, EFacts
      <4>2. E!Range(ERest)' = E!Range(ERest') /\ E!Range(EGoal)' = E!Range(EGoal')  BY DEF E!Range
      <4>3. EPc' \in E!Places  BY <2>1, <2>4 DEF E!Places
      <4> QED  BY <1>1, <1>2, <1>3, <1>7, <2>1, <4>1, <4>2, <4>3 DEF E!TypedControl
    <3>2. E!Stages' /\ E!Consistently'  BY <2>1, <2>4 DEF E!Stages, E!Consistently
    <3>3. E!IInv'  BY <1>2, <2>1, <2>2, <3>1, <3>2, Regoaled
    <3>4. Longer  BY <1>2, <1>7, SameLonger
    <3> QED  BY <1>1, <1>2, <1>4, <1>5, <1>7, <2>4, <3>3, <3>4, ResolveStep
  <2> QED  BY <2>1, <2>3, <2>4
<1> QED  BY <1>6, <1>7 DEF AssumeReduct

-----------------------------------------------------------------------------
(* The resolvent is refuted.                                                *)

LEMMA Concatenated ==
  ASSUME NEW S, NEW s \in Seq(S), NEW r \in Seq(S)
  PROVE  s \o r \in Seq(S) /\ Range(s \o r) = Range(s) \union Range(r)
<1> DEFINE t == s \o r
           m == Len(s)
           n == Len(r)
<1>1. /\ t \in Seq(S) /\ Len(t) = m + n /\ m \in Nat /\ n \in Nat
      /\ \A k \in 1..m : t[k] = s[k]
      /\ \A k \in 1..n : t[m + k] = r[k]
  OBVIOUS
<1> HIDE DEF t
<1>2. /\ \A x : x \in Range(t) <=> \E k \in 1..Len(t) : t[k] = x
      /\ \A x : x \in Range(s) <=> \E k \in 1..m : s[k] = x
      /\ \A x : x \in Range(r) <=> \E k \in 1..n : r[k] = x
  <2>1. \A x : x \in Range(t) <=> \E k \in 1..Len(t) : t[k] = x  BY <1>1, InRange
  <2>2. \A x : x \in Range(s) <=> \E k \in 1..m : s[k] = x  BY InRange
  <2>3. \A x : x \in Range(r) <=> \E k \in 1..n : r[k] = x  BY InRange
  <2> QED  BY <2>1, <2>2, <2>3
<1> HIDE DEF m, n
<1>3. \A k \in 1..m : k \in 1..Len(t)  BY <1>1
<1>4. \A k \in 1..n : m + k \in 1..Len(t)  BY <1>1
<1>5. \A k \in 1..Len(t) : k \in 1..m \/ (k - m \in 1..n /\ m + (k - m) = k)  BY <1>1
<1>6. ASSUME NEW x PROVE x \in Range(t) <=> x \in Range(s) \/ x \in Range(r)
  <2>1. ASSUME x \in Range(t) PROVE x \in Range(s) \/ x \in Range(r)
    <3>1. PICK k \in 1..Len(t) : t[k] = x  BY <1>2, <2>1
    <3>2. CASE k \in 1..m  BY <1>1, <1>2, <3>1, <3>2
    <3>3. CASE k - m \in 1..n /\ m + (k - m) = k
      <4>1. t[m + (k - m)] = r[k - m]  BY <1>1, <3>3
      <4> QED  BY <1>2, <3>1, <3>3, <4>1
    <3> QED  BY <1>5, <3>2, <3>3
  <2>2. ASSUME x \in Range(s) PROVE x \in Range(t)
    <3>1. PICK k \in 1..m : s[k] = x  BY <1>2, <2>2
    <3> QED  BY <1>1, <1>2, <1>3, <3>1
  <2>3. ASSUME x \in Range(r) PROVE x \in Range(t)
    <3>1. PICK k \in 1..n : r[k] = x  BY <1>2, <2>3
    <3> QED  BY <1>1, <1>2, <1>4, <3>1
  <2> QED  BY <2>1, <2>2, <2>3
<1> QED  BY <1>1, <1>6 DEF t

(* The literal x is marked after y, on which its reason rests.               *)
Needs(x, y) ==
  reasons[x] # None /\ \E k \in 2..Len(clauses[reasons[x]]) : y = -clauses[reasons[x]][k]

(* What is marked after the first b of o.                                   *)
Newly(o, b) == SubSeq(o.temp, b + 1, Len(o.temp))

LEMMA NewlyIs ==
  ASSUME NEW o \in Outs, NEW b \in Nat, b <= Len(o.temp)
  PROVE  /\ Newly(o, b) \in Seq(Lits) /\ Len(Newly(o, b)) = Len(o.temp) - b
         /\ \A n \in 1..Len(Newly(o, b)) : Newly(o, b)[n] = o.temp[b + n]
         /\ \A n \in 1..Len(o.temp) :
              n \in 1..b \/ (n - b \in 1..Len(Newly(o, b)) /\ Newly(o, b)[n - b] = o.temp[n])
<1> DEFINE t == o.temp
           N == Len(t)
           new == SubSeq(t, b + 1, N)
<1>1. t \in Seq(Lits) /\ N \in Nat /\ b \in 0..N  BY OutsAre
<1> HIDE DEF t
<1>2. new \in Seq(Lits) /\ Len(new) = N - b /\ \A n \in 1..N-b : new[n] = t[b + n]
  BY <1>1
<1>3. Newly(o, b) = new  BY DEF Newly, t
<1> HIDE DEF new, N
<1>4. ASSUME NEW n \in 1..N, n \notin 1..b PROVE n - b \in 1..N-b /\ new[n - b] = t[n]
  <2>1. n - b \in 1..N-b /\ b + (n - b) = n  BY <1>1, <1>4
  <2> QED  BY <1>2, <2>1
<1> QED  BY <1>2, <1>3, <1>4 DEF t, N

LEMMA NewSupported ==
  ASSUME TypedContext, TypedTrail, Grounded, NEW o \in Outs, NEW b \in Nat, Linked(o, b),
         NEW A, NEW T, \A m \in 1..b : o.temp[m] \in A,
         \A x \in Range(Newly(o, b)) : x \in T /\ reasons[x] = None => x \in A,
         \A x, y \in Range(Newly(o, b)) : x \in T /\ y \notin T /\ Needs(x, y) => y \in A
  PROVE  \A n \in 1..Len(Newly(o, b)) :
           Newly(o, b)[n] \in T => Supported(A, Newly(o, b), T, n)
<1> DEFINE new == Newly(o, b)
<1> SUFFICES ASSUME NEW n \in 1..Len(new), new[n] \in T PROVE Supported(A, new, T, n)
  OBVIOUS
<1> DEFINE x == new[n]
           i == reasons[x]
           c == clauses[i]
<1>1. b <= Len(o.temp) /\ Len(o.temp) \in Nat /\ o.temp \in Seq(Lits)  BY OutsAre DEF Linked
<1>2. /\ new \in Seq(Lits) /\ Len(new) = Len(o.temp) - b
      /\ \A k \in 1..Len(new) : new[k] = o.temp[b + k]
      /\ \A k \in 1..Len(o.temp) :
           k \in 1..b \/ (k - b \in 1..Len(new) /\ new[k - b] = o.temp[k])
  BY <1>1, NewlyIs
<1> HIDE DEF new
<1>3. b + n \in 1..Len(o.temp) /\ b + n > b /\ x = o.temp[b + n]  BY <1>1, <1>2
<1>4. Link(o.temp, b + n)  BY <1>3 DEF Linked
<1>5. x \in Range(new) /\ \A k \in 1..Len(new) : new[k] \in Range(new)  BY <1>2, InRange
<1>6. CASE i = None
  <2>1. x \in A  BY <1>5, <1>6 DEF new
  <2> QED  BY <1>6, <2>1 DEF Supported, new
<1>7. CASE i # None
  <2>1. \A k \in 2..Len(c) : \E m \in 1..b+n-1 : o.temp[m] = -c[k]
    <3>1. c = clauses[reasons[o.temp[b + n]]] /\ reasons[o.temp[b + n]] # None  BY <1>3, <1>7
    <3> HIDE DEF c, i, x
    <3> QED  BY <1>4, <3>1 DEF Link
  <2>2. PICK j \in 1..Len(truStack) : truStack[j] = x
    <3>1. IsTrue(x)  BY <1>3, <1>4 DEF Link
    <3> QED  BY <3>1, OnTrail DEF TypedTrail
  <2>3. i \in names /\ x = UnitLit(c)
    <3>1. Forced(j)  BY <1>7, <2>2 DEF Grounded
    <3> QED  BY <2>2, <3>1 DEF Forced
  <2>4. c \in Seq(Literals)  BY <2>3 DEF TypedContext
  <2>5. \A k \in 2..Len(c) : Needs(x, -c[k])  BY <1>7 DEF Needs
  <2> HIDE DEF c, x, i
  <2>6. x \in Range(c) \union {0}
    <3>1. CASE c = <<>>  BY <2>3, <3>1 DEF UnitLit
    <3>2. CASE c # <<>>
      <4>1. 1 \in 1..Len(c) /\ x = c[1]  BY <2>3, <2>4, <3>2 DEF UnitLit
      <4> QED  BY <2>4, <4>1, InRange
    <3> QED  BY <3>1, <3>2
  <2>7. ASSUME NEW l \in Range(c), l # x
        PROVE  -l \in A \/ \E m \in 1..n-1 : new[m] = -l /\ new[m] \in T
    <3>1. PICK k \in 1..Len(c) : c[k] = l  BY <2>4, InRange
    <3>2. k # 1
      <4> SUFFICES ASSUME k = 1 PROVE FALSE  OBVIOUS
      <4>1. c # <<>>  BY <3>1
      <4>2. x = c[1]  BY <2>3, <4>1 DEF UnitLit
      <4> QED  BY <2>7, <3>1, <4>2
    <3>3. k \in 2..Len(c)  BY <2>4, <3>1, <3>2
    <3>4. PICK m \in 1..b+n-1 : o.temp[m] = -l  BY <2>1, <3>1, <3>3
    <3>5. m \in 1..Len(o.temp)  BY <1>1, <1>2, <3>4
    <3>6. CASE m \in 1..b  BY <3>4, <3>6
    <3>7. CASE m - b \in 1..Len(new) /\ new[m - b] = o.temp[m]
      <4>1. m - b \in 1..n-1  BY <1>1, <3>4, <3>7
      <4>2. new[m - b] = -l /\ -l \in Range(new)  BY <1>5, <3>4, <3>7
      <4>3. CASE -l \in T  BY <4>1, <4>2, <4>3
      <4>4. CASE -l \notin T
        <5>1. Needs(x, -l)  BY <2>5, <3>1, <3>3
        <5>2. x \in T /\ x \in Range(new)  BY <1>5 DEF x
        <5> QED  BY <4>2, <4>4, <5>1, <5>2 DEF new
      <4> QED  BY <4>3, <4>4
    <3> QED  BY <1>2, <3>5, <3>6, <3>7
  <2> QED  BY <1>7, <2>6, <2>7 DEF Supported, c, x, i, new
<1> QED  BY <1>6, <1>7

-----------------------------------------------------------------------------
LEMMA FoundFacts ==
  ASSUME LInv, pc = "found", task = "resolve"
  PROVE  /\ Sharing /\ ~AtRoot /\ E!IInv /\ TypedContext /\ TypedTrail /\ RatTyped /\ Grounded
         /\ EGoal = Arranged(Both) /\ Range(EGoal) = Both
         /\ IsTrue(conflict) /\ IsTrue(-conflict) /\ conflict \in Lits
         /\ \A x : IsTrue(x) /\ reasons[x] = None =>
              x \in Negated(lemma) \union {-l : l \in Reduced(witness, clauses[resolvent])}
<1>1. /\ E!IInv /\ TypedContext /\ TypedTrail /\ Grounded /\ conflict \in Lits /\ RatTyped
      /\ \A n \in 1..Len(truStack) : reasons[truStack[n]] = None => truStack[n] \in Negated(EGoal)
      /\ E!Consistently
  BY EFacts DEF LInv
<1>2. /\ EPc = "found" /\ EGoal = IF AtRoot THEN <<>> ELSE Arranged(Both)
      /\ Range(Arranged(Both)) = Both
  BY ResolvePlaces
<1>3. E!IsTrue(conflict) /\ E!IsFalse(conflict)  BY <1>1, <1>2 DEF E!Consistently
<1>4. IsTrue(conflict) /\ IsTrue(-conflict)  BY <1>3, SameTruth DEF IsFalse
<1>5. ~AtRoot
  <2> SUFFICES ASSUME AtRoot PROVE FALSE  OBVIOUS
  <2>1. ~closed /\ ~Rup(lemma)  BY DEF LInv, Open
  <2>2. E!Rup(EGoal)  BY <1>1, <1>2, Constants, E!FoundRup
  <2>3. Rup(<<>>)  BY <1>2, <2>2, SameGoal
  <2>4. Range(<<>>) = {}  BY DEF Range
  <2>5. Rup(lemma)  BY <2>3, <2>4 DEF Rup, Refuted, Negated
  <2> QED  BY <2>1, <2>5
<1>6. Sharing  BY <1>5 DEF LInv, Holding
<1>7. ASSUME NEW x, IsTrue(x), reasons[x] = None
      PROVE  x \in Negated(lemma) \union {-l : l \in Reduced(witness, clauses[resolvent])}
  <2>1. PICK n \in 1..Len(truStack) : truStack[n] = x  BY <1>1, <1>7, OnTrail DEF TypedTrail
  <2>2. x \in Negated(EGoal)  BY <1>1, <1>7, <2>1
  <2>3. PICK l \in Both : x = -l  BY <1>2, <1>5, <2>2 DEF Negated
  <2> QED  BY <2>3 DEF Both, Negated
<1> QED  BY <1>1, <1>2, <1>4, <1>5, <1>6, <1>7

(* The literals of the trail that the conflict rests on.                     *)
Explained == Mark(-conflict, Mark(conflict, [temp |-> temp, steps |-> <<>>]))
New == Newly(Explained, Len(temp))

LEMMA ExplainedIs ==
  ASSUME LInv, pc = "found", task = "resolve"
  PROVE  /\ Explained \in Outs /\ Linked(Explained, Len(temp)) /\ Len(temp) \in Nat
         /\ \A n \in 1..Len(temp) : Explained.temp[n] = temp[n] /\ temp[n] \in Range(temp)
         /\ New \in Seq(Lits) /\ \A x \in Range(New) : IsTrue(x)
         /\ conflict \in Range(temp) \union Range(New)
         /\ -conflict \in Range(temp) \union Range(New)
<1> DEFINE o == [temp |-> temp, steps |-> <<>>]
           u == Mark(conflict, o)
           v == Mark(-conflict, u)
           b == Len(temp)
<1>1. /\ TypedContext /\ TypedTrail /\ Grounded /\ IsTrue(conflict) /\ IsTrue(-conflict)
      /\ temp \in Seq(Lits)
  BY FoundFacts DEF RatTyped
<1>2. b \in Nat /\ <<>> \in Seq(Ids)  BY <1>1
<1>3. o \in Outs /\ o.temp = temp /\ Linked(o, b)
  <2>1. o \in Outs /\ o.temp = temp  BY <1>1, <1>2 DEF Outs
  <2> HIDE DEF o
  <2>2. b <= Len(o.temp) /\ \A n \in 1..Len(o.temp) : ~(n > b)  BY <1>2, <2>1
  <2> QED  BY <2>1, <2>2 DEF Linked
<1> HIDE DEF o
<1>4. Linked(u, b) /\ Prolongs(u, o) /\ conflict \in Range(u.temp)
  <2> HIDE DEF b
  <2> QED  BY <1>1, <1>2, <1>3, MarkLinks
<1> HIDE DEF u
<1>5. Linked(v, b) /\ Prolongs(v, u) /\ -conflict \in Range(v.temp)
  <2>1. u \in Outs  BY <1>4 DEF Linked
  <2> HIDE DEF b
  <2> QED  BY <1>1, <1>2, <1>4, <2>1, MarkLinks
<1>6. Explained = v  BY DEF Explained, o, u
<1> HIDE DEF v
<1>7. v \in Outs /\ Prolongs(v, o) /\ conflict \in Range(v.temp)
  <2>1. u \in Outs /\ v \in Outs  BY <1>4, <1>5 DEF Linked
  <2>2. Range(u.temp) \subseteq Range(v.temp)  BY <1>5, <2>1, ProlongOn
  <2>3. Prolongs(v, o)  BY <1>3, <1>4, <1>5, <2>1, ProlongOn
  <2> QED  BY <1>4, <2>1, <2>2, <2>3
<1>8. \A n \in 1..b : v.temp[n] = temp[n] /\ temp[n] \in Range(temp)
  <2>1. \A n \in 1..b : temp[n] \in Range(temp)  BY <1>1, InRange
  <2> QED  BY <1>3, <1>7, <2>1 DEF Prolongs
<1>9. b <= Len(v.temp) /\ v.temp \in Seq(Lits) /\ Len(v.temp) \in Nat
  BY <1>5, <1>7, OutsAre DEF Linked
<1> DEFINE w == Newly(v, b)
<1>10. New = w  BY <1>6 DEF New
<1> HIDE DEF b
<1>11. /\ w \in Seq(Lits) /\ Len(w) = Len(v.temp) - b
       /\ \A n \in 1..Len(w) : w[n] = v.temp[b + n]
       /\ \A n \in 1..Len(v.temp) :
            n \in 1..b \/ (n - b \in 1..Len(w) /\ w[n - b] = v.temp[n])
  BY <1>2, <1>7, <1>9, NewlyIs
<1> HIDE DEF w
<1>12. \A x \in Range(v.temp) : x \in Range(temp) \union Range(w)
  <2> SUFFICES ASSUME NEW x \in Range(v.temp) PROVE x \in Range(temp) \union Range(w)
    OBVIOUS
  <2>1. PICK n \in 1..Len(v.temp) : v.temp[n] = x  BY <1>9, InRange
  <2>2. CASE n \in 1..b  BY <1>8, <2>1, <2>2
  <2>3. CASE n - b \in 1..Len(w) /\ w[n - b] = v.temp[n]
    <3>1. x \in Range(w)  BY <1>11, <2>1, <2>3, InRange
    <3> QED  BY <3>1
  <2> QED  BY <1>11, <2>2, <2>3
<1>13. \A x \in Range(w) : IsTrue(x)
  <2> SUFFICES ASSUME NEW x \in Range(w) PROVE IsTrue(x)  OBVIOUS
  <2>1. PICK n \in 1..Len(w) : w[n] = x  BY <1>11, InRange
  <2>2. b + n \in 1..Len(v.temp) /\ b + n > b  BY <1>2, <1>9, <1>11
  <2>3. Link(v.temp, b + n)  BY <1>5, <2>2 DEF Linked
  <2> QED  BY <1>11, <2>1, <2>3 DEF Link
<1> QED  BY <1>2, <1>5, <1>6, <1>7, <1>8, <1>10, <1>11, <1>12, <1>13 DEF b

LEMMA SharedNeeds ==
  ASSUME TypedTrail, RatTyped, Grounded, Sharing, NEW x \in Shared, NEW y, Needs(x, y)
  PROVE  y \in Shared
<1>1. PICK n \in 1..depth : truStack[n] = x  BY DEF Shared
<1>2. depth \in Nat /\ depth <= Len(truStack) /\ Len(truStack) \in Nat
  BY DEF Sharing, RatTyped, TypedTrail
<1>3. n \in 1..Len(truStack)  BY <1>2
<1>4. PICK k \in 2..Len(clauses[reasons[x]]) : y = -clauses[reasons[x]][k]  BY DEF Needs
<1>5. Forced(n)  BY <1>1, <1>3 DEF Grounded, Needs
<1>6. PICK m \in 1..n-1 : truStack[m] = y  BY <1>1, <1>4, <1>5 DEF Forced
<1>7. m \in 1..depth  BY <1>2
<1> QED  BY <1>6, <1>7 DEF Shared

LEMMA SharedCoherent ==
  ASSUME TypedTrail, RatTyped, Sharing
  PROVE  Shared \in SUBSET Lits /\ \A A \in SUBSET Shared : Coherent(A)
<1>1. depth \in Nat /\ depth <= Len(truStack) /\ Len(truStack) \in Nat /\ truStack \in Seq(Lits)
  BY DEF Sharing, RatTyped, TypedTrail
<1>2. Shared \subseteq Lits
  <2>1. \A n \in 1..depth : n \in 1..Len(truStack)  BY <1>1
  <2> QED  BY <1>1, <2>1 DEF Shared
<1>3. ASSUME NEW l \in Shared, -l \in Shared PROVE FALSE
  <2>1. PICK m \in 1..depth : truStack[m] = l  BY DEF Shared
  <2>2. PICK n \in 1..depth : truStack[n] = -l  BY <1>3 DEF Shared
  <2>3. l = -(-l)  BY <1>2, Negation
  <2>4. \A h \in 1..depth : ~UnsatAt(h)  BY DEF Sharing
  <2>5. CASE m <= n
    <3>1. m \in 1..n /\ truStack[m] = -truStack[n] /\ n > 0  BY <2>1, <2>2, <2>3, <2>5
    <3>2. UnsatAt(n)  BY <3>1 DEF UnsatAt
    <3> QED  BY <2>4, <3>2
  <2>6. CASE n <= m
    <3>1. n \in 1..m /\ truStack[n] = -truStack[m] /\ m > 0  BY <2>1, <2>2, <2>6
    <3>2. UnsatAt(m)  BY <3>1 DEF UnsatAt
    <3> QED  BY <2>4, <3>2
  <2> QED  BY <2>5, <2>6
<1> QED  BY <1>2, <1>3 DEF Coherent

-----------------------------------------------------------------------------
(* What of it is in the shared part goes before the first resolvent.          *)
Explaining == LInv /\ pc = "found" /\ task = "resolve"

LEMMA StartsMore ==
  ASSUME Explaining
  PROVE  LET more == Keep(New, Shared) IN
         /\ more \in Seq(Lits) /\ temp \o more \in Seq(Lits)
         /\ Range(temp \o more) = Range(temp) \union (Range(New) \intersect Shared)
         /\ Range(temp \o more) \subseteq Shared
         /\ preRat \o Steps(more) \in Seq(Ids)
         /\ ReplayFrom(Negated(lemma), preRat \o Steps(more)) =
              Begun(Negated(lemma) \union Range(temp \o more))
<1>1. LInv /\ pc = "found" /\ task = "resolve"  BY DEF Explaining
<1>2. /\ Sharing /\ TypedContext /\ TypedTrail /\ RatTyped /\ Grounded
  BY <1>1, FoundFacts
<1>3. /\ Explained \in Outs /\ Linked(Explained, Len(temp)) /\ Len(temp) \in Nat
      /\ \A n \in 1..Len(temp) : Explained.temp[n] = temp[n] /\ temp[n] \in Range(temp)
      /\ New \in Seq(Lits) /\ \A x \in Range(New) : IsTrue(x)
  BY <1>1, ExplainedIs
<1> DEFINE more == Keep(New, Shared)
           B == Negated(lemma) \union Range(temp)
           C == Negated(lemma) \union Range(temp \o more)
<1>4. /\ Negated(lemma) \subseteq Shared /\ Range(temp) \subseteq Shared /\ Started
      /\ \A n \in 1..depth : reasons[truStack[n]] = None => truStack[n] \in Negated(lemma)
  BY <1>2 DEF Sharing
<1>5. Shared \in SUBSET Lits /\ \A A \in SUBSET Shared : Coherent(A)  BY <1>2, SharedCoherent
<1>6. Negated(lemma) \in SUBSET Lits /\ preRat \in Seq(Ids) /\ temp \in Seq(Lits)
  BY <1>2, NegatedLits, NamesAreIds DEF RatTyped
<1>7. B \in SUBSET Lits /\ Coherent(B)  BY <1>4, <1>5
<1>8. \A n \in 1..Len(New) : New[n] \in Shared => Supported(B, New, Shared, n)
  <2>1. \A m \in 1..Len(temp) : Explained.temp[m] \in B  BY <1>3
  <2>2. ASSUME NEW x \in Shared, reasons[x] = None PROVE x \in B
    <3>1. PICK n \in 1..depth : truStack[n] = x  BY DEF Shared
    <3> QED  BY <1>4, <2>2, <3>1
  <2>3. \A x, y : x \in Shared /\ y \notin Shared => ~Needs(x, y)  BY <1>2, SharedNeeds
  <2> HIDE DEF B
  <2> QED  BY <1>2, <1>3, <2>1, <2>2, <2>3, NewSupported DEF New
<1>9. more \in Seq(Lits) /\ Range(more) = Range(New) \intersect Shared
  <2> DEFINE T == Shared
  <2> HIDE DEF T
  <2>1. Keep(New, T) \in Seq(Lits) /\ Range(Keep(New, T)) = Range(New) \intersect T
    BY <1>3, KeepFacts
  <2> QED  BY <2>1 DEF T
<1>10. /\ ReplayFrom(B, Steps(more)) \in States /\ ~ReplayFrom(B, Steps(more)).rejected
       /\ \/ ReplayFrom(B, Steps(more)).proved
          \/ ReplayFrom(B, Steps(more)).true = B \union (Range(New) \intersect Shared)
       /\ Coherent(B \union (Range(New) \intersect Shared)) => ~ReplayFrom(B, Steps(more)).proved
  <2> DEFINE T == Shared
  <2>1. \A n \in 1..Len(New) : New[n] \in T => Supported(B, New, T, n)  BY <1>8
  <2> HIDE DEF T, B
  <2>2. LET u == ReplayFrom(B, Steps(Keep(New, T)))
            D == B \union (Range(New) \intersect T)
        IN /\ u \in States /\ ~u.rejected
           /\ u.proved \/ (Coherent(u.true) /\ u.true = D)
           /\ Coherent(D) => ~u.proved
    BY <1>2, <1>3, <1>7, <2>1, Follow
  <2> QED  BY <2>2 DEF T
<1> HIDE DEF more
<1>11. temp \o more \in Seq(Lits) /\ Range(temp \o more) = Range(temp) \union Range(more)
  BY <1>6, <1>9, Concatenated
<1>12. Range(temp \o more) = Range(temp) \union (Range(New) \intersect Shared)
       /\ Range(temp \o more) \subseteq Shared
  BY <1>4, <1>9, <1>11
<1>13. C = B \union (Range(New) \intersect Shared) /\ C \subseteq Shared  BY <1>4, <1>12
<1>14. Coherent(C)  BY <1>5, <1>13
<1>15. ReplayFrom(B, Steps(more)) = Begun(C)
  <2> DEFINE u == ReplayFrom(B, Steps(more))
  <2>1. u \in States /\ ~u.rejected /\ ~u.proved /\ u.true = C  BY <1>10, <1>13, <1>14
  <2> HIDE DEF u, C
  <2>2. u = [true |-> u.true, proved |-> u.proved, rejected |-> u.rejected]
        /\ u.proved \in BOOLEAN /\ u.rejected \in BOOLEAN
    BY <2>1 DEF States
  <2>3. u.proved = FALSE /\ u.rejected = FALSE  BY <2>1, <2>2
  <2> QED  BY <2>1, <2>2, <2>3 DEF Begun, u
<1>16. Steps(more) \in Seq(Ids)  BY <1>2, <1>9, StepsFacts
<1>17. ReplayFrom(Negated(lemma), preRat) = Begun(B)  BY <1>4 DEF Started
<1>18. ReplayFrom(Negated(lemma), preRat \o Steps(more)) = ReplayFrom(B, Steps(more))
  <2> HIDE DEF B
  <2> QED  BY <1>2, <1>6, <1>7, <1>16, <1>17, ReplayJoin
<1>19. preRat \o Steps(more) \in Seq(Ids)  BY <1>6, <1>16
<1> QED  BY <1>9, <1>11, <1>12, <1>15, <1>18, <1>19 DEF more, C

(* The rest refutes the resolvent.                                          *)
LEMMA RefutesIt ==
  ASSUME Explaining, NEW A \in SUBSET Lits, Coherent(A),
         Negated(lemma) \subseteq A, Range(temp) \subseteq A, Range(New) \intersect Shared \subseteq A,
         {-l : l \in Reduced(witness, clauses[resolvent])} \subseteq A
  PROVE  ReplayFrom(A, Steps(Keep(New, Lits \ Shared))).proved
<1>1. LInv /\ pc = "found" /\ task = "resolve"  BY DEF Explaining
<1>2. /\ TypedContext /\ TypedTrail /\ Grounded /\ conflict \in Lits
      /\ \A x : IsTrue(x) /\ reasons[x] = None =>
           x \in Negated(lemma) \union {-l : l \in Reduced(witness, clauses[resolvent])}
  BY <1>1, FoundFacts
<1>3. /\ Explained \in Outs /\ Linked(Explained, Len(temp)) /\ Len(temp) \in Nat
      /\ \A n \in 1..Len(temp) : Explained.temp[n] = temp[n] /\ temp[n] \in Range(temp)
      /\ New \in Seq(Lits) /\ \A x \in Range(New) : IsTrue(x)
      /\ conflict \in Range(temp) \union Range(New)
      /\ -conflict \in Range(temp) \union Range(New)
  BY <1>1, ExplainedIs
<1> DEFINE T == Lits \ Shared
<1>4. \A x \in Range(New) : x \in Lits  BY <1>3, InRange
<1>5. \A x \in Range(New) : x \notin T => x \in A  BY <1>4
<1>6. \A n \in 1..Len(New) : New[n] \in T => Supported(A, New, T, n)
  <2>1. \A m \in 1..Len(temp) : Explained.temp[m] \in A  BY <1>3
  <2>2. \A x \in Range(New) : reasons[x] = None => x \in A  BY <1>2, <1>3
  <2> HIDE DEF T
  <2> QED  BY <1>2, <1>3, <1>5, <2>1, <2>2, NewSupported DEF New
<1> HIDE DEF T
<1> DEFINE u == ReplayFrom(A, Steps(Keep(New, T)))
           D == A \union (Range(New) \intersect T)
<1>7. u.proved \/ (Coherent(u.true) /\ u.true = D)
  <2>1. LET x == ReplayFrom(A, Steps(Keep(New, T)))
            y == A \union (Range(New) \intersect T)
        IN /\ x \in States /\ ~x.rejected
           /\ x.proved \/ (Coherent(x.true) /\ x.true = y)
           /\ Coherent(y) => ~x.proved
    BY <1>2, <1>3, <1>6, Follow
  <2> QED  BY <2>1
<1>8. ~Coherent(D)
  <2>1. Range(New) \subseteq D /\ Range(temp) \subseteq D  BY <1>5
  <2>2. conflict \in D /\ -conflict \in D  BY <1>3, <2>1
  <2> QED  BY <2>2 DEF Coherent
<1> QED  BY <1>7, <1>8 DEF T

(* A group of hints, and more that the resolvents share.                     *)
LEMMA RefutingMore ==
  ASSUME TypedContext, TypedContext', Permuted, UNCHANGED <<lemma, witness>>,
         NEW g, g.clause \in Ids, g.hints \in Seq(Ids),
         \A A \in SUBSET Lits :
           /\ Coherent(A)
           /\ Negated(lemma) \union Range(temp') \subseteq A
           /\ {-l : l \in Reduced(witness, clauses[g.clause])} \subseteq A
           => ReplayFrom(A, g.hints).proved
  PROVE  Refuting(g)'
<1>1. Range(clauses'[g.clause]) = Range(clauses[g.clause])  BY DEF Permuted
<1>2. Reduced(witness', clauses'[g.clause]) = Reduced(witness, clauses[g.clause])
  BY <1>1 DEF Reduced
<1> SUFFICES ASSUME NEW A \in SUBSET Lits, Coherent(A),
                    Negated(lemma) \union Range(temp') \subseteq A,
                    {-l : l \in Reduced(witness, clauses[g.clause])} \subseteq A
             PROVE  ReplayFrom(A, g.hints)'.proved
  BY <1>2 DEF Refuting, Coherent, Negated, Reduced
<1>3. ReplayFrom(A, g.hints).proved  OBVIOUS
<1>4. ReplayFrom(A, g.hints)' = ReplayFrom(A, g.hints)  BY SameReplay
<1> QED  BY <1>3, <1>4

-----------------------------------------------------------------------------
LEMMA StepsNamed ==
  ASSUME TypedContext, TypedTrail, Grounded, NEW s \in Seq(Lits), \A x \in Range(s) : IsTrue(x)
  PROVE  Steps(s) \in Seq(names)
<1>1. /\ Steps(s) \in Seq(Ids)
      /\ \A n \in 1..Len(Steps(s)) :
           \E x \in Range(s) : Steps(s)[n] = reasons[x] /\ reasons[x] # None
  BY StepsFacts
<1>2. ASSUME NEW n \in 1..Len(Steps(s)) PROVE Steps(s)[n] \in names
  <2>1. PICK x \in Range(s) : Steps(s)[n] = reasons[x] /\ reasons[x] # None  BY <1>1
  <2>2. PICK m \in 1..Len(truStack) : truStack[m] = x  BY OnTrail DEF TypedTrail
  <2>3. Forced(m)  BY <2>1, <2>2 DEF Grounded
  <2> QED  BY <2>1, <2>2, <2>3 DEF Forced
<1> DEFINE t == Steps(s)
<1>3. t \in Seq(Ids) /\ \A n \in 1..Len(t) : t[n] \in names  BY <1>1, <1>2
<1> HIDE DEF t
<1>4. t \in Seq(names)  BY <1>3
<1> QED  BY <1>4 DEF t

(* The trail is cut back to what the resolvents share.                       *)
LEMMA CutToShared ==
  ASSUME Explaining, ClearTo(depth), EPc' = "assume", EStage' = "hint", EGoal' = lemma,
         ERest' = <<>>, UNCHANGED <<context, firstHyp, unitsProcessed, control>>
  PROVE  /\ E!IInv' /\ Len(truStack') = depth /\ truStack' \in Seq(Lits)
         /\ \A k \in 1..depth :
              truStack'[k] = truStack[k] /\ reasons'[truStack[k]] = reasons[truStack[k]]
         /\ (closed => firstHyp' <= firstUnprocessed')
<1>1. LInv /\ pc = "found" /\ task = "resolve"  BY DEF Explaining
<1>2. /\ Sharing /\ E!IInv /\ TypedContext /\ TypedTrail /\ RatTyped /\ Grounded
  BY <1>1, FoundFacts
<1>3. /\ depth \in Nat /\ depth \in 0..Len(truStack) /\ firstHyp \in 0..depth
      /\ Len(truStack) \in Nat /\ firstUnprocessed \in 0..Len(truStack)
  BY <1>2 DEF Sharing, RatTyped, TypedTrail
<1>4. /\ CutTo(depth)
      /\ firstUnprocessed' = IF depth < firstUnprocessed THEN depth ELSE firstUnprocessed
  BY ClearCuts
<1>5. /\ truStack' \in Seq(Lits) /\ IsInjective(truStack') /\ Len(truStack') = depth
      /\ reasons' \in [Lits -> Ids \union {None}]
      /\ \A k \in 1..depth :
           truStack'[k] = truStack[k] /\ reasons'[truStack[k]] = reasons[truStack[k]]
  BY <1>2, <1>3, <1>4, Cut
<1>6. UNCHANGED <<names, clauses, marked, watch, firstHyp, unitsProcessed, unprocessed, cur, root,
                  conflict, hints, queue, progress>>
  BY DEF context, control
<1>7. TypedTrail'
  <2>1. firstUnprocessed' \in 0..depth  BY <1>3, <1>4
  <2> QED  BY <1>2, <1>3, <1>5, <1>6, <2>1 DEF TypedTrail
<1>8. E!TypedTrail' /\ E!TypedContext' /\ E!Lists'
  <2>1. UNCHANGED E!context  BY <1>6 DEF E!context
  <2>2. E!TypedContext' /\ E!Lists'  BY <1>2, <2>1, Constants, E!Frame
  <2> QED  BY <1>7, <2>2, SameContextNext
<1>9. E!TrailInv'
  <2>1. ASSUME NEW k \in 1..depth, reasons[truStack[k]] = None
        PROVE  k > firstHyp' /\ truStack[k] \in E!Negated(EGoal')
    <3>1. k \in 1..Len(truStack)  BY <1>3
    <3>2. k > firstHyp  BY <1>2, <2>1, <3>1, EFacts
    <3>3. truStack[k] \in Negated(lemma)  BY <1>2, <2>1 DEF Sharing
    <3> QED  BY <1>6, <3>2, <3>3, SameGoal
  <2>2. ASSUME NEW k \in 1..depth, reasons[truStack[k]] # None
        PROVE  reasons[truStack[k]] \in names
    <3>1. k \in 1..Len(truStack)  BY <1>3
    <3> QED  BY <1>2, <2>2, <3>1 DEF Grounded, Forced
  <2>3. E!Negated(EGoal)' = E!Negated(EGoal')  BY DEF E!Negated
  <2>4. truStack' \in Seq(E!Lits)  BY <1>5, SameContext
  <2>5. E!KeepsTo(depth)
    <3> USE <1>3, <1>5, <1>6
    <3> QED  BY <2>1, <2>2, <2>4 DEF E!KeepsTo, E!Negated
  <2>6. E!TypedTrail /\ E!TrailInv  BY <1>2 DEF E!IInv, E!Typed
  <2> QED  BY <1>5, <2>5, <2>6, Constants, E!TrailStep
<1>10. E!TypedControl'
  <2>1. E!TypedControl  BY <1>2, EFacts
  <2>2. EPc' \in E!Places  BY DEF E!Places
  <2>3. lemma \in Seq(Literals) /\ <<>> \in Seq(Literals)  BY <1>2 DEF RatTyped
  <2>4. E!Range(ERest)' = E!Range(ERest') /\ E!Range(EGoal)' = E!Range(EGoal')  BY DEF E!Range
  <2>5. E!Range(<<>>) = {}  BY DEF E!Range
  <2> QED  BY <1>6, <2>1, <2>2, <2>3, <2>4, <2>5, SameContext DEF E!TypedControl, E!Literals, E!Lits
<1>11. E!Stages'  BY DEF E!Stages
<1>12. E!Consistently'
  <2>1. \A n \in 1..depth : ~UnsatAt(n)  BY <1>2 DEF Sharing
  <2>2. ~E!Unsat'
    <3> SUFFICES ASSUME E!Unsat' PROVE FALSE  OBVIOUS
    <3>1. PICK m \in 1..depth : depth > 0 /\ truStack'[m] = -truStack'[depth]
      BY <1>5 DEF E!Unsat, E!UnsatAt
    <3>2. depth \in 1..depth  BY <1>3, <3>1
    <3>3. truStack[m] = -truStack[depth]  BY <1>5, <3>1, <3>2
    <3>4. UnsatAt(depth)  BY <3>1, <3>3 DEF UnsatAt
    <3> QED  BY <2>1, <3>2, <3>4
  <2> QED  BY <2>2 DEF E!Consistently
<1>13. E!IInv'  BY <1>8, <1>9, <1>10, <1>11, <1>12 DEF E!IInv, E!Typed
<1>14. closed => firstHyp' <= firstUnprocessed'
  <2>1. closed => firstHyp <= firstUnprocessed  BY <1>1, ResolvePlaces
  <2> QED  BY <1>3, <1>4, <1>6, <2>1
<1> QED  BY <1>5, <1>13, <1>14

LEMMA RefutesIs ==
  ASSUME Refutes, ~Panics
  PROVE  /\ Explaining \/ ~LInv
         /\ preRat' = preRat \o Steps(Keep(New, Shared))
         /\ written' = Append(written, [clause |-> resolvent,
                                       hints |-> Steps(Keep(New, Lits \ Shared))])
         /\ temp' = temp \o Keep(New, Shared)
         /\ ClearTo(depth)
         /\ task' = "rat" /\ pc' = "resolvents"
         /\ UNCHANGED <<context, firstHyp, unitsProcessed, control, lemma, pivot,
                        witness, groups, depth, closed>>
  BY DEF Refutes, Explaining, New, Newly, Explained, Shared

-----------------------------------------------------------------------------
LEMMA RefutesL == ASSUME LInv, Refutes PROVE LInv' \/ pc' = "panic"
<1> SUFFICES ASSUME ~Panics PROVE LInv'  BY DEF Panics
<1> DEFINE more == Keep(New, Shared)
           g == [clause |-> resolvent, hints |-> Steps(Keep(New, Lits \ Shared))]
<1>1. /\ Explaining
      /\ preRat' = preRat \o Steps(more) /\ written' = Append(written, g)
      /\ temp' = temp \o more
      /\ ClearTo(depth) /\ task' = "rat" /\ pc' = "resolvents"
      /\ UNCHANGED <<context, firstHyp, unitsProcessed, control, lemma, pivot, witness, groups,
                     depth, closed>>
  BY RefutesIs
<1>2. pc = "found" /\ task = "resolve"  BY <1>1 DEF Explaining
<1>3. /\ Sharing /\ TypedContext /\ TypedTrail /\ RatTyped /\ Grounded
  BY <1>2, FoundFacts
<1>4. /\ more \in Seq(Lits) /\ temp \o more \in Seq(Lits)
      /\ Range(temp \o more) = Range(temp) \union (Range(New) \intersect Shared)
      /\ Range(temp \o more) \subseteq Shared
      /\ preRat \o Steps(more) \in Seq(Ids)
      /\ ReplayFrom(Negated(lemma), preRat \o Steps(more)) =
           Begun(Negated(lemma) \union Range(temp \o more))
  BY <1>1, StartsMore
<1>5. New \in Seq(Lits) /\ \A x \in Range(New) : IsTrue(x)  BY <1>2, ExplainedIs
<1>6. Steps(more) \in Seq(names) /\ g \in Groups
  <2>1. ASSUME NEW T PROVE Steps(Keep(New, T)) \in Seq(names)
    <3> DEFINE k == Keep(New, T)
    <3>1. k \in Seq(Lits) /\ Range(k) = Range(New) \intersect T  BY <1>5, KeepFacts
    <3>2. \A x \in Range(k) : IsTrue(x)  BY <1>5, <3>1
    <3> HIDE DEF k
    <3>3. Steps(k) \in Seq(names)  BY <1>3, <3>1, <3>2, StepsNamed
    <3> QED  BY <3>3 DEF k
  <2>2. resolvent \in names  BY <1>2 DEF LInv, Tasks
  <2>3. Steps(Keep(New, Lits \ Shared)) \in Seq(names)  BY <2>1
  <2>4. Steps(more) \in Seq(names)  BY <2>1
  <2> QED  BY <2>2, <2>3, <2>4 DEF Groups
<1>7. EPc' = "assume" /\ EStage' = "hint" /\ EGoal' = lemma /\ ERest' = <<>>
  BY <1>1 DEF EPc, EStage, EGoal, ERest
<1>8. /\ E!IInv' /\ Len(truStack') = depth /\ truStack' \in Seq(Lits)
      /\ \A k \in 1..depth :
           truStack'[k] = truStack[k] /\ reasons'[truStack[k]] = reasons[truStack[k]]
      /\ (closed => firstHyp' <= firstUnprocessed')
  BY <1>1, <1>7, CutToShared
<1>9. UNCHANGED <<names, clauses>> /\ Permuted  BY <1>1 DEF context, Permuted
<1>10. TypedContext'  BY <1>8, SameContextNext DEF E!IInv, E!Typed
<1> HIDE DEF g, more
<1>11. RatTyped'
  <2>1. Groups' = Groups  BY <1>9 DEF Groups
  <2>2. written' \in Seq(Groups)  BY <1>1, <1>3, <1>6, AppendProperties DEF RatTyped
  <2>3. preRat' \in Seq(names)
    <3>1. preRat \in Seq(names)  BY <1>3 DEF RatTyped
    <3> QED  BY <1>1, <1>6, <3>1
  <2> QED  BY <1>1, <1>3, <1>4, <1>9, <2>1, <2>2, <2>3 DEF RatTyped
<1>12. Tasks'  BY <1>1 DEF Tasks
<1>13. Open'
  <2>1. Rup(lemma)' <=> Rup(lemma)  BY <1>1, <1>3, <1>9, <1>10, SameRup
  <2>2. unitsProcessed /\ (~closed => ~Rup(lemma))  BY <1>2 DEF LInv, Open
  <2> QED  BY <1>1, <1>8, <2>1, <2>2 DEF Open, AtRoot
<1>14. Denied'  BY <1>1 DEF Denied
<1>15. depth \in Nat /\ firstHyp <= depth  BY <1>3 DEF RatTyped, Sharing
<1>16. Shared' = Shared
  <2>1. depth' = depth /\ \A k \in 1..depth : truStack'[k] = truStack[k]  BY <1>1, <1>8
  <2> QED  BY ONLY <2>1 DEF Shared
<1>17. Negated(lemma)' = Negated(lemma) /\ Negated(lemma) \in SUBSET Lits
  BY <1>1, <1>3, NegatedLits DEF RatTyped, Negated
<1>18. \A n \in 1..depth' : ~UnsatAt(n)'
  <2> SUFFICES ASSUME NEW n \in 1..depth PROVE ~UnsatAt(n)'  BY <1>1
  <2>1. ~UnsatAt(n)  BY <1>3 DEF Sharing
  <2>2. \A m \in 1..n : m \in 1..depth  BY <1>15
  <2>3. \A m \in 1..n : truStack'[m] = truStack[m]  BY <1>8, <2>2
  <2>4. n \in 1..n  BY <1>15
  <2> QED  BY <2>1, <2>3, <2>4 DEF UnsatAt
<1>19. Started'
  <2>1. ASSUME NEW A \in SUBSET Lits, NEW h \in Seq(Ids), A = Negated(lemma'), h = preRat'
        PROVE  ReplayFrom(A, h)' = Begun(A \union Range(temp'))
    <3>1. A = Negated(lemma) /\ h = preRat \o Steps(more)  BY <1>1, <2>1
    <3>2. ReplayFrom(A, h) = Begun(A \union Range(temp'))  BY <1>1, <1>4, <3>1
    <3>3. ReplayFrom(A, h)' = ReplayFrom(A, h)  BY <1>3, <1>9, <1>10, SameReplay
    <3> QED  BY <3>2, <3>3
  <2> QED  BY <1>10, <1>11, <2>1, StartedNext
<1>20. \A x \in Range(written') : Refuting(x)'
  <2> SUFFICES ASSUME NEW x \in Range(written') PROVE Refuting(x)'  OBVIOUS
  <2>1. written \in Seq(Groups)  BY <1>3 DEF RatTyped
  <2>2. x \in Range(written) \/ x = g  BY <1>1, <1>6, <2>1, RangeNext
  <2>3. x \in Groups  BY <1>6, <2>1, <2>2, InRange
  <2>4. x.clause \in Ids /\ x.hints \in Seq(Ids)
    BY <1>3, <2>3, NamesAreIds DEF Groups, TypedContext
  <2>5. Range(temp') = Range(temp) \union (Range(New) \intersect Shared)  BY <1>1, <1>4
  <2>6. ASSUME NEW A \in SUBSET Lits, Coherent(A),
               Negated(lemma) \union Range(temp') \subseteq A,
               {-l : l \in Reduced(witness, clauses[x.clause])} \subseteq A
        PROVE  ReplayFrom(A, x.hints).proved
    <3>1. CASE x \in Range(written)
      <4>1. Refuting(x)  BY <1>3, <3>1 DEF Sharing
      <4> QED  BY <2>5, <2>6, <4>1 DEF Refuting
    <3>2. CASE x = g
      <4>1. x.clause = resolvent /\ x.hints = Steps(Keep(New, Lits \ Shared))  BY <3>2 DEF g
      <4> QED  BY <1>1, <2>5, <2>6, <4>1, RefutesIt
    <3> QED  BY <2>2, <3>1, <3>2
  <2> QED  BY <1>1, <1>3, <1>9, <1>10, <2>4, <2>6, RefutingMore
<1>21. Sharing'
  <2>1. \A n \in 1..depth' : reasons'[truStack'[n]] = None => truStack'[n] \in Negated(lemma)'
    <3>1. \A n \in 1..depth : reasons[truStack[n]] = None => truStack[n] \in Negated(lemma)
      BY <1>3 DEF Sharing
    <3> QED  BY <1>1, <1>8, <1>17, <3>1
  <2>2. Negated(lemma)' \subseteq Shared'  BY <1>3, <1>16, <1>17 DEF Sharing
  <2>3. Range(temp)' = Range(temp') /\ Range(written)' = Range(written')  BY DEF Range
  <2>4. Range(temp)' \subseteq Shared'  BY <1>1, <1>4, <1>16, <2>3
  <2>5. depth' <= Len(truStack') /\ firstHyp' <= depth'  BY <1>1, <1>8, <1>15
  <2> QED  BY <1>18, <1>19, <1>20, <2>1, <2>2, <2>3, <2>4, <2>5 DEF Sharing
<1>22. Holding'  BY <1>1, <1>8, <1>21 DEF Holding
<1>23. HintsAccepted'  BY <1>1 DEF HintsAccepted
<1> QED  BY <1>8, <1>11, <1>12, <1>13, <1>14, <1>22, <1>23 DEF LInv

LEMMA CannotRefuteL == CannotRefute => pc' = "panic"
  BY DEF CannotRefute, Panics

-----------------------------------------------------------------------------
(* The step is written.                                                     *)

LEMMA JoinInjective ==
  ASSUME NEW S, NEW s \in Seq(S), NEW r \in Seq(S), IsInjective(s), IsInjective(r),
         Range(s) \intersect Range(r) = {}
  PROVE  IsInjective(s \o r)
<1> DEFINE t == s \o r
           m == Len(s)
           n == Len(r)
<1>1. /\ t \in Seq(S) /\ Len(t) = m + n /\ m \in Nat /\ n \in Nat
      /\ \A k \in 1..m : t[k] = s[k]
      /\ \A k \in 1..n : t[m + k] = r[k]
  OBVIOUS
<1> HIDE DEF t
<1>2. /\ \A j, k \in 1..m : s[j] = s[k] => j = k
      /\ \A j \in 1..m : s[j] \in Range(s)
  BY InRange
<1>3. /\ \A j, k \in 1..n : r[j] = r[k] => j = k
      /\ \A j \in 1..n : r[j] \in Range(r)
  BY InRange
<1> HIDE DEF m, n
<1>4. \A k \in 1..Len(t) : k \in 1..m \/ (k - m \in 1..n /\ m + (k - m) = k)  BY <1>1
<1>5. \A k \in 1..Len(t) : k - m \in 1..n /\ m + (k - m) = k => t[k] = r[k - m]
  <2> TAKE k \in 1..Len(t)
  <2> SUFFICES ASSUME k - m \in 1..n, m + (k - m) = k PROVE t[k] = r[k - m]  OBVIOUS
  <2>1. t[m + (k - m)] = r[k - m]  BY <1>1
  <2> QED  BY <2>1
<1>6. ASSUME NEW j \in 1..Len(t), NEW k \in 1..Len(t), t[j] = t[k] PROVE j = k
  <2>1. CASE j \in 1..m /\ k \in 1..m  BY <1>1, <1>2, <1>6, <2>1
  <2>2. CASE j \in 1..m /\ k - m \in 1..n /\ m + (k - m) = k
    <3>1. s[j] = r[k - m]  BY <1>1, <1>5, <1>6, <2>2
    <3> QED  BY <1>2, <1>3, <2>2, <3>1
  <2>3. CASE k \in 1..m /\ j - m \in 1..n /\ m + (j - m) = j
    <3>1. s[k] = r[j - m]  BY <1>1, <1>5, <1>6, <2>3
    <3> QED  BY <1>2, <1>3, <2>3, <3>1
  <2>4. CASE /\ j - m \in 1..n /\ m + (j - m) = j
             /\ k - m \in 1..n /\ m + (k - m) = k
    <3>1. r[j - m] = r[k - m]  BY <1>5, <1>6, <2>4
    <3>2. j - m = k - m  BY <1>3, <2>4, <3>1
    <3> QED  BY <2>4, <3>2
  <2> QED  BY <1>4, <2>1, <2>2, <2>3, <2>4
<1>7. IsInjective(t)  BY <1>1, <1>6, InRange
<1> QED  BY <1>7 DEF t

LEMMA CitedNames ==
  ASSUME RatTyped PROVE Cited \subseteq names
<1>1. preRat \in Seq(names) /\ written \in Seq(Groups)  BY DEF RatTyped
<1>2. Range(preRat) \subseteq names  BY <1>1, InRange
<1>3. Range(written) \subseteq Groups  BY <1>1, InRange
<1>4. \A g \in Groups : g.clause \in names /\ Range(g.hints) \subseteq names
  BY InRange DEF Groups
<1> QED  BY <1>2, <1>3, <1>4 DEF Cited

LEMMA MarkAllKeeps ==
  ASSUME TypedContext, Lists, NEW s \in SUBSET names, MarkAll(s)
  PROVE  TypedContext' /\ Lists'
<1> DEFINE a(l) == watch[TRUE][l]
           b(l) == watch[FALSE][l]
<1>1. /\ names \subseteq Ids /\ names' = names /\ clauses' = clauses /\ marked' = marked \union s
      /\ watch \in Watches
  BY DEF MarkAll, TypedContext
<1>2. ASSUME NEW l \in Lits
      PROVE  /\ watch'[TRUE][l] = a(l) \o Keep(b(l), s)
             /\ watch'[FALSE][l] = Keep(b(l), Ids \ s)
  BY DEF MarkAll
<1>3. ASSUME NEW l \in Lits
      PROVE  /\ a(l) \in Seq(Ids) /\ b(l) \in Seq(Ids)
             /\ IsInjective(a(l)) /\ IsInjective(b(l))
             /\ Range(a(l)) = Watchers(TRUE, l) /\ Range(b(l)) = Watchers(FALSE, l)
  BY <1>1 DEF Watches, Lists, AllOnce
<1> HIDE DEF a, b
<1>4. ASSUME NEW l \in Lits
      PROVE  /\ Keep(b(l), s) \in Seq(Ids) /\ IsInjective(Keep(b(l), s))
             /\ Range(Keep(b(l), s)) = Watchers(FALSE, l) \intersect s
             /\ Keep(b(l), Ids \ s) \in Seq(Ids) /\ IsInjective(Keep(b(l), Ids \ s))
             /\ Range(Keep(b(l), Ids \ s)) = Watchers(FALSE, l) \ s
  <2> DEFINE T == Ids \ s
  <2>1. Watchers(FALSE, l) \intersect T = Watchers(FALSE, l) \ s  BY <1>1 DEF Watchers
  <2> HIDE DEF T
  <2>2. Keep(b(l), s) \in Seq(Ids) /\ Range(Keep(b(l), s)) = Range(b(l)) \intersect s
    BY <1>3, KeepFacts
  <2>3. Keep(b(l), T) \in Seq(Ids) /\ Range(Keep(b(l), T)) = Range(b(l)) \intersect T
    BY <1>3, KeepFacts
  <2>4. IsInjective(Keep(b(l), s)) /\ IsInjective(Keep(b(l), T))  BY <1>3, KeepInjective
  <2> QED  BY <1>3, <2>1, <2>2, <2>3, <2>4 DEF T
<1>5. ASSUME NEW l \in Lits
      PROVE  /\ watch'[TRUE][l] \in Seq(Ids) /\ IsInjective(watch'[TRUE][l])
             /\ Range(watch'[TRUE][l]) = Watchers(TRUE, l) \union (Watchers(FALSE, l) \intersect s)
  <2>1. Range(a(l)) \intersect Range(Keep(b(l), s)) = {}
    <3>1. Watchers(TRUE, l) \intersect Watchers(FALSE, l) = {}  BY DEF Watchers
    <3> QED  BY <1>3, <1>4, <3>1
  <2> DEFINE j == a(l)
             k == Keep(b(l), s)
  <2>2. j \in Seq(Ids) /\ IsInjective(j) /\ k \in Seq(Ids) /\ IsInjective(k)  BY <1>3, <1>4
  <2>3. Range(j) \intersect Range(k) = {}  BY <2>1
  <2> HIDE DEF j, k
  <2>4. j \o k \in Seq(Ids) /\ Range(j \o k) = Range(j) \union Range(k)
    BY <2>2, Concatenated
  <2>5. IsInjective(j \o k)  BY <2>2, <2>3, JoinInjective
  <2> QED  BY <1>2, <1>3, <1>4, <2>4, <2>5 DEF j, k
<1>6. ASSUME NEW l \in Lits, NEW m \in BOOLEAN
      PROVE  /\ watch'[m][l] \in Seq(Ids) /\ IsInjective(watch'[m][l])
             /\ Range(watch'[m][l]) = Watchers(m, l)'
  <2>1. CASE m = TRUE
    <3>1. Watchers(TRUE, l)' = Watchers(TRUE, l) \union (Watchers(FALSE, l) \intersect s)
      BY <1>1 DEF Watchers
    <3> QED  BY <1>5, <2>1, <3>1
  <2>2. CASE m = FALSE
    <3>1. Watchers(FALSE, l)' = Watchers(FALSE, l) \ s
      BY <1>1 DEF Watchers
    <3> QED  BY <1>2, <1>4, <2>2, <3>1
  <2> QED  BY <2>1, <2>2
<1>7. watch' \in Watches
  <2>1. watch' = [m \in BOOLEAN |-> [l \in Lits |-> watch'[m][l]]]  BY DEF MarkAll
  <2>2. \A m \in BOOLEAN, l \in Lits : watch'[m][l] \in Seq(Ids)  BY <1>6
  <2> QED  BY <2>1, <2>2 DEF Watches
<1>8. TypedContext'  BY <1>1, <1>7 DEF TypedContext
<1>9. Lists'
  <2>1. AllOnce(watch')  BY <1>6 DEF AllOnce
  <2>2. AllOnce(watch)' = AllOnce(watch')  BY DEF AllOnce
  <2>3. \A m \in BOOLEAN, l \in Lits : Range(watch[m][l])' = Range(watch'[m][l])  BY DEF Range
  <2> QED  BY <1>6, <2>1, <2>2, <2>3 DEF Lists
<1> QED  BY <1>8, <1>9

-----------------------------------------------------------------------------
LEMMA EndMarked ==
  ASSUME E!IInv, NEW s \in SUBSET names, MarkAll(s), ClearTo(firstHyp), EndStep,
         UNCHANGED <<firstHyp, unitsProcessed>>,
         EPc' = pc', EStage' = stage', EGoal' = goal', ERest' = rest'
  PROVE  E!IInv'
<1>1. /\ TypedContext /\ TypedTrail /\ Lists /\ E!TypedTrail /\ E!TrailInv
      /\ firstHyp \in 0..firstHyp /\ firstHyp \in Nat /\ firstUnprocessed \in Nat
  <2>1. TypedContext /\ TypedTrail /\ Lists  BY EFacts
  <2> QED  BY <2>1 DEF E!IInv, E!Typed, TypedTrail
<1>2. names' = names /\ clauses' = clauses  BY DEF MarkAll
<1>3. TypedContext' /\ Lists'  BY <1>1, MarkAllKeeps
<1>4. /\ CutTo(firstHyp)
      /\ firstUnprocessed' = IF firstHyp < firstUnprocessed THEN firstHyp ELSE firstUnprocessed
  BY ClearCuts
<1>5. \A k \in 1..firstHyp : /\ reasons[truStack[k]] \in names'
                             /\ clauses'[reasons[truStack[k]]] = clauses[reasons[truStack[k]]]
  BY <1>1, <1>2, Constants, E!Held DEF E!TrailInv, E!Forced
<1>6. /\ E!TrailInv' /\ Len(truStack') = firstHyp
      /\ truStack' \in Seq(Lits) /\ IsInjective(truStack')
      /\ reasons' \in [Lits -> Ids \union {None}]
  <2>1. E!CutTo(firstHyp)  BY <1>4 DEF CutTo, E!CutTo, Lits, E!Lits
  <2>2. /\ E!TrailInv' /\ Len(truStack') = firstHyp
        /\ truStack' \in Seq(E!Lits) /\ E!IsInjective(truStack')
        /\ reasons' \in [E!Lits -> Ids \union {None}]
    BY <1>1, <1>5, <2>1, Constants, E!CutTrail
  <2>3. E!IsInjective(truStack') <=> IsInjective(truStack')  BY DEF E!IsInjective, IsInjective
  <2> QED  BY <2>2, <2>3, SameContext
<1>7. TypedTrail'
  <2>1. firstUnprocessed' \in 0..firstHyp  BY <1>1, <1>4
  <2> QED  BY <1>1, <1>6, <2>1 DEF TypedTrail
<1>8. E!TypedContext' /\ E!TypedTrail' /\ E!Lists'  BY <1>3, <1>7, SameContextNext
<1>9. E!TypedControl'
  <2>1. EPc' \in E!Places /\ EStage' \in {"hint", "empty", "root", "goal"}
    BY DEF EndStep, E!Places
  <2>2. EGoal' = <<>> /\ ERest' = <<>> /\ hints' = <<>> /\ queue' = <<>>  BY DEF EndStep
  <2>3. unprocessed' \in [BOOLEAN -> Nat]  BY DEF EndStep
  <2>4. 0 \in E!Lits  BY Sizes DEF E!Lits
  <2>5. cur' \in [class : BOOLEAN, lit : E!Lits, at : Nat \ {0}]  BY <2>4 DEF EndStep
  <2>6. root' \in BOOLEAN /\ conflict' \in E!Lits /\ progress' \in BOOLEAN  BY <2>4 DEF EndStep
  <2>7. <<>> \in Seq(names') /\ <<>> \in Seq(E!Literals)  OBVIOUS
  <2>8. E!Range(ERest)' \subseteq E!Range(EGoal)'  BY <2>2 DEF E!Range
  <2> QED  BY <2>1, <2>2, <2>3, <2>5, <2>6, <2>7, <2>8 DEF E!TypedControl
<1>10. E!Stages'  BY DEF EndStep, E!Stages
<1>11. E!Consistently'  BY <1>6 DEF EndStep, E!Consistently
<1> QED  BY <1>6, <1>8, <1>9, <1>10, <1>11 DEF E!IInv, E!Typed

LEMMA WriteL == ASSUME LInv, Write PROVE LInv'
<1>1. /\ MarkAll(Cited) /\ ClearTo(firstHyp) /\ EndStep /\ EndTask
      /\ UNCHANGED <<firstHyp, unitsProcessed>>
  BY DEF Write
<1>2. AtRest'
  <2>1. <<>> \in Seq(Literals) /\ 0 \in Lits  BY Sizes DEF Lits
  <2> QED  BY <1>1, <2>1 DEF EndStep, EndTask, AtRest
<1>3. Plainly'  BY <1>1 DEF EndStep, EndTask, Plainly
<1>4. EPc' = pc' /\ EStage' = stage' /\ EGoal' = goal' /\ ERest' = rest'
  BY <1>3, PlainViewNext
<1>5. Cited \in SUBSET names  BY CitedNames DEF LInv
<1>6. E!IInv'
  <2> DEFINE s == Cited
  <2>1. s \in SUBSET names /\ MarkAll(s)  BY <1>1, <1>5
  <2>2. E!IInv  BY DEF LInv
  <2> HIDE DEF s
  <2> QED  BY <1>1, <1>4, <2>1, <2>2, EndMarked
<1> QED  BY <1>2, <1>6, RestNext DEF LInv

-----------------------------------------------------------------------------
(* A program that has stopped does nothing any more.                         *)

LEMMA RunNeedsPlace == ASSUME Run PROVE pc # "panic"
<1>1. StartHint \/ UseHint \/ Propagate \/ ProcessUnits \/ Assume
      \/ NextPropLit \/ PropDone \/ Visit
  BY DEF Run
<1>2. ASSUME StartHint PROVE pc # "panic"  BY <1>2 DEF StartHint
<1>3. ASSUME UseHint PROVE pc # "panic"  BY <1>3 DEF UseHint
<1>4. ASSUME Propagate PROVE pc # "panic"  BY <1>4 DEF Propagate
<1>5. ASSUME ProcessUnits PROVE pc # "panic"  BY <1>5 DEF ProcessUnits
<1>6. ASSUME Assume PROVE pc # "panic"  BY <1>6 DEF Assume
<1>7. ASSUME NextPropLit PROVE pc # "panic"  BY <1>7 DEF NextPropLit
<1>8. ASSUME PropDone PROVE pc # "panic"  BY <1>8 DEF PropDone
<1>9. ASSUME Visit PROVE pc # "panic"  BY <1>9 DEF Visit
<1> QED  BY <1>1, <1>2, <1>3, <1>4, <1>5, <1>6, <1>7, <1>8, <1>9

LEMMA StopsForGood == ASSUME pc = "panic", [RatNext]_ratVars PROVE pc' = "panic"
<1>1. ASSUME NEW i \in Ids, Insert(i) PROVE FALSE  BY <1>1 DEF Insert, InsertClause
<1>2. ASSUME NEW i \in Ids, Need(i) PROVE FALSE  BY <1>2 DEF Need, MarkClause
<1>3. ASSUME NEW i \in Ids, Take(i) PROVE FALSE  BY <1>3 DEF Take, RemoveClause
<1>4. ASSUME BeginStep PROVE FALSE  BY <1>4 DEF BeginStep, Begin, Step
<1>5. ASSUME Run PROVE FALSE  BY <1>5, RunNeedsPlace
<1>6. ASSUME RoundEnds PROVE FALSE  BY <1>6 DEF RoundEnds
<1>7. ASSUME Proved \/ NotProved PROVE FALSE  BY <1>7 DEF Proved, NotProved
<1>8. ASSUME NextResolvent \/ AssumeReduct PROVE FALSE  BY <1>8 DEF NextResolvent, AssumeReduct
<1>9. ASSUME Refutes \/ CannotRefute PROVE FALSE  BY <1>9 DEF Refutes, CannotRefute
<1>10. ASSUME Write PROVE FALSE  BY <1>10 DEF Write
<1>11. CASE UNCHANGED ratVars  BY <1>11 DEF ratVars, vars, control
<1>12. CASE RatNext
  BY <1>1, <1>2, <1>3, <1>4, <1>5, <1>6, <1>7, <1>8, <1>9, <1>10, <1>12 DEF RatNext, RatEngine
<1> QED  BY <1>11, <1>12

-----------------------------------------------------------------------------
(* LInv holds until the program stops: one step per action.                  *)

LEMMA RatNextInv == ASSUME LInv, RatNext PROVE RInv'
<1>1. ASSUME NEW i \in Ids, Insert(i) PROVE LInv'  BY <1>1, InsertL
<1>2. ASSUME NEW i \in Ids, Need(i) PROVE LInv'  BY <1>2, NeedL
<1>3. ASSUME NEW i \in Ids, Take(i) PROVE LInv'  BY <1>3, TakeL
<1>4. ASSUME BeginStep PROVE LInv'  BY <1>4, BeginStepL
<1>5. ASSUME Run PROVE LInv'  BY <1>5, RunL
<1>6. ASSUME RoundEnds PROVE LInv'  BY <1>6, RoundL
<1>7. ASSUME Proved PROVE LInv'  BY <1>7, ProvedL
<1>8. ASSUME NotProved PROVE LInv' \/ pc' = "panic"  BY <1>8, NotProvedL
<1>9. ASSUME NextResolvent PROVE LInv' \/ pc' = "panic"  BY <1>9, NextResolventL
<1>10. ASSUME AssumeReduct PROVE LInv'  BY <1>10, AssumeReductL
<1>11. ASSUME Refutes PROVE LInv' \/ pc' = "panic"  BY <1>11, RefutesL
<1>12. ASSUME CannotRefute PROVE pc' = "panic"  BY <1>12, CannotRefuteL
<1>13. ASSUME Write PROVE LInv'  BY <1>13, WriteL
<1>14. LInv' \/ pc' = "panic"
  BY <1>1, <1>2, <1>3, <1>4, <1>5, <1>6, <1>7, <1>8, <1>9, <1>10, <1>11, <1>12, <1>13
     DEF RatNext, RatEngine
<1> QED  BY <1>14 DEF RInv

LEMMA RatStepInv == ASSUME RInv, [RatNext]_ratVars PROVE RInv'
<1>1. CASE pc = "panic"  BY <1>1, StopsForGood DEF RInv
<1>2. CASE LInv
  <2>1. CASE RatNext  BY <1>2, <2>1, RatNextInv
  <2>2. CASE UNCHANGED ratVars  BY <1>2, <2>2, StutterL DEF RInv
  <2> QED  BY <2>1, <2>2
<1> QED  BY <1>1, <1>2 DEF RInv

LEMMA RInvAccepts == ASSUME RInv PROVE HintsAccepted
<1>1. CASE pc = "panic"  BY <1>1 DEF HintsAccepted
<1> QED  BY <1>1 DEF RInv, LInv

(* The hint of every step that is written -- of a clause that follows by unit *)
(* propagation, and of one that is added as a RAT or PR step, whatever its     *)
(* witness -- is a proof for a checker that reads it once.                   *)
THEOREM HintsAlwaysAccepted == RatSpec => []HintsAccepted
<1>1. RatInit => RInv  BY RatInitInv DEF RInv
<1>2. RInv /\ [RatNext]_ratVars => RInv'  BY RatStepInv
<1>3. RInv => HintsAccepted  BY RInvAccepts
<1> QED  BY <1>1, <1>2, <1>3, PTL DEF RatSpec
=============================================================================
