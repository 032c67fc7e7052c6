--------------------------- MODULE RatVerdictProofs ---------------------------
(***************************************************************************)
(* More proofs about RatStep, for every instance: elab() gives up on a valid    *)
(* step only where the code drops the hypotheses or has half propagated the    *)
(* trail, and the hint of a step that it writes misses no resolvent.           *)
(*                                                                         *)
(* Two invariants are added to LInv of RatStepProofs.  PInv: what propagate()   *)
(* was told of, from the clause of the step to the last of its resolvents --    *)
(* while Steady holds the engine keeps the invariant of propagation that it     *)
(* has for one goal (Propagated of UnitPropProofs), seen through the mapping E. *)
(* QInv: the bookkeeping of the resolvents -- the kept set of touched clauses   *)
(* is exact, the step is valid, and each clause to resolve with is listed or   *)
(* still to come.  A lemma about an action ends in P or in Q for the invariant  *)
(* it is about.                                                            *)
(***************************************************************************)
EXTENDS RatStepProofs

-----------------------------------------------------------------------------
(* What was told stays told.                                               *)

(* How much of the trail was visited before the hypotheses.                 *)
Told == IF firstHyp < firstUnprocessed THEN firstHyp ELSE firstUnprocessed

(* Of the literals up to r, none makes a watched literal false whose partner  *)
(* is not among the first d.  SeenThen says it of the next state.             *)
SeenBy(r, d) ==
  \A i \in names, a \in Lits, b \in Lits : Watches2(clauses[i], a, b) =>
    \A n \in 1..r : truStack[n] = -a => \E p \in 1..d : truStack[p] = b
SeenThen(r, d) ==
  \A i \in names', a \in Lits, b \in Lits : Watches2(clauses'[i], a, b) =>
    \A n \in 1..r : truStack'[n] = -a => \E p \in 1..d : truStack'[p] = b

(* All that is seen stays seen.                                             *)
SeenOn == \A r \in 0..Len(truStack), d \in 0..Len(truStack) : SeenBy(r, d) => SeenThen(r, d)

LEMMA SeenSame ==
  ASSUME TypedTrail, Longer, UNCHANGED <<names, clauses>>
  PROVE  SeenOn
<1> SUFFICES ASSUME NEW r \in 0..Len(truStack), NEW d \in 0..Len(truStack), SeenBy(r, d)
             PROVE  SeenThen(r, d)
  BY DEF SeenOn
<1>1. Len(truStack) \in Nat  BY DEF TypedTrail
<1>2. \A n \in 1..r : truStack'[n] = truStack[n]  BY <1>1 DEF Longer
<1>3. \A n \in 1..d : truStack'[n] = truStack[n]  BY <1>1 DEF Longer
<1>4. \A i : clauses'[i] = clauses[i]  OBVIOUS
<1> QED  BY <1>2, <1>3, <1>4 DEF SeenBy, SeenThen

(* A clause with no true literal among its watched ones may watch another      *)
(* that is not false.                                                      *)
LEMMA SeenMoved ==
  ASSUME TypedContext, TypedTrail, NEW i \in names, NEW t, Longer,
         names' = names, clauses' = [clauses EXCEPT ![i] = t],
         Len(t) >= 2 => Len(clauses[i]) >= 2,
         Len(t) >= 2 => /\ ~IsTrue(clauses[i][1]) /\ ~IsTrue(clauses[i][2])
                        /\ \A a \in {t[1], t[2]} : a \in {clauses[i][1], clauses[i][2]} \/ ~IsFalse(a)
  PROVE  SeenOn
<1> SUFFICES ASSUME NEW r \in 0..Len(truStack), NEW d \in 0..Len(truStack), SeenBy(r, d)
             PROVE  SeenThen(r, d)
  BY DEF SeenOn
<1>1. Len(truStack) \in Nat /\ truStack \in Seq(Lits)  BY DEF TypedTrail
<1>2. \A n \in 1..r : truStack'[n] = truStack[n]  BY <1>1 DEF Longer
<1>3. \A n \in 1..d : truStack'[n] = truStack[n]  BY <1>1 DEF Longer
<1>4. clauses'[i] = t /\ \A j : j # i => clauses'[j] = clauses[j]  BY DEF TypedContext
<1>5. clauses[i] \in Seq(Literals)  BY DEF TypedContext
<1>6. ASSUME NEW a \in Lits, NEW b \in Lits, Watches2(t, a, b), NEW n \in 1..r, truStack[n] = -a
      PROVE  FALSE
  <2>1. Len(t) >= 2 /\ a \in {t[1], t[2]}  BY <1>6 DEF Watches2
  <2>2. IsFalse(a)
    <3>1. n \in 1..Len(truStack)  BY <1>1
    <3> QED  BY <1>1, <1>6, <3>1, InRange DEF IsFalse, IsTrue
  <2> DEFINE c == clauses[i]
  <2>3. a \in {c[1], c[2]} /\ Len(c) >= 2 /\ ~IsTrue(c[1]) /\ ~IsTrue(c[2])  BY <2>1, <2>2
  <2>4. PICK e \in {c[1], c[2]} : Watches2(c, a, e)  BY <2>3 DEF Watches2
  <2>5. e \in Lits
    <3>1. 1 \in 1..Len(c) /\ 2 \in 1..Len(c)  BY <1>5, <2>3
    <3> QED  BY <1>5, <3>1 DEF Literals
  <2>6. PICK p \in 1..d : truStack[p] = e  BY <1>6, <2>4, <2>5 DEF SeenBy
  <2>7. p \in 1..Len(truStack)  BY <1>1
  <2>8. IsTrue(e)  BY <1>1, <2>6, <2>7, InRange DEF IsTrue
  <2> QED  BY <2>3, <2>8
<1>7. ASSUME NEW j \in names, NEW a \in Lits, NEW b \in Lits, Watches2(clauses'[j], a, b),
             NEW n \in 1..r, truStack'[n] = -a
      PROVE  \E p \in 1..d : truStack'[p] = b
  <2>1. truStack[n] = -a  BY <1>2, <1>7
  <2>2. CASE j = i  BY <1>4, <1>6, <1>7, <2>1, <2>2
  <2>3. CASE j # i
    <3>1. Watches2(clauses[j], a, b)  BY <1>4, <1>7, <2>3
    <3> QED  BY <1>3, <2>1, <3>1 DEF SeenBy
  <2> QED  BY <2>2, <2>3
<1> QED  BY <1>7 DEF SeenThen

LEMMA UseHintSeen ==
  ASSUME TypedContext, TypedTrail, hints \in Seq(names), UseHint
  PROVE  SeenOn
<1> DEFINE i == Head(hints)
           c == clauses[i]
<1>1. i \in names /\ c \in Seq(Literals) /\ Len(c) \in Nat
  <2>1. hints # <<>>  BY DEF UseHint
  <2>2. i \in names  BY <2>1
  <2> QED  BY <2>2 DEF TypedContext
<1>2. Longer  BY UseHintLeaves
<1>3. CASE UNCHANGED context  BY <1>2, <1>3, SeenSame DEF context
<1>4. ASSUME NEW n \in HintLit(c), \A l \in Range(c) : ~IsTrue(l), names' = names,
             clauses' = [clauses EXCEPT ![i] = Swap(c, 1, n)]
      PROVE  SeenOn
  <2> DEFINE t == Swap(c, 1, n)
  <2>1. n \in 1..Len(c) /\ ~IsFalse(c[n]) /\ 1 \in 1..Len(c)  BY <1>1 DEF HintLit
  <2>2. /\ Len(t) = Len(c)
        /\ \A k \in 1..Len(c) : t[k] = IF k = 1 THEN c[n] ELSE IF k = n THEN c[1] ELSE c[k]
    <3>1. IsInjective(c)  BY <1>1 DEF TypedContext
    <3> HIDE DEF c
    <3> QED  BY <1>1, <2>1, <3>1, SwapFacts
  <2> HIDE DEF t
  <2>3. ASSUME Len(t) >= 2
        PROVE  /\ ~IsTrue(c[1]) /\ ~IsTrue(c[2])
               /\ \A a \in {t[1], t[2]} : a \in {c[1], c[2]} \/ ~IsFalse(a)
    <3>1. 1 \in 1..Len(c) /\ 2 \in 1..Len(c)  BY <1>1, <2>2, <2>3
    <3>2. c[1] \in Range(c) /\ c[2] \in Range(c)  BY <1>1, <3>1, InRange
    <3>3. t[1] = c[n] /\ t[2] \in {c[1], c[2]}  BY <2>2, <3>1
    <3> QED  BY <1>4, <2>1, <3>2, <3>3
  <2>4. clauses' = [clauses EXCEPT ![i] = t]  BY <1>4 DEF t
  <2>5. Len(t) >= 2 => Len(clauses[i]) >= 2  BY <2>2
  <2> HIDE DEF i
  <2> QED  BY <1>1, <1>2, <1>4, <2>3, <2>4, <2>5, SeenMoved
<1> QED  BY <1>3, <1>4 DEF UseHint, context

LEMMA VisitSeen ==
  ASSUME TypedContext, TypedTrail, Lists, cur \in [class : BOOLEAN, lit : Lits, at : Nat \ {0}],
         Visit
  PROVE  SeenOn
<1> DEFINE is == watch[cur.class][-cur.lit]
           i == is[cur.at]
           old == clauses[i]
           c == IF old[1] = -cur.lit THEN Swap(old, 1, 2) ELSE old
<1>0. Longer  BY VisitLeaves
<1>1. CASE UNCHANGED <<context, va>>  BY <1>0, <1>1, SeenSame DEF context
<1>2. ASSUME cur.at <= Len(is), ~IsTrue(c[1]), ~IsTrue(c[2]),
             Imply(i, c) \/ \E n \in 3..Len(c) : ~IsFalse(c[n]) /\ Replace(i, c, n)
      PROVE  SeenOn
  <2>1. cur.class \in BOOLEAN /\ -cur.lit \in Lits /\ cur.at \in Nat \ {0}  BY Negation
  <2>2. is \in Seq(Ids) /\ Range(is) = Watchers(cur.class, -cur.lit)
    BY <2>1 DEF TypedContext, Watches, Lists
  <2> HIDE DEF is
  <2>3. cur.at \in 1..Len(is)  BY <1>2, <2>1, <2>2
  <2>4. i \in Watchers(cur.class, -cur.lit)  BY <2>2, <2>3, InRange
  <2> HIDE DEF i
  <2>5. i \in names /\ old \in Seq(Literals) /\ IsInjective(old) /\ Len(old) >= 2
    BY <2>4 DEF Watchers, TypedContext
  <2> HIDE DEF old
  <2>6. 1 \in 1..Len(old) /\ 2 \in 1..Len(old)  BY <2>5
  <2>7. /\ c \in Seq(Literals) /\ Len(c) = Len(old) /\ IsInjective(c)
        /\ {c[1], c[2]} = {old[1], old[2]}
    <3>1. CASE old[1] = -cur.lit
      <4> DEFINE t == Swap(old, 1, 2)
      <4>1. /\ t \in Seq(Literals) /\ Len(t) = Len(old) /\ IsInjective(t)
            /\ t[1] = old[2] /\ t[2] = old[1]
        BY <2>5, <2>6, SwapFacts
      <4> HIDE DEF t
      <4>2. c = t  BY <3>1 DEF t
      <4> QED  BY <4>1, <4>2
    <3>2. CASE old[1] # -cur.lit  BY <2>5, <3>2
    <3> QED  BY <3>1, <3>2
  <2> HIDE DEF c
  <2>8. ASSUME NEW t, names' = names, clauses' = [clauses EXCEPT ![i] = t],
               \A a \in {t[1], t[2]} : a \in {c[1], c[2]} \/ ~IsFalse(a)
        PROVE  SeenOn
    <3>1. Len(clauses[i]) >= 2 /\ ~IsTrue(clauses[i][1]) /\ ~IsTrue(clauses[i][2])
      BY <1>2, <2>5, <2>7 DEF old
    <3>2. \A a \in {t[1], t[2]} : a \in {clauses[i][1], clauses[i][2]} \/ ~IsFalse(a)
      BY <2>7, <2>8 DEF old
    <3> QED  BY <1>0, <2>5, <2>8, <3>1, <3>2, SeenMoved
  <2>9. ASSUME NEW n \in 3..Len(c), ~IsFalse(c[n]), Replace(i, c, n)
        PROVE  SeenOn
    <3>1. n \in 1..Len(c) /\ 2 \in 1..Len(c) /\ 1 \in 1..Len(c)  BY <2>5, <2>7
    <3>2. \A k \in 1..Len(c) : Swap(c, 2, n)[k] = IF k = 2 THEN c[n] ELSE IF k = n THEN c[2] ELSE c[k]
      BY <2>7, <3>1, SwapFacts
    <3>3. Swap(c, 2, n)[1] = c[1] /\ Swap(c, 2, n)[2] = c[n]  BY <3>1, <3>2
    <3>4. /\ names' = names /\ clauses' = [clauses EXCEPT ![i] = Swap(c, 2, n)]
      BY <2>9 DEF Replace
    <3> QED  BY <2>8, <2>9, <3>3, <3>4
  <2>10. CASE Imply(i, c)
    <3>1. names' = names /\ clauses' = [clauses EXCEPT ![i] = c]  BY <2>10 DEF Imply
    <3> QED  BY <2>8, <3>1
  <2> QED  BY <1>2, <2>9, <2>10
<1>3. \/ UNCHANGED <<context, va>>
      \/ /\ cur.at <= Len(is) /\ ~IsTrue(c[1]) /\ ~IsTrue(c[2])
         /\ Imply(i, c) \/ \E n \in 3..Len(c) : ~IsFalse(c[n]) /\ Replace(i, c, n)
  BY DEF Visit
<1> HIDE DEF i, c, is
<1> QED  BY <1>1, <1>2, <1>3 DEF va

-----------------------------------------------------------------------------
(* The invariant of propagation.                                           *)

(* Between resolvents the engine keeps to what propagate() was told of in the *)
(* shared part of the trail.  With RAT hints propagate() was not called for it, *)
(* and after the first resolvent the trail is as that one left it.            *)
Steady == closed \/ written = <<>> \/ AtRoot

UnitsTold == \A i \in UnitClauses : \E p \in 1..firstHyp : truStack[p] = UnitLit(clauses[i])

Prepared ==
  /\ Steady => E!Propagated
  /\ ~Steady => /\ UnitsTold /\ SeenBy(Told, firstHyp)
                /\ pc \in {"prop", "visit"} => firstHyp <= firstUnprocessed
  /\ closed /\ ~AtRoot => SeenBy(depth, depth) /\ depth <= firstUnprocessed

(* The literals of the resolvent that are left to assume, or are false.      *)
AllDenied ==
  task = "resolve" /\ ~AtRoot /\ pc # "found" =>
    \A l \in Reduced(witness, clauses[resolvent]) :
      (pc = "resolve" /\ l \in Range(rest)) \/ IsFalse(l)

Unproved == task \in {"rat", "resolve"} /\ pc # "write" => ~Rup(lemma)

PInv == Prepared /\ AllDenied /\ Unproved

LEMMA SameSeen ==
  /\ \A c, a, b : E!Watches2(c, a, b) <=> Watches2(c, a, b)
  /\ E!UnitClauses = UnitClauses
  BY DEF E!Watches2, Watches2, E!UnitClauses, UnitClauses

WatchedIs ==
  \A x \in 0..Len(truStack), y \in 0..Len(truStack) :
    /\ Len(truStack) \in Nat /\ SeenBy(x, y)
    /\ \A m \in BOOLEAN : E!Reach(m) \in 0..x
    /\ E!Ground \in 0..Len(truStack)
    /\ y <= E!Ground \/ SeenBy(E!Ground, E!Ground)
    => E!Watched

LEMMA WatchedSays == WatchedIs
<1> SUFFICES ASSUME NEW x \in 0..Len(truStack), NEW y \in 0..Len(truStack), Len(truStack) \in Nat,
                    SeenBy(x, y), \A m \in BOOLEAN : E!Reach(m) \in 0..x,
                    E!Ground \in 0..Len(truStack), y <= E!Ground \/ SeenBy(E!Ground, E!Ground)
             PROVE  E!Watched
  BY DEF WatchedIs
<1> SUFFICES ASSUME NEW i \in names, NEW a \in Lits, NEW b \in Lits, Watches2(clauses[i], a, b),
                    NEW n \in 1..Len(truStack), n <= E!Reach(i \in marked), truStack[n] = -a
             PROVE  \E p \in 1..Len(truStack) : truStack[p] = b /\ (n <= E!Ground => p <= E!Ground)
  BY SameSeen, SameContext DEF E!Watched, E!Seen
<1> DEFINE G == E!Ground
           R == E!Reach(i \in marked)
           N == Len(truStack)
<1>1. R \in 0..x /\ x \in 0..N /\ y \in 0..N /\ N \in Nat /\ n \in 1..N /\ G \in 0..N
  <2>1. (i \in marked) \in BOOLEAN  OBVIOUS
  <2> QED  BY <2>1
<1>2. n <= R /\ (y <= G \/ SeenBy(G, G))  OBVIOUS
<1>3. ASSUME NEW z \in 0..N, NEW w \in 0..N, SeenBy(z, w), n <= z
      PROVE  \E p \in 1..w : truStack[p] = b
  <2>1. n \in 1..z  BY <1>1, <1>3
  <2> QED  BY <1>3, <2>1 DEF SeenBy
<1>x. n <= x
  <2> HIDE DEF R, N, G
  <2> QED  BY <1>1, <1>2
<1> HIDE DEF G, R, N
<1>4. CASE y <= G
  <2>1. PICK p \in 1..y : truStack[p] = b  BY <1>1, <1>3, <1>x
  <2>2. p \in 1..N /\ p <= G  BY <1>1, <1>4
  <2> QED  BY <2>1, <2>2 DEF G, N
<1>5. CASE SeenBy(G, G)
  <2>1. CASE n <= G
    <3>1. PICK p \in 1..G : truStack[p] = b  BY <1>1, <1>3, <1>5, <2>1
    <3>2. p \in 1..N /\ p <= G  BY <1>1
    <3> QED  BY <3>1, <3>2 DEF G, N
  <2>2. CASE ~(n <= G)
    <3>1. PICK p \in 1..y : truStack[p] = b  BY <1>1, <1>3, <1>x
    <3>2. p \in 1..N  BY <1>1
    <3> QED  BY <2>2, <3>1, <3>2 DEF G, N
  <2> QED  BY <2>1, <2>2
<1> QED  BY <1>2, <1>4, <1>5

(* What the engine was told of when it does not propagate.                   *)
LEMMA ToldNow ==
  ASSUME E!IInv, E!Propagated, EPc \notin {"prop", "visit"}, ~UnsatAt(firstHyp)
  PROVE  /\ SeenBy(Told, firstHyp) /\ (unitsProcessed => UnitsTold)
         /\ Told \in 0..Len(truStack) /\ Told <= firstHyp /\ Told <= firstUnprocessed
<1>1. /\ Len(truStack) \in Nat /\ firstHyp \in 0..Len(truStack)
      /\ firstUnprocessed \in 0..Len(truStack)
  BY EFacts
<1>2. Told \in 0..Len(truStack) /\ Told <= firstHyp /\ Told <= firstUnprocessed  BY <1>1 DEF Told
<1>3. E!Ground = firstHyp /\ \A i, a : ~E!Due(i, a)  BY DEF E!Ground, E!Due
<1>4. \A m \in BOOLEAN : Told <= E!Reach(m)
  BY <1>1 DEF Told, E!Reach
<1>5. SeenBy(Told, firstHyp)
  <2> SUFFICES ASSUME NEW i \in names, NEW a \in Lits, NEW b \in Lits, Watches2(clauses[i], a, b),
                      NEW n \in 1..Told, truStack[n] = -a
               PROVE  \E p \in 1..firstHyp : truStack[p] = b
    BY DEF SeenBy
  <2>1. E!Seen(i, a, b)  BY SameTruth, SameSeen, SameContext DEF E!Propagated, E!Watched
  <2>2. (i \in marked) \in BOOLEAN  OBVIOUS
  <2>3. n \in 1..Len(truStack) /\ n <= firstHyp /\ n <= E!Reach(i \in marked)
    <3>1. E!Reach(i \in marked) \in {firstHyp, firstUnprocessed}  BY DEF E!Reach
    <3> QED  BY <1>1, <1>2, <1>4, <2>2, <3>1
  <2>4. PICK p \in 1..Len(truStack) : truStack[p] = b /\ (n <= E!Ground => p <= E!Ground)
    BY <1>3, <2>1, <2>3 DEF E!Seen
  <2>5. p \in 1..firstHyp  BY <1>1, <1>3, <2>3, <2>4
  <2> QED  BY <2>4, <2>5
<1>6. unitsProcessed => UnitsTold
  BY SameTruth, SameSeen DEF E!Propagated, E!UnitsIn, UnitsTold
<1> QED  BY <1>2, <1>5, <1>6

-----------------------------------------------------------------------------
(* Before RAT is tried.                                                    *)

Early == task \in {"none", "begin", "rup", "rats"} /\ Tasks /\ E!Propagated => PInv

LEMMA EarlySays == Early
  BY DEF Early, Tasks, PInv, Prepared, Steady, AllDenied, Unproved

LEMMA EarlyP ==
  ASSUME LInv', task' \in {"none", "begin", "rup", "rats"}, E!Propagated'
  PROVE  PInv'
<1>1. Early'  BY EarlySays, PTL
<1> QED  BY <1>1 DEF Early, LInv

LEMMA EarlyS ==
  ASSUME LInv, PInv, task \in {"none", "begin", "rup", "rats"}
  PROVE  E!SInv /\ E!IInv /\ E!Propagated
  BY DEF LInv, Tasks, PInv, Prepared, Steady, E!SInv

LEMMA InsertP ==
  ASSUME LInv, LInv', PInv, NEW i \in Ids, Insert(i)
  PROVE  PInv'
<1>1. /\ task = "none" /\ InsertClause(i, Clauses[i], Clauses[i] = <<>>)
      /\ UNCHANGED step
  BY DEF Insert
<1>2. AtRest  BY <1>1, AtRestNow
<1>3. pc' = "idle" /\ task' = "none"  BY <1>1, <1>2 DEF InsertClause, AtRest, step
<1>5. Plainly /\ Plainly'  BY <1>1, <1>2, <1>3 DEF Plainly, AtRest
<1>6. /\ EPc = pc /\ EStage = stage /\ EGoal = goal /\ ERest = rest
      /\ EPc' = pc' /\ EStage' = stage' /\ EGoal' = goal' /\ ERest' = rest'
  BY <1>5, PlainView, PlainViewNext DEF PlainIs
<1>7. E!InsertClause(i, Clauses[i], Clauses[i] = <<>>)  BY <1>1, <1>6, SameCalls
<1>8. E!Propagated'
  <2>1. Clauses[i] \in Inputs /\ (Clauses[i] = <<>>) \in BOOLEAN  BY ClausesAreInputs
  <2>2. E!SInv /\ E!IInv'  BY <1>1, EarlyS DEF LInv
  <2>3. \A m \in BOOLEAN : E!InsertClause(i, Clauses[i], m) => E!Propagated'
    BY <2>1, <2>2, Constants, E!InsertS
  <2> QED  BY <1>7, <2>1, <2>3
<1> QED  BY <1>3, <1>8, EarlyP

LEMMA NeedP ==
  ASSUME LInv, LInv', PInv, NEW i \in Ids, Need(i)
  PROVE  PInv'
<1>1. task = "none" /\ MarkClause(i) /\ UNCHANGED step  BY DEF Need
<1>2. AtRest  BY <1>1, AtRestNow
<1>3. pc' = "idle" /\ task' = "none"  BY <1>1, <1>2 DEF MarkClause, AtRest, step
<1>5. Plainly /\ Plainly'  BY <1>1, <1>2, <1>3 DEF Plainly, AtRest
<1>6. /\ EPc = pc /\ EStage = stage /\ EGoal = goal /\ ERest = rest
      /\ EPc' = pc' /\ EStage' = stage' /\ EGoal' = goal' /\ ERest' = rest'
  BY <1>5, PlainView, PlainViewNext DEF PlainIs
<1>7. E!MarkClause(i)  BY <1>1, <1>6, SameCalls
<1>8. E!Propagated'
  <2>1. E!SInv /\ E!IInv'  BY <1>1, EarlyS DEF LInv
  <2> QED  BY <1>7, <2>1, Constants, E!MarkS
<1> QED  BY <1>3, <1>8, EarlyP

LEMMA TakeP ==
  ASSUME LInv, LInv', PInv, NEW i \in Ids, Take(i)
  PROVE  PInv'
<1>1. /\ task = "none" /\ RemoveClause(i) /\ task' \in {"none", "begin"}
  BY DEF Take
<1>2. AtRest  BY <1>1, AtRestNow
<1>3. pc' = "idle"  BY <1>1, <1>2 DEF RemoveClause, AtRest
<1>5. Plainly /\ Plainly'  BY <1>1, <1>2, <1>3 DEF Plainly, AtRest
<1>6. /\ EPc = pc /\ EStage = stage /\ EGoal = goal /\ ERest = rest
      /\ EPc' = pc' /\ EStage' = stage' /\ EGoal' = goal' /\ ERest' = rest'
  BY <1>5, PlainView, PlainViewNext DEF PlainIs
<1>7. E!RemoveClause(i)  BY <1>1, <1>6, SameCalls
<1>8. E!Propagated'
  <2>1. E!SInv /\ E!IInv'  BY <1>1, EarlyS DEF LInv
  <2> QED  BY <1>7, <2>1, Constants, E!RemoveS
<1> QED  BY <1>1, <1>8, EarlyP

LEMMA BeginStepP ==
  ASSUME LInv, LInv', PInv, BeginStep
  PROVE  PInv'
<1>0. task = "begin" /\ task' \in {"rup", "rats"}  BY DEF BeginStep, Begin
<1>1. PICK hinted \in BOOLEAN : \E h : Step(lemma, h, hinted)
  <2>1. \E h : Step(lemma, h, TRUE) \/ Step(lemma, h, FALSE)  BY DEF BeginStep, Begin
  <2> QED  BY <2>1
<1>a. PICK h : Step(lemma, h, hinted)  BY <1>1
<1>2. AtRest  BY <1>0, AtRestNow
<1>3. pc = "idle" /\ pc' = IF hinted THEN "hint" ELSE "propagate"  BY <1>a DEF Step
<1>4. Plainly /\ Plainly'  BY <1>0, <1>3 DEF Plainly
<1>5. /\ EPc = pc /\ EStage = stage /\ EGoal = goal /\ ERest = rest
      /\ EPc' = pc' /\ EStage' = stage' /\ EGoal' = goal' /\ ERest' = rest'
  BY <1>4, PlainView, PlainViewNext DEF PlainIs
<1>6. E!Step(lemma, h, hinted)  BY <1>a, <1>5, SameCalls
<1>7. E!Propagated'
  <2>1. E!SInv /\ E!IInv'  BY <1>0, EarlyS DEF LInv
  <2> QED  BY <1>6, <2>1, Constants, E!StepS
<1> QED  BY <1>0, <1>7, EarlyP

(* The engine at work for the clause.                                       *)
LEMMA WorkView ==
  ASSUME LInv, LInv', Run, task \in {"rup", "rats"}
  PROVE  /\ EPc = pc /\ EStage = stage /\ EGoal = goal /\ ERest = rest
         /\ EPc' = pc' /\ EStage' = stage' /\ EGoal' = goal' /\ ERest' = rest'
<1>1. StartHint \/ UseHint \/ Propagate \/ ProcessUnits \/ Assume \/ NextPropLit \/ PropDone \/ Visit
  BY DEF Run
<1>2. task' = task  BY DEF Run, step
<1>3. pc \in {"hint", "hints", "propagate", "units", "assume", "prop", "visit"}
  BY <1>1 DEF StartHint, UseHint, Propagate, ProcessUnits, Assume, NextPropLit, PropDone, Visit
<1>4. pc' \notin {"write", "resolvents", "resolve"}
  BY <1>1 DEF StartHint, UseHint, Propagate, ProcessUnits, Assume, NextPropLit, PropDone, Visit,
              Found, Replace, Imply
<1>5. ~(task' = "rats" /\ pc' = "stuck")
  <2> SUFFICES ASSUME task = "rats" PROVE pc' # "stuck"  BY <1>2
  <2>1. pc \in {"hint", "units", "assume", "hints"} /\ Hinted  BY <1>3 DEF LInv, Tasks
  <2> QED  BY <1>1, <2>1 DEF StartHint, UseHint, Propagate, ProcessUnits, Assume, NextPropLit, PropDone,
              Visit, Found
<1>6. Plainly /\ Plainly'  BY <1>2, <1>3, <1>4, <1>5 DEF Plainly
<1> QED  BY <1>6, PlainView, PlainViewNext DEF PlainIs

LEMMA RunEarly ==
  ASSUME LInv, LInv', PInv, Run, task \in {"rup", "rats"}
  PROVE  PInv'
<1>1. /\ EPc = pc /\ EStage = stage /\ EGoal = goal /\ ERest = rest
      /\ EPc' = pc' /\ EStage' = stage' /\ EGoal' = goal' /\ ERest' = rest'
  BY WorkView
<1>2. E!SInv /\ E!IInv'  BY EarlyS DEF LInv
<1>3. StartHint \/ UseHint \/ Propagate \/ ProcessUnits \/ Assume \/ NextPropLit \/ PropDone \/ Visit
  BY DEF Run
<1>4. task' \in {"rup", "rats"}  BY DEF Run, step
<1>5. CASE StartHint
  <2>1. E!StartHint  BY <1>1, <1>5, SameRun
  <2>2. E!Propagated'  BY <1>2, <2>1, Constants, E!StartHintS
  <2> QED  BY <1>4, <2>2, EarlyP
<1>6. CASE Propagate
  <2>1. E!Propagate  BY <1>1, <1>6, SameRun
  <2>2. E!Propagated'  BY <1>2, <2>1, Constants, E!PropagateS
  <2> QED  BY <1>4, <2>2, EarlyP
<1>7. CASE ProcessUnits
  <2>1. E!ProcessUnits  BY <1>1, <1>7, SameRun
  <2>2. E!Propagated'  BY <1>2, <2>1, Constants, E!ProcessUnitsS
  <2> QED  BY <1>4, <2>2, EarlyP
<1>8. CASE Assume
  <2>1. E!Assume  BY <1>1, <1>8, SameRun
  <2>2. E!Propagated'  BY <1>2, <2>1, Constants, E!AssumeS
  <2> QED  BY <1>4, <2>2, EarlyP
<1>9. CASE PropDone
  <2>1. E!PropDone  BY <1>1, <1>9, SameRun
  <2>2. E!Propagated'  BY <1>2, <2>1, Constants, E!PropDoneS
  <2> QED  BY <1>4, <2>2, EarlyP
<1>10. EPc = pc /\ EPc' = pc' /\ (UNCHANGED <<stage, goal, rest>> => UNCHANGED <<EStage, EGoal, ERest>>)
  BY <1>1
<1>11. CASE UseHint
  <2>0. UNCHANGED <<stage, goal, rest>>  BY <1>11 DEF UseHint
  <2>1. E!UseHint  BY <1>10, <1>11, <2>0, SameMoves
  <2>2. E!Propagated'  BY <1>2, <2>1, Constants, E!UseHintS
  <2> QED  BY <1>4, <2>2, EarlyP
<1>12. CASE NextPropLit
  <2>0. UNCHANGED <<stage, goal, rest>>  BY <1>12 DEF NextPropLit
  <2>1. E!NextPropLit  BY <1>10, <1>12, <2>0, SameMoves
  <2>2. E!Propagated'  BY <1>2, <2>1, Constants, E!NextPropLitS
  <2> QED  BY <1>4, <2>2, EarlyP
<1>13. CASE Visit
  <2>0. UNCHANGED <<stage, goal, rest>>  BY <1>13 DEF Visit
  <2>1. E!Visit  BY <1>10, <1>13, <2>0, SameMoves
  <2>2. E!Propagated'  BY <1>2, <2>1, Constants, E!VisitS
  <2> QED  BY <1>4, <2>2, EarlyP
<1> QED  BY <1>3, <1>5, <1>6, <1>7, <1>8, <1>9, <1>11, <1>12, <1>13

(* The engine takes the turn of propagate_hint() or to propagate().           *)
LEMMA RoundTurn ==
  ASSUME pc = "hints", hints = <<>>, EPc = "hints",
         UNCHANGED <<context, va, goal, cur, unprocessed, root, conflict>>,
         UNCHANGED <<EStage, EGoal, ERest>>,
         \/ /\ progress /\ EPc' = EPc
            /\ hints' = queue /\ queue' = <<>> /\ progress' = FALSE
         \/ /\ ~progress /\ EPc' = "propagate"
            /\ UNCHANGED <<hints, queue, progress>>
  PROVE  E!HintRound
<1>0. UNCHANGED <<names, clauses, marked, watch, truStack, reasons, firstHyp, firstUnprocessed,
                  unitsProcessed, cur, unprocessed, root, conflict>>
  BY DEF context, va
<1>1. CASE progress /\ EPc' = EPc /\ hints' = queue /\ queue' = <<>> /\ progress' = FALSE
  BY <1>0, <1>1 DEF E!HintRound, E!va, E!context
<1>2. CASE ~progress /\ EPc' = "propagate" /\ UNCHANGED <<hints, queue, progress>>
  <2>1. UNCHANGED <<E!va, E!control, E!context>>
    BY <1>0, <1>2 DEF E!va, E!control, E!context
  <2>2. \E p \in E!Range(EGoal) \union {0} :
          ~(EStage = "empty" /\ p # 0 /\ E!Fresh(p))
    <3>1. 0 \in E!Range(EGoal) \union {0}  OBVIOUS
    <3> QED  BY <3>1
  <2> QED  BY <1>2, <2>1, <2>2 DEF E!HintRound
<1> QED  BY <1>1, <1>2

(* The engine waits.                                                       *)
LEMMA Waits ==
  ASSUME E!SInv, UNCHANGED <<context, va>>, EPc \notin {"prop", "visit", "found"},
         EPc' \in {"assume", "hints", "propagate", "found"},
         EPc' = "assume" \/ EPc' = "hints" => unitsProcessed, EStage' # "goal"
  PROVE  E!Propagated'
<1>1. E!IInv  BY DEF E!SInv
<1>2. /\ firstHyp \in Nat /\ firstUnprocessed \in Nat
      /\ UNCHANGED <<truStack, firstHyp, firstUnprocessed, unitsProcessed>>
  BY <1>1, EFacts DEF va
<1>3. \A m \in BOOLEAN : E!Reach(m) = firstUnprocessed  BY DEF E!Reach
<1>4. \A m \in BOOLEAN : E!Reach(m)' \in {firstHyp, firstUnprocessed} /\ E!Reach(m)' <= firstUnprocessed
  BY <1>2 DEF E!Reach
<1>5. E!Ground' = E!Ground  BY <1>2 DEF E!Ground
<1>6. \A m \in BOOLEAN : E!Reach(m)' \in Nat /\ E!Reach(m)' <= E!Reach(m)  BY <1>2, <1>3, <1>4
<1>7. UNCHANGED E!context /\ UNCHANGED E!va  BY DEF context, va, E!context, E!va
<1>8. E!Watched' /\ E!UnitsIn'  BY <1>5, <1>6, <1>7, Constants, E!Elsewhere
<1>9. E!Marks'  BY <1>2 DEF E!Marks, E!Propagating
<1>10. E!Assumed'  BY DEF E!Assumed
<1> QED  BY <1>8, <1>9, <1>10 DEF E!Propagated

(* The engine is left as it is.                                             *)
LEMMA LeftP ==
  ASSUME E!SInv, UNCHANGED <<context, va, unprocessed, cur, root, conflict, hints, queue, progress>>,
         UNCHANGED <<EPc, EStage, EGoal, ERest>>
  PROVE  E!Propagated'
<1>1. UNCHANGED E!vars
  BY DEF context, va, E!vars, E!context, E!va, E!control
<1>2. E!SInv'  BY <1>1, Constants, E!NextS
<1> QED  BY <1>2 DEF E!SInv

LEMMA RoundEarly ==
  ASSUME LInv, LInv', PInv, RoundEnds, task \in {"rup", "rats"}
  PROVE  PInv'
<1>1. /\ pc = "hints" /\ hints = <<>>
      /\ UNCHANGED <<context, va, stage, goal, rest, unprocessed, cur, root, conflict>>
      /\ UNCHANGED <<lemma, written, closed>>
  BY DEF RoundEnds
<1>2. E!SInv /\ E!IInv'  BY EarlyS DEF LInv
<1>3. /\ EPc = "hints" /\ EStage = stage /\ EGoal = goal /\ ERest = rest
  BY <1>1 DEF EPc, EStage, EGoal, ERest, AtRoot
<1>4. CASE \/ progress /\ hints' = queue /\ queue' = <<>> /\ progress' = FALSE /\ pc' = "hints" /\ task' = task
           \/ ~progress /\ pc' = "propagate" /\ task' = task /\ UNCHANGED <<hints, queue, progress>>
  <2>1. EPc' = pc' /\ EStage' = stage /\ EGoal' = goal /\ ERest' = rest
    BY <1>1, <1>4 DEF EPc, EStage, EGoal, ERest, AtRoot
  <2>2. E!HintRound
    <3>1. UNCHANGED <<EStage, EGoal, ERest>>  BY <1>3, <2>1
    <3>2. \/ progress /\ EPc' = EPc /\ hints' = queue /\ queue' = <<>> /\ progress' = FALSE
          \/ ~progress /\ EPc' = "propagate" /\ UNCHANGED <<hints, queue, progress>>
      BY <1>3, <1>4, <2>1
    <3> QED  BY <1>1, <1>3, <3>1, <3>2, RoundTurn
  <2>3. E!Propagated'  BY <1>2, <2>2, Constants, E!HintRoundS
  <2> QED  BY <1>4, <2>3, EarlyP
<1>5. CASE ~progress /\ task = "rats" /\ pc' = "stuck" /\ task' = task /\ UNCHANGED <<hints, queue, progress>>
  <2>1. EPc' = "hints" /\ EStage' = stage /\ EGoal' = goal /\ ERest' = rest
    BY <1>1, <1>5 DEF EPc, EStage, EGoal, ERest, AtRoot
  <2>2. UNCHANGED <<EPc, EStage, EGoal, ERest>>  BY <1>3, <2>1
  <2>3. E!Propagated'  BY <1>1, <1>2, <1>5, <2>2, LeftP
  <2> QED  BY <1>5, <2>3, EarlyP
<1>6. CASE pc' = "write" /\ task' = "rat"
  <2>1. EPc' = "assume" /\ EStage' = "hint"  BY <1>6 DEF EPc, EStage
  <2>2. unitsProcessed  BY <1>1 DEF LInv, Open
  <2>3. E!Propagated'
    <3>1. UNCHANGED <<context, va>>  BY <1>1
    <3> QED  BY <1>2, <1>3, <2>1, <2>2, <3>1, Waits
  <2>4. written' = <<>> /\ ~closed'  BY <1>1 DEF LInv, Tasks
  <2> QED  BY <1>6, <2>3, <2>4 DEF PInv, Prepared, Steady, AllDenied, Unproved
<1>7. \/ progress /\ hints' = queue /\ queue' = <<>> /\ progress' = FALSE /\ pc' = "hints" /\ task' = task
      \/ ~progress /\ pc' = "propagate" /\ task' = task /\ UNCHANGED <<hints, queue, progress>>
      \/ ~progress /\ task = "rats" /\ pc' = "stuck" /\ task' = task /\ UNCHANGED <<hints, queue, progress>>
      \/ pc' = "write" /\ task' = "rat"
  BY <1>1 DEF RoundEnds
<1> QED  BY <1>4, <1>5, <1>6, <1>7

LEMMA ProvedP ==
  ASSUME LInv, LInv', PInv, Proved
  PROVE  PInv'
<1>1. /\ pc = "found" /\ task \in {"rup", "rats"} /\ pc' = "write" /\ task' = task
      /\ UNCHANGED <<context, va, control>>
  BY DEF Proved
<1>2. UNCHANGED <<stage, goal, rest, unprocessed, cur, root, conflict, hints, queue, progress>>
  BY <1>1 DEF control
<1>3. UNCHANGED <<EPc, EStage, EGoal, ERest>>
  BY <1>1, <1>2 DEF EPc, EStage, EGoal, ERest, AtRoot
<1>4. E!SInv  BY <1>1, EarlyS
<1>5. E!Propagated'  BY <1>1, <1>2, <1>3, <1>4, LeftP
<1> QED  BY <1>1, <1>5, EarlyP

-----------------------------------------------------------------------------
(* While a resolvent is worked on.                                          *)

LEMMA ShortSame ==
  ASSUME NEW S, NEW c \in Seq(S), NEW t \in Seq(S), IsInjective(c), IsInjective(t),
         Range(t) = Range(c), Len(c) <= 1
  PROVE  Len(t) <= 1 /\ UnitLit(t) = UnitLit(c)
<1>1. Len(c) \in Nat /\ Len(t) \in Nat  OBVIOUS
<1>2. \A x : x \in Range(c) <=> \E k \in 1..Len(c) : c[k] = x  BY InRange
<1>3. \A x : x \in Range(t) <=> \E k \in 1..Len(t) : t[k] = x  BY InRange
<1>4. \A k \in 1..Len(c) : k = 1  BY <1>1
<1>5. Len(t) <= 1
  <2> SUFFICES ASSUME Len(t) >= 2 PROVE FALSE  BY <1>1
  <2>1. 1 \in 1..Len(t) /\ 2 \in 1..Len(t)  BY <1>1
  <2>2. t[1] = c[1] /\ t[2] = c[1]  BY <1>2, <1>3, <1>4, <2>1
  <2>3. t[1] # t[2]
    <3>1. DOMAIN t = 1..Len(t)  OBVIOUS
    <3> QED  BY <2>1, <3>1 DEF IsInjective
  <2> QED  BY <2>2, <2>3
<1>6. \A k \in 1..Len(t) : k = 1  BY <1>1, <1>5
<1>7. CASE Len(t) = 0
  <2>1. Len(c) = 0
    <3> SUFFICES ASSUME Len(c) # 0 PROVE FALSE  OBVIOUS
    <3>1. 1 \in 1..Len(c)  BY <1>1
    <3>2. \E k \in 1..Len(t) : t[k] = c[1]  BY <1>2, <1>3, <3>1
    <3> QED  BY <1>7, <3>2
  <2> QED  BY <1>7, <2>1 DEF UnitLit
<1>8. CASE Len(t) = 1
  <2>1. 1 \in 1..Len(t)  BY <1>8
  <2>2. \E k \in 1..Len(c) : c[k] = t[1]  BY <1>2, <1>3, <2>1
  <2>3. c[1] = t[1] /\ 1 \in 1..Len(c)  BY <1>4, <2>2
  <2>4. c # <<>> /\ t # <<>>  BY <1>8, <2>3
  <2> QED  BY <1>5, <2>3, <2>4 DEF UnitLit
<1>9. Len(t) = 0 \/ Len(t) = 1
  <2> DEFINE n == Len(t)
  <2>1. n \in Nat /\ n <= 1  BY <1>1, <1>5
  <2> HIDE DEF n
  <2>2. n = 0 \/ n = 1  BY ONLY <2>1
  <2> QED  BY <2>2 DEF n
<1> QED  BY <1>7, <1>8, <1>9

LEMMA PermutedUnits ==
  ASSUME TypedContext, TypedContext', Permuted
  PROVE  UnitClauses' = UnitClauses /\ \A i \in UnitClauses : UnitLit(clauses'[i]) = UnitLit(clauses[i])
<1>1. names' = names /\ names \subseteq Ids  BY DEF TypedContext, Permuted
<1>2. \A i \in names : /\ clauses[i] \in Seq(Literals) /\ IsInjective(clauses[i])
                       /\ clauses'[i] \in Seq(Literals) /\ IsInjective(clauses'[i])
                       /\ Range(clauses'[i]) = Range(clauses[i])
  <2> SUFFICES ASSUME NEW i \in names
               PROVE  /\ clauses[i] \in Seq(Literals) /\ IsInjective(clauses[i])
                      /\ clauses'[i] \in Seq(Literals) /\ IsInjective(clauses'[i])
                      /\ Range(clauses'[i]) = Range(clauses[i])
    OBVIOUS
  <2>1. i \in Ids  BY <1>1
  <2>2. clauses[i] \in Seq(Literals) /\ IsInjective(clauses[i])  BY <2>1 DEF TypedContext
  <2>3. Literals' = Literals  BY DEF Literals, Lits
  <2>4. clauses'[i] \in Seq(Literals) /\ IsInjective(clauses'[i])
    BY <2>1, <2>3 DEF TypedContext, IsInjective
  <2>5. Range(clauses'[i]) = Range(clauses[i])  BY <2>1 DEF Permuted
  <2> QED  BY <2>2, <2>4, <2>5
<1>3. ASSUME NEW i \in names, Len(clauses[i]) <= 1
      PROVE  Len(clauses'[i]) <= 1 /\ UnitLit(clauses'[i]) = UnitLit(clauses[i])
  <2> DEFINE c == clauses[i]
             t == clauses'[i]
  <2>1. c \in Seq(Literals) /\ t \in Seq(Literals) /\ IsInjective(c) /\ IsInjective(t)
        /\ Range(t) = Range(c) /\ Len(c) <= 1
    BY <1>2, <1>3
  <2> HIDE DEF c, t
  <2>2. Len(t) <= 1 /\ UnitLit(t) = UnitLit(c)  BY ONLY <2>1, ShortSame
  <2> QED  BY <2>2 DEF c, t
<1>4. ASSUME NEW i \in names, Len(clauses'[i]) <= 1
      PROVE  Len(clauses[i]) <= 1
  <2> DEFINE c == clauses[i]
             t == clauses'[i]
  <2>1. c \in Seq(Literals) /\ t \in Seq(Literals) /\ IsInjective(c) /\ IsInjective(t)
        /\ Range(c) = Range(t) /\ Len(t) <= 1
    BY <1>2, <1>4
  <2> HIDE DEF c, t
  <2>2. Len(c) <= 1  BY ONLY <2>1, ShortSame
  <2> QED  BY <2>2 DEF c, t
<1>5. UnitClauses' = UnitClauses  BY <1>1, <1>3, <1>4 DEF UnitClauses
<1> QED  BY <1>3, <1>5 DEF UnitClauses

LEMMA UnitsToldOn ==
  ASSUME TypedContext, TypedContext', TypedTrail, Permuted, UnitsTold, firstHyp' = firstHyp,
         \A k \in 1..firstHyp : truStack'[k] = truStack[k]
  PROVE  UnitsTold'
<1>1. UnitClauses' = UnitClauses /\ \A i \in UnitClauses : UnitLit(clauses'[i]) = UnitLit(clauses[i])
  BY PermutedUnits
<1> QED  BY <1>1 DEF UnitsTold, UnitLit

LEMMA SeenIs ==
  ASSUME NEW r, NEW d, r' = r, d' = d, SeenThen(r, d)
  PROVE  SeenBy(r, d)'
  BY DEF SeenThen, SeenBy, Watches2

LEMMA StillFalse ==
  ASSUME TypedTrail, truStack' \in Seq(Lits), Longer, NEW l, IsFalse(l)
  PROVE  IsFalse(l)'
  BY StillTrue DEF IsFalse, IsTrue

-----------------------------------------------------------------------------
(* The engine at work for a resolvent.                                     *)

(* What to show of a step of the engine for a resolvent.                     *)
LEMMA ResolveQ ==
  ASSUME LInv, LInv', PInv, task = "resolve", UNCHANGED step, Permuted,
         AllDenied', Steady' => E!Propagated',
         ~AtRoot' => /\ ~AtRoot /\ Longer /\ firstHyp' = firstHyp /\ SeenOn
                     /\ firstUnprocessed' = firstUnprocessed \/ firstUnprocessed' = Len(truStack')
                     /\ \/ Steady
                        \/ firstHyp <= firstUnprocessed
                        \/ firstUnprocessed' = firstUnprocessed /\ pc' \notin {"prop", "visit"}
  PROVE  PInv'
<1>1. /\ task' = task /\ UNCHANGED <<lemma, witness, depth, closed, resolvent, written>>
      /\ names' = names
  BY DEF step, Permuted
<1>2. /\ E!IInv /\ TypedContext /\ TypedTrail /\ resolvent \in names /\ pc # "write"
      /\ Len(truStack) \in Nat /\ firstHyp \in 0..Len(truStack) /\ firstUnprocessed \in 0..Len(truStack)
  BY ResolvePlaces, EFacts
<1>3. TypedContext' /\ TypedTrail'  BY SameContextNext DEF LInv, E!IInv, E!Typed
<1>4. Unproved'
  <2>1. Rup(lemma)' <=> Rup(lemma)  BY <1>1, <1>2, <1>3, SameRup
  <2>2. ~Rup(lemma)  BY <1>2 DEF PInv, Unproved
  <2> QED  BY <2>1, <2>2 DEF Unproved
<1>5. CASE AtRoot'
  <2>1. Prepared'  BY <1>5 DEF Prepared, Steady
  <2> QED  BY <1>4, <2>1 DEF PInv
<1>6. CASE ~AtRoot'
  <2>1. /\ ~AtRoot /\ Longer /\ firstHyp' = firstHyp /\ SeenOn
        /\ firstUnprocessed' = firstUnprocessed \/ firstUnprocessed' = Len(truStack')
        /\ \/ Steady
           \/ firstHyp <= firstUnprocessed
           \/ firstUnprocessed' = firstUnprocessed /\ pc' \notin {"prop", "visit"}
    BY <1>6
  <2>2. Len(truStack') \in Nat /\ Len(truStack) <= Len(truStack')  BY <2>1 DEF Longer
  <2>3. Steady' <=> Steady  BY <1>1, <1>6, <2>1 DEF Steady
  <2>4. ASSUME ~Steady'
        PROVE  /\ UnitsTold' /\ SeenBy(Told, firstHyp)'
               /\ pc' \in {"prop", "visit"} => firstHyp' <= firstUnprocessed'
    <3>1. UnitsTold /\ SeenBy(Told, firstHyp) /\ ~Steady
      BY <2>3, <2>4 DEF PInv, Prepared
    <3>2. \A k \in 1..firstHyp : truStack'[k] = truStack[k]
      <4>1. \A k \in 1..firstHyp : k \in 1..Len(truStack)  BY <1>2
      <4> QED  BY <2>1, <4>1 DEF Longer
    <3>3. UnitsTold'  BY <1>2, <1>3, <2>1, <3>1, <3>2, UnitsToldOn
    <3>4. Told' = Told /\ Told \in 0..Len(truStack)
      <4>1. CASE firstUnprocessed' = firstUnprocessed  BY <1>2, <2>1, <4>1 DEF Told
      <4>2. CASE firstUnprocessed' = Len(truStack') /\ firstHyp <= firstUnprocessed
        BY <1>2, <2>1, <2>2, <4>2 DEF Told
      <4> QED  BY <2>1, <3>1, <4>1, <4>2
    <3>5. SeenThen(Told, firstHyp)  BY <1>2, <2>1, <3>1, <3>4 DEF SeenOn
    <3>6. SeenBy(Told, firstHyp)'
      <4> DEFINE r == Told
      <4>1. r' = r /\ SeenThen(r, firstHyp) /\ firstHyp' = firstHyp  BY <2>1, <3>4, <3>5
      <4> QED  BY <4>1 DEF SeenThen, SeenBy, Watches2
    <3>7. pc' \in {"prop", "visit"} => firstHyp' <= firstUnprocessed'
      BY <1>2, <2>1, <2>2, <3>1
    <3> QED  BY <3>3, <3>6, <3>7
  <2>5. ASSUME closed PROVE SeenBy(depth, depth)' /\ depth' <= firstUnprocessed'
    <3>1. SeenBy(depth, depth) /\ depth <= firstUnprocessed  BY <2>1, <2>5 DEF PInv, Prepared
    <3>2. depth \in 0..Len(truStack)  BY <2>1, <1>2 DEF LInv, Holding, Sharing, RatTyped
    <3>3. SeenThen(depth, depth)  BY <2>1, <3>1, <3>2 DEF SeenOn
    <3>4. SeenBy(depth, depth)'  BY <1>1, <3>3 DEF SeenThen, SeenBy, Watches2
    <3>5. depth' <= firstUnprocessed'  BY <1>1, <1>2, <2>1, <2>2, <3>1, <3>2
    <3> QED  BY <3>4, <3>5
  <2>6. Prepared'  BY <1>1, <2>3, <2>4, <2>5 DEF Prepared
  <2> QED  BY <1>4, <2>6 DEF PInv
<1> QED  BY <1>5, <1>6

LEMMA ResolveP ==
  ASSUME LInv, LInv', PInv, task = "resolve", UNCHANGED step, Permuted,
         pc \notin {"found", "resolve"}, Steady' => E!Propagated',
         ~AtRoot' => /\ ~AtRoot /\ Longer /\ firstHyp' = firstHyp /\ SeenOn
                     /\ firstUnprocessed' = firstUnprocessed \/ firstUnprocessed' = Len(truStack')
                     /\ \/ Steady
                        \/ firstHyp <= firstUnprocessed
                        \/ firstUnprocessed' = firstUnprocessed /\ pc' \notin {"prop", "visit"}
  PROVE  PInv'
<1>1. UNCHANGED <<witness, resolvent>>  BY DEF step
<1>2. TypedContext /\ TypedTrail /\ resolvent \in names  BY ResolvePlaces
<1>3. TypedTrail'  BY SameContextNext DEF LInv, E!IInv, E!Typed
<1>4. AllDenied'
  <2> SUFFICES ASSUME ~AtRoot', NEW l \in Reduced(witness', clauses'[resolvent'])
               PROVE  IsFalse(l)'
    BY DEF AllDenied
  <2>1. resolvent \in Ids  BY <1>2 DEF TypedContext
  <2>2. Range(clauses'[resolvent]) = Range(clauses[resolvent])  BY <2>1 DEF Permuted
  <2>3. l \in Reduced(witness, clauses[resolvent])  BY <1>1, <2>2 DEF Reduced
  <2>4. IsFalse(l)  BY <2>3 DEF PInv, AllDenied
  <2>5. truStack' \in Seq(Lits)  BY <1>3 DEF TypedTrail
  <2> QED  BY <1>2, <2>4, <2>5, StillFalse
<1> QED  BY <1>4, ResolveQ

ResolveRun == LInv /\ LInv' /\ PInv /\ task = "resolve" /\ UNCHANGED step

LEMMA SteadyS ==
  ASSUME ResolveRun, Steady
  PROVE  E!SInv /\ E!IInv'
  BY DEF ResolveRun, LInv, PInv, Prepared, E!SInv

LEMMA StartHintP == ASSUME ResolveRun, StartHint PROVE PInv'
<1>1. LInv /\ LInv' /\ PInv /\ task = "resolve" /\ UNCHANGED step  BY DEF ResolveRun
<1>2. /\ pc = "hint" /\ UNCHANGED <<context, va, unprocessed, cur, root, conflict, hints, queue, progress>>
      /\ UNCHANGED <<stage, goal>> /\ rest' = goal /\ pc' = "assume"
  BY <1>1, ResolvePlaces DEF StartHint
<1>3. stage = "hint" /\ rest = <<>>  BY <1>1, <1>2 DEF LInv, Tasks
<1>4. UNCHANGED <<names, clauses, truStack, reasons, firstHyp, firstUnprocessed, unitsProcessed>>
  BY <1>2 DEF context, va
<1>5. Permuted  BY <1>4 DEF Permuted
<1>6. UNCHANGED <<EPc, EStage, EGoal, ERest>>
  BY <1>1, <1>2, <1>3, <1>5, ResolvePlaces, ResolveNext DEF AtRoot
<1>7. Longer /\ SeenOn  BY <1>1, <1>4, ResolvePlaces, SameLonger, SeenSame
<1>8. ~AtRoot /\ ~AtRoot'  BY <1>2, <1>3 DEF AtRoot
<1>9. Steady' => E!Propagated'
  <2>1. Steady' <=> Steady  BY <1>1, <1>8 DEF Steady, step
  <2>2. Steady => E!SInv  BY SteadyS
  <2> QED  BY <1>2, <1>6, <2>1, <2>2, LeftP
<1> QED  BY <1>1, <1>2, <1>4, <1>5, <1>7, <1>8, <1>9, ResolveP

LEMMA UseHintP == ASSUME ResolveRun, UseHint PROVE PInv'
<1>1. LInv /\ LInv' /\ PInv /\ task = "resolve" /\ UNCHANGED step  BY DEF ResolveRun
<1>2. /\ pc = "hints" /\ UNCHANGED <<stage, goal, rest>> /\ pc' \in {"hints", "found"}
  BY DEF UseHint
<1>3. stage = "hint" /\ rest = <<>>  BY <1>1, <1>2 DEF LInv, Tasks
<1>4. Permuted /\ Longer /\ UNCHANGED <<firstHyp, firstUnprocessed, unitsProcessed>> /\ SeenOn
  BY <1>1, EFacts, UseHintLeaves, UseHintSeen DEF LInv
<1>5. EPc = pc /\ EPc' = pc' /\ UNCHANGED <<EStage, EGoal, ERest>>
  BY <1>1, <1>2, <1>3, <1>4, ResolvePlaces, ResolveNext DEF AtRoot
<1>6. ~AtRoot /\ ~AtRoot'  BY <1>2, <1>3 DEF AtRoot
<1>7. Steady' => E!Propagated'
  <2>1. Steady' <=> Steady  BY <1>1, <1>6 DEF Steady, step
  <2>2. Steady => E!SInv /\ E!IInv'  BY SteadyS
  <2>3. E!UseHint  BY <1>5, SameMoves
  <2> QED  BY <2>1, <2>2, <2>3, Constants, E!UseHintS
<1> QED  BY <1>1, <1>2, <1>4, <1>6, <1>7, ResolveP

LEMMA AssumeP == ASSUME ResolveRun, Assume PROVE PInv'
<1>1. LInv /\ LInv' /\ PInv /\ task = "resolve" /\ UNCHANGED step  BY DEF ResolveRun
<1>2. stage = "hint" /\ rest = <<>> /\ pc = "assume"  BY <1>1 DEF Assume, LInv, Tasks
<1>3. /\ pc' = "hints"
      /\ UNCHANGED <<context, va, stage, goal, rest, conflict, root, unprocessed, cur, hints, queue, progress>>
  BY <1>2 DEF Assume, Hinted, va
<1>4. UNCHANGED <<names, clauses, marked, watch, truStack, reasons, firstHyp, firstUnprocessed, unitsProcessed>>
  BY <1>3 DEF context, va
<1>5. Permuted  BY <1>4 DEF Permuted
<1>6. EPc = "assume" /\ EPc' = "hints" /\ EStage = "hint" /\ ERest = <<>>
      /\ UNCHANGED <<EStage, EGoal, ERest>>
  BY <1>1, <1>2, <1>3, <1>5, ResolvePlaces, ResolveNext DEF AtRoot
<1>7. Longer /\ SeenOn  BY <1>1, <1>4, ResolvePlaces, SameLonger, SeenSame
<1>8. ~AtRoot /\ ~AtRoot'  BY <1>2, <1>3 DEF AtRoot
<1>9. Steady' => E!Propagated'
  <2>1. Steady' <=> Steady  BY <1>1, <1>8 DEF Steady, step
  <2>2. Steady => E!SInv /\ E!IInv'  BY SteadyS
  <2>3. E!Assume  BY <1>3, <1>4, <1>6 DEF E!Assume, E!Hinted, E!context
  <2> QED  BY <2>1, <2>2, <2>3, Constants, E!AssumeS
<1> QED  BY <1>1, <1>2, <1>3, <1>4, <1>5, <1>7, <1>8, <1>9, ResolveP

LEMMA RoundP ==
  ASSUME LInv, LInv', PInv, RoundEnds, task = "resolve"
  PROVE  PInv'
<1>1. /\ pc = "hints" /\ hints = <<>>
      /\ UNCHANGED <<context, va, stage, goal, rest, unprocessed, cur, root, conflict>>
      /\ \/ progress /\ hints' = queue /\ queue' = <<>> /\ progress' = FALSE /\ pc' = pc
         \/ ~progress /\ pc' = "propagate" /\ UNCHANGED <<hints, queue, progress>>
      /\ UNCHANGED step
  BY DEF RoundEnds, step
<1>2. stage = "hint" /\ rest = <<>>  BY <1>1 DEF LInv, Tasks
<1>4. UNCHANGED <<names, clauses, truStack, reasons, firstHyp, firstUnprocessed, unitsProcessed>>
  BY <1>1 DEF context, va
<1>5. Permuted  BY <1>4 DEF Permuted
<1>6. pc' \in {"hints", "propagate"}  BY <1>1
<1>7. EPc = pc /\ EPc' = pc' /\ UNCHANGED <<EStage, EGoal, ERest>>
  BY <1>1, <1>2, <1>5, <1>6, ResolvePlaces, ResolveNext DEF AtRoot
<1>8. Longer /\ SeenOn  BY <1>4, ResolvePlaces, SameLonger, SeenSame
<1>9. ~AtRoot /\ ~AtRoot'  BY <1>1, <1>2 DEF AtRoot
<1>10. Steady' => E!Propagated'
  <2>1. Steady' <=> Steady  BY <1>1, <1>9 DEF Steady, step
  <2>2. Steady => E!SInv /\ E!IInv'  BY <1>1, SteadyS DEF ResolveRun
  <2>3. E!HintRound  BY <1>1, <1>7, RoundTurn
  <2> QED  BY <2>1, <2>2, <2>3, Constants, E!HintRoundS
<1> QED  BY <1>1, <1>4, <1>5, <1>6, <1>8, <1>9, <1>10, ResolveP

LEMMA NextPropLitP == ASSUME ResolveRun, NextPropLit PROVE PInv'
<1>1. LInv /\ LInv' /\ PInv /\ task = "resolve" /\ UNCHANGED step  BY DEF ResolveRun
<1>2. /\ pc = "prop" /\ pc' = "visit" /\ UNCHANGED <<context, va, stage, goal, rest, root>>
  BY DEF NextPropLit
<1>3. stage = "root" /\ rest = <<>>  BY <1>1, <1>2 DEF LInv, Tasks
<1>4. UNCHANGED <<names, clauses, truStack, reasons, firstHyp, firstUnprocessed, unitsProcessed>>
  BY <1>2 DEF context, va
<1>5. Permuted  BY <1>4 DEF Permuted
<1>6. AtRoot' <=> AtRoot  BY <1>1, <1>2 DEF AtRoot, step
<1>7. EPc = "prop" /\ EPc' = "visit" /\ UNCHANGED <<EStage, EGoal, ERest>>
  BY <1>1, <1>2, <1>3, <1>5, <1>6, ResolvePlaces, ResolveNext
<1>8. Longer /\ SeenOn  BY <1>1, <1>4, ResolvePlaces, SameLonger, SeenSame
<1>9. Steady \/ firstHyp <= firstUnprocessed  BY <1>1, <1>2 DEF PInv, Prepared
<1>10. Steady' => E!Propagated'
  <2>1. Steady' <=> Steady  BY <1>1, <1>6 DEF Steady, step
  <2>2. Steady => E!SInv /\ E!IInv'  BY SteadyS
  <2>3. E!NextPropLit  BY <1>2, <1>7, SameMoves
  <2> QED  BY <2>1, <2>2, <2>3, Constants, E!NextPropLitS
<1> QED  BY <1>1, <1>2, <1>4, <1>5, <1>6, <1>8, <1>9, <1>10, ResolveP

LEMMA VisitP == ASSUME ResolveRun, Visit PROVE PInv'
<1>1. LInv /\ LInv' /\ PInv /\ task = "resolve" /\ UNCHANGED step  BY DEF ResolveRun
<1>2. /\ pc = "visit" /\ pc' \in {"prop", "visit", "found"} /\ UNCHANGED <<stage, goal, rest, root>>
  BY DEF Visit, Replace, Imply
<1>3. stage = "root" /\ rest = <<>>  BY <1>1, <1>2 DEF LInv, Tasks
<1>4. E!IInv  BY <1>1 DEF LInv
<1>5. /\ Permuted /\ Longer /\ unitsProcessed' = unitsProcessed
      /\ UNCHANGED <<firstHyp, firstUnprocessed>>
         \/ (firstUnprocessed' = Len(truStack') /\ (~root => firstHyp' = firstHyp))
      /\ SeenOn
  BY <1>4, EFacts, VisitLeaves, VisitSeen
<1>6. AtRoot' <=> AtRoot  BY <1>1, <1>2 DEF AtRoot, step
<1>7. EPc = pc /\ EPc' = pc' /\ UNCHANGED <<EStage, EGoal, ERest>>
  BY <1>1, <1>2, <1>3, <1>5, <1>6, ResolvePlaces, ResolveNext
<1>8. ~AtRoot => ~root  BY <1>1, <1>3 DEF AtRoot
<1>9. Steady \/ firstHyp <= firstUnprocessed  BY <1>1, <1>2 DEF PInv, Prepared
<1>10. Steady' => E!Propagated'
  <2>1. Steady' <=> Steady  BY <1>1, <1>6 DEF Steady, step
  <2>2. Steady => E!SInv /\ E!IInv'  BY SteadyS
  <2>3. E!Visit  BY <1>7, SameMoves
  <2> QED  BY <2>1, <2>2, <2>3, Constants, E!VisitS
<1> QED  BY <1>1, <1>2, <1>5, <1>6, <1>8, <1>9, <1>10, ResolveP

LEMMA PropDoneP == ASSUME ResolveRun, PropDone PROVE PInv'
<1>1. LInv /\ LInv' /\ PInv /\ task = "resolve" /\ UNCHANGED step  BY DEF ResolveRun
<1>2. pc = "prop"  BY DEF PropDone
<1>3. stage = "root" /\ rest = <<>> /\ goal = <<>> /\ ~Unsat /\ EPc = "prop"
  BY <1>1, <1>2, ResolvePlaces DEF LInv, Tasks
<1>4. /\ \A m \in BOOLEAN : unprocessed[m] = Len(truStack)
      /\ firstUnprocessed' = Len(truStack)
      /\ firstHyp' = IF root THEN Len(truStack) ELSE firstHyp
      /\ pc' = "stuck"
      /\ UNCHANGED <<stage, rest, goal, unprocessed, cur, root, conflict, hints, queue, progress>>
      /\ UNCHANGED <<context, truStack, reasons, unitsProcessed>>
  BY <1>3 DEF PropDone
<1>5. UNCHANGED <<names, clauses, marked, watch>>  BY <1>4 DEF context
<1>6. Permuted  BY <1>5 DEF Permuted
<1>7. AtRoot' <=> AtRoot  BY <1>1, <1>4 DEF AtRoot, step
<1>8. EPc' = "stuck" /\ UNCHANGED <<EStage, EGoal, ERest>>
  BY <1>1, <1>3, <1>4, <1>6, <1>7, ResolvePlaces, ResolveNext
<1>9. ~(EStage = "root" /\ EGoal # <<>>)
  BY <1>1, <1>3, ResolvePlaces DEF AtRoot
<1>10. Steady' => E!Propagated'
  <2>1. Steady' <=> Steady  BY <1>1, <1>7 DEF Steady, step
  <2>2. Steady => E!SInv /\ E!IInv'  BY SteadyS
  <2>3. ~E!Unsat  BY <1>3, SameTruth
  <2>4. E!PropDone  BY <1>3, <1>4, <1>5, <1>8, <1>9, <2>3 DEF E!PropDone, E!context
  <2> QED  BY <2>1, <2>2, <2>4, Constants, E!PropDoneS
<1>11. Longer /\ SeenOn  BY <1>1, <1>4, <1>5, ResolvePlaces, SameLonger, SeenSame
<1>12. ~AtRoot => firstHyp' = firstHyp
  BY <1>1, <1>3, <1>4 DEF AtRoot
<1>13. Steady \/ firstHyp <= firstUnprocessed  BY <1>1, <1>2 DEF PInv, Prepared
<1> QED  BY <1>1, <1>2, <1>4, <1>6, <1>7, <1>10, <1>11, <1>12, <1>13, ResolveP

-----------------------------------------------------------------------------
(* propagate() is called for a resolvent.                                  *)

(* propagate() turns to the watch lists.                                     *)
LEMMA WatchedOn ==
  ASSUME NEW x \in 0..Len(truStack'), NEW y \in 0..Len(truStack'), Len(truStack') \in Nat,
         SeenThen(x, y), \A m \in BOOLEAN : E!Reach(m)' \in 0..x, E!Ground' \in 0..Len(truStack'),
         y <= E!Ground' \/ SeenThen(E!Ground', E!Ground')
  PROVE  E!Watched'
<1>1. WatchedIs'  BY WatchedSays, PTL
<1>2. \A r, d : SeenThen(r, d) <=>
        \A i \in names', a \in Lits, b \in Lits : Watches2(clauses'[i], a, b) =>
          \A n \in 1..r : truStack'[n] = -a => \E p \in 1..d : truStack'[p] = b
  BY DEF SeenThen
<1> QED  BY <1>1, <1>2 DEF WatchedIs, SeenBy, Watches2

LEMMA UnitsOn ==
  ASSUME UnitsTold' PROVE E!UnitsIn'
  BY DEF E!UnitsIn, UnitsTold, E!UnitClauses, UnitClauses, E!UnitLit, UnitLit

(* It was told of the units and of the trail up to x, and drops what was       *)
(* assumed.                                                                *)
LEMMA TurnRootP ==
  ASSUME UNCHANGED <<names, clauses, firstHyp>>, Len(truStack') = firstHyp, firstHyp \in Nat,
         firstHyp <= Len(truStack), Len(truStack) \in Nat,
         \A k \in 1..firstHyp : truStack'[k] = truStack[k],
         EPc' = "prop", EStage' = "root", root' = TRUE, unitsProcessed',
         UnitsTold, Told <= firstHyp, Told \in Nat, SeenBy(Told, firstHyp),
         \A m \in BOOLEAN : unprocessed'[m] = Told
  PROVE  E!Propagated'
<1>1. SeenThen(Told, firstHyp)
  <2>1. \A k \in 1..Told : truStack'[k] = truStack[k]
    <3>1. \A k \in 1..Told : k \in 1..firstHyp  OBVIOUS
    <3> QED  BY <3>1
  <2> QED  BY <2>1 DEF SeenBy, SeenThen
<1>2. \A m \in BOOLEAN : E!Reach(m)' \in 0..Told
  <2>1. \A m \in BOOLEAN : E!Reach(m)' = Told  BY DEF E!Reach
  <2> QED  BY <2>1
<1>3. E!Ground' = firstHyp  BY DEF E!Ground
<1>4. Told \in 0..Len(truStack') /\ firstHyp \in 0..Len(truStack')  OBVIOUS
<1>5. E!Watched'
  <2> DEFINE x == Told
  <2>1. x \in 0..Len(truStack') /\ SeenThen(x, firstHyp) /\ \A m \in BOOLEAN : E!Reach(m)' \in 0..x
    BY <1>1, <1>2, <1>4
  <2> HIDE DEF x
  <2>2. firstHyp <= E!Ground' /\ E!Ground' \in 0..Len(truStack')  BY <1>3, <1>4
  <2> QED  BY <1>4, <2>1, <2>2, WatchedOn
<1>6. UnitsTold'  BY DEF UnitsTold, UnitClauses, UnitLit
<1>7. E!UnitsIn'  BY <1>6, UnitsOn
<1>8. E!Marks'  BY DEF E!Marks, E!Propagating
<1>9. E!Assumed'  BY DEF E!Assumed
<1> QED  BY <1>5, <1>7, <1>8, <1>9 DEF E!Propagated

(* What the engine was told of, before the first resolvent and after it.      *)
LEMMA ToldAt ==
  ASSUME LInv, PInv, ~AtRoot, EPc \notin {"prop", "visit"}, ~UnsatAt(firstHyp)
  PROVE  /\ SeenBy(Told, firstHyp) /\ (unitsProcessed => UnitsTold)
         /\ Told \in 0..Len(truStack) /\ Told <= firstHyp /\ Told <= firstUnprocessed
         /\ Told \in Nat
<1>1. E!IInv  BY DEF LInv
<1>2. /\ Len(truStack) \in Nat /\ firstHyp \in 0..Len(truStack)
      /\ firstUnprocessed \in 0..Len(truStack)
  BY <1>1, EFacts
<1>3. CASE Steady
  <2>1. E!Propagated  BY <1>3 DEF PInv, Prepared
  <2> QED  BY <1>1, <1>2, <2>1, ToldNow
<1>4. CASE ~Steady
  <2>1. UnitsTold /\ SeenBy(Told, firstHyp)  BY <1>4 DEF PInv, Prepared
  <2> QED  BY <1>2, <2>1 DEF Told
<1> QED  BY <1>3, <1>4

LEMMA ToldAnyhow ==
  ASSUME LInv, PInv, task = "resolve", ~AtRoot, pc \notin {"prop", "visit"}, ~UnsatAt(firstHyp)
  PROVE  /\ SeenBy(Told, firstHyp) /\ UnitsTold
         /\ Told \in 0..Len(truStack) /\ Told <= firstHyp /\ Told <= firstUnprocessed
         /\ Told \in Nat
<1>1. unitsProcessed /\ EPc \notin {"prop", "visit"}  BY ResolvePlaces
<1> QED  BY <1>1, ToldAt

LEMMA DroppedP ==
  ASSUME ResolveRun, Propagate, ~Unsat, firstUnprocessed < firstHyp
  PROVE  PInv'
<1>1. LInv /\ LInv' /\ PInv /\ task = "resolve" /\ UNCHANGED step  BY DEF ResolveRun
<1>2. pc = "propagate" /\ UNCHANGED context  BY DEF Propagate
<1>3. stage = "hint" /\ rest = <<>> /\ goal = <<>> /\ ~AtRoot
  BY <1>1, <1>2 DEF LInv, Tasks, AtRoot
<1>4. E!IInv /\ unitsProcessed /\ TypedTrail  BY <1>1, ResolvePlaces
<1>5. /\ Len(truStack) \in Nat /\ firstHyp \in 0..Len(truStack) /\ firstHyp \in Nat
      /\ firstUnprocessed \in 0..Len(truStack) /\ ConflictLast
  BY <1>4, EFacts
<1>6. UNCHANGED <<names, clauses>>  BY <1>2 DEF context
<1>7. Permuted  BY <1>6 DEF Permuted
<1>8. ~UnsatAt(firstHyp)
  <2>1. E!TypedTrail /\ E!ConflictLast /\ ~E!Unsat  BY <1>4, <1>5, SameContext, SameTruth
  <2>2. ~E!UnsatAt(firstHyp)  BY <1>5, <2>1, E!NoConflictAt, Constants
  <2> QED  BY <2>2, SameTruth
<1>9. ~(firstUnprocessed >= firstHyp)  BY <1>5
<1>10. /\ IF firstHyp < Len(truStack) THEN ClearTo(firstHyp)
          ELSE UNCHANGED <<truStack, reasons, firstUnprocessed>>
       /\ UNCHANGED <<firstHyp, unitsProcessed>>
       /\ stage' = "root" /\ root' = TRUE /\ pc' = "prop"
       /\ unprocessed' = [m \in BOOLEAN |-> firstUnprocessed']
       /\ UNCHANGED <<goal, rest, cur, conflict, hints, queue, progress>>
  BY <1>4, <1>8, <1>9 DEF Propagate
<1>11. AtRoot'  BY <1>1, <1>10 DEF AtRoot, step
<1>12. EPc' = "prop" /\ EStage' = "root"
  BY <1>1, <1>7, <1>10, <1>11, ResolveNext
<1>13. /\ Len(truStack') = firstHyp /\ \A k \in 1..firstHyp : truStack'[k] = truStack[k]
       /\ firstUnprocessed' = firstUnprocessed
  <2>1. CASE firstHyp < Len(truStack)
    <3>1. CutTo(firstHyp) /\ firstUnprocessed' = IF firstHyp < firstUnprocessed THEN firstHyp
                                                 ELSE firstUnprocessed
      BY <1>4, <1>5, <1>10, <2>1, ClearCuts
    <3>2. ~(firstHyp < firstUnprocessed)  BY <1>5
    <3> QED  BY <1>4, <1>5, <3>1, <3>2, Cut
  <2>2. CASE ~(firstHyp < Len(truStack))  BY <1>5, <1>10, <2>2
  <2> QED  BY <2>1, <2>2
<1>14. SeenBy(Told, firstHyp) /\ UnitsTold /\ Told <= firstHyp /\ Told \in Nat
  BY <1>1, <1>2, <1>3, <1>8, ToldAnyhow
<1>15. Told = firstUnprocessed  BY <1>5, <1>9 DEF Told
<1>16. \A m \in BOOLEAN : unprocessed'[m] = Told  BY <1>10, <1>13, <1>15
<1>17. E!Propagated'
  <2>1. firstHyp <= Len(truStack) /\ unitsProcessed' /\ UNCHANGED <<names, clauses, firstHyp>> /\ root' = TRUE
    BY <1>4, <1>5, <1>6, <1>10
  <2> QED  BY <1>5, <1>12, <1>13, <1>14, <1>16, <2>1, TurnRootP
<1> QED  BY <1>1, <1>2, <1>7, <1>11, <1>17, ResolveP

(* All that the lemma and the resolvent come to is assumed false.             *)
LEMMA BothDenied ==
  ASSUME LInv, PInv, task = "resolve", ~AtRoot, pc \notin {"found", "resolve"},
         NEW l \in Both
  PROVE  IsFalse(l)
<1>1. TypedTrail /\ RatTyped /\ Sharing  BY ResolvePlaces DEF LInv, Holding
<1>2. CASE l \in Range(lemma)
  <2>1. -l \in Shared  BY <1>1, <1>2 DEF Sharing, Negated
  <2>2. PICK n \in 1..depth : truStack[n] = -l  BY <2>1 DEF Shared
  <2>3. truStack \in Seq(Lits) /\ n \in 1..Len(truStack)  BY <1>1 DEF Sharing, RatTyped, TypedTrail
  <2> QED  BY <2>2, <2>3, InRange DEF IsFalse, IsTrue
<1>3. CASE l \in Reduced(witness, clauses[resolvent])
  BY <1>3 DEF PInv, AllDenied
<1> QED  BY <1>2, <1>3 DEF Both

LEMMA KeptOnP ==
  ASSUME ResolveRun, Propagate, ~Unsat, firstHyp <= firstUnprocessed
  PROVE  PInv'
<1>1. LInv /\ LInv' /\ PInv /\ task = "resolve" /\ UNCHANGED step  BY DEF ResolveRun
<1>2. pc = "propagate" /\ UNCHANGED context  BY DEF Propagate
<1>3. stage = "hint" /\ rest = <<>> /\ goal = <<>> /\ ~AtRoot
  BY <1>1, <1>2 DEF LInv, Tasks, AtRoot
<1>4. E!IInv /\ unitsProcessed /\ TypedTrail /\ EPc = "propagate" /\ EGoal = Arranged(Both)
      /\ Arranged(Both) \in Seq(Literals) /\ Range(Arranged(Both)) = Both
  BY <1>1, <1>2, <1>3, ResolvePlaces
<1>5. /\ Len(truStack) \in Nat /\ firstHyp \in 0..Len(truStack) /\ firstHyp \in Nat
      /\ firstUnprocessed \in 0..Len(truStack) /\ firstUnprocessed \in Nat /\ ConflictLast
  BY <1>4, EFacts
<1>6. UNCHANGED <<names, clauses>>  BY <1>2 DEF context
<1>7. Permuted  BY <1>6 DEF Permuted
<1>8. ~UnsatAt(firstHyp)
  <2>1. E!TypedTrail /\ E!ConflictLast /\ ~E!Unsat  BY <1>4, <1>5, SameContext, SameTruth
  <2>2. ~E!UnsatAt(firstHyp)  BY <1>5, <2>1, E!NoConflictAt, Constants
  <2> QED  BY <2>2, SameTruth
<1>9. ~(firstUnprocessed < firstHyp)  BY <1>5
<1>10. /\ stage' = "root" /\ pc' = "prop"
       /\ root' = (firstHyp >= Len(truStack))
       /\ unprocessed' = [m \in BOOLEAN |-> firstUnprocessed]
       /\ UNCHANGED <<va, goal, rest, cur, conflict, hints, queue, progress>>
  BY <1>4, <1>9 DEF Propagate
<1>11. UNCHANGED <<truStack, reasons, firstHyp, firstUnprocessed, unitsProcessed>>
  BY <1>10 DEF va
<1>12. /\ EPc' = "prop" /\ EStage' = (IF root' THEN "root" ELSE "goal")
       /\ EGoal' = (IF AtRoot' THEN <<>> ELSE Arranged(Both)) /\ ERest' = <<>>
       /\ (AtRoot' <=> root')
  <2>1. AtRoot' <=> root'  BY <1>1, <1>10 DEF AtRoot, step
  <2>2. root' \in BOOLEAN  BY <1>10
  <2>3. /\ EPc' = pc' /\ EStage' = (IF stage' = "root" /\ ~root' THEN "goal" ELSE stage')
        /\ EGoal' = (IF AtRoot' THEN <<>> ELSE Arranged(Both)) /\ ERest' = rest'
    BY <1>1, <1>7, <1>10, ResolveNext
  <2> QED  BY <1>3, <1>10, <2>1, <2>2, <2>3
<1>13. \A m \in BOOLEAN : unprocessed'[m] = firstUnprocessed  BY <1>10
<1>14. Longer /\ SeenOn  BY <1>4, <1>6, <1>11, SameLonger, SeenSame
<1>15. CASE root'
  <2>1. firstHyp = Len(truStack) /\ firstUnprocessed = Len(truStack)
    <3>1. firstHyp >= Len(truStack)  BY <1>10, <1>15, Zenon
    <3> QED  BY <1>5, <3>1
  <2>2. SeenBy(Told, firstHyp) /\ UnitsTold /\ Told <= firstHyp /\ Told \in Nat
    BY <1>1, <1>2, <1>3, <1>8, ToldAnyhow
  <2>3. Told = firstUnprocessed  BY <2>1 DEF Told
  <2>4. \A m \in BOOLEAN : unprocessed'[m] = Told  BY <1>13, <2>3
  <2>5. root' = TRUE  BY <1>10, <1>15
  <2>6. EStage' = "root" /\ AtRoot'  BY <1>12, <1>15
  <2>7. Len(truStack') = firstHyp /\ (\A k \in 1..firstHyp : truStack'[k] = truStack[k])
        /\ firstHyp <= Len(truStack)
    BY <1>5, <1>11, <2>1
  <2>8. E!Propagated'
    <3>1. UNCHANGED <<names, clauses, firstHyp>> /\ unitsProcessed'  BY <1>4, <1>6, <1>11
    <3> QED  BY <1>5, <1>12, <2>2, <2>4, <2>5, <2>6, <2>7, <3>1, TurnRootP
  <2> QED  BY <1>1, <1>2, <1>7, <2>6, <2>8, ResolveP
<1>16. CASE ~root'
  <2>1. ~AtRoot' /\ EStage' = "goal" /\ EGoal' = Arranged(Both)  BY <1>12, <1>16
  <2>2. ASSUME Steady PROVE E!Propagated'
    <3>1. E!SInv /\ E!IInv'  BY <2>2, SteadyS
    <3>2. E!Ground = firstHyp /\ E!Ground' = firstHyp  BY <1>4, <1>11, <1>12, <1>16 DEF E!Ground
    <3>3. \A m \in BOOLEAN : E!Reach(m)' \in Nat /\ E!Reach(m)' <= E!Reach(m)
      <4>1. \A m \in BOOLEAN : E!Reach(m)' = firstUnprocessed /\ E!Reach(m) = firstUnprocessed
        BY <1>4, <1>12, <1>13 DEF E!Reach
      <4> QED  BY <1>5, <4>1
    <3>4. UNCHANGED E!context /\ UNCHANGED E!va  BY <1>2, <1>10 DEF context, va, E!context, E!va
    <3>5. E!Watched' /\ E!UnitsIn'
      <4>1. EPc # "visit" /\ E!Ground' = E!Ground  BY <1>4, <3>2
      <4> QED  BY <3>1, <3>3, <3>4, <4>1, Constants, E!Elsewhere
    <3>6. E!Marks'
      <4>1. \A m \in BOOLEAN : unprocessed'[m] <= Len(truStack') /\ firstHyp' <= unprocessed'[m]
        BY <1>5, <1>11, <1>13
      <4> QED  BY <1>4, <1>11, <1>12, <4>1 DEF E!Marks, E!Propagating
    <3>7. E!Assumed'
      <4>1. \A l \in E!Range(EGoal)' : E!IsFalse(l)'
        <5>1. E!Range(EGoal)' = Both  BY <1>4, <2>1 DEF E!Range, Range
        <5>2. \A l \in Both : IsFalse(l)  BY <1>1, <1>2, <1>3, BothDenied
        <5>3. \A l \in Both : IsFalse(l)'  BY <1>11, <5>2 DEF IsFalse, IsTrue
        <5> QED  BY <5>1, <5>3 DEF E!IsFalse, E!IsTrue, E!Range, IsFalse, IsTrue, Range
      <4>2. Len(ERest') <= Len(EGoal') /\ ERest' = <<>>
        <5>1. Len(<<>>) = 0 /\ Len(Arranged(Both)) \in Nat  BY <1>4
        <5> QED  BY <1>12, <2>1, <5>1
      <4> QED  BY <4>1, <4>2 DEF E!Assumed
    <3> QED  BY <3>5, <3>6, <3>7 DEF E!Propagated
  <2>3. Steady' => E!Propagated'
    <3>1. Steady' <=> Steady  BY <1>1, <1>3, <2>1 DEF Steady, step
    <3> QED  BY <2>2, <3>1
  <2> QED  BY <1>1, <1>2, <1>3, <1>7, <1>11, <1>14, <2>1, <2>3, ResolveP
<1> QED  BY <1>15, <1>16

LEMMA PropagateP == ASSUME ResolveRun, Propagate PROVE PInv'
<1>1. LInv /\ LInv' /\ PInv /\ task = "resolve" /\ UNCHANGED step  BY DEF ResolveRun
<1>2. pc = "propagate" /\ UNCHANGED context  BY DEF Propagate
<1>3. stage = "hint" /\ rest = <<>> /\ goal = <<>> /\ ~AtRoot
  BY <1>1, <1>2 DEF LInv, Tasks, AtRoot
<1>4. E!IInv /\ TypedTrail /\ EPc = "propagate" /\ unitsProcessed  BY <1>1, <1>2, ResolvePlaces
<1>5. firstHyp \in 0..Len(truStack) /\ Len(truStack) \in Nat /\ firstUnprocessed \in 0..Len(truStack)
  BY <1>4, EFacts
<1>6. CASE Unsat
  <2>1. /\ pc' = "found" /\ conflict' = truStack[Len(truStack)]
        /\ UNCHANGED <<stage, goal, rest, unprocessed, cur, root, hints, queue, progress>>
        /\ UNCHANGED va
    BY <1>6 DEF Propagate, Found
  <2>2. UNCHANGED <<truStack, reasons, firstHyp, firstUnprocessed, unitsProcessed>>  BY <2>1 DEF va
  <2>3. UNCHANGED <<names, clauses>>  BY <1>2 DEF context
  <2>4. Permuted /\ Longer /\ SeenOn  BY <1>4, <2>2, <2>3, SameLonger, SeenSame DEF Permuted
  <2>5. ~AtRoot'  BY <1>3, <2>1 DEF AtRoot
  <2>6. Steady' => E!Propagated'
    <3>1. Steady' <=> Steady  BY <1>1, <1>3, <2>5 DEF Steady, step
    <3>2. Steady => E!SInv /\ E!IInv'  BY SteadyS
    <3>3. EPc' = "found" /\ UNCHANGED <<EStage, EGoal, ERest>>
      BY <1>1, <1>2, <1>3, <2>1, <2>4, <2>5, ResolvePlaces, ResolveNext
    <3>4. E!Unsat  BY <1>6, SameTruth
    <3>5. E!Propagate
      BY <1>2, <1>4, <2>1, <2>2, <3>3, <3>4 DEF E!Propagate, E!Found, E!va, E!context, context
    <3> QED  BY <3>1, <3>2, <3>5, Constants, E!PropagateS
  <2> QED  BY <1>1, <1>2, <1>3, <2>1, <2>2, <2>4, <2>5, <2>6, ResolveP
<1>7. CASE ~Unsat /\ firstUnprocessed < firstHyp  BY <1>7, DroppedP
<1>8. CASE ~Unsat /\ firstHyp <= firstUnprocessed  BY <1>8, KeptOnP
<1>9. firstUnprocessed < firstHyp \/ firstHyp <= firstUnprocessed  BY <1>5
<1> QED  BY <1>6, <1>7, <1>8, <1>9

LEMMA RunP == ASSUME LInv, LInv', PInv, Run PROVE PInv'
<1>1. CASE task \in {"rup", "rats"}  BY <1>1, RunEarly
<1>2. CASE task = "resolve"
  <2>1. ResolveRun  BY <1>2 DEF ResolveRun, Run
  <2>2. StartHint \/ UseHint \/ Propagate \/ ProcessUnits \/ Assume \/ NextPropLit \/ PropDone \/ Visit
    BY DEF Run
  <2>3. pc # "units"  BY <1>2, ResolvePlaces
  <2>4. ~ProcessUnits  BY <2>3 DEF ProcessUnits
  <2> QED  BY <2>1, <2>2, <2>4, StartHintP, UseHintP, PropagateP, AssumeP, NextPropLitP,
              PropDoneP, VisitP
<1> QED  BY <1>1, <1>2 DEF Run

LEMMA RoundEndsP == ASSUME LInv, LInv', PInv, RoundEnds PROVE PInv'
<1>1. task \in {"rup", "rats", "resolve"}
  <2>1. pc = "hints"  BY DEF RoundEnds
  <2> QED  BY <2>1 DEF LInv, RatTyped, Tasks
<1> QED  BY <1>1, RoundEarly, RoundP

-----------------------------------------------------------------------------
(* The resolvent is assumed false.                                         *)

LEMMA AssumeReductP == ASSUME LInv, LInv', PInv, AssumeReduct PROVE PInv'
<1>1. /\ pc = "resolve"
      /\ UNCHANGED <<context, firstHyp, firstUnprocessed, unitsProcessed, stage, goal,
                     unprocessed, cur, root, hints, queue, progress>>
      /\ UNCHANGED step
  BY DEF AssumeReduct
<1>2. /\ task = "resolve" /\ stage = "hint" /\ goal = <<>> /\ ~AtRoot /\ E!IInv
      /\ TypedContext /\ TypedTrail /\ unitsProcessed
      /\ EPc = "assume" /\ EStage = "hint" /\ ERest = rest
  BY <1>1, AtResolve
<1>3. UNCHANGED <<names, clauses, marked, watch>>  BY <1>1 DEF context
<1>4. Permuted  BY <1>3 DEF Permuted
<1>5. ~AtRoot' /\ (Steady' <=> Steady)  BY <1>1, <1>2 DEF AtRoot, step, Steady
<1>6. UNCHANGED <<task, lemma, witness, resolvent>>  BY <1>1 DEF step
<1>7. rest \in Seq(Literals)
  <2>1. E!TypedControl  BY <1>2, EFacts
  <2> QED  BY <1>2, <2>1, SameContext DEF E!TypedControl
<1>8. TypedTrail'  BY SameContextNext DEF LInv, E!IInv, E!Typed
<1>9. \A l \in Reduced(witness, clauses[resolvent]) : l \in Range(rest) \/ IsFalse(l)
  BY <1>1, <1>2 DEF PInv, AllDenied
<1>10. Reduced(witness', clauses'[resolvent']) = Reduced(witness, clauses[resolvent])
  BY <1>3, <1>6 DEF Reduced
<1>11. CASE /\ rest # <<>>
            /\ Assign(-Head(rest), None)
            /\ rest' = Tail(rest)
            /\ IF IsTrue(Head(rest)) THEN pc' = "found" /\ conflict' = Head(rest)
               ELSE UNCHANGED <<pc, conflict>>
  <2>1. /\ pc' \in {"found", "resolve"}
        /\ EPc' = IF pc' = "resolve" THEN "assume" ELSE "found"
        /\ EStage' = "hint" /\ EGoal' = EGoal /\ ERest' = rest'
    <3>1. pc' \in {"found", "resolve"}  BY <1>1, <1>11
    <3> QED  BY <1>1, <1>2, <1>4, <1>5, <3>1, ResolvePlaces, ResolveNext
  <2>2. E!Assume
    <3>1. E!Assign(-Head(rest), None)
      BY <1>11 DEF Assign, E!Assign, IsTrue, E!IsTrue, Range, E!Range
    <3>2. E!IsTrue(Head(rest)) <=> IsTrue(Head(rest))  BY SameTruth
    <3>3. IF E!IsTrue(Head(rest)) THEN EPc' = "found" /\ conflict' = Head(rest)
          ELSE UNCHANGED <<EPc, conflict>>
      BY <1>1, <1>2, <1>11, <2>1, <3>2
    <3> QED  BY <1>1, <1>2, <1>3, <1>11, <2>1, <3>1, <3>3 DEF E!Assume, E!context
  <2>3. Steady' => E!Propagated'
    <3>1. Steady => E!SInv /\ E!IInv'  BY DEF LInv, PInv, Prepared, E!SInv
    <3> QED  BY <1>5, <2>2, <3>1, Constants, E!AssumeS
  <2>4. Head(rest) \in Literals  BY <1>7, <1>11
  <2>5. Longer
    <3>1. -Head(rest) \in Lits  BY <2>4, Negation DEF Literals
    <3> QED  BY <1>2, <1>11, <3>1, LongerBy
  <2>6. AllDenied'
    <3> SUFFICES ASSUME pc' # "found", NEW l \in Reduced(witness', clauses'[resolvent'])
                 PROVE  (pc' = "resolve" /\ l \in Range(rest')) \/ IsFalse(l)'
      BY DEF AllDenied, Range
    <3>1. pc' = "resolve"  BY <2>1
    <3>2. l \in Range(rest) \/ IsFalse(l)  BY <1>9, <1>10
    <3>3. CASE IsFalse(l)
      <4>1. truStack' \in Seq(Lits)  BY <1>8 DEF TypedTrail
      <4> QED  BY <1>2, <2>5, <3>3, <4>1, StillFalse
    <3>4. CASE l = Head(rest)
      <4>1. -l \in Range(truStack')
        <5>1. -l \in Lits  BY <2>4, <3>4, Negation DEF Literals
        <5>2. CASE IsTrue(-l)  BY <1>11, <3>4, <5>2 DEF Assign, IsTrue
        <5>3. CASE ~IsTrue(-l)
          <6>1. truStack' = Append(truStack, -l) /\ truStack \in Seq(Lits)
            BY <1>2, <1>11, <3>4, <5>3 DEF Assign, TypedTrail
          <6> QED  BY <5>1, <6>1, RangeNext
        <5> QED  BY <5>2, <5>3
      <4> QED  BY <4>1 DEF IsFalse, IsTrue, Range
    <3>5. CASE l \in Range(rest) /\ l # Head(rest)
      <4>1. PICK k \in 1..Len(rest) : rest[k] = l  BY <1>7, <3>5, InRange
      <4>2. k # 1 /\ Len(rest) \in Nat  BY <1>7, <1>11, <3>5, <4>1
      <4>3. k - 1 \in 1..Len(Tail(rest)) /\ Tail(rest)[k - 1] = rest[k] /\ Tail(rest) \in Seq(Literals)
        BY <1>7, <1>11, <4>2
      <4>4. l \in Range(Tail(rest))  BY <4>1, <4>3, InRange
      <4> QED  BY <1>11, <3>1, <4>4
    <3> QED  BY <3>2, <3>3, <3>4, <3>5
  <2>7. SeenOn  BY <1>2, <1>3, <2>5, SeenSame
  <2> QED  BY <1>1, <1>2, <1>4, <1>5, <2>1, <2>3, <2>5, <2>6, <2>7, ResolveQ
<1>12. CASE /\ rest = <<>>
            /\ pc' = IF given THEN "hint" ELSE "propagate"
            /\ UNCHANGED <<truStack, reasons, rest, conflict>>
  <2>1. pc' \in {"hint", "propagate"}  BY <1>12
  <2>2. EPc' = (IF pc' = "hint" THEN "assume" ELSE "propagate") /\ EStage' = EStage
    BY <1>1, <1>2, <1>4, <1>5, <2>1, ResolvePlaces, ResolveNext
  <2>3. UNCHANGED <<context, va>>  BY <1>1, <1>12 DEF va
  <2>4. Steady' => E!Propagated'
    <3>1. Steady => E!SInv  BY DEF LInv, PInv, Prepared, E!SInv
    <3>2. EPc' \in {"assume", "propagate"} /\ EStage' # "goal" /\ EPc = "assume"  BY <1>2, <2>1, <2>2
    <3> QED  BY <1>2, <1>5, <2>3, <3>1, <3>2, Waits
  <2>5. AllDenied'
    <3>1. Range(rest) = {}  BY <1>12 DEF Range
    <3>2. \A l \in Reduced(witness', clauses'[resolvent']) : IsFalse(l)  BY <1>9, <1>10, <3>1
    <3>3. \A l \in Reduced(witness', clauses'[resolvent']) : IsFalse(l)'
      BY <1>12, <3>2 DEF IsFalse, IsTrue
    <3> QED  BY <3>3 DEF AllDenied, Reduced, Range
  <2>6. Longer /\ SeenOn  BY <1>2, <1>3, <1>12, SameLonger, SeenSame
  <2> QED  BY <1>1, <1>2, <1>4, <1>5, <2>1, <2>4, <2>5, <2>6, ResolveQ
<1> QED  BY <1>11, <1>12 DEF AssumeReduct

-----------------------------------------------------------------------------
(* Between resolvents.                                                      *)

LEMMA WaitP ==
  ASSUME LInv, LInv', PInv, pc = "resolvents", pc' \in {"resolvents", "write"},
         UNCHANGED <<context, va, stage, goal, rest, unprocessed, cur, root, conflict, hints,
                     queue, progress, task, lemma, witness, depth, closed, resolvent, written>>
  PROVE  PInv'
<1>1. task = "rat" /\ ~AtRoot /\ ~AtRoot'  BY DEF LInv, RatTyped, Tasks, AtRoot
<1>2. UNCHANGED <<names, clauses, truStack, reasons, firstHyp, firstUnprocessed>>
  BY DEF context, va
<1>3. UNCHANGED <<EPc, EStage, EGoal, ERest>>  BY <1>1 DEF EPc, EStage, EGoal, ERest
<1>4. Steady' <=> Steady  BY <1>1 DEF Steady
<1>5. Steady => E!Propagated'
  <2>1. Steady => E!SInv  BY DEF LInv, PInv, Prepared, E!SInv
  <2> QED  BY <1>3, <2>1, LeftP
<1>6. Told' = Told /\ \A r, d : SeenBy(r, d) => SeenThen(r, d)
  BY <1>2 DEF Told, SeenBy, SeenThen
<1>7. ~Steady => UnitsTold' /\ SeenThen(Told, firstHyp)
  BY <1>2, <1>6 DEF PInv, Prepared, UnitsTold, UnitClauses, UnitLit
<1>8. closed => SeenThen(depth, depth) /\ depth' <= firstUnprocessed'
  BY <1>1, <1>2, <1>6 DEF PInv, Prepared
<1>9. Prepared'
  <2>1. ~Steady => SeenBy(Told, firstHyp)'  BY <1>2, <1>6, <1>7 DEF SeenThen, SeenBy, Watches2
  <2>2. closed => SeenBy(depth, depth)'  BY <1>8 DEF SeenThen, SeenBy, Watches2
  <2> QED  BY <1>4, <1>5, <1>7, <1>8, <2>1, <2>2 DEF Prepared
<1>10. AllDenied'  BY <1>1 DEF AllDenied
<1>11. Unproved'
  <2>1. TypedContext  BY EFacts DEF LInv
  <2>2. TypedContext'  BY SameContextNext DEF LInv, E!IInv, E!Typed
  <2>3. Permuted  BY <1>2 DEF Permuted
  <2>4. Rup(lemma)' <=> Rup(lemma)  BY <2>1, <2>2, <2>3, EFacts, SameRup DEF LInv, RatTyped
  <2> QED  BY <1>1, <2>4 DEF PInv, Unproved
<1> QED  BY <1>9, <1>10, <1>11 DEF PInv

LEMMA TakeUpP ==
  ASSUME LInv, LInv', PInv, pc = "resolvents", NEW i \in names,
         resolvent' = i, task' = "resolve", pc' = "resolve",
         rest' = Reduct(witness, clauses[i]), stage' = "hint",
         UNCHANGED <<context, va, lemma, witness, depth, closed, written>>
  PROVE  PInv'
<1>1. task = "rat" /\ ~AtRoot /\ ~AtRoot'  BY DEF LInv, RatTyped, Tasks, AtRoot
<1>2. UNCHANGED <<names, clauses, truStack, reasons, firstHyp, firstUnprocessed>>
  BY DEF context, va
<1>3. EPc = "assume" /\ EPc' = "assume" /\ EStage' = "hint"
  BY <1>1 DEF EPc, EStage
<1>4. Steady' <=> Steady  BY <1>1 DEF Steady
<1>5. Steady => E!Propagated'
  <2>1. Steady => E!SInv  BY DEF LInv, PInv, Prepared, E!SInv
  <2>2. unitsProcessed  BY DEF LInv, Open
  <2> QED  BY <1>3, <2>1, <2>2, Waits
<1>6. Told' = Told /\ \A r, d : SeenBy(r, d) => SeenThen(r, d)
  BY <1>2 DEF Told, SeenBy, SeenThen
<1>7. ~Steady => UnitsTold' /\ SeenThen(Told, firstHyp)
  BY <1>2, <1>6 DEF PInv, Prepared, UnitsTold, UnitClauses, UnitLit
<1>8. closed => SeenThen(depth, depth) /\ depth' <= firstUnprocessed'
  BY <1>1, <1>2, <1>6 DEF PInv, Prepared
<1>9. Prepared'
  <2>1. ~Steady => SeenBy(Told, firstHyp)'  BY <1>2, <1>6, <1>7 DEF SeenThen, SeenBy, Watches2
  <2>2. closed => SeenBy(depth, depth)'  BY <1>8 DEF SeenThen, SeenBy, Watches2
  <2> QED  BY <1>4, <1>5, <1>7, <1>8, <2>1, <2>2 DEF Prepared
<1>t. TypedContext  BY EFacts DEF LInv
<1>10. AllDenied'
  <2> DEFINE c == clauses[i]
  <2>1. c \in Seq(Literals)  BY <1>t DEF TypedContext
  <2> HIDE DEF c
  <2>2. Range(Reduct(witness, c)) = Reduced(witness, c)  BY <2>1, ReductIs
  <2>3. Range(rest') = Reduced(witness', clauses'[resolvent'])  BY <1>2, <2>2 DEF c, Reduced
  <2> QED  BY <2>3 DEF AllDenied, Range, Reduced
<1>11. Unproved'
  <2>2. TypedContext'  BY SameContextNext DEF LInv, E!IInv, E!Typed
  <2>3. Permuted  BY <1>2 DEF Permuted
  <2>4. Rup(lemma)' <=> Rup(lemma)  BY <1>t, <2>2, <2>3, EFacts, SameRup DEF LInv, RatTyped
  <2> QED  BY <1>1, <2>4 DEF PInv, Unproved
<1> QED  BY <1>9, <1>10, <1>11 DEF PInv

LEMMA ResolveOneP ==
  ASSUME LInv, LInv', PInv, pc = "resolvents", NEW i, NEW h, NEW hinted,
         Resolve(i, h, hinted)
  PROVE  PInv' \/ pc' = "panic"
<1>1. ~Unsat
  <2>1. EPc = "assume"  BY DEF EPc
  <2> QED  BY <2>1, EFacts DEF LInv
<1>2. /\ UNCHANGED <<context, va, unprocessed, cur, root, lemma, witness, depth, closed, written>>
      /\ \/ /\ pc' = pc \/ pc' = "panic"
            /\ UNCHANGED <<goal, rest, hints, queue, progress, stage, conflict, task, resolvent>>
         \/ /\ i \in names /\ resolvent' = i /\ task' = "resolve" /\ pc' = "resolve"
            /\ rest' = Reduct(witness, clauses[i]) /\ stage' = "hint"
  BY <1>1 DEF Resolve
<1>3. CASE pc' = pc /\ UNCHANGED <<goal, rest, hints, queue, progress, stage, conflict, task,
                                   resolvent>>
  BY <1>2, <1>3, WaitP
<1>4. CASE /\ i \in names /\ resolvent' = i /\ task' = "resolve" /\ pc' = "resolve"
           /\ rest' = Reduct(witness, clauses[i]) /\ stage' = "hint"
  BY <1>2, <1>4, TakeUpP
<1> QED  BY <1>2, <1>3, <1>4

LEMMA NextResolventP == ASSUME LInv, LInv', PInv, NextResolvent PROVE PInv' \/ pc' = "panic"
<1>1. pc = "resolvents"  BY DEF NextResolvent
<1>2. CASE Resolve(Head(groups).clause, Head(groups).hints, TRUE)  BY <1>1, <1>2, ResolveOneP
<1>3. ASSUME NEW i \in unseen, Resolve(i, <<>>, FALSE) PROVE PInv' \/ pc' = "panic"
  BY <1>1, <1>3, ResolveOneP
<1>4. CASE UNCHANGED <<context, va, pc, control, cache, task, lemma, pivot, witness,
                       depth, closed, unseen, resolvent, given, preRat, written, temp>>
  BY <1>1, <1>4, WaitP DEF control
<1>5. CASE pc' = "write" /\ UNCHANGED <<context, va, control, cache, step>>
  BY <1>1, <1>5, WaitP DEF control, step
<1> QED  BY <1>2, <1>3, <1>4, <1>5 DEF NextResolvent

-----------------------------------------------------------------------------
(* The clause is given up, the resolvent refuted, the step written.        *)

(* The engine gives the clause up, and keeps its trail.                      *)
LEMMA NotProvedP == ASSUME LInv, LInv', PInv, NotProved PROVE PInv' \/ pc' = "panic"
<1> SUFFICES ASSUME pc' # "panic" PROVE PInv'  OBVIOUS
<1>1. /\ pc = "stuck" /\ task \in {"rup", "rats"} /\ depth' = Len(truStack)
      /\ closed' = (task = "rup") /\ task' = "rat" /\ pc' = "resolvents"
      /\ UNCHANGED <<context, va, lemma, written>>
  BY DEF NotProved, Panics, control
<1>2. UNCHANGED <<names, clauses, truStack, firstHyp, firstUnprocessed>>
  BY <1>1 DEF context, va
<1>3. /\ E!IInv /\ EGoal = lemma /\ unitsProcessed /\ TypedContext /\ written = <<>>
      /\ \A n \in 0..Len(truStack) : ~UnsatAt(n)
      /\ (task = "rats" => ~Rup(lemma)) /\ lemma \in Seq(Literals)
  BY <1>1, StuckFacts
<1>4. E!SInv /\ E!Propagated  BY <1>1, EarlyS
<1>5. /\ EPc \in {"stuck", "hints"} /\ (task = "rup" => EPc = "stuck")
      /\ EPc' = "assume" /\ EStage' = "hint"
  BY <1>1 DEF EPc, EStage
<1>6. Len(truStack) \in Nat /\ firstHyp \in 0..Len(truStack)  BY <1>3, EFacts
<1>7. Steady' /\ ~AtRoot'  BY <1>1, <1>3 DEF Steady, AtRoot
<1>8. E!Propagated'  BY <1>1, <1>3, <1>4, <1>5, Waits
<1>9. ASSUME closed' PROVE SeenBy(depth, depth)' /\ depth' <= firstUnprocessed'
  <2>1. task = "rup"
    <3>1. task = "rup" \/ ~closed'  BY <1>1, Zenon
    <3> QED  BY <1>9, <3>1
  <2>2. firstUnprocessed = Len(truStack)  BY <1>1, <2>1 DEF LInv, Open
  <2>3. SeenThen(Len(truStack), Len(truStack))
    <3> SUFFICES ASSUME NEW i \in names, NEW a \in Lits, NEW b \in Lits, Watches2(clauses[i], a, b),
                        NEW n \in 1..Len(truStack), truStack[n] = -a
                 PROVE  \E p \in 1..Len(truStack) : truStack[p] = b
      BY <1>2 DEF SeenThen
    <3>1. ~E!UnsatAt(firstHyp)  BY <1>3, <1>6, SameTruth
    <3>2. E!Seen(i, a, b)  BY <1>4, <3>1, SameSeen, SameContext DEF E!Propagated, E!Watched
    <3>3. n <= E!Reach(i \in marked)
      <4>1. E!Reach(i \in marked) = firstUnprocessed  BY <1>5, <2>1 DEF E!Reach
      <4> QED  BY <1>6, <2>2, <4>1
    <3>4. ~E!Due(i, a)  BY <1>5 DEF E!Due
    <3> QED  BY <3>2, <3>3, <3>4 DEF E!Seen
  <2>4. SeenBy(depth, depth)'
    <3> DEFINE d == Len(truStack)
    <3>1. depth' = d /\ SeenThen(d, d)  BY <1>1, <2>3
    <3> HIDE DEF d
    <3> QED  BY <3>1 DEF SeenThen, SeenBy, Watches2
  <2> QED  BY <1>1, <1>2, <1>6, <2>2, <2>4
<1>10. Prepared'  BY <1>7, <1>8, <1>9 DEF Prepared
<1>11. AllDenied'  BY <1>1 DEF AllDenied
<1>12. Unproved'
  <2>1. ~Rup(lemma)
    <3>1. CASE task = "rup"
      <4>1. ~E!Rup(EGoal)  BY <1>4, <1>5, <3>1, Constants, E!StuckNotRup
      <4> QED  BY <1>3, <4>1, SameGoal
    <3> QED  BY <1>1, <1>3, <3>1
  <2>2. TypedContext'  BY SameContextNext DEF LInv, E!IInv, E!Typed
  <2>3. Permuted  BY <1>2 DEF Permuted
  <2>4. Rup(lemma)' <=> Rup(lemma)  BY <1>1, <1>3, <2>2, <2>3, SameRup
  <2> QED  BY <2>1, <2>4 DEF Unproved
<1> QED  BY <1>10, <1>11, <1>12 DEF PInv

(* The trail is cut back to what the resolvents share.                       *)
LEMMA RefutesP == ASSUME LInv, LInv', PInv, Refutes PROVE PInv' \/ pc' = "panic"
<1> SUFFICES ASSUME ~Panics PROVE PInv'  BY DEF Panics
<1>1. /\ Explaining /\ ClearTo(depth) /\ task' = "rat" /\ pc' = "resolvents"
      /\ written' = Append(written, [clause |-> resolvent,
                                     hints |-> Steps(Keep(New, Lits \ Shared))])
      /\ UNCHANGED <<context, firstHyp, unitsProcessed, control, lemma, depth, closed>>
  BY RefutesIs
<1>2. pc = "found" /\ task = "resolve"  BY <1>1 DEF Explaining
<1>3. Sharing /\ ~AtRoot /\ E!IInv /\ TypedContext /\ TypedTrail /\ RatTyped  BY <1>2, FoundFacts
<1>4. EPc' = "assume" /\ EStage' = "hint" /\ EGoal' = lemma /\ ERest' = <<>>
  BY <1>1 DEF EPc, EStage, EGoal, ERest
<1>5. /\ Len(truStack') = depth /\ truStack' \in Seq(Lits)
      /\ \A k \in 1..depth : truStack'[k] = truStack[k]
  BY <1>1, <1>4, CutToShared
<1>6. firstUnprocessed' = IF depth < firstUnprocessed THEN depth ELSE firstUnprocessed
  BY <1>1, ClearCuts
<1>7. /\ depth \in Nat /\ depth \in 0..Len(truStack) /\ firstHyp \in 0..depth
      /\ Len(truStack) \in Nat /\ firstUnprocessed \in 0..Len(truStack)
  BY <1>3 DEF Sharing, RatTyped, TypedTrail
<1>8. UNCHANGED <<names, clauses>> /\ Permuted  BY <1>1 DEF context, Permuted
<1>9. ~UnsatAt(firstHyp)
  <2>1. CASE firstHyp = 0  BY <2>1 DEF UnsatAt
  <2>2. CASE firstHyp # 0
    <3>1. firstHyp \in 1..depth  BY <1>7, <2>2
    <3> QED  BY <1>3, <3>1 DEF Sharing
  <2> QED  BY <2>1, <2>2
<1>10. unitsProcessed /\ EPc \notin {"prop", "visit"}  BY <1>2, ResolvePlaces
<1>11. /\ SeenBy(Told, firstHyp) /\ UnitsTold
       /\ Told \in 0..Len(truStack) /\ Told <= firstHyp /\ Told <= firstUnprocessed
  BY <1>2, <1>3, <1>9, ToldAnyhow
<1>12. ASSUME NEW r \in 0..depth, NEW d \in 0..depth, SeenBy(r, d) PROVE SeenThen(r, d)
  <2>1. \A k \in 1..r : truStack'[k] = truStack[k]
    <3>1. \A k \in 1..r : k \in 1..depth  BY <1>7
    <3> QED  BY <1>5, <3>1
  <2>2. \A k \in 1..d : truStack'[k] = truStack[k]
    <3>1. \A k \in 1..d : k \in 1..depth  BY <1>7
    <3> QED  BY <1>5, <3>1
  <2> QED  BY <1>8, <1>12, <2>1, <2>2 DEF SeenBy, SeenThen
<1>13. UnitsTold'
  <2>1. \A k \in 1..firstHyp : truStack'[k] = truStack[k]
    <3>1. \A k \in 1..firstHyp : k \in 1..depth  BY <1>7
    <3> QED  BY <1>5, <3>1
  <2>2. TypedContext'  BY SameContextNext DEF LInv, E!IInv, E!Typed
  <2>3. firstHyp' = firstHyp  BY <1>1
  <2> QED  BY <1>3, <1>8, <1>11, <2>1, <2>2, <2>3, UnitsToldOn
<1>14. Told' = Told /\ Told \in 0..depth
  <2>1. firstHyp' = firstHyp  BY <1>1
  <2> QED  BY <1>6, <1>7, <1>11, <2>1 DEF Told
<1>15. SeenThen(Told, firstHyp)
  <2>1. firstHyp \in 0..depth  BY <1>7
  <2> QED  BY <1>11, <1>12, <1>14, <2>1
<1>16. ~AtRoot' /\ (Steady' <=> closed')
  <2>1. written' # <<>>
    <3>1. written \in Seq(Groups)  BY <1>3 DEF RatTyped
    <3>2. ASSUME NEW x PROVE Append(written, x) # <<>>
      <4>1. Append(written, x)[Len(written) + 1] = x /\ DOMAIN Append(written, x) = 1..(Len(written) + 1)
        BY <3>1
      <4>2. 1 \in DOMAIN Append(written, x)  BY <3>1, <4>1
      <4>3. DOMAIN <<>> = {}  OBVIOUS
      <4> QED  BY <4>2, <4>3
    <3> QED  BY <1>1, <3>2
  <2>2. ~AtRoot'  BY <1>1 DEF AtRoot
  <2> QED  BY <2>1, <2>2 DEF Steady
<1>17. ASSUME closed' PROVE E!Propagated' /\ SeenBy(depth, depth)' /\ depth' <= firstUnprocessed'
  <2>1. SeenBy(depth, depth) /\ depth <= firstUnprocessed
    BY <1>1, <1>3, <1>17 DEF PInv, Prepared
  <2>2. firstUnprocessed' = depth  BY <1>6, <1>7, <2>1
  <2>3. depth \in 0..depth /\ firstHyp <= firstUnprocessed  BY <1>7, <2>1
  <2>4. SeenThen(depth, depth)  BY <1>12, <2>1, <2>3
  <2>5. Told = firstHyp  BY <1>7, <2>3 DEF Told
  <2>6. SeenThen(firstHyp, firstHyp)  BY <1>15, <2>5
  <2>7. E!Watched'
    <3> DEFINE x == depth
    <3>1. \A m \in BOOLEAN : E!Reach(m)' = depth  BY <1>4, <2>2 DEF E!Reach
    <3>2. \A m \in BOOLEAN : E!Reach(m)' \in 0..x  BY <1>7, <3>1
    <3>3. E!Ground' = firstHyp  BY <1>1, <1>4 DEF E!Ground
    <3>4. x \in 0..Len(truStack') /\ SeenThen(x, x) /\ Len(truStack') \in Nat
      BY <1>5, <1>7, <2>4
    <3>5. E!Ground' \in 0..Len(truStack') /\ SeenThen(E!Ground', E!Ground')
      BY <1>5, <1>7, <2>6, <3>3
    <3> HIDE DEF x
    <3> QED  BY <3>2, <3>4, <3>5, WatchedOn
  <2>8. E!UnitsIn'  BY <1>13, UnitsOn
  <2>9. E!Marks'  BY <1>1, <1>4, <1>10 DEF E!Marks, E!Propagating
  <2>10. E!Assumed'  BY <1>4 DEF E!Assumed
  <2>11. SeenBy(depth, depth)'
    <3>1. depth' = depth  BY <1>1
    <3> QED  BY <2>4, <3>1 DEF SeenThen, SeenBy, Watches2
  <2>12. depth' <= firstUnprocessed'  BY <1>1, <1>7, <2>2
  <2> QED  BY <2>7, <2>8, <2>9, <2>10, <2>11, <2>12 DEF E!Propagated
<1>18. SeenBy(Told, firstHyp)'
  <2> DEFINE r == Told
  <2>1. r' = r /\ SeenThen(r, firstHyp) /\ firstHyp' = firstHyp  BY <1>1, <1>14, <1>15
  <2> HIDE DEF r
  <2>2. SeenBy(r, firstHyp)'  BY <2>1 DEF SeenThen, SeenBy, Watches2
  <2> QED  BY <2>2 DEF r
<1>19. Prepared'  BY <1>1, <1>13, <1>16, <1>17, <1>18 DEF Prepared
<1>20. AllDenied'  BY <1>1 DEF AllDenied
<1>21. Unproved'
  <2>1. TypedContext'  BY SameContextNext DEF LInv, E!IInv, E!Typed
  <2>2. ~Rup(lemma)  BY <1>2 DEF PInv, Unproved
  <2>3. lemma' = lemma  BY <1>1
  <2>4. Rup(lemma)' <=> Rup(lemma)  BY <1>3, <1>8, <2>1, <2>3, SameRup
  <2> QED  BY <2>2, <2>4 DEF Unproved
<1> QED  BY <1>19, <1>20, <1>21 DEF PInv

(* What is kept for the next step is told.                                  *)
LEMMA WriteP == ASSUME LInv, LInv', PInv, Write PROVE PInv'
<1>1. /\ pc = "write" /\ MarkAll(Cited) /\ ClearTo(firstHyp) /\ EndStep /\ EndTask
      /\ UNCHANGED <<firstHyp, unitsProcessed>>
  BY DEF Write
<1>2. task' = "none" /\ Plainly'  BY <1>1 DEF EndStep, EndTask, Plainly
<1>3. EPc' = "idle" /\ EStage' = "root"  BY <1>1, <1>2, PlainViewNext DEF EndStep
<1>4. E!IInv /\ TypedTrail /\ TypedContext  BY EFacts DEF LInv
<1>5. UNCHANGED <<names, clauses>>  BY <1>1 DEF MarkAll
<1>6. /\ Len(truStack) \in Nat /\ firstHyp \in 0..Len(truStack) /\ firstHyp \in Nat
      /\ firstUnprocessed \in 0..Len(truStack)
  BY <1>4, EFacts
<1>7. /\ truStack' \in Seq(Lits) /\ Len(truStack') = firstHyp
      /\ \A k \in 1..firstHyp : truStack'[k] = truStack[k]
      /\ firstUnprocessed' = Told
  <2>1. CutTo(firstHyp) /\ firstUnprocessed' = IF firstHyp < firstUnprocessed THEN firstHyp
                                               ELSE firstUnprocessed
    BY <1>1, ClearCuts
  <2>2. firstUnprocessed' = Told  BY <2>1 DEF Told
  <2>3. /\ truStack' \in Seq(Lits) /\ Len(truStack') = firstHyp
        /\ \A k \in 1..firstHyp :
             truStack'[k] = truStack[k] /\ reasons'[truStack[k]] = reasons[truStack[k]]
    BY ONLY <1>4, <1>6, <2>1, Cut
  <2> QED  BY <2>2, <2>3
<1>8. EPc \in {"assume", "found"} /\ ~AtRoot
  <2>1. task # "resolve"  BY <1>1 DEF LInv, Tasks
  <2> QED  BY <1>1, <2>1 DEF EPc, AtRoot
<1>9. E!Marks' /\ E!Assumed'
  BY <1>3 DEF E!Marks, E!Assumed, E!Propagating
<1>10. CASE UnsatAt(firstHyp)
  <2>1. UnsatAt(firstHyp)'
    <3>1. firstHyp > 0 /\ firstHyp \in 1..firstHyp  BY <1>6, <1>10 DEF UnsatAt
    <3> QED  BY <1>1, <1>7, <1>10, <3>1 DEF UnsatAt
  <2>2. E!UnsatAt(firstHyp)'  BY <2>1 DEF UnsatAt, E!UnsatAt
  <2>3. E!Watched' /\ E!UnitsIn'  BY <2>2 DEF E!Watched, E!UnitsIn
  <2>4. E!Propagated'  BY <1>9, <2>3 DEF E!Propagated
  <2> QED  BY <1>2, <2>4, EarlyP
<1>11. CASE ~UnsatAt(firstHyp)
  <2>1. /\ SeenBy(Told, firstHyp) /\ (unitsProcessed => UnitsTold)
        /\ Told \in 0..Len(truStack) /\ Told <= firstHyp /\ Told \in Nat
    BY <1>8, <1>11, ToldAt
  <2>2. SeenThen(Told, firstHyp)
    <3>1. \A k \in 1..Told : truStack'[k] = truStack[k]
      <4>1. \A k \in 1..Told : k \in 1..firstHyp  BY <1>6, <2>1
      <4> QED  BY <1>7, <4>1
    <3> QED  BY <1>5, <1>7, <2>1, <3>1 DEF SeenBy, SeenThen
  <2>3. E!Watched'
    <3> DEFINE x == Told
    <3>1. \A m \in BOOLEAN : E!Reach(m)' = Told  BY <1>3, <1>7 DEF E!Reach
    <3>2. x \in 0..Len(truStack') /\ SeenThen(x, firstHyp) /\ \A m \in BOOLEAN : E!Reach(m)' \in 0..x
      BY <1>7, <2>1, <2>2, <3>1
    <3>3. E!Ground' = firstHyp  BY <1>1, <1>3 DEF E!Ground
    <3>4. firstHyp \in 0..Len(truStack') /\ Len(truStack') \in Nat
          /\ E!Ground' \in 0..Len(truStack') /\ firstHyp <= E!Ground'
      BY <1>6, <1>7, <3>3
    <3> HIDE DEF x
    <3> QED  BY <3>2, <3>4, WatchedOn
  <2>4. E!UnitsIn'
    <3>1. CASE unitsProcessed
      <4>1. UnitsTold'
        <5>1. firstHyp' = firstHyp /\ UnitsTold  BY <1>1, <2>1, <3>1
        <5> QED  BY <1>5, <1>7, <5>1 DEF UnitsTold, UnitClauses, UnitLit
      <4> QED  BY <4>1, UnitsOn
    <3>2. CASE ~unitsProcessed
      <4>1. ~unitsProcessed'  BY <1>1, <3>2
      <4> QED  BY <4>1 DEF E!UnitsIn
    <3> QED  BY <3>1, <3>2
  <2>5. E!Propagated'  BY <1>9, <2>3, <2>4 DEF E!Propagated
  <2> QED  BY <1>2, <2>5, EarlyP
<1> QED  BY <1>10, <1>11

LEMMA StutterP == ASSUME LInv, LInv', PInv, UNCHANGED ratVars PROVE PInv'
<1>1. /\ UNCHANGED <<context, va, pc, stage, goal, rest, unprocessed, cur, root, conflict, hints,
                     queue, progress>>
      /\ UNCHANGED <<task, lemma, witness, depth, closed, resolvent, written>>
  BY DEF ratVars, vars, control, cache, step
<1>2. UNCHANGED <<names, clauses, truStack, reasons, firstHyp, firstUnprocessed, unitsProcessed>>
  BY <1>1 DEF context, va
<1>3. (AtRoot' <=> AtRoot) /\ (Steady' <=> Steady)  BY <1>1 DEF AtRoot, Steady
<1>4. EPc' = EPc /\ EStage' = EStage /\ ERest' = ERest
  BY <1>1 DEF EPc, EStage, ERest
<1>5. EGoal' = EGoal
  <2>1. Both' = Both  BY <1>1, <1>2 DEF Both, Reduced
  <2>2. \A T : Arranged(T)' = Arranged(T)  BY DEF Arranged
  <2>3. Arranged(Both)' = Arranged(Both)  BY <2>1, <2>2 DEF Arranged
  <2> QED  BY <1>1, <1>3, <2>3 DEF EGoal
<1>6. Steady => E!Propagated'
  <2>1. Steady => E!SInv  BY DEF LInv, PInv, Prepared, E!SInv
  <2> QED  BY <1>1, <1>4, <1>5, <2>1, LeftP
<1>7. Told' = Told /\ \A r, d : SeenBy(r, d) => SeenThen(r, d)
  BY <1>2 DEF Told, SeenBy, SeenThen
<1>8. /\ (UnitsTold => UnitsTold') /\ (SeenBy(Told, firstHyp) => SeenBy(Told, firstHyp)')
      /\ (SeenBy(depth, depth) => SeenBy(depth, depth)')
  <2>1. UnitsTold => UnitsTold'  BY <1>2 DEF UnitsTold, UnitClauses, UnitLit
  <2>2. SeenBy(Told, firstHyp) => SeenBy(Told, firstHyp)'
    BY <1>2, <1>7 DEF SeenThen, SeenBy, Watches2
  <2>3. SeenBy(depth, depth) => SeenBy(depth, depth)'
    BY <1>1, <1>7 DEF SeenThen, SeenBy, Watches2
  <2> QED  BY <2>1, <2>2, <2>3
<1>9. Prepared'  BY <1>1, <1>2, <1>3, <1>6, <1>8 DEF PInv, Prepared
<1>10. AllDenied'  BY <1>1, <1>2, <1>3 DEF PInv, AllDenied, Reduced, Range, IsFalse, IsTrue
<1>11. Unproved'
  <2>1. TypedContext  BY EFacts DEF LInv
  <2>2. TypedContext'  BY SameContextNext DEF LInv, E!IInv, E!Typed
  <2>3. Permuted  BY <1>2 DEF Permuted
  <2>4. Rup(lemma)' <=> Rup(lemma)  BY <1>1, <2>1, <2>2, <2>3, SameRup
  <2> QED  BY <1>1, <2>4 DEF PInv, Unproved
<1> QED  BY <1>9, <1>10, <1>11 DEF PInv

LEMMA RatInitP == RatInit => PInv
<1> SUFFICES ASSUME RatInit PROVE PInv  OBVIOUS
<1>1. LInv  BY RatInitInv
<1>2. EPc = pc /\ EStage = stage /\ EGoal = goal /\ ERest = rest
  BY PlainView DEF PlainIs, RatInit, Init, Plainly
<1>3. E!Init  BY <1>2 DEF RatInit, Init, E!Init, Lits, E!Lits
<1>4. E!Propagated  BY <1>3, Constants, E!InitS DEF E!SInv
<1>5. task = "none"  BY DEF RatInit
<1> QED  BY <1>1, <1>4, <1>5, EarlySays DEF Early, LInv

LEMMA RatNextP == ASSUME LInv, LInv', PInv, RatNext PROVE PInv' \/ pc' = "panic"
<1>1. ASSUME NEW i \in Ids, Insert(i) PROVE PInv'  BY <1>1, InsertP
<1>2. ASSUME NEW i \in Ids, Need(i) PROVE PInv'  BY <1>2, NeedP
<1>3. ASSUME NEW i \in Ids, Take(i) PROVE PInv'  BY <1>3, TakeP
<1>4. ASSUME BeginStep PROVE PInv'  BY <1>4, BeginStepP
<1>5. ASSUME Run PROVE PInv'  BY <1>5, RunP
<1>6. ASSUME RoundEnds PROVE PInv'  BY <1>6, RoundEndsP
<1>7. ASSUME Proved PROVE PInv'  BY <1>7, ProvedP
<1>8. ASSUME NotProved PROVE PInv' \/ pc' = "panic"  BY <1>8, NotProvedP
<1>9. ASSUME NextResolvent PROVE PInv' \/ pc' = "panic"  BY <1>9, NextResolventP
<1>10. ASSUME AssumeReduct PROVE PInv'  BY <1>10, AssumeReductP
<1>11. ASSUME Refutes PROVE PInv' \/ pc' = "panic"  BY <1>11, RefutesP
<1>12. ASSUME CannotRefute PROVE pc' = "panic"  BY <1>12, CannotRefuteL
<1>13. ASSUME Write PROVE PInv'  BY <1>13, WriteP
<1> QED
  BY <1>1, <1>2, <1>3, <1>4, <1>5, <1>6, <1>7, <1>8, <1>9, <1>10, <1>11, <1>12, <1>13
     DEF RatNext, RatEngine

-----------------------------------------------------------------------------
(* The invariant of the resolvents.                                        *)

(* The clauses with the complement of l.                                    *)
Opposing(l) == {i \in names : -l \in Range(clauses[i])}

(* The kept set of touched clauses is right for the literal it is kept for.    *)
CacheExact == ratSetLit # 0 => ratSet \intersect names = Opposing(ratSetLit)

(* The witness of a RAT step is its pivot, and the clauses to resolve with     *)
(* have the complement of it.                                               *)
OnPivot ==
  /\ task \in {"none", "begin", "rup", "rats"} => unseen = {}
  /\ task \in {"rup", "rats"} => witness = {} /\ (pivot # 0 => pivot \in Range(lemma))
  /\ task \in {"rat", "resolve"} =>
       /\ witness = {pivot} /\ pivot # 0 /\ pivot \in Range(lemma)
       /\ unseen \intersect names \subseteq Opposing(pivot)
       /\ depth > 0 \/ (pc = "write" /\ Opposing(pivot) = {} /\ written = <<>> /\ preRat = <<>>)
  /\ task = "resolve" => resolvent \in Opposing(pivot)

(* The step is valid: the clause follows, or its resolvents do.               *)
Justly ==
  task \notin {"none", "begin"} =>
    \/ Rup(lemma)
    \/ pivot # 0 /\ \A i \in Opposing(pivot), A \in SUBSET Lits :
         A = Negated(lemma) \union {-l : l \in Reduced({pivot}, clauses[i])} => Refuted(A)

(* Each clause to resolve with is in the hint, or will be.                    *)
AllListed ==
  task \in {"rat", "resolve"} =>
    \A i \in Opposing(pivot) : Full \/ i \in marked =>
      \/ i \in unseen /\ pc # "write"
      \/ task = "resolve" /\ i = resolvent
      \/ \E g \in Range(written) : g.clause = i

(* The other clauses of the hint have no complement of the pivot.             *)
Named == Range(preRat) \union UNION {Range(g.hints) : g \in Range(written)}
Untouching == task \in {"rat", "resolve"} => Named \intersect Opposing(pivot) = {}

QInv == CacheExact /\ OnPivot /\ Justly /\ AllListed /\ Untouching

LEMMA SameOpposing ==
  ASSUME TypedContext, Permuted
  PROVE  \A l : {i \in names' : -l \in Range(clauses'[i])} = {i \in names : -l \in Range(clauses[i])}
<1>1. \A i \in names : Range(clauses'[i]) = Range(clauses[i])  BY DEF TypedContext, Permuted
<1> QED  BY <1>1 DEF Permuted

LEMMA SameRefuted ==
  ASSUME TypedContext, Permuted, NEW A
  PROVE  Refuted(A)' <=> Refuted(A)
<1> DEFINE In(c, S) == \/ c # <<>> /\ \E l \in Range(c) : l \in S
                       \/ Cardinality({l \in Range(c) : -l \notin S}) > 1
<1>1. ASSUME NEW i \in names, NEW S PROVE In(clauses'[i], S) <=> In(clauses[i], S)
  <2>1. Range(clauses'[i]) = Range(clauses[i])  BY DEF Permuted, TypedContext
  <2>2. Range(<<>>) = {}  BY DEF Range
  <2>3. \A c : In(c, S) <=> \/ \E l \in Range(c) : l \in S
                            \/ Cardinality({l \in Range(c) : -l \notin S}) > 1
    BY <2>2
  <2> HIDE DEF In
  <2> QED  BY <2>1, <2>3
<1>2. Refuted(A) <=>
        \A S \in SUBSET Lits :
          A \subseteq S /\ (\A i \in names : In(clauses[i], S)) => \E l \in S : l # 0 /\ -l \in S
  BY DEF Refuted
<1>3. Refuted(A)' <=>
        \A S \in SUBSET Lits :
          A \subseteq S /\ (\A i \in names : In(clauses'[i], S)) => \E l \in S : l # 0 /\ -l \in S
  BY DEF Refuted, Permuted, Lits
<1> HIDE DEF In
<1> QED  BY <1>1, <1>2, <1>3

LEMMA SameJustly ==
  ASSUME TypedContext, TypedContext', Permuted, UNCHANGED <<lemma, pivot>>, Justly,
         task \notin {"none", "begin"} \/ task' \in {"none", "begin"}
  PROVE  Justly'
<1> SUFFICES ASSUME task' \notin {"none", "begin"}, ~Rup(lemma)'
             PROVE  pivot' # 0 /\ \A i \in Opposing(pivot)', A \in SUBSET Lits' :
                      A = (Negated(lemma) \union {-l : l \in Reduced({pivot}, clauses[i])})'
                        => Refuted(A)'
  BY DEF Justly
<1>1. ~Rup(lemma)  BY SameRup
<1>2. pivot # 0 /\ \A i \in Opposing(pivot), A \in SUBSET Lits :
        A = Negated(lemma) \union {-l : l \in Reduced({pivot}, clauses[i])} => Refuted(A)
  BY <1>1 DEF Justly
<1>3. Opposing(pivot)' = Opposing(pivot)  BY SameOpposing DEF Opposing
<1>4. ASSUME NEW i \in Opposing(pivot), NEW A \in SUBSET Lits,
             A = (Negated(lemma) \union {-l : l \in Reduced({pivot}, clauses[i])})'
      PROVE  Refuted(A)'
  <2>1. Range(clauses'[i]) = Range(clauses[i])  BY DEF Opposing, TypedContext, Permuted
  <2>2. Reduced({pivot}, clauses[i])' = Reduced({pivot}, clauses[i])  BY <2>1 DEF Reduced, Range
  <2>3. Negated(lemma)' = Negated(lemma)  BY DEF Negated, Range
  <2>4. A = Negated(lemma) \union {-l : l \in Reduced({pivot}, clauses[i])}
    BY <1>4, <2>2, <2>3
  <2>5. Refuted(A)  BY <1>2, <2>4
  <2> QED  BY <2>5, SameRefuted
<1> QED  BY <1>2, <1>3, <1>4 DEF Lits

(* Steps that leave the bookkeeping alone.                                  *)
LEMMA SameQ ==
  ASSUME LInv, LInv', QInv, Permuted, marked' = marked,
         UNCHANGED <<ratSet, ratSetLit, task, lemma, pivot, witness, depth, unseen, resolvent,
                     preRat, written>>,
         pc = "write" \/ pc' # "write" \/ task \notin {"rat", "resolve"}, pc = "write" => pc' = "write"
  PROVE  QInv'
<1>1. TypedContext /\ TypedContext'  BY SameContext, SameContextNext DEF LInv, E!IInv, E!Typed
<1>2. Opposing(pivot)' = Opposing(pivot) /\ Opposing(ratSetLit)' = Opposing(ratSetLit)
  BY <1>1, SameOpposing DEF Opposing
<1>3. names' = names  BY DEF Permuted
<1>4. CacheExact'  BY <1>2, <1>3 DEF QInv, CacheExact
<1>5. OnPivot'
  <2>1. Range(lemma)' = Range(lemma)  BY DEF Range
  <2> QED  BY <1>2, <1>3, <2>1 DEF QInv, OnPivot
<1>6. Justly'  BY <1>1, SameJustly DEF QInv
<1>7. Range(written)' = Range(written) /\ Range(preRat)' = Range(preRat)  BY DEF Range
<1>8. AllListed'  BY <1>2, <1>7 DEF QInv, AllListed
<1>9. Untouching'
  <2>1. Named' = Named  BY <1>7 DEF Named, Range
  <2> QED  BY <1>2, <2>1 DEF QInv, Untouching
<1> QED  BY <1>4, <1>5, <1>6, <1>8, <1>9 DEF QInv

LEMMA RunKeeps ==
  ASSUME LInv, Run
  PROVE  Permuted /\ marked' = marked /\ pc # "write" /\ pc' # "write"
<1>1. StartHint \/ UseHint \/ Propagate \/ ProcessUnits \/ Assume \/ NextPropLit \/ PropDone \/ Visit
  BY DEF Run
<1>2. TypedContext /\ TypedTrail /\ Lists /\ hints \in Seq(names)
      /\ cur \in [class : BOOLEAN, lit : Lits, at : Nat \ {0}]
  BY EFacts DEF LInv
<1>3. pc # "write" /\ pc' # "write"
  BY <1>1 DEF StartHint, UseHint, Propagate, ProcessUnits, Assume, NextPropLit, PropDone, Visit,
              Found, Replace, Imply
<1>4. CASE UseHint
  <2>1. marked' = marked  BY <1>4 DEF UseHint, context
  <2> QED  BY <1>2, <1>3, <1>4, <2>1, UseHintLeaves
<1>5. CASE Visit
  <2>1. marked' = marked  BY <1>5 DEF Visit, Replace, Imply, context
  <2> QED  BY <1>2, <1>3, <1>5, <2>1, VisitLeaves
<1>6. CASE UNCHANGED context  BY <1>3, <1>6 DEF Permuted, context
<1> QED
  BY <1>1, <1>4, <1>5, <1>6 DEF StartHint, Propagate, ProcessUnits, Assume, NextPropLit, PropDone

LEMMA RunQ == ASSUME LInv, LInv', QInv, Run PROVE QInv'
<1>1. Permuted /\ marked' = marked /\ pc # "write" /\ pc' # "write"  BY RunKeeps
<1>2. UNCHANGED <<ratSet, ratSetLit, task, lemma, pivot, witness, depth, unseen, resolvent,
                  preRat, written>>
  BY DEF Run, cache, step
<1> QED  BY <1>1, <1>2, SameQ

-----------------------------------------------------------------------------
(* The engine and the ends of rounds.                                      *)

LEMMA AssumeReductQ == ASSUME LInv, LInv', QInv, AssumeReduct PROVE QInv'
<1>1. pc # "write" /\ pc' # "write"  BY DEF AssumeReduct
<1>2. Permuted /\ marked' = marked  BY DEF AssumeReduct, context, Permuted
<1>3. UNCHANGED <<ratSet, ratSetLit, task, lemma, pivot, witness, depth, unseen, resolvent,
                  preRat, written>>
  BY DEF AssumeReduct, cache, step
<1> QED  BY <1>1, <1>2, <1>3, SameQ

LEMMA StutterQ == ASSUME LInv, LInv', QInv, UNCHANGED ratVars PROVE QInv'
<1>1. Permuted /\ marked' = marked /\ pc' = pc  BY DEF ratVars, vars, context, Permuted
<1>2. UNCHANGED <<ratSet, ratSetLit, task, lemma, pivot, witness, depth, unseen, resolvent,
                  preRat, written>>
  BY DEF ratVars, cache, step
<1> QED  BY <1>1, <1>2, SameQ

LEMMA ProvedQ == ASSUME LInv, LInv', QInv, Proved PROVE QInv'
<1>1. task \in {"rup", "rats"} /\ task' = task  BY DEF Proved
<1>2. Permuted  BY DEF Proved, context, Permuted
<1>3. UNCHANGED <<names, clauses, ratSet, ratSetLit, lemma, pivot, witness, unseen>>
  BY DEF Proved, context, cache
<1>4. CacheExact'  BY <1>3 DEF QInv, CacheExact, Opposing
<1>5. OnPivot'
  <2>1. Range(lemma)' = Range(lemma)  BY <1>3 DEF Range
  <2> QED  BY <1>1, <1>3, <2>1 DEF QInv, OnPivot
<1>6. Justly'
  <2>1. TypedContext /\ TypedContext'  BY SameContext, SameContextNext DEF LInv, E!IInv, E!Typed
  <2> QED  BY <1>1, <1>2, <1>3, <2>1, SameJustly DEF QInv
<1>7. AllListed' /\ Untouching'  BY <1>1 DEF AllListed, Untouching
<1> QED  BY <1>4, <1>5, <1>6, <1>7 DEF QInv

(* The special case: nothing has the complement of the pivot.                *)
LEMMA SpecialQ ==
  ASSUME LInv, LInv', QInv, RoundEnds, task = "rup", task' = "rat"
  PROVE  QInv'
<1>1. /\ pc = "hints" /\ pivot # 0 /\ Untouched /\ pc' = "write" /\ witness' = {pivot}
      /\ UNCHANGED <<names, clauses, ratSet, ratSetLit, lemma, pivot, depth, unseen, resolvent,
                     preRat, written>>
  BY DEF RoundEnds, context, cache
<1>2. Permuted  BY <1>1 DEF Permuted
<1>3. CacheExact'  BY <1>1 DEF QInv, CacheExact, Opposing
<1>4. Opposing(pivot) = {}
  <2>1. CASE ratSetLit = pivot
    <3>1. ratSet = {}  BY <1>1, <2>1 DEF Untouched
    <3> QED  BY <1>1, <2>1, <3>1 DEF QInv, CacheExact
  <2>2. CASE ratSetLit # pivot  BY <1>1, <2>2 DEF Untouched, Opposing
  <2> QED  BY <2>1, <2>2
<1>5. Opposing(pivot)' = {}  BY <1>1, <1>4 DEF Opposing
<1>6. written = <<>> /\ preRat = <<>>  BY <1>1 DEF LInv, Tasks
<1>7. OnPivot'
  <2>1. Range(lemma)' = Range(lemma)  BY <1>1 DEF Range
  <2>2. pivot \in Range(lemma) /\ unseen = {}  BY <1>1 DEF QInv, OnPivot
  <2> QED  BY <1>1, <1>5, <1>6, <2>1, <2>2 DEF OnPivot
<1>8. Justly'
  <2>1. TypedContext /\ TypedContext'  BY SameContext, SameContextNext DEF LInv, E!IInv, E!Typed
  <2> QED  BY <1>1, <1>2, <2>1, SameJustly DEF QInv
<1>9. AllListed' /\ Untouching'  BY <1>5 DEF AllListed, Untouching
<1> QED  BY <1>3, <1>7, <1>8, <1>9 DEF QInv

LEMMA RoundEndsQ == ASSUME LInv, LInv', QInv, RoundEnds PROVE QInv'
<1>1. CASE task' # task
  <2>1. task = "rup" /\ task' = "rat"  BY <1>1 DEF RoundEnds
  <2> QED  BY <2>1, SpecialQ
<1>2. CASE task' = task
  <2>1. pc # "write" /\ pc' # "write" /\ witness' = witness  BY <1>2 DEF RoundEnds
  <2>2. Permuted /\ marked' = marked  BY DEF RoundEnds, context, Permuted
  <2>3. UNCHANGED <<ratSet, ratSetLit, lemma, pivot, depth, unseen, resolvent, preRat, written>>
    BY DEF RoundEnds, cache
  <2> QED  BY <1>2, <2>1, <2>2, <2>3, SameQ
<1> QED  BY <1>1, <1>2

-----------------------------------------------------------------------------
(* Between steps.                                                          *)

LEMMA RestQ ==
  ASSUME CacheExact', task' \in {"none", "begin"}, unseen' = {}
  PROVE  QInv'
  BY DEF QInv, OnPivot, Justly, AllListed, Untouching

LEMMA InsertQ == ASSUME QInv, NEW i \in Ids, Insert(i) PROVE QInv'
<1>1. task = "none" /\ task' = task /\ unseen' = unseen /\ ratSetLit' = 0  BY DEF Insert, step
<1>2. unseen = {}  BY <1>1 DEF QInv, OnPivot
<1>3. CacheExact'  BY <1>1 DEF CacheExact
<1> QED  BY <1>1, <1>2, <1>3, RestQ

LEMMA NeedQ == ASSUME QInv, NEW i \in Ids, Need(i) PROVE QInv'
<1>1. /\ task = "none" /\ task' = task /\ unseen' = unseen
      /\ UNCHANGED <<names, clauses, ratSet, ratSetLit>>
  BY DEF Need, step, cache, MarkClause
<1>2. unseen = {}  BY <1>1 DEF QInv, OnPivot
<1>3. CacheExact'  BY <1>1 DEF QInv, CacheExact, Opposing
<1> QED  BY <1>1, <1>2, <1>3, RestQ

LEMMA TakeQ == ASSUME LInv, QInv, NEW i \in Ids, Take(i) PROVE QInv'
<1>1. /\ task = "none" /\ task' \in {"none", "begin"} /\ unseen' = unseen
      /\ names' = names \ {i} /\ clauses' = [clauses EXCEPT ![i] = <<>>]
      /\ UNCHANGED <<ratSet, ratSetLit>>
  BY DEF Take, RemoveClause
<1>2. unseen = {}  BY <1>1 DEF QInv, OnPivot
<1>3. \A j \in names' : clauses'[j] = clauses[j]
  <2>1. TypedContext  BY SameContext DEF LInv, E!IInv, E!Typed
  <2> QED  BY <1>1, <2>1 DEF TypedContext
<1>4. Opposing(ratSetLit)' = Opposing(ratSetLit) \ {i}  BY <1>1, <1>3 DEF Opposing
<1>5. CacheExact'  BY <1>1, <1>4 DEF QInv, CacheExact
<1> QED  BY <1>1, <1>2, <1>5, RestQ

LEMMA WriteQ == ASSUME QInv, Write PROVE QInv'
<1>1. /\ task' = "none" /\ unseen' = {}
      /\ UNCHANGED <<names, clauses, ratSet, ratSetLit>>
  BY DEF Write, EndTask, MarkAll, cache
<1>2. CacheExact'  BY <1>1 DEF QInv, CacheExact, Opposing
<1> QED  BY <1>1, <1>2, RestQ

LEMMA RatInitQ == RatInit => QInv
  BY DEF RatInit, QInv, CacheExact, OnPivot, Justly, AllListed, Untouching

-----------------------------------------------------------------------------
(* With a single pivot, the clauses to resolve with are those that oppose it. *)
LEMMA CandidatesAre ==
  ASSUME TypedContext, NEW p \in Lits
  PROVE  Candidates({p}) = Opposing(p)
<1>1. Cardinality({p}) = 1  BY FS_Singleton
<1>2. Candidates({p}) = {i \in names : \E l \in Range(clauses[i]) : -l \in {p}}
  BY <1>1 DEF Candidates
<1>3. \A i \in names : Range(clauses[i]) \subseteq Lits
  <2> TAKE i \in names
  <2>1. clauses[i] \in Seq(Literals)  BY DEF TypedContext
  <2> QED  BY <2>1, InRange DEF Literals
<1>4. \A l \in Lits : -l = p <=> l = -p  BY Negation
<1>5. \A i \in names : (\E l \in Range(clauses[i]) : -l \in {p}) <=> -p \in Range(clauses[i])
  BY <1>3, <1>4, Negation
<1> QED  BY <1>2, <1>5 DEF Opposing

(* A step begins: it is a step of a valid proof, without a witness.          *)

LEMMA BeginStepQ ==
  ASSUME Witnesses = {}, LInv, LInv', QInv, BeginStep
  PROVE  QInv'
<1>1. task = "begin" /\ lemma \in Seq(Literals) /\ TypedContext
  BY SameContext DEF BeginStep, LInv, RatTyped, E!IInv, E!Typed
<1>2. PICK s \in ValidSteps(lemma) :
        \/ Begin(s[1], s[2], <<>>, FALSE, <<>>)
        \/ \E rats \in (IF Rup(lemma) THEN {<<>>} ELSE RatHints), h \in HintLists :
             Begin(s[1], s[2], h, TRUE, rats)
  BY DEF BeginStep
<1>3. PICK h, hinted, rats : Begin(s[1], s[2], h, hinted, rats)  BY <1>2
<1>4. /\ s \in (IF lemma = <<>> THEN {0} ELSE Range(lemma)) \X (Witnesses \union {{}})
      /\ Justified(lemma, IF s[2] = {} THEN {s[1]} \ {0} ELSE s[2])
  BY DEF ValidSteps
<1>5. s[2] = {} /\ (s[1] # 0 => s[1] \in Range(lemma))  BY <1>4
<1>6. /\ task' \in {"rup", "rats"} /\ pivot' = s[1] /\ witness' = {}
      /\ UNCHANGED <<names, clauses, ratSet, ratSetLit, lemma, unseen>>
  BY <1>3, <1>5 DEF Begin, Step, context, cache
<1>7. CacheExact'  BY <1>6 DEF QInv, CacheExact, Opposing
<1>8. OnPivot'
  <2>1. Range(lemma)' = Range(lemma)  BY <1>6 DEF Range
  <2>2. unseen = {}  BY <1>1 DEF QInv, OnPivot
  <2> QED  BY <1>5, <1>6, <2>1, <2>2 DEF OnPivot
<1>9. Justified(lemma, {s[1]} \ {0})  BY <1>4, <1>5
<1>10. Justly'
  <2> DEFINE p == s[1]
  <2>1. CASE Rup(lemma)
    <3>1. Permuted /\ lemma' = lemma  BY <1>6 DEF Permuted
    <3>2. TypedContext'  BY SameContextNext DEF LInv, E!IInv, E!Typed
    <3>3. Rup(lemma)'  BY <1>1, <2>1, <3>1, <3>2, SameRup
    <3> QED  BY <3>3 DEF Justly
  <2>2. CASE ~Rup(lemma)
    <3> HIDE DEF p
    <3>1. p # 0 /\ \A i \in Candidates({p}) :
            Refuted(Negated(lemma) \union Negated(Reduct({p}, clauses[i])))
      <4>1. Justified(lemma, {p} \ {0})  BY <1>9 DEF p
      <4>2. {p} \ {0} # {} => {p} \ {0} = {p} /\ p # 0  OBVIOUS
      <4> HIDE DEF p
      <4> QED  BY <2>2, <4>1, <4>2 DEF Justified
    <3>2. Candidates({p}) = Opposing(p)
      <4>1. p \in Lits  BY <1>1, ValidStepsAre DEF p
      <4> QED  BY <1>1, <4>1, CandidatesAre
    <3>3. ASSUME NEW i \in Opposing(p), NEW A \in SUBSET Lits,
                 A = Negated(lemma) \union {-l : l \in Reduced({p}, clauses[i])}
          PROVE  Refuted(A)
      <4>1. clauses[i] \in Seq(Literals)  BY <1>1 DEF Opposing, TypedContext
      <4>2. Range(Reduct({p}, clauses[i])) = Reduced({p}, clauses[i])
        <5> DEFINE c == clauses[i]
        <5> HIDE DEF c
        <5> QED  BY <4>1, ReductIs DEF c
      <4>3. Negated(Reduct({p}, clauses[i])) = {-l : l \in Reduced({p}, clauses[i])}
        BY <4>2 DEF Negated
      <4> QED  BY <3>1, <3>2, <3>3, <4>3
    <3>4. pivot' = p  BY <1>6 DEF p
    <3>5. Opposing(pivot)' = Opposing(p)  BY <1>6, <3>4 DEF Opposing
    <3>6. ASSUME NEW i \in Opposing(p), NEW A \in SUBSET Lits,
                 A = (Negated(lemma) \union {-l : l \in Reduced({pivot}, clauses[i])})'
          PROVE  Refuted(A)'
      <4>1. A = Negated(lemma) \union {-l : l \in Reduced({p}, clauses[i])}
        BY <1>6, <3>4, <3>6 DEF Negated, Reduced, Range
      <4>2. Refuted(A)  BY <3>3, <4>1
      <4>3. Refuted(A)' <=> Refuted(A)  BY <1>6 DEF Refuted, Lits
      <4> QED  BY <4>2, <4>3
    <3> QED  BY <3>1, <3>4, <3>5, <3>6 DEF Justly, Lits
  <2> QED  BY <2>1, <2>2
<1>11. AllListed' /\ Untouching'  BY <1>6 DEF AllListed, Untouching
<1> QED  BY <1>7, <1>8, <1>10, <1>11 DEF QInv

-----------------------------------------------------------------------------
(* What there is to resolve with.                                          *)

LEMMA NotProvedQ == ASSUME LInv, LInv', QInv, NotProved PROVE QInv' \/ pc' = "panic"
<1> SUFFICES ASSUME pc' # "panic" PROVE QInv'  OBVIOUS
<1>1. pc = "stuck" /\ task \in {"rup", "rats"}  BY DEF NotProved
<1>2. /\ witness = {} /\ unseen = {} /\ (pivot # 0 => pivot \in Range(lemma))
  BY <1>1 DEF QInv, OnPivot
<1>3. /\ {pivot} \ {0} # {} /\ witness' = {pivot} \ {0}
      /\ ratSet' = IF {pivot} \ {0} = {ratSetLit} THEN ratSet ELSE Candidates({pivot} \ {0})
      /\ ratSetLit' = IF Cardinality({pivot} \ {0}) = 1 THEN CHOOSE l \in {pivot} \ {0} : TRUE
                      ELSE ratSetLit
      /\ unseen' = ratSet' /\ depth' = Len(truStack) /\ task' = "rat" /\ pc' = "resolvents"
      /\ UNCHANGED <<context, lemma, pivot, preRat, written>>
  BY <1>2 DEF NotProved, Panics
<1>4. {pivot} \ {0} = {pivot} /\ pivot # 0  BY <1>3
<1>5. Cardinality({pivot}) = 1  BY FS_Singleton
<1>6. ratSetLit' = pivot /\ witness' = {pivot}  BY <1>3, <1>4, <1>5
<1>7. UNCHANGED <<names, clauses, marked>>  BY <1>3 DEF context
<1>8. TypedContext /\ TypedTrail /\ pivot \in Lits /\ lemma \in Seq(Literals)
  BY EFacts DEF LInv, RatTyped
<1>9. ratSet' \intersect names = Opposing(pivot)
  <2>1. CASE {pivot} = {ratSetLit}
    <3>1. ratSetLit = pivot /\ ratSet' = ratSet  BY <1>3, <1>4, <2>1
    <3> QED  BY <1>4, <3>1 DEF QInv, CacheExact
  <2>2. CASE {pivot} # {ratSetLit}
    <3>1. ratSet' = Opposing(pivot)  BY <1>3, <1>4, <1>8, <2>2, CandidatesAre
    <3> QED  BY <3>1 DEF Opposing
  <2> QED  BY <2>1, <2>2
<1>10. Opposing(pivot)' = Opposing(pivot)  BY <1>3, <1>7 DEF Opposing
<1>11. CacheExact'
  <2>1. Opposing(ratSetLit)' = Opposing(pivot)  BY <1>6, <1>7 DEF Opposing
  <2> QED  BY <1>7, <1>9, <2>1 DEF CacheExact
<1>12. depth' > 0
  <2>1. Negated(lemma) \subseteq Range(truStack)  BY <1>1, StuckFacts
  <2>2. -pivot \in Range(truStack)  BY <1>2, <1>4, <2>1 DEF Negated
  <2>3. truStack \in Seq(Lits) /\ Len(truStack) \in Nat  BY <1>8 DEF TypedTrail
  <2>4. PICK n \in 1..Len(truStack) : truStack[n] = -pivot  BY <2>2, <2>3, InRange
  <2> QED  BY <1>3, <2>3, <2>4
<1>13. OnPivot'
  <2>1. Range(lemma)' = Range(lemma)  BY <1>3 DEF Range
  <2>2. unseen' \intersect names' \subseteq Opposing(pivot)'
    BY <1>3, <1>7, <1>9, <1>10
  <2> QED  BY <1>2, <1>3, <1>4, <1>6, <1>12, <2>1, <2>2 DEF OnPivot
<1>14. Justly'
  <2>1. TypedContext'  BY SameContextNext DEF LInv, E!IInv, E!Typed
  <2>2. Permuted  BY <1>7 DEF Permuted
  <2> QED  BY <1>1, <1>3, <1>8, <2>1, <2>2, SameJustly DEF QInv
<1>15. AllListed'
  <2>1. \A i \in Opposing(pivot) : i \in unseen'  BY <1>3, <1>9
  <2> QED  BY <1>3, <1>10, <2>1 DEF AllListed
<1>16. Untouching'
  <2>1. preRat = <<>> /\ written = <<>>  BY <1>1, StuckFacts
  <2>2. Range(<<>>) = {}  BY DEF Range
  <2>3. Range(preRat)' = {} /\ Range(written)' = {}  BY <1>3, <2>1 DEF Range
  <2>4. Named' = {}  BY <2>3 DEF Named
  <2> QED  BY <2>4 DEF Untouching
<1> QED  BY <1>11, <1>13, <1>14, <1>15, <1>16 DEF QInv

-----------------------------------------------------------------------------
(* The next resolvent.                                                     *)

LEMMA NextQ ==
  ASSUME LInv, LInv', QInv, pc = "resolvents", task' \in {"rat", "resolve"},
         UNCHANGED <<context, ratSet, ratSetLit, lemma, pivot, witness, depth, preRat, written>>,
         unseen' \subseteq unseen,
         task' = "resolve" => resolvent' \in unseen \intersect names,
         \A i \in unseen : Full \/ i \in marked =>
           (i \in unseen' /\ pc' # "write") \/ (task' = "resolve" /\ i = resolvent')
  PROVE  QInv'
<1>1. task = "rat"  BY DEF LInv, RatTyped, Tasks
<1>2. UNCHANGED <<names, clauses, marked>>  BY DEF context
<1>3. /\ witness = {pivot} /\ pivot # 0 /\ pivot \in Range(lemma) /\ depth > 0
      /\ unseen \intersect names \subseteq Opposing(pivot)
  BY <1>1 DEF QInv, OnPivot
<1>4. Opposing(pivot)' = Opposing(pivot)  BY <1>2 DEF Opposing
<1>5. CacheExact'  BY <1>2 DEF QInv, CacheExact, Opposing
<1>6. OnPivot'
  <2>1. Range(lemma)' = Range(lemma)  BY DEF Range
  <2> QED  BY <1>2, <1>3, <1>4, <2>1 DEF OnPivot
<1>7. Justly'
  <2>1. TypedContext /\ TypedContext'  BY SameContext, SameContextNext DEF LInv, E!IInv, E!Typed
  <2>2. Permuted  BY <1>2 DEF Permuted
  <2> QED  BY <1>1, <2>1, <2>2, SameJustly DEF QInv
<1>8. Range(written)' = Range(written) /\ Range(preRat)' = Range(preRat)  BY DEF Range
<1>9. AllListed'
  <2>1. \A i \in Opposing(pivot) : Full \/ i \in marked =>
          i \in unseen \/ \E g \in Range(written) : g.clause = i
    BY <1>1 DEF QInv, AllListed
  <2> QED  BY <1>2, <1>4, <1>8, <2>1 DEF AllListed
<1>10. Untouching'
  <2>1. Named' = Named  BY <1>8 DEF Named, Range
  <2> QED  BY <1>1, <1>4, <2>1 DEF QInv, Untouching
<1> QED  BY <1>5, <1>6, <1>7, <1>9, <1>10 DEF QInv

LEMMA ResolveOneQ ==
  ASSUME LInv, LInv', QInv, pc = "resolvents", NEW i \in unseen, NEW h, NEW hinted,
         Resolve(i, h, hinted)
  PROVE  QInv' \/ pc' = "panic"
<1> SUFFICES ASSUME pc' # "panic" PROVE QInv'  OBVIOUS
<1>1. ~Unsat /\ task = "rat"
  <2>1. EPc = "assume"  BY DEF EPc
  <2> QED  BY <2>1, EFacts DEF LInv, RatTyped, Tasks
<1>2. /\ unseen' = unseen \ {i}
      /\ UNCHANGED <<context, ratSet, ratSetLit, lemma, pivot, witness, depth, preRat, written>>
  BY DEF Resolve, cache
<1>3. CASE i \notin names \/ (~Full /\ i \notin marked)
  <2>1. i \in names /\ ~Full /\ i \notin marked /\ pc' = pc /\ task' = task
    BY <1>3 DEF Resolve
  <2>2. \A j \in unseen : Full \/ j \in marked => j \in unseen' /\ pc' # "write"
    BY <1>2, <2>1
  <2> QED  BY <1>1, <1>2, <2>1, <2>2, NextQ
<1>4. CASE ~(i \notin names \/ (~Full /\ i \notin marked))
  <2>1. i \in names /\ task' = "resolve" /\ pc' = "resolve" /\ resolvent' = i
    BY <1>1, <1>4 DEF Resolve
  <2>2. \A j \in unseen : (j \in unseen' /\ pc' # "write") \/ (task' = "resolve" /\ j = resolvent')
    BY <1>2, <2>1
  <2> QED  BY <1>1, <1>2, <2>1, <2>2, NextQ
<1> QED  BY <1>3, <1>4

LEMMA NextResolventQ == ASSUME LInv, LInv', QInv, NextResolvent PROVE QInv' \/ pc' = "panic"
<1>1. pc = "resolvents" /\ task = "rat"  BY DEF NextResolvent, LInv, RatTyped, Tasks
<1>2. CASE groups # <<>> /\ groups' = Tail(groups)
           /\ IF Head(groups).clause \in unseen
              THEN Resolve(Head(groups).clause, Head(groups).hints, TRUE)
              ELSE UNCHANGED <<context, va, pc, control, cache, task, lemma, pivot, witness,
                               depth, closed, unseen, resolvent, given, preRat, written, temp>>
  <2>1. CASE Head(groups).clause \in unseen  BY <1>1, <1>2, <2>1, ResolveOneQ
  <2>2. CASE Head(groups).clause \notin unseen
    <3>1. /\ UNCHANGED <<context, ratSet, ratSetLit, lemma, pivot, witness, depth, preRat, written>>
          /\ unseen' = unseen /\ pc' = pc /\ task' = task
      BY <1>2, <2>2 DEF cache
    <3> QED  BY <1>1, <3>1, NextQ
  <2> QED  BY <2>1, <2>2
<1>3. ASSUME NEW i \in unseen, Resolve(i, <<>>, FALSE)
      PROVE  QInv' \/ pc' = "panic"
  BY <1>1, <1>3, ResolveOneQ
<1>4. CASE unseen = {} /\ pc' = "write" /\ UNCHANGED <<context, va, control, cache, step>>
  <2>1. /\ UNCHANGED <<context, ratSet, ratSetLit, lemma, pivot, witness, depth, preRat, written>>
        /\ unseen' = unseen /\ task' = task
    BY <1>4 DEF cache, step
  <2> QED  BY <1>1, <1>4, <2>1, NextQ
<1> QED  BY <1>2, <1>3, <1>4 DEF NextResolvent

-----------------------------------------------------------------------------
(* No clause of a hint opposes the pivot.                                  *)

(* What is closed and holds the lemma false holds the shared part.           *)
LEMMA SharedIn ==
  ASSUME TypedContext, TypedTrail, RatTyped, Grounded, Sharing,
         NEW S \in SUBSET Lits, Negated(lemma) \subseteq S, Closed(S),
         ~ \E l \in S : l # 0 /\ -l \in S
  PROVE  Shared \subseteq S
<1>1. depth \in Nat /\ depth <= Len(truStack) /\ Len(truStack) \in Nat
  BY DEF Sharing, RatTyped, TypedTrail
<1> DEFINE Bad == {n \in 1..depth : truStack[n] \notin S}
<1> SUFFICES ASSUME Bad # {} PROVE FALSE  BY DEF Shared
<1>2. PICK n \in Bad : \A y \in Bad : n <= y
  <2>1. Bad \subseteq Nat  BY <1>1
  <2> HIDE DEF Bad
  <2> QED  BY <2>1, Least
<1>3. n \in 1..depth /\ n \in 1..Len(truStack) /\ n \in Nat /\ truStack[n] \notin S  BY <1>1
<1>4. \A m \in 1..n-1 : truStack[m] \in S
  <2> TAKE m \in 1..n-1
  <2>1. m \in 1..depth /\ ~(n <= m)  BY <1>1, <1>3
  <2> QED  BY <1>2, <2>1
<1>5. CASE reasons[truStack[n]] = None  BY <1>3, <1>5 DEF Sharing
<1>6. CASE reasons[truStack[n]] # None
  <2>1. Forced(n)  BY <1>3, <1>6 DEF Grounded
  <2> QED  BY <1>3, <1>4, <2>1, ForcedIn
<1> QED  BY <1>5, <1>6

(* A true literal has no reason with the complement of the pivot: the literal  *)
(* would be that complement, and the step would follow by unit propagation.   *)
LEMMA ReasonOpposesNot ==
  ASSUME LInv, PInv, QInv, pc = "found", task = "resolve",
         NEW x, IsTrue(x), reasons[x] # None
  PROVE  reasons[x] \notin Opposing(pivot)
<1> SUFFICES ASSUME reasons[x] \in Opposing(pivot) PROVE FALSE  OBVIOUS
<1> DEFINE i == reasons[x]
           c == clauses[i]
<1>1. /\ Sharing /\ TypedContext /\ TypedTrail /\ RatTyped /\ Grounded /\ ConflictLast
  BY FoundFacts, EFacts DEF LInv
<1>2. /\ truStack \in Seq(Lits) /\ Len(truStack) \in Nat /\ IsInjective(truStack)
      /\ depth \in Nat /\ depth <= Len(truStack) /\ lemma \in Seq(Literals) /\ pivot \in Lits
  BY <1>1 DEF Sharing, TypedTrail, RatTyped
<1>3. PICK n \in 1..Len(truStack) : truStack[n] = x  BY <1>2, InRange DEF IsTrue
<1>4. Forced(n)  BY <1>1, <1>3 DEF Grounded
<1>5. i \in names /\ -pivot \in Range(c) /\ c \in Seq(Literals) /\ Len(c) \in Nat
  BY <1>1 DEF Opposing, TypedContext
<1>6. x = UnitLit(c) /\ \A k \in 2..Len(c) : \E m \in 1..n-1 : truStack[m] = -c[k]
  BY <1>3, <1>4 DEF Forced
<1> HIDE DEF i
<1> HIDE DEF c
<1>7. PICK k \in 1..Len(c) : c[k] = -pivot  BY <1>5, InRange
<1>8. -pivot \in Shared
  <2>1. pivot \in Range(lemma)  BY DEF QInv, OnPivot
  <2> QED  BY <1>1, <2>1 DEF Sharing, Negated
<1>9. PICK m \in 1..depth : truStack[m] = -pivot  BY <1>8 DEF Shared
<1>10. m \in 1..Len(truStack)  BY <1>2, <1>9
<1>11. CASE k # 1
  <2>1. k \in 2..Len(c)  BY <1>5, <1>11
  <2>2. PICK q \in 1..n-1 : truStack[q] = -c[k]  BY <1>6, <2>1
  <2>3. truStack[q] = pivot /\ truStack[m] = -truStack[q] /\ truStack[q] = -truStack[m]
    BY <1>2, <1>7, <1>9, <2>2, Negation
  <2>4. q \in 1..Len(truStack)-1  BY <1>2, <1>3, <2>2
  <2>5. CASE m <= q
    <3>1. UnsatAt(q)  BY <1>9, <1>10, <2>3, <2>4, <2>5 DEF UnsatAt
    <3> QED  BY <1>1, <2>4, <3>1 DEF ConflictLast
  <2>6. CASE q <= m
    <3>1. UnsatAt(m)
      <4>1. q \in 1..m /\ m > 0  BY <1>10, <2>4, <2>6
      <4> QED  BY <2>3, <4>1 DEF UnsatAt
    <3> QED  BY <1>1, <1>9, <3>1 DEF Sharing
  <2> QED  BY <1>10, <2>4, <2>5, <2>6
<1>12. CASE k = 1
  <2>1. x = -pivot
    <3>1. c # <<>>  BY <1>7
    <3> QED  BY <1>6, <1>7, <1>12, <3>1 DEF UnitLit
  <2>2. n = m  BY <1>2, <1>3, <1>9, <1>10, <2>1 DEF IsInjective
  <2> DEFINE A == Negated(lemma) \union {-l : l \in Reduced({pivot}, c)}
  <2>3. {-l : l \in Reduced({pivot}, c)} \subseteq Shared
    <3> SUFFICES ASSUME NEW l \in Reduced({pivot}, c) PROVE -l \in Shared  OBVIOUS
    <3>1. l \in Range(c) /\ -l # pivot  BY DEF Reduced
    <3>2. PICK j \in 1..Len(c) : c[j] = l  BY <1>5, <3>1, InRange
    <3>3. j # 1
      <4>1. l \in Lits  BY <1>5, <3>2 DEF Literals
      <4> QED  BY <1>2, <1>7, <1>12, <3>1, <3>2, Negation
    <3>4. j \in 2..Len(c)  BY <1>5, <3>2, <3>3
    <3>5. PICK q \in 1..n-1 : truStack[q] = -l  BY <1>6, <3>2, <3>4
    <3>6. q \in 1..depth  BY <1>2, <1>9, <2>2, <3>5
    <3> QED  BY <3>5, <3>6 DEF Shared
  <2>4. Negated(lemma) \subseteq Shared  BY <1>1 DEF Sharing
  <2>5. A \subseteq Shared  BY <2>3, <2>4
  <2>6. Shared \in SUBSET Lits  BY <1>1, SharedCoherent
  <2>7. ~Rup(lemma)  BY DEF PInv, Unproved
  <2>8. Refuted(A)
    <3>1. A \in SUBSET Lits  BY <2>5, <2>6
    <3>2. i \in Opposing(pivot)  BY DEF i
    <3>3. A = Negated(lemma) \union {-l : l \in Reduced({pivot}, clauses[i])}  BY DEF c
    <3> HIDE DEF A
    <3> QED  BY <2>7, <3>1, <3>2, <3>3 DEF QInv, Justly
  <2> HIDE DEF A
  <2>9. Rup(lemma)
    <3> SUFFICES ASSUME NEW S \in SUBSET Lits, Negated(lemma) \subseteq S, Closed(S),
                        ~ \E l \in S : l # 0 /\ -l \in S
                 PROVE  FALSE
      BY DEF Rup, Refuted, Closed
    <3>1. Shared \subseteq S  BY <1>1, SharedIn
    <3>2. A \subseteq S  BY <2>5, <3>1
    <3> QED  BY <2>8, <3>2 DEF Refuted, Closed
  <2> QED  BY <2>7, <2>9
<1> QED  BY <1>11, <1>12

LEMMA RefutesQ == ASSUME LInv, LInv', PInv, QInv, Refutes PROVE QInv' \/ pc' = "panic"
<1> SUFFICES ASSUME ~Panics PROVE QInv'  BY DEF Panics
<1> DEFINE g == [clause |-> resolvent, hints |-> Steps(Keep(New, Lits \ Shared))]
<1>1. /\ preRat' = preRat \o Steps(Keep(New, Shared)) /\ written' = Append(written, g)
      /\ task' = "rat" /\ pc' = "resolvents"
      /\ UNCHANGED <<context, lemma, pivot, witness, depth>>
  BY RefutesIs
<1>2. /\ pc = "found" /\ task = "resolve" /\ UNCHANGED <<ratSet, ratSetLit, unseen, resolvent>>
  BY DEF Refutes, Panics, cache
<1>3. UNCHANGED <<names, clauses, marked>> /\ Permuted  BY <1>1 DEF context, Permuted
<1>4. /\ TypedContext /\ TypedContext' /\ TypedTrail /\ RatTyped /\ Grounded
  BY EFacts, SameContextNext DEF LInv, E!IInv, E!Typed
<1>5. Opposing(pivot)' = Opposing(pivot)  BY <1>1, <1>3 DEF Opposing
<1>6. CacheExact'  BY <1>2, <1>3 DEF QInv, CacheExact, Opposing
<1>7. OnPivot'
  <2>1. Range(lemma)' = Range(lemma)  BY <1>1 DEF Range
  <2>2. depth > 0 /\ witness = {pivot} /\ pivot # 0 /\ pivot \in Range(lemma)
        /\ unseen \intersect names \subseteq Opposing(pivot)
    BY <1>2 DEF QInv, OnPivot
  <2> QED  BY <1>1, <1>2, <1>3, <1>5, <2>1, <2>2 DEF OnPivot
<1>8. Justly'  BY <1>1, <1>2, <1>3, <1>4, SameJustly DEF QInv
<1>9. written \in Seq(Groups) /\ preRat \in Seq(names)  BY <1>4 DEF RatTyped
<1>10. \A T : /\ Keep(New, T) \in Seq(Lits) /\ Steps(Keep(New, T)) \in Seq(names)
              /\ Range(Steps(Keep(New, T))) \intersect Opposing(pivot) = {}
  <2> TAKE T
  <2> DEFINE s == Keep(New, T)
  <2>1. New \in Seq(Lits) /\ \A x \in Range(New) : IsTrue(x)  BY <1>2, ExplainedIs
  <2>2. s \in Seq(Lits) /\ \A x \in Range(s) : IsTrue(x)  BY <2>1, KeepFacts
  <2> HIDE DEF s
  <2>3. Steps(s) \in Seq(names)  BY <1>4, <2>2, StepsNamed
  <2>4. \A n \in 1..Len(Steps(s)) : Steps(s)[n] \notin Opposing(pivot)
    <3> TAKE n \in 1..Len(Steps(s))
    <3>1. PICK x \in Range(s) : Steps(s)[n] = reasons[x] /\ reasons[x] # None
      BY <1>4, <2>2, StepsFacts
    <3> QED  BY <1>2, <2>2, <3>1, ReasonOpposesNot
  <2>5. Range(Steps(s)) \intersect Opposing(pivot) = {}
    <3> DEFINE t == Steps(s)
    <3> HIDE DEF t
    <3>1. \A y \in Range(t) : \E n \in 1..Len(t) : t[n] = y  BY <2>3, InRange DEF t
    <3>2. Range(t) \intersect Opposing(pivot) = {}  BY <2>4, <3>1 DEF t
    <3> QED  BY <3>2 DEF t
  <2> QED  BY <2>2, <2>3, <2>5 DEF s
<1> HIDE DEF g
<1>11. g.clause = resolvent /\ g.hints = Steps(Keep(New, Lits \ Shared)) /\ g \in Groups
  <2>1. resolvent \in names  BY <1>2 DEF QInv, OnPivot, Opposing
  <2> QED  BY <1>10, <2>1 DEF g, Groups
<1>12. Range(written') = Range(written) \union {g}
  <2> DEFINE w == written
  <2> HIDE DEF w
  <2>1. Range(Append(w, g)) = Range(w) \union {g}  BY <1>9, <1>11, RangeNext DEF w
  <2> QED  BY <1>1, <2>1 DEF w
<1>13. Range(written)' = Range(written')  BY DEF Range
<1>14. AllListed'
  <2>1. \A i \in Opposing(pivot) : Full \/ i \in marked =>
          \/ i \in unseen \/ i = resolvent \/ \E h \in Range(written) : h.clause = i
    BY <1>2 DEF QInv, AllListed
  <2>2. \A i \in Opposing(pivot) : Full \/ i \in marked =>
          \/ i \in unseen \/ \E h \in Range(written') : h.clause = i
    BY <1>11, <1>12, <2>1
  <2> QED  BY <1>1, <1>2, <1>3, <1>5, <1>13, <2>2 DEF AllListed
<1>15. Range(preRat)' = Range(preRat) \union Range(Steps(Keep(New, Shared)))
  <2> DEFINE s == Steps(Keep(New, Shared))
             h == preRat
  <2>1. s \in Seq(names) /\ h \in Seq(names)  BY <1>9, <1>10
  <2> HIDE DEF s, h
  <2>2. Range(h \o s) = Range(h) \union Range(s)  BY <2>1, Concatenated
  <2>3. preRat' = h \o s  BY <1>1 DEF h, s
  <2>4. Range(preRat)' = Range(preRat')  BY DEF Range
  <2> QED  BY <2>2, <2>3, <2>4 DEF h, s
<1>16. Untouching'
  <2>1. Named' = Range(preRat)' \union UNION {Range(h.hints) : h \in Range(written')}
    BY <1>13 DEF Named, Range
  <2>2. Named' = Named \union Range(Steps(Keep(New, Shared))) \union Range(g.hints)
    <3> HIDE DEF Shared
    <3> QED  BY <1>12, <1>15, <2>1 DEF Named
  <2>3. Named \intersect Opposing(pivot) = {}  BY <1>2 DEF QInv, Untouching
  <2>4. Named' \intersect Opposing(pivot) = {}  BY <1>10, <1>11, <2>2, <2>3
  <2> QED  BY <1>5, <2>4 DEF Untouching
<1> QED  BY <1>6, <1>7, <1>8, <1>14, <1>16 DEF QInv

-----------------------------------------------------------------------------
(* One step per action.                                                    *)

LEMMA RatNextQ ==
  ASSUME Witnesses = {}, LInv, LInv', PInv, QInv, RatNext
  PROVE  QInv' \/ pc' = "panic"
<1>1. CASE \E i \in Ids : Insert(i) \/ Need(i) \/ Take(i)  BY <1>1, InsertQ, NeedQ, TakeQ
<1>2. CASE BeginStep  BY <1>2, BeginStepQ
<1>3. CASE Run  BY <1>3, RunQ
<1>4. CASE RoundEnds  BY <1>4, RoundEndsQ
<1>5. CASE Proved  BY <1>5, ProvedQ
<1>6. CASE NotProved  BY <1>6, NotProvedQ
<1>7. CASE NextResolvent  BY <1>7, NextResolventQ
<1>8. CASE AssumeReduct  BY <1>8, AssumeReductQ
<1>9. CASE Refutes  BY <1>9, RefutesQ
<1>10. CASE CannotRefute  BY <1>10, CannotRefuteL
<1>11. CASE Write  BY <1>11, WriteQ
<1> QED
  BY <1>1, <1>2, <1>3, <1>4, <1>5, <1>6, <1>7, <1>8, <1>9, <1>10, <1>11 DEF RatNext, RatEngine

-----------------------------------------------------------------------------
(* What the invariants say.                                                *)

(* The step is valid and does not follow by unit propagation: a resolvent     *)
(* whose literals are false on the trail is refuted by it.                   *)
LEMMA ResolventFalse ==
  ASSUME LInv, PInv, QInv, pc = "stuck", task = "resolve", Steady,
         Negated(lemma) \subseteq Range(truStack), NEW i \in Opposing(pivot),
         \A l \in Reduced({pivot}, clauses[i]) : IsFalse(l)
  PROVE  FALSE
<1> DEFINE A == Negated(lemma) \union {-l : l \in Reduced({pivot}, clauses[i])}
<1>1. /\ EPc = "stuck" /\ E!IInv /\ TypedTrail  BY ResolvePlaces
<1>2. E!SInv  BY <1>1 DEF PInv, Prepared, E!SInv
<1>3. A \subseteq Range(truStack)  BY DEF IsFalse, IsTrue
<1>4. Range(truStack) \subseteq Lits
  <2>1. truStack \in Seq(Lits)  BY <1>1 DEF TypedTrail
  <2> QED  BY <2>1, InRange
<1>5. Refuted(A)
  <2>1. ~Rup(lemma)  BY DEF PInv, Unproved
  <2>2. A \in SUBSET Lits  BY <1>3, <1>4
  <2>3. A = Negated(lemma) \union {-l : l \in Reduced({pivot}, clauses[i])}  OBVIOUS
  <2> HIDE DEF A
  <2> QED  BY <2>1, <2>2, <2>3 DEF QInv, Justly
<1> HIDE DEF A
<1>6. \A B \in SUBSET E!Range(truStack) : ~E!Refuted(B)  BY <1>1, <1>2, Constants, E!StuckHolds
<1>7. E!Range(truStack) = Range(truStack)  BY SameContext
<1> QED  BY <1>3, <1>5, <1>6, <1>7, SameGoal

LEMMA StuckIsRight == ASSUME LInv, PInv, QInv PROVE StuckRightly
<1> SUFFICES ASSUME pc = "stuck", task = "resolve", closed \/ written = <<>>,
                    Negated(lemma) \subseteq Range(truStack)
             PROVE  FALSE
  BY DEF StuckRightly
<1>1. /\ Steady /\ witness = {pivot} /\ pivot # 0 /\ pivot \in Range(lemma)
      /\ resolvent \in Opposing(pivot)
  BY DEF Steady, QInv, OnPivot
<1>2. /\ TypedContext /\ TypedTrail /\ Grounded /\ E!IInv /\ pivot \in Lits
  BY EFacts DEF LInv, RatTyped
<1>3. CASE ~AtRoot
  <2>1. \A l \in Reduced({pivot}, clauses[resolvent]) : IsFalse(l)
    BY <1>1, <1>3 DEF PInv, AllDenied
  <2> QED  BY <1>1, <2>1, ResolventFalse
<1>4. CASE AtRoot
  <2>1. EGoal = <<>>  BY <1>4, ResolvePlaces
  <2>2. Negated(EGoal) = {}  BY <2>1 DEF Negated, Range
  <2>3. \A n \in 1..Len(truStack) : reasons[truStack[n]] # None  BY <1>2, <2>2, EFacts
  <2>4. -pivot \in Range(truStack) /\ truStack \in Seq(Lits) /\ Len(truStack) \in Nat
    BY <1>1, <1>2 DEF Negated, TypedTrail
  <2>5. PICK n \in 1..Len(truStack) : truStack[n] = -pivot  BY <2>4, InRange
  <2>6. Forced(n)  BY <1>2, <2>3, <2>5 DEF Grounded
  <2> DEFINE j == reasons[truStack[n]]
             c == clauses[j]
  <2>7. j \in names /\ -pivot = UnitLit(c) /\ c \in Seq(Literals) /\ Len(c) \in Nat
        /\ \A k \in 2..Len(c) : \E m \in 1..n-1 : truStack[m] = -c[k]
    BY <1>2, <2>5, <2>6 DEF Forced, TypedContext
  <2> HIDE DEF j
  <2> HIDE DEF c
  <2>8. c # <<>> /\ c[1] = -pivot
    <3>1. -pivot # 0
      <4>1. pivot = -(-pivot)  BY <1>2, Negation
      <4> QED  BY <1>1, <1>2, Sizes DEF Lits
    <3> QED  BY <2>7, <3>1 DEF UnitLit
  <2>9. 1 \in 1..Len(c)  BY <2>7, <2>8
  <2>10. j \in Opposing(pivot)
    <3>1. -pivot \in Range(c)  BY <2>7, <2>8, <2>9, InRange
    <3> QED  BY <2>7, <3>1 DEF Opposing, c
  <2>11. \A l \in Reduced({pivot}, c) : IsFalse(l)
    <3> SUFFICES ASSUME NEW l \in Reduced({pivot}, c) PROVE IsFalse(l)  OBVIOUS
    <3>1. l \in Range(c) /\ -l # pivot  BY DEF Reduced
    <3>2. PICK k \in 1..Len(c) : c[k] = l  BY <2>7, <3>1, InRange
    <3>3. k # 1  BY <1>2, <2>8, <3>1, <3>2, Negation
    <3>4. k \in 2..Len(c)  BY <2>7, <3>2, <3>3
    <3>5. PICK m \in 1..n-1 : truStack[m] = -l  BY <2>7, <3>2, <3>4
    <3>6. m \in 1..Len(truStack)  BY <2>4, <2>5, <3>5
    <3> QED  BY <2>4, <3>5, <3>6, InRange DEF IsFalse, IsTrue
  <2> QED  BY <1>1, <2>10, <2>11, ResolventFalse DEF c
<1> QED  BY <1>3, <1>4

LEMMA AllAreListed == ASSUME LInv, QInv PROVE ResolventsListed
<1> SUFFICES ASSUME pc = "write", task = "rat",
                    NEW i \in (IF Full THEN names ELSE marked \union Cited),
                    Touches(witness, clauses[i])
             PROVE  \E n \in DOMAIN written : written[n].clause = i
  BY DEF ResolventsListed
<1>1. TypedContext /\ RatTyped  BY EFacts DEF LInv
<1>2. i \in names
  <2>1. Cited \subseteq names  BY <1>1, CitedNames
  <2> QED  BY <1>1, <2>1 DEF TypedContext
<1>3. witness = {pivot} /\ pivot \in Lits  BY <1>1 DEF QInv, OnPivot, RatTyped
<1>4. i \in Opposing(pivot)
  <2>1. PICK l \in Range(clauses[i]) : -l \in witness  BY DEF Touches
  <2>2. clauses[i] \in Seq(Literals)  BY <1>1, <1>2 DEF TypedContext
  <2>3. l \in Lits  BY <2>1, <2>2, InRange DEF Literals
  <2>4. l = -pivot  BY <1>3, <2>1, <2>3, Negation
  <2> QED  BY <1>2, <2>1, <2>4 DEF Opposing
<1>5. \E g \in Range(written) : g.clause = i
  <2>1. CASE Full \/ i \in marked  BY <1>4, <2>1 DEF QInv, AllListed
  <2>2. CASE i \in Cited
    <3>1. i \notin Named  BY <1>4 DEF QInv, Untouching
    <3> QED  BY <2>2, <3>1 DEF Cited, Named
  <2> QED  BY <2>1, <2>2
<1> QED  BY <1>5 DEF Range

LEMMA FreshAlways == ASSUME LInv, QInv PROVE SpecialCaseFresh
<1>1. ASSUME pc = "write", task = "rat", depth = 0 PROVE Opposing(pivot) = {}
  BY <1>1 DEF QInv, OnPivot
<1> QED  BY <1>1 DEF SpecialCaseFresh, Opposing

-----------------------------------------------------------------------------
(* The invariant, until the program stops.                                  *)
TInv == pc = "panic" \/ (LInv /\ PInv /\ QInv)

LEMMA RatStepTInv ==
  ASSUME Witnesses = {}, TInv, [RatNext]_ratVars
  PROVE  TInv'
<1>1. CASE pc = "panic"
  <2>1. pc' = "panic"  BY <1>1, StopsForGood
  <2> QED  BY <2>1 DEF TInv
<1>2. CASE LInv /\ PInv /\ QInv /\ RatNext
  <2>1. RInv'  BY <1>2, RatNextInv
  <2>2. CASE pc' = "panic"  BY <2>2 DEF TInv
  <2>3. CASE pc' # "panic"
    <3>1. LInv'  BY <2>1, <2>3 DEF RInv
    <3>2. PInv'  BY <1>2, <2>3, <3>1, RatNextP
    <3>3. QInv'  BY <1>2, <2>3, <3>1, RatNextQ
    <3> QED  BY <3>1, <3>2, <3>3 DEF TInv
  <2> QED  BY <2>2, <2>3
<1>3. CASE LInv /\ PInv /\ QInv /\ UNCHANGED ratVars
  <2>1. LInv'  BY <1>3, StutterL
  <2> QED  BY <1>3, <2>1, StutterP, StutterQ DEF TInv
<1> QED  BY <1>1, <1>2, <1>3 DEF TInv

LEMMA TInvAlways == ASSUME Witnesses = {} PROVE RatSpec => []TInv
<1>1. RatInit => TInv  BY RatInitInv, RatInitP, RatInitQ DEF TInv
<1>2. TInv /\ [RatNext]_ratVars => TInv'  BY RatStepTInv
<1> QED  BY <1>1, <1>2, PTL DEF RatSpec

LEMMA TInvSays == ASSUME TInv PROVE StuckRightly /\ ResolventsListed /\ SpecialCaseFresh
<1>1. CASE pc = "panic"  BY <1>1 DEF StuckRightly, ResolventsListed, SpecialCaseFresh
<1>2. CASE LInv /\ PInv /\ QInv  BY <1>2, StuckIsRight, AllAreListed, FreshAlways
<1> QED  BY <1>1, <1>2 DEF TInv

(* Without PR steps, elab() gives up on a resolvent of a valid step only where  *)
(* propagate() dropped the hypotheses, or after a resolvent that left the      *)
(* shared part of the trail half propagated ("Unit propagation stuck").       *)
THEOREM StuckOnlyRightly == ASSUME Witnesses = {} PROVE RatSpec => []StuckRightly
<1>1. TInv => StuckRightly  BY TInvSays
<1> QED  BY <1>1, TInvAlways, PTL

(* And none is missing from the hint, so the assertion of pr_resolve_one()      *)
(* would hold for every clause the checker has.                              *)
THEOREM NoneMissing == ASSUME Witnesses = {} PROVE RatSpec => []ResolventsListed
<1>1. TInv => ResolventsListed  BY TInvSays
<1> QED  BY <1>1, TInvAlways, PTL

(* The special case of run_step() accepts without a proof only a step with      *)
(* whose pivot no clause is resolved: it takes a PR step to make it wrong.     *)
THEOREM FreshWithoutPr == ASSUME Witnesses = {} PROVE RatSpec => []SpecialCaseFresh
<1>1. TInv => SpecialCaseFresh  BY TInvSays
<1> QED  BY <1>1, TInvAlways, PTL
=============================================================================
