--------------------------- MODULE DratchkProofs ---------------------------
(***************************************************************************)
(* Proofs about Dratchk for every set of clauses and every length of proof: *)
(* the second pass replays the lists of the first exactly, whatever the     *)
(* search for reasons cites is printed before it is cited and implies the  *)
(* clause, and where it gives up unit propagation does not get there.      *)
(***************************************************************************)
EXTENDS Dratchk, FiniteSetTheorems, SequenceTheorems, TLAPS

-----------------------------------------------------------------------------
(* Lemmas about the operators.                                             *)

(* Front drops the last element and nothing else.                          *)
LEMMA FrontLemma ==
  ASSUME NEW S, NEW s \in Seq(S), s # <<>>
  PROVE  /\ Front(s) \in Seq(S) /\ Len(Front(s)) = Len(s) - 1
         /\ \A i \in 1..Len(s)-1 : Front(s)[i] = s[i]
         /\ Last(s) \in S /\ Len(s) \in Nat \ {0}
<1>1. Len(s) \in Nat \ {0}  OBVIOUS
<1>2. \A i \in 1..Len(s)-1 : s[i] \in S  OBVIOUS
<1>3. Front(s) \in Seq(S) /\ Len(Front(s)) = Len(s) - 1
      /\ \A i \in 1..Len(s)-1 : Front(s)[i] = s[i]
  <2> DEFINE n == Len(s) - 1
  <2>1. n \in Int /\ 1 \in Int /\ \A i \in 1..n : s[i] \in S  BY <1>1, <1>2
  <2>2. /\ SubSeq(s, 1, n) \in Seq(S)
        /\ Len(SubSeq(s, 1, n)) = IF 1 <= n THEN n-1+1 ELSE 0
        /\ \A i \in 1..n-1+1 : SubSeq(s, 1, n)[i] = s[1+i-1]
    <3> HIDE DEF n
    <3> QED  BY <2>1, SubSeqProperties
  <2>3. n = Len(s) - 1 /\ Front(s) = SubSeq(s, 1, n)  BY DEF Front
  <2> HIDE DEF n
  <2>4. \A i \in 1..n : i \in 1..n-1+1 /\ s[1+i-1] = s[i]  BY <2>1
  <2> QED  BY <1>1, <2>1, <2>2, <2>3, <2>4
<1> QED  BY <1>1, <1>3 DEF Last

(* What is appended is what Front drops.                                   *)
LEMMA FrontAppend ==
  ASSUME NEW S, NEW s \in Seq(S), NEW x \in S
  PROVE  Front(Append(s, x)) = s /\ Last(Append(s, x)) = x /\ Append(s, x) # <<>>
<1>1. Append(s, x) \in Seq(S) /\ Append(s, x) # <<>>  BY AppendProperties
<1>2. Front(Append(s, x)) \in Seq(S) /\ Len(Front(Append(s, x))) = Len(s)
      /\ \A i \in 1..Len(s) : Front(Append(s, x))[i] = Append(s, x)[i]
  <2>1. Len(Append(s, x)) - 1 = Len(s)  OBVIOUS
  <2> QED  BY <1>1, <2>1, FrontLemma
<1>3. \A i \in 1..Len(s) : Front(Append(s, x))[i] = s[i]  BY <1>2
<1> QED  BY <1>1, <1>2, <1>3, SeqEqual DEF Last

(* swap_remove and swap_insert keep lists lists.                           *)
LEMMA SwapRemoveType ==
  ASSUME NEW S, NEW s \in Seq(S), NEW i \in 1..Len(s)
  PROVE  SwapRemove(s, i) \in Seq(S) /\ Len(SwapRemove(s, i)) = Len(s) - 1
<1>1. Len(s) \in Nat \ {0}  OBVIOUS
<1>2. SwapRemove(s, i) \in [1..Len(s)-1 -> S]  BY <1>1 DEF SwapRemove
<1> QED  BY <1>1, <1>2

(* swap_insert() at the place of swap_remove() restores the list.           *)
LEMMA SwapUndo ==
  ASSUME NEW S, NEW s \in Seq(S), NEW i \in 1..Len(s)
  PROVE  SwapInsert(SwapRemove(s, i), i, s[i]) = s
<1> DEFINE r == SwapRemove(s, i)
<1>1. Len(s) \in Nat \ {0} /\ Len(r) = Len(s) - 1  BY SwapRemoveType
<1>2. \A j \in 1..Len(s)-1 : r[j] = IF j = i THEN s[Len(s)] ELSE s[j]
  BY <1>1 DEF SwapRemove
<1>3. \A j \in 1..Len(s) :
        (IF j = i THEN s[i] ELSE IF j <= Len(r) THEN r[j] ELSE r[i]) = s[j]
  BY <1>1, <1>2
<1>4. SwapInsert(r, i, s[i])
        = [j \in 1..Len(s) |-> IF j = i THEN s[i] ELSE IF j <= Len(r) THEN r[j] ELSE r[i]]
  <2> HIDE DEF r
  <2> QED  BY <1>1 DEF SwapInsert
<1>5. SwapInsert(r, i, s[i]) = [j \in 1..Len(s) |-> s[j]]
  <2> HIDE DEF r
  <2> QED  BY <1>3, <1>4
<1> QED  BY <1>5

(* A reason has one of the four kinds and cites clauses of the list.        *)
LEMMA ReasonCites ==
  ASSUME NEW db, NEW cl
  PROVE  /\ FindReason(db, cl).kind \in {"HR", "RUP", "Sorry"}
         /\ FindReason(db, cl).cites \subseteq {db[i].step : i \in 1..Len(db)}
         /\ FindReason(db, cl) = [kind |-> FindReason(db, cl).kind,
                                  cites |-> FindReason(db, cl).cites]
<1>1. CASE Fits(db, cl) # {}
  <2>1. FindHyperResolution(db, cl) \subseteq {db[i].step : i \in 1..Len(db)}
    BY DEF FindHyperResolution, Fits, Units
  <2> QED  BY <1>1, <2>1 DEF FindReason
<1>2. CASE Fits(db, cl) = {} /\ Conflict(LocalSteps(db, cl))
  <2>1. RupSteps(db, cl) \subseteq 1..Len(db)  BY DEF RupSteps
  <2> QED  BY <1>2, <2>1 DEF FindReason
<1>3. CASE Fits(db, cl) = {} /\ ~Conflict(LocalSteps(db, cl))
  BY <1>3 DEF FindReason
<1> QED  BY <1>1, <1>2, <1>3
-----------------------------------------------------------------------------
(* The inductive invariant: the type, and how the lists of the first pass   *)
(* hang together.  List(k) is the list before step k, or the one of now.     *)

List(k) == IF k <= Len(steps) THEN snaps[k] ELSE active

(* Each step is undone from the list after it.                             *)
Replay ==
  \A k \in 1..Len(steps) :
    /\ steps[k].kind = "Add" =>
         /\ List(k+1) # <<>> /\ List(k) = Front(List(k+1))
         /\ Last(List(k+1)).step = k
    /\ steps[k].kind = "Del" => List(k) = SwapInsert(List(k+1), steps[k].at, steps[k].a)

IInv == TypeOK /\ Replay

(* A step of Pass1 that appends the list and what undoes the step.          *)
LEMMA Recorded ==
  ASSUME TypeOK, TypeOK', Replay, NEW x \in Steps,
         steps' = Append(steps, x), snaps' = Append(snaps, active),
         x.kind = "Add" => /\ active' # <<>> /\ active = Front(active')
                           /\ Last(active').step = Len(steps) + 1,
         x.kind = "Del" => active = SwapInsert(active', x.at, x.a)
  PROVE  Replay'
<1> USE DEF TypeOK
<1>0. /\ steps \in Seq(Steps) /\ snaps \in Seq(Seq(Actives)) /\ active \in Seq(Actives)
      /\ Len(snaps) = Len(steps) /\ Len(steps) \in Nat
  OBVIOUS
<1>1. /\ Len(steps') = Len(steps) + 1 /\ Len(steps) \in Nat
      /\ steps'[Len(steps)+1] = x /\ \A k \in 1..Len(steps) : steps'[k] = steps[k]
  BY <1>0, AppendProperties
<1>2. /\ snaps'[Len(steps)+1] = active
      /\ \A k \in 1..Len(steps) : steps'[k] = steps[k] /\ snaps'[k] = snaps[k]
  BY <1>0, <1>1, AppendProperties
<1>3. steps'[Len(steps)+1] = x /\ snaps'[Len(steps)+1] = active  BY <1>1, <1>2
<1>4. \A k \in 1..Len(steps)+1 : List(k)' = List(k)
  BY <1>1, <1>2, <1>3 DEF List
<1> PICK n \in Nat : n = Len(steps)  BY <1>1
<1>5. List(n+2)' = active'  BY <1>1 DEF List
<1>6. List(n+1) = active  BY <1>1 DEF List
<1>7. SUFFICES ASSUME NEW k \in 1..Len(steps)+1
               PROVE  /\ steps'[k].kind = "Add" =>
                           /\ List(k+1)' # <<>> /\ List(k)' = Front(List(k+1)')
                           /\ Last(List(k+1)').step = k
                      /\ steps'[k].kind = "Del" =>
                           List(k)' = SwapInsert(List(k+1)', steps'[k].at, steps'[k].a)
  BY <1>1 DEF Replay
<1>8. CASE k = Len(steps) + 1
  <2>1. k = n + 1 /\ k + 1 = n + 2  BY <1>1, <1>8
  <2>2. List(k)' = active /\ List(k+1)' = active'  BY <1>1, <1>4, <1>5, <1>6, <2>1
  <2> QED  BY <1>3, <1>8, <2>2
<1>9. CASE k \in 1..Len(steps)
  <2>1. k + 1 \in 1..Len(steps)+1  BY <1>1, <1>9
  <2> QED  BY <1>2, <1>4, <1>9, <2>1 DEF Replay
<1> QED  BY <1>1, <1>8, <1>9

(* The second pass goes back to the list before the last step.             *)
LEMMA Restored ==
  ASSUME TypeOK, Replay, Back
  PROVE  /\ steps # <<>> /\ Len(steps) \in Nat \ {0}
         /\ active' = snaps[Len(steps)]
         /\ active' \in Seq(Actives)
         /\ steps' \in Seq(Steps) /\ Len(steps') = Len(steps) - 1
         /\ snaps' \in Seq(Seq(Actives)) /\ Len(snaps') = Len(steps) - 1
         /\ \A k \in 1..Len(steps)-1 : steps'[k] = steps[k] /\ snaps'[k] = snaps[k]
<1> USE DEF TypeOK
<1>1. steps # <<>>  BY DEF Back, UndoDel, UndoAdd
<1>2. snaps # <<>> /\ Len(steps) \in Nat \ {0}  BY <1>1
<1>3. steps' = Front(steps) /\ snaps' = Front(snaps)  BY DEF Back
<1>4. /\ steps' \in Seq(Steps) /\ Len(steps') = Len(steps) - 1
      /\ \A k \in 1..Len(steps)-1 : steps'[k] = steps[k]
  BY <1>1, <1>3, FrontLemma
<1>5. /\ snaps' \in Seq(Seq(Actives)) /\ Len(snaps') = Len(snaps) - 1
      /\ \A k \in 1..Len(snaps)-1 : snaps'[k] = snaps[k]
  BY <1>2, <1>3, FrontLemma
<1>6. List(Len(steps)) = snaps[Len(steps)] /\ List(Len(steps)+1) = active
  BY <1>2 DEF List
<1>7. Last(steps) = steps[Len(steps)]  BY DEF Last
<1>8. active' = snaps[Len(steps)]
  BY <1>2, <1>6, <1>7 DEF Replay, Back, UndoDel, UndoAdd
<1> QED  BY <1>1, <1>2, <1>4, <1>5, <1>8

(* The clause of the last step, if it added one, is the last of the list.   *)
LEMMA OnTop ==
  ASSUME TypeOK, Replay, Back, UndoAdd
  PROVE  /\ active # <<>> /\ Last(active).step = Len(steps)
         /\ Last(active) \in Actives /\ Front(active) \in Seq(Actives)
<1>1. Len(steps) \in Nat \ {0} /\ steps[Len(steps)].kind = "Add"
  BY Restored DEF UndoAdd, Last
<1>2. List(Len(steps)+1) = active  BY <1>1 DEF List
<1>3. Len(steps) \in 1..Len(steps)  BY <1>1
<1>4. List(Len(steps)+1) # <<>> /\ Last(List(Len(steps)+1)).step = Len(steps)
  BY <1>1, <1>3 DEF Replay
<1>5. active # <<>> /\ active \in Seq(Actives)  BY <1>2, <1>4 DEF TypeOK
<1> QED  BY <1>2, <1>4, <1>5, FrontLemma

(* What is left of the steps can still be undone.                          *)
LEMMA StillReplays ==
  ASSUME TypeOK, Replay, Back
  PROVE  Replay'
<1>1. /\ Len(steps) \in Nat \ {0} /\ Len(steps') = Len(steps) - 1
      /\ active' = snaps[Len(steps)]
      /\ \A k \in 1..Len(steps)-1 : steps'[k] = steps[k] /\ snaps'[k] = snaps[k]
  BY Restored
<1>2. \A k \in 1..Len(steps) : List(k)' = List(k)  BY <1>1 DEF List
<1>3. SUFFICES ASSUME NEW k \in 1..Len(steps)-1
               PROVE  /\ steps'[k].kind = "Add" =>
                           /\ List(k+1)' # <<>> /\ List(k)' = Front(List(k+1)')
                           /\ Last(List(k+1)').step = k
                      /\ steps'[k].kind = "Del" =>
                           List(k)' = SwapInsert(List(k+1)', steps'[k].at, steps'[k].a)
  BY <1>1 DEF Replay
<1>4. k \in 1..Len(steps) /\ k + 1 \in 1..Len(steps)  BY <1>1
<1> QED  BY <1>1, <1>2, <1>4 DEF Replay

-----------------------------------------------------------------------------
(* Type correctness and the replay.                                        *)

LEMMA TypeStep ==
  ASSUME IInv, [Next]_vars
  PROVE  TypeOK' /\ Replay'
<1> USE Bounds DEF TypeOK, IInv
<1>1. ASSUME NEW cl \in Clauses, NEW hyp \in BOOLEAN, Pass1Add(cl, hyp),
             pc' = pc, fmla' \in Seq(Clauses)
      PROVE  TypeOK' /\ Replay'
  <2> DEFINE a == [step |-> Len(steps) + 1, cl |-> cl, hyp |-> hyp]
             x == [kind |-> "Add"]
  <2>1. x \in Steps /\ x.kind = "Add"  BY DEF Steps
  <2>2. Len(steps) \in Nat /\ Len(steps) + 1 \in Tokens  BY <1>1 DEF Pass1Add, Tokens
  <2>3. a \in Actives /\ a.step = Len(steps) + 1  BY <2>2 DEF Actives
  <2>4. steps' = Append(steps, x) /\ active' = Append(active, a) /\ snaps' = Append(snaps, active)
    BY <1>1 DEF Pass1Add
  <2> HIDE DEF x, a
  <2>5. active' # <<>> /\ Front(active') = active /\ Last(active') = a
    <3>1. active \in Seq(Actives) /\ a \in Actives  BY <2>3
    <3>2. /\ Front(Append(active, a)) = active /\ Last(Append(active, a)) = a
          /\ Append(active, a) # <<>>
      BY <3>1, FrontAppend
    <3> QED  BY <2>4, <3>2
  <2>6. TypeOK'  BY <1>1, <2>1, <2>2, <2>3, <2>4 DEF Pass1Add
  <2> QED  BY <2>1, <2>3, <2>4, <2>5, <2>6, Recorded
<1>2. CASE AddHyp
  <2>1. Head(fmla) \in Clauses /\ Tail(fmla) \in Seq(Clauses)  BY <1>2 DEF AddHyp
  <2> QED  BY <1>1, <1>2, <2>1 DEF AddHyp
<1>3. ASSUME NEW cl \in Clauses, Add(cl) PROVE TypeOK' /\ Replay'
  BY <1>1, <1>3 DEF Add
<1>4. ASSUME NEW cl \in Clauses, Del(cl) PROVE TypeOK' /\ Replay'
  <2>1. PICK i \in Matches(cl) :
          /\ steps' = Append(steps, [kind |-> "Del", at |-> i, a |-> active[i]])
          /\ active' = SwapRemove(active, i)
          /\ snaps' = Append(snaps, active)
    BY <1>4 DEF Del
  <2> DEFINE x == [kind |-> "Del", at |-> i, a |-> active[i]]
  <2>2. i \in 1..Len(active) /\ active[i] \in Actives  BY DEF Matches
  <2>3. x \in Steps /\ x.kind = "Del" /\ x.at = i /\ x.a = active[i]  BY <2>2 DEF Steps
  <2>4. active' \in Seq(Actives) /\ SwapInsert(active', i, active[i]) = active
    BY <2>1, <2>2, SwapRemoveType, SwapUndo
  <2>5. steps' = Append(steps, x) /\ snaps' = Append(snaps, active)  BY <2>1
  <2> HIDE DEF x
  <2>6. TypeOK'  BY <1>4, <2>3, <2>4, <2>5 DEF Del
  <2> QED  BY <2>3, <2>4, <2>5, <2>6, Recorded
<1>5. ASSUME NEW cl \in Clauses, DelMissing(cl) PROVE TypeOK' /\ Replay'
  BY <1>5 DEF DelMissing, Replay, List
<1>6. CASE Turn
  <2>1. active # <<>> => Last(active).step \in Tokens
    <3>1. active # <<>> => Last(active) \in Actives  BY FrontLemma
    <3> QED  BY <3>1 DEF Actives
  <2> QED  BY <1>6, <2>1 DEF Turn, Replay, List
<1>7. CASE Back
  <2>1. /\ active' \in Seq(Actives) /\ steps' \in Seq(Steps)
        /\ Len(steps') = Len(steps) - 1
        /\ snaps' \in Seq(Seq(Actives)) /\ Len(snaps') = Len(steps) - 1
    BY <1>7, Restored
  <2>2. Len(steps') <= MaxSteps /\ Len(snaps') = Len(steps')
    BY <2>1, <1>7, Restored
  <2>3. needed' \subseteq Tokens
        /\ out' \in Seq([step : Tokens, cl : Clauses, reason : Reasons])
    <3>1. CASE UndoDel  BY <3>1 DEF UndoDel
    <3>2. CASE UndoAdd
      <4> DEFINE a == Last(active)
                 r == IF a.hyp THEN [kind |-> "Hyp", cites |-> {}]
                      ELSE FindReason(Front(active), a.cl)
      <4>3. a \in Actives /\ Front(active) \in Seq(Actives)  BY <1>7, <3>2, OnTop
      <4>4. FindReason(Front(active), a.cl) \in Reasons
        <5> DEFINE f == FindReason(Front(active), a.cl)
        <5>1. /\ f.kind \in {"HR", "RUP", "Sorry"}
              /\ f.cites \subseteq {Front(active)[i].step : i \in 1..Len(Front(active))}
              /\ f = [kind |-> f.kind, cites |-> f.cites]
          BY ReasonCites
        <5>2. \A i \in 1..Len(Front(active)) : Front(active)[i].step \in Tokens
          <6>1. \A i \in 1..Len(Front(active)) : Front(active)[i] \in Actives  BY <4>3
          <6> QED  BY <6>1 DEF Actives
        <5> HIDE DEF f
        <5>3. f.cites \in SUBSET Tokens  BY <5>1, <5>2
        <5>4. f.kind \in {"Hyp", "HR", "RUP", "Sorry"}  BY <5>1
        <5>5. [kind |-> f.kind, cites |-> f.cites] \in Reasons  BY <5>3, <5>4 DEF Reasons
        <5> QED  BY <5>1, <5>5 DEF f
      <4>5. r \in Reasons  BY <4>4 DEF Reasons
      <4>6. r.cites \subseteq Tokens  BY <4>5 DEF Reasons
      <4>7. a.step \in Tokens /\ a.cl \in Clauses  BY <4>3 DEF Actives
      <4>8. \/ out' = Append(out, [step |-> a.step, cl |-> a.cl, reason |-> r])
               /\ needed' = needed \union r.cites
            \/ UNCHANGED <<needed, out>>
        BY <3>2 DEF UndoAdd
      <4> HIDE DEF a, r
      <4>9. [step |-> a.step, cl |-> a.cl, reason |-> r]
              \in [step : Tokens, cl : Clauses, reason : Reasons]
        BY <4>5, <4>7
      <4> DEFINE rec == [step |-> a.step, cl |-> a.cl, reason |-> r]
      <4>10. rec \in [step : Tokens, cl : Clauses, reason : Reasons]  BY <4>9
      <4>11. \/ out' = Append(out, rec) /\ needed' = needed \union r.cites
             \/ out' = out /\ needed' = needed
        BY <4>8
      <4> DEFINE Outs == [step : Tokens, cl : Clauses, reason : Reasons]
      <4>12. out \in Seq(Outs) /\ needed \subseteq Tokens  OBVIOUS
      <4>13. Append(out, rec) \in Seq(Outs)
        <5> HIDE DEF rec, Outs
        <5> QED  BY <4>10, <4>12 DEF Outs
      <4> HIDE DEF rec
      <4> QED  BY <4>6, <4>11, <4>12, <4>13
    <3> QED  BY <1>7, <3>1, <3>2 DEF Back
  <2>4. pc' = pc /\ fmla' = fmla  BY <1>7 DEF Back
  <2> QED  BY <1>7, <2>1, <2>2, <2>3, <2>4, StillReplays
<1>8. CASE Number  BY <1>8 DEF Number, Replay, List
<1>9. CASE UNCHANGED vars  BY <1>9 DEF vars, Replay, List
<1> QED  BY <1>2, <1>3, <1>4, <1>5, <1>6, <1>7, <1>8, <1>9 DEF Next

(* Everything keeps its type and every step can be undone, always.          *)
THEOREM Invariance == Spec => []IInv
<1>1. Init => IInv
  BY FormulasAreFormulas, Bounds DEF Init, TypeOK, IInv, Replay
<1>2. IInv /\ [Next]_vars => IInv'
  BY TypeStep DEF IInv
<1> QED  BY <1>1, <1>2, PTL DEF Spec

(* Every variable has its type in every state.                             *)
THEOREM TypeCorrect == Spec => []TypeOK
<1>1. IInv => TypeOK  BY DEF IInv
<1> QED  BY <1>1, Invariance, PTL
-----------------------------------------------------------------------------
(* The refinement.                                                         *)

(* The two passes implement Rewind: Pass2 sees the lists of Pass1, each     *)
(* clause in its place, in the opposite order.                             *)
THEOREM RewindsAlways == Spec => Rewinds
<1>1. Init => R!Init  BY DEF Init, R!Init
<1>2. IInv /\ IInv' /\ [Next]_vars => [R!Next]_(R!vars)
  <2> SUFFICES ASSUME IInv, IInv', [Next]_vars PROVE [R!Next]_(R!vars)
    OBVIOUS
  <2>1. active' \in Seq(Actives)  BY DEF IInv, TypeOK
  <2>2. ASSUME snaps' = Append(snaps, active) PROVE R!Next
    BY <2>1, <2>2 DEF R!Next, R!Advance
  <2>3. CASE AddHyp  BY <2>2, <2>3 DEF AddHyp, Pass1Add
  <2>4. CASE \E cl \in Clauses : Add(cl) \/ Del(cl)
    BY <2>2, <2>4 DEF Add, Del, Pass1Add
  <2>5. CASE Back
    <3>1. active' = snaps[Len(steps)] /\ snaps' = Front(snaps)
      BY <2>5, Restored DEF Back, IInv
    <3>2. Len(snaps) = Len(steps) /\ Len(steps) \in Nat \ {0}
      BY <2>5, Restored DEF IInv, TypeOK
    <3> QED  BY <3>1, <3>2 DEF R!Next, R!Retreat, Front
  <2>6. CASE UNCHANGED <<active, snaps>>  BY <2>6 DEF R!vars
  <2>7. CASE Turn \/ Number \/ UNCHANGED vars \/ \E cl \in Clauses : DelMissing(cl)
    BY <2>6, <2>7 DEF Turn, Number, DelMissing, vars
  <2> QED  BY <2>3, <2>4, <2>5, <2>7 DEF Next
<1> QED  BY <1>1, <1>2, Invariance, PTL DEF Spec, Rewinds, R!Spec

-----------------------------------------------------------------------------
(* What is cited is printed before.                                        *)

(* The clauses of a list were added by steps before it.                    *)
Dated ==
  \A k \in 1..Len(steps)+1 : \A i \in 1..Len(List(k)) :
    /\ List(k)[i].step < k
    /\ steps[List(k)[i].step].kind = "Add"

(* A cited clause is printed already, or it is marked and the step that     *)
(* added it has not been undone yet.                                       *)
Pending ==
  /\ pc = "proof" => out = <<>>
  /\ pc = "done" => steps = <<>>
  /\ \A k \in 1..Len(out) : \A t \in out[k].reason.cites :
       \/ \E j \in k+1..Len(out) : out[j].step = t
       \/ t \in needed /\ t \in 1..Len(steps) /\ steps[t].kind = "Add"
(* A step of Pass1 puts no clause on the list but the one it adds.          *)
LEMMA StillDated ==
  ASSUME TypeOK, TypeOK', Dated, NEW x \in Steps,
         steps' = Append(steps, x), snaps' = Append(snaps, active),
         \A i \in 1..Len(active') :
           \/ \E j \in 1..Len(active) : active'[i] = active[j]
           \/ active'[i].step = Len(steps) + 1 /\ x.kind = "Add"
  PROVE  Dated'
<1>0. /\ active \in Seq(Actives) /\ active' \in Seq(Actives)
      /\ steps \in Seq(Steps) /\ steps' \in Seq(Steps)
      /\ snaps \in Seq(Seq(Actives)) /\ Len(snaps) = Len(steps)
      /\ Len(steps) \in Nat /\ MaxSteps \in Nat
  BY Bounds DEF TypeOK
<1> PICK n \in Nat : n = Len(steps)  BY <1>0
<1>1. /\ Len(steps') = n + 1 /\ steps'[n+1] = x /\ snaps'[n+1] = active
      /\ \A k \in 1..n : steps'[k] = steps[k] /\ snaps'[k] = snaps[k]
  <2>1. /\ Len(steps') = n + 1 /\ steps'[n+1] = x
        /\ \A k \in 1..n : steps'[k] = steps[k]
    BY <1>0, AppendProperties
  <2>2. snaps'[n+1] = active /\ \A k \in 1..n : snaps'[k] = snaps[k]
    BY <1>0, AppendProperties
  <2> QED  BY <2>1, <2>2
<1>2. \A k \in 1..n+1 : List(k)' = List(k)  BY <1>0, <1>1 DEF List
<1>3. List(n+2)' = active' /\ List(n+1) = active  BY <1>1 DEF List
<1>4. \A k \in 1..n+1 : \A i \in 1..Len(List(k)) : List(k)[i] \in Actives
  <2> SUFFICES ASSUME NEW k \in 1..n+1 PROVE List(k) \in Seq(Actives)
    OBVIOUS
  <2> QED  BY <1>0 DEF List
<1>5. \A k \in 1..n+1 : \A i \in 1..Len(List(k)) :
        /\ List(k)[i].step < k /\ List(k)[i].step \in 1..n
        /\ steps'[List(k)[i].step].kind = "Add"
  <2> SUFFICES ASSUME NEW k \in 1..n+1, NEW i \in 1..Len(List(k))
               PROVE  /\ List(k)[i].step < k /\ List(k)[i].step \in 1..n
                      /\ steps'[List(k)[i].step].kind = "Add"
    OBVIOUS
  <2>1. List(k)[i].step \in Nat \ {0}  BY <1>0, <1>4 DEF Actives, Tokens
  <2>2. List(k)[i].step < k /\ steps[List(k)[i].step].kind = "Add"  BY DEF Dated
  <2>3. List(k)[i].step \in 1..n  BY <2>1, <2>2
  <2> QED  BY <1>1, <2>2, <2>3
<1>6. \A i \in 1..Len(active') :
        active'[i].step < n + 2 /\ steps'[active'[i].step].kind = "Add"
  <2> SUFFICES ASSUME NEW i \in 1..Len(active')
               PROVE  active'[i].step < n + 2 /\ steps'[active'[i].step].kind = "Add"
    OBVIOUS
  <2>1. CASE \E j \in 1..Len(active) : active'[i] = active[j]
    <3>1. PICK j \in 1..Len(active) : active'[i] = active[j]  BY <2>1
    <3>2. active[j].step \in 1..n /\ steps'[active[j].step].kind = "Add"
      BY <1>3, <1>5
    <3> QED  BY <3>1, <3>2
  <2>2. CASE active'[i].step = n + 1 /\ x.kind = "Add"
    BY <1>1, <2>2
  <2> QED  BY <2>1, <2>2
<1>7. \A k \in 1..n+2 : \A i \in 1..Len(List(k)') :
        List(k)'[i].step < k /\ steps'[List(k)'[i].step].kind = "Add"
  <2> SUFFICES ASSUME NEW k \in 1..n+2, NEW i \in 1..Len(List(k)')
               PROVE List(k)'[i].step < k /\ steps'[List(k)'[i].step].kind = "Add"
    OBVIOUS
  <2>1. CASE k \in 1..n+1  BY <1>2, <1>5, <2>1
  <2>2. CASE k = n+2
    <3>1. List(k)' = active'  BY <1>3, <2>2
    <3> QED  BY <1>6, <2>2, <3>1
  <2>3. k \in 1..n+1 \/ k = n+2  OBVIOUS
  <2> QED  BY <2>1, <2>2, <2>3
<1>8. 1..Len(steps')+1 = 1..n+2  BY <1>1
<1> QED  BY <1>7, <1>8 DEF Dated

(* Every step keeps the lists dated.                                       *)
LEMMA DatedStep ==
  ASSUME IInv, IInv', Dated, [Next]_vars
  PROVE  Dated'
<1>0. /\ active \in Seq(Actives) /\ active' \in Seq(Actives)
      /\ steps \in Seq(Steps) /\ steps' \in Seq(Steps)
      /\ snaps \in Seq(Seq(Actives)) /\ Len(snaps) = Len(steps)
      /\ Len(steps) \in Nat /\ MaxSteps \in Nat
  BY Bounds DEF TypeOK, IInv
<1>1. ASSUME NEW cl \in Clauses, NEW hyp \in BOOLEAN, Pass1Add(cl, hyp) PROVE Dated'
  <2> DEFINE a == [step |-> Len(steps) + 1, cl |-> cl, hyp |-> hyp]
             x == [kind |-> "Add"]
  <2>1. x \in Steps /\ x.kind = "Add" /\ a.step = Len(steps) + 1  BY DEF Steps
  <2>2. steps' = Append(steps, x) /\ snaps' = Append(snaps, active) /\ active' = Append(active, a)
    BY <1>1 DEF Pass1Add
  <2> HIDE DEF x, a
  <2>3. \A i \in 1..Len(active') : (\E j \in 1..Len(active) : active'[i] = active[j]) \/ active'[i] = a
    <3>1. active \in Seq(Actives) /\ active' = Append(active, a)  BY <1>0, <2>2
    <3>2. Len(active) \in Nat /\ Len(active') = Len(active) + 1  BY <3>1
    <3>3. active'[Len(active)+1] = a /\ \A j \in 1..Len(active) : active'[j] = active[j]
      BY <3>1
    <3> QED  BY <3>2, <3>3
  <2>4. TypeOK /\ TypeOK'  BY DEF IInv
  <2> QED  BY <2>1, <2>2, <2>3, <2>4, StillDated
<1>2. CASE AddHyp
  <2>1. Head(fmla) \in Clauses  BY <1>2 DEF AddHyp, IInv, TypeOK
  <2> QED  BY <1>1, <1>2, <2>1 DEF AddHyp
<1>3. ASSUME NEW cl \in Clauses, Add(cl) PROVE Dated'
  BY <1>1, <1>3 DEF Add
<1>4. ASSUME NEW cl \in Clauses, Del(cl) PROVE Dated'
  <2>1. PICK i \in Matches(cl) :
          /\ steps' = Append(steps, [kind |-> "Del", at |-> i, a |-> active[i]])
          /\ active' = SwapRemove(active, i)
          /\ snaps' = Append(snaps, active)
    BY <1>4 DEF Del
  <2> DEFINE x == [kind |-> "Del", at |-> i, a |-> active[i]]
  <2>2. i \in 1..Len(active) /\ active[i] \in Actives  BY <1>0 DEF Matches
  <2>3. x \in Steps /\ steps' = Append(steps, x)  BY <2>1, <2>2 DEF Steps
  <2>4. \A h \in 1..Len(active') : \E j \in 1..Len(active) : active'[h] = active[j]
    <3>1. Len(active) \in Nat \ {0} /\ Len(active') = Len(active) - 1
      BY <1>0, <2>1, <2>2, SwapRemoveType
    <3> QED  BY <2>1, <3>1 DEF SwapRemove
  <2> HIDE DEF x
  <2>5. TypeOK /\ TypeOK'  BY DEF IInv
  <2> QED  BY <2>1, <2>3, <2>4, <2>5, StillDated
<1>5. CASE UNCHANGED <<steps, active, snaps>>
  BY <1>5 DEF Dated, List
<1>6. CASE Turn \/ Number \/ UNCHANGED vars \/ \E cl \in Clauses : DelMissing(cl)
  BY <1>5, <1>6 DEF Turn, Number, DelMissing, vars
<1>7. CASE Back
  <2>0. TypeOK /\ Replay  BY DEF IInv
  <2>1. PICK n \in Nat \ {0} : n = Len(steps)  BY <1>7, <2>0, Restored
  <2>2. /\ Len(steps') = n - 1 /\ active' = snaps[n]
        /\ \A k \in 1..n-1 : steps'[k] = steps[k] /\ snaps'[k] = snaps[k]
    BY <1>7, <2>0, <2>1, Restored
  <2>3. \A k \in 1..n : List(k)' = List(k)  BY <2>1, <2>2 DEF List
  <2>4. \A k \in 1..n : \A i \in 1..Len(List(k)) : List(k)[i] \in Actives
    <3> SUFFICES ASSUME NEW k \in 1..n PROVE List(k) \in Seq(Actives)
      OBVIOUS
    <3> QED  BY <1>0, <2>1 DEF List
  <2> SUFFICES ASSUME NEW k \in 1..n, NEW i \in 1..Len(List(k))
               PROVE  List(k)[i].step < k /\ steps'[List(k)[i].step].kind = "Add"
    BY <2>1, <2>2, <2>3 DEF Dated
  <2>5. List(k)[i].step \in Nat \ {0}  BY <1>0, <2>4 DEF Actives, Tokens
  <2>6. List(k)[i].step < k /\ steps[List(k)[i].step].kind = "Add"
    BY <2>1 DEF Dated
  <2>7. List(k)[i].step \in 1..n-1  BY <2>5, <2>6
  <2> QED  BY <2>2, <2>6, <2>7
<1> QED  BY <1>2, <1>3, <1>4, <1>6, <1>7 DEF Next
(* Undoing an addition prints the clause or leaves what was printed.        *)
LEMMA PendingUndoAdd ==
  ASSUME IInv, Dated, Pending, Back, UndoAdd
  PROVE  Pending'
<1>0. TypeOK /\ Replay  BY DEF IInv
<1>1. PICK n \in Nat \ {0} : n = Len(steps)  BY <1>0, Restored
<1>2. /\ Len(steps') = n - 1 /\ active' = snaps[n] /\ steps[n].kind = "Add"
      /\ \A k \in 1..n-1 : steps'[k] = steps[k]
  BY <1>0, <1>1, Restored DEF UndoAdd, Last
<1> DEFINE a == Last(active)
           r == IF a.hyp THEN [kind |-> "Hyp", cites |-> {}]
                ELSE FindReason(Front(active), a.cl)
<1>3. a.step = n /\ active' = Front(active) /\ Front(active) = List(n)
  BY <1>0, <1>1, <1>2, OnTop DEF UndoAdd, List
<1>4. \A t \in r.cites : t \in 1..n-1 /\ steps'[t].kind = "Add"
  <2> SUFFICES ASSUME NEW t \in r.cites PROVE t \in 1..n-1 /\ steps'[t].kind = "Add"
    OBVIOUS
  <2>1. \E i \in 1..Len(Front(active)) : t = Front(active)[i].step
    <3>1. CASE a.hyp  BY <3>1
    <3>2. CASE ~a.hyp  BY <3>2, ReasonCites
    <3> QED  BY <3>1, <3>2
  <2>2. PICK i \in 1..Len(Front(active)) : t = Front(active)[i].step  BY <2>1
  <2>3. t < n /\ steps[t].kind = "Add"  BY <1>1, <1>3, <2>2 DEF Dated
  <2>4. Front(active)[i] \in Actives
    <3>1. Front(active) \in Seq(Actives)  BY <1>0, OnTop
    <3> QED  BY <2>2, <3>1
  <2>5. t \in Nat \ {0}  BY <2>2, <2>4, Bounds DEF Actives, Tokens
  <2>6. t \in 1..n-1  BY <2>3, <2>5
  <2> QED  BY <1>2, <2>3, <2>6
<1>5. pc = "back" /\ pc' = pc  BY DEF Back, UndoAdd
<1>6. out \in Seq([step : Tokens, cl : Clauses, reason : Reasons])  BY <1>0 DEF TypeOK
<1> DEFINE Old(t) == t \in needed /\ t \in 1..n /\ steps[t].kind = "Add"
           New(t) == t \in needed' /\ t \in 1..n-1 /\ steps'[t].kind = "Add"
<1>7. \A k \in 1..Len(out) : \A t \in out[k].reason.cites :
        (\E j \in k+1..Len(out) : out[j].step = t) \/ Old(t)
  BY <1>1 DEF Pending
<1>8. \A t : Old(t) /\ t # n => t \in 1..n-1 /\ steps'[t].kind = "Add"
  BY <1>2
<1>9. SUFFICES \A k \in 1..Len(out') : \A t \in out'[k].reason.cites :
                 (\E j \in k+1..Len(out') : out'[j].step = t) \/ New(t)
  BY <1>2, <1>5 DEF Pending
<1>10. CASE a.hyp \/ a.step \in needed
  <2> DEFINE rec == [step |-> a.step, cl |-> a.cl, reason |-> r]
  <2>1. out' = Append(out, rec) /\ needed' = needed \union r.cites
    BY <1>10 DEF UndoAdd
  <2>2. rec.step = n /\ rec.reason.cites = r.cites  BY <1>3
  <2> HIDE DEF rec, r, a
  <2>3. /\ Len(out') = Len(out) + 1 /\ out'[Len(out)+1] = rec /\ Len(out) \in Nat
        /\ \A k \in 1..Len(out) : out'[k] = out[k]
    BY <1>6, <2>1
  <2> SUFFICES ASSUME NEW k \in 1..Len(out'), NEW t \in out'[k].reason.cites
               PROVE  (\E j \in k+1..Len(out') : out'[j].step = t) \/ New(t)
    OBVIOUS
  <2>4. CASE k = Len(out) + 1
    <3>1. t \in r.cites  BY <2>2, <2>3, <2>4
    <3> QED  BY <1>4, <2>1, <3>1
  <2>5. CASE k \in 1..Len(out)
    <3>1. t \in out[k].reason.cites  BY <2>3, <2>5
    <3>2. CASE \E j \in k+1..Len(out) : out[j].step = t
      <4>1. PICK j \in k+1..Len(out) : out[j].step = t  BY <3>2
      <4>2. j \in 1..Len(out) /\ j \in k+1..Len(out')  BY <2>3, <2>5
      <4> QED  BY <2>3, <4>1, <4>2
    <3>3. CASE Old(t) /\ t = n
      <4>1. out'[Len(out)+1].step = t /\ Len(out)+1 \in k+1..Len(out')
        BY <2>2, <2>3, <2>5, <3>3
      <4> QED  BY <4>1
    <3>4. CASE Old(t) /\ t # n  BY <1>8, <2>1, <3>4
    <3> QED  BY <1>7, <2>5, <3>1, <3>2, <3>3, <3>4
  <2>6. k = Len(out) + 1 \/ k \in 1..Len(out)  BY <2>3
  <2> QED  BY <2>4, <2>5, <2>6
<1>11. CASE ~(a.hyp \/ a.step \in needed)
  <2>1. out' = out /\ needed' = needed /\ n \notin needed
    BY <1>3, <1>11 DEF UndoAdd
  <2>2. \A t : Old(t) => New(t)  BY <1>8, <2>1
  <2> HIDE DEF Old, New
  <2> QED  BY <1>7, <2>1, <2>2
<1> QED  BY <1>10, <1>11

(* Every step keeps the cited clauses pending.                             *)
LEMMA PendingStep ==
  ASSUME IInv, Dated, Pending, [Next]_vars
  PROVE  Pending'
<1>1. CASE AddHyp \/ \E cl \in Clauses : Add(cl) \/ Del(cl)
  <2>1. pc = "proof" /\ pc' = "proof" /\ out' = out
    BY <1>1 DEF AddHyp, Add, Del, Pass1Add, Reading
  <2> QED  BY <2>1 DEF Pending
<1>2. CASE Turn \/ \E cl \in Clauses : DelMissing(cl)
  <2>1. out = <<>> /\ out' = out /\ pc' \in {"back", "panic"}
    BY <1>2 DEF Turn, DelMissing, Reading, Pending
  <2> QED  BY <2>1 DEF Pending
<1>3. CASE Back
  <2>0. TypeOK /\ Replay  BY DEF IInv
  <2>1. CASE UndoAdd  BY <1>3, <2>1, PendingUndoAdd
  <2>2. CASE UndoDel
    <3>1. PICK n \in Nat \ {0} : n = Len(steps)  BY <1>3, <2>0, Restored
    <3>2. /\ Len(steps') = n - 1 /\ steps[n].kind = "Del"
          /\ \A k \in 1..n-1 : steps'[k] = steps[k]
      BY <1>3, <2>0, <2>2, <3>1, Restored DEF UndoDel, Last
    <3>3. out' = out /\ needed' = needed /\ pc' = "back"
      BY <1>3, <2>2 DEF UndoDel, Back
    <3>4. \A t \in 1..n : steps[t].kind = "Add" =>
            t \in 1..n-1 /\ steps'[t].kind = "Add"
      BY <3>1, <3>2
    <3> QED  BY <3>1, <3>2, <3>3, <3>4 DEF Pending
  <2> QED  BY <1>3, <2>1, <2>2 DEF Back
<1>4. CASE Number  BY <1>4 DEF Number, Pending
<1>5. CASE UNCHANGED vars  BY <1>5 DEF vars, Pending
<1> QED  BY <1>1, <1>2, <1>3, <1>4, <1>5 DEF Next

(* Each token that is printed has its number, smaller than the line's that  *)
(* cites it.                                                               *)
THEOREM CitedAlways == Spec => []CitedBefore
<1>1. Init => Dated /\ Pending
  BY DEF Init, Dated, Pending, List
<1>2. IInv /\ IInv' /\ Dated /\ Pending /\ [Next]_vars => Dated' /\ Pending'
  BY DatedStep, PendingStep
<1>3. Pending => CitedBefore
  BY DEF Pending, CitedBefore
<1> QED  BY <1>1, <1>2, <1>3, Invariance, PTL DEF Spec

-----------------------------------------------------------------------------
(* The reasons: what is found implies its clause, and what is not found is  *)
(* not there.                                                              *)

(* A set of natural numbers has a least one.                                *)
LEMMA Least ==
  ASSUME NEW T, T \subseteq Nat, T # {}
  PROVE  \E x \in T : \A y \in T : x <= y
<1> DEFINE Below == {x \in Nat \X Nat : x[1] < x[2]}
<1>1. IsWellFoundedOn(Below, Nat)
  <2>1. IsWellFoundedOn(OpToRel(<, Nat), Nat)  BY NatLessThanWellFounded
  <2>2. OpToRel(<, Nat) = Below  BY DEF OpToRel
  <2> HIDE DEF Below
  <2> QED  BY <2>1, <2>2
<1>2. \A y, x \in Nat : y < x => <<y, x>> \in Below  OBVIOUS
<1> HIDE DEF Below
<1>3. PICK x \in T : \A y \in T : ~ (<<y, x>> \in Below)  BY <1>1, WFMin
<1>4. \A y \in T : ~(y < x)  BY <1>2, <1>3
<1> QED  BY <1>3, <1>4

(* Induction up to n, for a set.                                           *)
LEMMA Upward ==
  ASSUME NEW n \in Nat, NEW P, 0 \in P, \A k \in 1..n : k - 1 \in P => k \in P
  PROVE  \A k \in 0..n : k \in P
<1> DEFINE Bad == {k \in 0..n : k \notin P}
<1>1. SUFFICES ASSUME Bad # {} PROVE FALSE  OBVIOUS
<1>2. Bad \subseteq Nat  OBVIOUS
<1>3. PICK k \in Bad : \A y \in Bad : k <= y
  <2> HIDE DEF Bad
  <2> QED  BY <1>1, <1>2, Least
<1>4. k \in 1..n /\ k - 1 \in 0..n /\ ~(k <= k - 1)  OBVIOUS
<1>5. k - 1 \in P  BY <1>3, <1>4
<1> QED  BY <1>4, <1>5

(* g has the states of a loop of n turns from b: G gives the next in turn k.  *)
LoopOf(g, n, S, b, G) ==
  /\ g \in [0..n -> S] /\ g[0] = b
  /\ \A k \in 1..n : g[k] = G[<<k, g[k-1]>>]

LEMMA LoopExists ==
  ASSUME NEW n, n \in Nat, NEW S, NEW b, b \in S, NEW G, G \in [(1..n) \X S -> S]
  PROVE  \E g : LoopOf(g, n, S, b, G)
<1> DEFINE Loop(g, m) == /\ g \in [0..m -> S] /\ g[0] = b
                         /\ \A k \in 1..m : g[k] = G[<<k, g[k-1]>>]
           P == {m \in 0..n : \E g : Loop(g, m)}
<1>1. 0 \in P
  <2> DEFINE g == [k \in 0..0 |-> b]
  <2>1. g \in [0..0 -> S] /\ g[0] = b /\ \A k \in 1..0 : FALSE  OBVIOUS
  <2> HIDE DEF g
  <2>2. Loop(g, 0)  BY <2>1
  <2> QED  BY <2>2
<1>2. ASSUME NEW m \in 1..n, m - 1 \in P PROVE m \in P
  <2>1. PICK g : Loop(g, m - 1)  BY <1>2
  <2> DEFINE x == G[<<m, g[m-1]>>]
             h == [k \in 0..m |-> IF k = m THEN x ELSE g[k]]
  <2>2. g[m-1] \in S /\ x \in S  BY <2>1
  <2> HIDE DEF x
  <2>3. \A k \in 0..m-1 : h[k] = g[k]  OBVIOUS
  <2>4. h \in [0..m -> S] /\ h[0] = b /\ h[m] = x /\ h[m-1] = g[m-1]
    <3>1. \A k \in 0..m : k = m \/ k \in 0..m-1  OBVIOUS
    <3>2. \A k \in 0..m-1 : g[k] \in S  BY <2>1
    <3>3. 0 \in 0..m-1 /\ m-1 \in 0..m-1 /\ m \in 0..m  OBVIOUS
    <3> QED  BY <2>1, <2>2, <2>3, <3>1, <3>2, <3>3
  <2> HIDE DEF h
  <2>5. \A k \in 1..m : h[k] = G[<<k, h[k-1]>>]
    <3> TAKE k \in 1..m
    <3>1. CASE k = m  BY <2>4, <3>1 DEF x
    <3>2. CASE k # m
      <4>1. k \in 1..m-1 /\ k \in 0..m-1 /\ k-1 \in 0..m-1  BY <3>2
      <4> QED  BY <2>1, <2>3, <4>1
    <3> QED  BY <3>1, <3>2
  <2>6. Loop(h, m)  BY <2>4, <2>5
  <2> QED  BY <2>6
<1>3. \A k \in 0..n : k \in P
  <2> HIDE DEF P
  <2> QED  BY <1>1, <1>2, Upward
<1>4. n \in P  BY <1>3
<1>5. \E g : Loop(g, n)  BY <1>4
<1> QED  BY <1>5 DEF LoopOf

-----------------------------------------------------------------------------
(* The list of local steps.                                                *)

LocalStep == [step : Nat, cl : Seq(Lits), lit : Lits \union {0}]

(* A local step is a literal of the clause to be proved, or it comes from a   *)
(* clause of the list whose other literals were falsified before, and its    *)
(* variable is new.  Only the last may be the conflict.                      *)
FromClause(db, s, k) ==
  /\ \E i \in 1..Len(db) : db[i].step = s[k].step /\ db[i].cl = s[k].cl
  /\ \A l \in ToSet(s[k].cl) : l = -s[k].lit \/ \E j \in 1..k-1 : j \in FalsifiedAt(s, l)
  /\ \A j \in 1..Len(s) : j # k => Var(s[j].lit) # Var(s[k].lit)
Locals(db, cl) ==
  {s \in Seq(LocalStep) :
     /\ \A k \in 1..Len(s)-1 : s[k].lit # 0
     /\ \A k \in 1..Len(s) :
          \/ s[k].step = 0 /\ s[k].cl = <<>> /\ s[k].lit \in ToSet(cl)
          \/ FromClause(db, s, k)}

LEMMA LitFacts ==
  /\ NumVars \in Nat /\ 0 \notin Lits
  /\ \A l \in Lits : l \in Int /\ -l \in Lits /\ -(-l) = l /\ l # 0
  /\ \A l \in Lits \union {0} : l \in Int /\ Var(l) \in Nat /\ Var(-l) = Var(l) /\ (Var(l) = 0 <=> l = 0)
BY Bounds DEF Lits, Var

LEMMA FalsifiedFacts ==
  ASSUME NEW s \in Seq(LocalStep), NEW l
  PROVE  FalsifiedAt(s, l) = {k \in 1..Len(s) : /\ s[k].lit = l
                                /\ \A j \in k+1..Len(s) : Var(s[j].lit) # Var(l)}
<1> DEFINE n == Len(s)
           t == [j \in 1..n |-> s[j].lit]
<1>1. n \in Nat /\ Len(t) = n
  <2>1. n \in Nat  OBVIOUS
  <2>2. DOMAIN t = 1..n  OBVIOUS
  <2>3. t \in Seq({s[j].lit : j \in 1..n})
    <3>1. \A j \in 1..n : t[j] \in {s[h].lit : h \in 1..n}  OBVIOUS
    <3> HIDE DEF n
    <3> QED  BY <2>1, <3>1
  <2> HIDE DEF n, t
  <2> QED  BY <2>1, <2>2, <2>3, LenProperties
<1>2. \A k \in 1..n : t[k] = s[k].lit /\ \A j \in k+1..n : j \in 1..n /\ t[j] = s[j].lit
  BY <1>1
<1>3. FalsifiedAt(s, l) = {k \in LastOnes(t) : s[k].lit = l}  BY DEF FalsifiedAt
<1> HIDE DEF t, n
<1>4. LastOnes(t) = {k \in 1..n : \A j \in k+1..n : Var(t[j]) # Var(t[k])}
  BY <1>1 DEF LastOnes
<1> QED  BY <1>2, <1>3, <1>4 DEF n

(* A step on a new variable takes nothing from what is falsified.            *)
LEMMA StillFalsified ==
  ASSUME NEW s \in Seq(LocalStep), NEW e \in LocalStep, NEW l,
         NEW k \in FalsifiedAt(s, l), Var(e.lit) # Var(s[k].lit)
  PROVE  k \in FalsifiedAt(Append(s, e), l)
<1> DEFINE t == Append(s, e)
<1>1. /\ t \in Seq(LocalStep) /\ Len(t) = Len(s) + 1 /\ t[Len(s)+1] = e /\ Len(s) \in Nat
      /\ \A j \in 1..Len(s) : t[j] = s[j]
  BY AppendProperties
<1> HIDE DEF t
<1>2. /\ k \in 1..Len(s) /\ s[k].lit = l /\ \A j \in k+1..Len(s) : Var(s[j].lit) # Var(l)
  BY FalsifiedFacts
<1>3. k \in 1..Len(t) /\ t[k].lit = l  BY <1>1, <1>2
<1>4. ASSUME NEW j \in k+1..Len(t) PROVE Var(t[j].lit) # Var(l)
  <2>1. CASE j = Len(s) + 1  BY <1>1, <1>2, <2>1
  <2>2. CASE j # Len(s) + 1
    <3>1. j \in k+1..Len(s) /\ j \in 1..Len(s)  BY <1>1, <1>2, <2>2
    <3> QED  BY <1>1, <1>2, <3>1
  <2> QED  BY <2>1, <2>2
<1>5. k \in FalsifiedAt(t, l)  BY <1>1, <1>3, <1>4, FalsifiedFacts
<1> QED  BY <1>5 DEF t

(* t goes on from s, with a new variable in each step.                       *)
Grows(s, t) ==
  /\ Len(s) <= Len(t)
  /\ \A k \in 1..Len(s) : t[k] = s[k]
  /\ \A k \in Len(s)+1..Len(t) : \A j \in 1..k-1 : Var(t[j].lit) # Var(t[k].lit)

LEMMA GrowsOn ==
  ASSUME NEW s \in Seq(LocalStep), NEW t \in Seq(LocalStep), NEW u \in Seq(LocalStep)
  PROVE  /\ Grows(s, s)
         /\ Grows(s, t) /\ Grows(t, u) => Grows(s, u)
         /\ Grows(s, t) /\ Len(t) <= Len(s) => t = s
<1>1. Len(s) \in Nat /\ Len(t) \in Nat /\ Len(u) \in Nat  OBVIOUS
<1>2. Grows(s, s)  BY <1>1 DEF Grows
<1>3. ASSUME Grows(s, t), Grows(t, u) PROVE Grows(s, u)
  <2>1. Len(s) <= Len(t) /\ Len(t) <= Len(u) /\ Len(s) <= Len(u)  BY <1>1, <1>3 DEF Grows
  <2>2. \A k \in 1..Len(s) : u[k] = s[k]
    <3> TAKE k \in 1..Len(s)
    <3>1. k \in 1..Len(t)  BY <1>1, <2>1
    <3> QED  BY <1>3, <3>1 DEF Grows
  <2>3. ASSUME NEW k \in Len(s)+1..Len(u), NEW j \in 1..k-1
        PROVE  Var(u[j].lit) # Var(u[k].lit)
    <3>1. CASE k \in Len(t)+1..Len(u)  BY <1>3, <3>1 DEF Grows
    <3>2. CASE k \in Len(s)+1..Len(t)
      <4>1. k \in 1..Len(t) /\ j \in 1..Len(t)  BY <1>1, <3>2
      <4>2. u[k] = t[k] /\ u[j] = t[j]  BY <1>3, <4>1 DEF Grows
      <4>3. Var(t[j].lit) # Var(t[k].lit)  BY <1>3, <3>2 DEF Grows
      <4> QED  BY <4>2, <4>3
    <3> QED  BY <1>1, <2>1, <3>1, <3>2
  <2> QED  BY <2>1, <2>2, <2>3 DEF Grows
<1>4. ASSUME Grows(s, t), Len(t) <= Len(s) PROVE t = s
  <2>1. Len(t) = Len(s) /\ \A k \in 1..Len(s) : t[k] = s[k]  BY <1>1, <1>4 DEF Grows
  <2> QED  BY <2>1, SeqEqual
<1> QED  BY <1>2, <1>3, <1>4

LEMMA OneMoreLocal ==
  ASSUME NEW db \in Seq(Actives), NEW cl \in Seq(Lits),
         NEW s \in Locals(db, cl), NEW e \in LocalStep,
         \E i \in 1..Len(db) : db[i].step = e.step /\ db[i].cl = e.cl,
         \A l \in ToSet(e.cl) : l = -e.lit \/ FalsifiedAt(s, l) # {},
         \A j \in 1..Len(s) : s[j].lit # 0 /\ Var(s[j].lit) # Var(e.lit)
  PROVE  Append(s, e) \in Locals(db, cl) /\ Grows(s, Append(s, e))
<1> DEFINE t == Append(s, e)
           n == Len(s)
<1>0. s \in Seq(LocalStep)  BY DEF Locals
<1>1. /\ t \in Seq(LocalStep) /\ Len(t) = n + 1 /\ t[n+1] = e /\ n \in Nat
      /\ \A j \in 1..n : t[j] = s[j]
  BY <1>0, AppendProperties
<1>2. ASSUME NEW l, NEW k \in FalsifiedAt(s, l) PROVE k \in 1..n /\ k \in FalsifiedAt(t, l)
  <2>1. k \in 1..n  BY <1>0, FalsifiedFacts
  <2>2. Var(e.lit) # Var(s[k].lit)  BY <2>1
  <2>3. k \in FalsifiedAt(t, l)  BY <1>0, <2>2, StillFalsified
  <2> QED  BY <2>1, <2>3
<1> HIDE DEF t
<1>3. ASSUME NEW k \in 1..n, FromClause(db, s, k) PROVE FromClause(db, t, k)
  <2>1. t[k] = s[k]  BY <1>1
  <2>2. ASSUME NEW l \in ToSet(t[k].cl), l # -t[k].lit
        PROVE  \E j \in 1..k-1 : j \in FalsifiedAt(t, l)
    BY <1>2, <1>3, <2>1, <2>2 DEF FromClause
  <2>3. ASSUME NEW j \in 1..n+1, j # k PROVE Var(t[j].lit) # Var(t[k].lit)
    <3>1. CASE j = n + 1  BY <1>1, <2>1, <3>1
    <3>2. CASE j # n + 1
      <4>1. n \in Nat  BY <1>1
      <4>2. j \in 1..n  BY <3>2, <4>1
      <4> QED  BY <1>1, <1>3, <2>1, <2>3, <4>2 DEF FromClause
    <3> QED  BY <3>1, <3>2
  <2> QED  BY <1>1, <1>3, <2>1, <2>2, <2>3 DEF FromClause
<1>4. FromClause(db, t, n + 1)
  <2>1. ASSUME NEW l \in ToSet(e.cl), l # -e.lit
        PROVE  \E j \in 1..n+1-1 : j \in FalsifiedAt(t, l)
    <3>1. PICK k : k \in FalsifiedAt(s, l)  BY <2>1
    <3>2. k \in 1..n /\ k \in FalsifiedAt(t, l)  BY <1>2, <3>1
    <3> QED  BY <1>1, <3>2
  <2>2. ASSUME NEW j \in 1..n+1, j # n + 1 PROVE Var(t[j].lit) # Var(e.lit)
    <3>1. j \in 1..n  BY <1>1, <2>2
    <3> QED  BY <1>1, <3>1
  <2> QED  BY <1>1, <2>1, <2>2 DEF FromClause
<1>5. \A k \in 1..Len(t)-1 : t[k].lit # 0  BY <1>1
<1>6. ASSUME NEW k \in 1..Len(t)
      PROVE  \/ t[k].step = 0 /\ t[k].cl = <<>> /\ t[k].lit \in ToSet(cl)
             \/ FromClause(db, t, k)
  <2>1. CASE k = n + 1  BY <1>4, <2>1
  <2>2. CASE k # n + 1
    <3>1. k \in 1..n /\ t[k] = s[k]  BY <1>1, <2>2
    <3> QED  BY <1>3, <3>1 DEF Locals
  <2> QED  BY <2>1, <2>2
<1>7. t \in Locals(db, cl)  BY <1>1, <1>5, <1>6 DEF Locals
<1>8. Grows(s, t)
  <2>1. n \in Nat /\ n <= n + 1 /\ \A k \in n+1..n+1 : k = n + 1  BY <1>1
  <2>2. \A j \in 1..n+1-1 : j \in 1..n  BY <2>1
  <2>3. \A j \in 1..n+1-1 : Var(t[j].lit) # Var(e.lit)  BY <1>1, <2>2
  <2>4. Len(t) = n + 1 /\ t[n+1] = e /\ \A j \in 1..n : t[j] = s[j]  BY <1>1
  <2> HIDE DEF n, t
  <2>5. \A k \in n+1..Len(t) : \A j \in 1..k-1 : Var(t[j].lit) # Var(t[k].lit)
    BY <2>1, <2>3, <2>4
  <2> USE DEF n
  <2>6. Len(s) <= Len(t) /\ \A k \in 1..Len(s) : t[k] = s[k]  BY <2>1, <2>4
  <2> QED  BY ONLY <2>5, <2>6 DEF Grows
<1> QED  BY <1>7, <1>8 DEF t

(* Where there is no conflict every literal is one.                         *)
LEMMA NoConflictLits ==
  ASSUME NEW db, NEW cl, NEW s \in Locals(db, cl), ~Conflict(s), NEW j \in 1..Len(s)
  PROVE  s[j].lit \in Lits /\ Var(s[j].lit) # 0
<1>0. s \in Seq(LocalStep) /\ Len(s) \in Nat  BY DEF Locals
<1>1. s # <<>> /\ s[Len(s)].lit # 0  BY <1>0 DEF Conflict, Last
<1>2. j \in 1..Len(s)-1 \/ j = Len(s)  BY <1>0
<1>3. s[j].lit # 0  BY <1>1, <1>2 DEF Locals
<1>4. s[j] \in LocalStep  BY <1>0
<1>5. s[j].lit \in Lits \union {0}  BY <1>4 DEF LocalStep
<1> QED  BY <1>3, <1>5, LitFacts

LEMMA ListClauses ==
  ASSUME NEW db \in Seq(Actives), NEW i \in 1..Len(db)
  PROVE  /\ db[i].cl \in Seq(Lits) /\ db[i].cl \in Clauses
         /\ db[i].step \in Nat \ {0}
<1>1. db[i] \in Actives  OBVIOUS
<1>2. db[i].cl \in Clauses /\ db[i].step \in Tokens  BY <1>1 DEF Actives
<1>3. MaxSteps \in Nat /\ Clauses \subseteq Seq(Lits)  BY Bounds, ClausesAreClauses
<1> QED  BY <1>2, <1>3 DEF Tokens

LEMMA ProcessGood ==
  ASSUME NEW db \in Seq(Actives), NEW cl \in Seq(Lits),
         NEW s \in Locals(db, cl), NEW i \in 1..Len(db)
  PROVE  ProcessLocal(s, db[i]) \in Locals(db, cl) /\ Grows(s, ProcessLocal(s, db[i]))
<1> DEFINE a == db[i]
           c == a.cl
           open == {h \in 1..Len(c) : FalsifiedAt(s, c[h]) = {}}
           up(l) == [step |-> a.step, cl |-> c, lit |-> l]
<1>0. /\ s \in Seq(LocalStep) /\ Len(s) \in Nat
      /\ c \in Seq(Lits) /\ a.step \in Nat
  BY ListClauses DEF Locals
<1>1. \A l \in ToSet(c) : \E h \in 1..Len(c) : l = c[h]
  <2> HIDE DEF a, c, open, up
  <2>1. DOMAIN c = 1..Len(c)  BY <1>0
  <2> QED  BY ONLY <2>1 DEF ToSet
<1>2. ASSUME ~Conflict(s) PROVE \A j \in 1..Len(s) : s[j].lit # 0 /\ Var(s[j].lit) # 0
  <2>1. \A j \in 1..Len(s) : s[j].lit \in Lits /\ Var(s[j].lit) # 0
    BY <1>2, NoConflictLits
  <2> QED  BY <2>1, LitFacts
<1>3. CASE ~Conflict(s) /\ open = {}
  <2>1. ProcessLocal(s, a) = Append(s, up(0))  BY <1>3 DEF ProcessLocal
  <2>2. up(0) \in LocalStep  BY <1>0 DEF LocalStep
  <2>3. \A l \in ToSet(c) : FalsifiedAt(s, l) # {}  BY <1>1, <1>3
  <2>4. Var(0) = 0  BY LitFacts
  <2>5. /\ up(0).step = a.step /\ up(0).cl = c /\ up(0).lit = 0  OBVIOUS
  <2> HIDE DEF up, open
  <2> QED  BY <1>2, <1>3, <2>1, <2>2, <2>3, <2>4, <2>5, OneMoreLocal
<1>4. CASE /\ ~Conflict(s) /\ open # {}
           /\ \E h \in open : /\ open = {h}
                              /\ ~ \E k \in 1..Len(s) : Var(s[k].lit) = Var(c[h])
  <2>1. PICK h \in open : /\ open = {h}
                          /\ ~ \E k \in 1..Len(s) : Var(s[k].lit) = Var(c[h])
    BY <1>4
  <2>2. (CHOOSE x \in open : TRUE) = h  BY <2>1
  <2>3. ProcessLocal(s, a) = Append(s, up(-c[CHOOSE x \in open : TRUE]))
    BY <1>4 DEF ProcessLocal
  <2>4. h \in 1..Len(c) /\ c[h] \in Lits  BY <1>0
  <2>5. -c[h] \in Lits /\ -(-c[h]) = c[h] /\ Var(-c[h]) = Var(c[h])  BY <2>4, LitFacts
  <2>6. up(-c[h]) \in LocalStep  BY <1>0, <2>5 DEF LocalStep
  <2>7. \A l \in ToSet(c) : l = c[h] \/ FalsifiedAt(s, l) # {}  BY <1>1, <2>1
  <2>8. /\ up(-c[h]).step = a.step /\ up(-c[h]).cl = c /\ up(-c[h]).lit = -c[h]  OBVIOUS
  <2>9. ProcessLocal(s, a) = Append(s, up(-c[h]))  BY <2>2, <2>3
  <2>10. \A j \in 1..Len(s) : s[j].lit # 0 /\ Var(s[j].lit) # Var(-c[h])
    BY <1>2, <1>4, <2>1, <2>5
  <2>11. \A l \in ToSet(c) : l = -(-c[h]) \/ FalsifiedAt(s, l) # {}  BY <2>5, <2>7
  <2> HIDE DEF up, open
  <2> QED  BY <2>6, <2>8, <2>9, <2>10, <2>11, OneMoreLocal
<1>5. CASE \/ Conflict(s)
           \/ /\ open # {}
              /\ ~ \E h \in open : /\ open = {h}
                                   /\ ~ \E k \in 1..Len(s) : Var(s[k].lit) = Var(c[h])
  <2>1. ProcessLocal(s, a) = s  BY <1>5 DEF ProcessLocal
  <2> QED  BY <1>0, <2>1, GrowsOn
<1> QED  BY <1>3, <1>4, <1>5

SweepAt(db, citedOnly, k) == IF citedOnly THEN db[Len(db) + 1 - k] ELSE db[k]
SweepTurn(db, citedOnly, k, s) ==
  IF citedOnly /\ SweepAt(db, citedOnly, k).step \notin needed THEN s
  ELSE ProcessLocal(s, SweepAt(db, citedOnly, k))
SweepEq(f, s, db, citedOnly) ==
  f = [k \in 0..Len(db) |-> IF k = 0 THEN s ELSE SweepTurn(db, citedOnly, k, f[k-1])]

SweepRun(f, s, db, cl, citedOnly) ==
  /\ f[0] = s /\ f[Len(db)] = Sweep(s, db, citedOnly)
  /\ \A k \in 0..Len(db) : f[k] \in Locals(db, cl) /\ Grows(s, f[k])
  /\ \A k \in 1..Len(db) :
       f[k] = SweepTurn(db, citedOnly, k, f[k-1]) /\ Grows(f[k-1], f[k])

LEMMA SweepStates ==
  ASSUME NEW db \in Seq(Actives), NEW cl \in Seq(Lits),
         NEW s \in Locals(db, cl), NEW citedOnly \in BOOLEAN
  PROVE  \E f : SweepRun(f, s, db, cl, citedOnly)
<1> DEFINE n == Len(db)
           S == Locals(db, cl)
           T(k, x) == SweepTurn(db, citedOnly, k, x)
<1>1. n \in Nat  OBVIOUS
<1>2. ASSUME NEW k \in 1..n, NEW x \in S PROVE T(k, x) \in S /\ Grows(x, T(k, x))
  <2>1. PICK i \in 1..Len(db) : SweepAt(db, citedOnly, k) = db[i]
    <3>1. n + 1 - k \in 1..n  BY <1>1
    <3> QED  BY <3>1 DEF SweepAt
  <2>2. ProcessLocal(x, db[i]) \in S /\ Grows(x, ProcessLocal(x, db[i]))  BY ProcessGood
  <2>3. Grows(x, x)
    <3>1. x \in Seq(LocalStep)  BY DEF Locals
    <3> QED  BY <3>1, GrowsOn
  <2> QED  BY <2>1, <2>2, <2>3 DEF SweepTurn
<1>3. Sweep(s, db, citedOnly) = (CHOOSE f : SweepEq(f, s, db, citedOnly))[n]
  BY DEF Sweep, SweepEq, SweepTurn, SweepAt
<1> HIDE DEF n, S, T
<1>4. \E f : SweepEq(f, s, db, citedOnly)
  <2> DEFINE G == [p \in (1..n) \X S |-> T(p[1], p[2])]
  <2>1. G \in [(1..n) \X S -> S]  BY <1>2
  <2>2. \A k \in 1..n : \A x \in S : G[<<k, x>>] = T(k, x)  OBVIOUS
  <2>3. s \in S  BY DEF S
  <2> HIDE DEF G
  <2>9. PICK g : LoopOf(g, n, S, s, G)  BY ONLY <1>1, <2>1, <2>3, LoopExists
  <2>4. /\ g \in [0..n -> S] /\ g[0] = s
        /\ \A k \in 1..n : g[k] = G[<<k, g[k-1]>>]
    BY <2>9 DEF LoopOf
  <2>5. \A k \in 1..n : g[k] = T(k, g[k-1])
    <3> TAKE k \in 1..n
    <3>1. k - 1 \in 0..n  BY <1>1
    <3> QED  BY <2>2, <2>4, <3>1
  <2>6. \A k \in 0..n : g[k] = IF k = 0 THEN s ELSE T(k, g[k-1])
    <3> TAKE k \in 0..n
    <3>1. k = 0 \/ k \in 1..n  BY <1>1
    <3> QED  BY <2>4, <2>5, <3>1
  <2>7. g = [k \in 0..n |-> g[k]]  BY <2>4
  <2>8. g = [k \in 0..n |-> IF k = 0 THEN s ELSE T(k, g[k-1])]  BY <2>6, <2>7
  <2> QED  BY <2>8 DEF SweepEq, n, T
<1> DEFINE f == CHOOSE f : SweepEq(f, s, db, citedOnly)
<1>5. SweepEq(f, s, db, citedOnly)  BY <1>4
<1> HIDE DEF f
<1>6. \A k \in 0..n : f[k] = IF k = 0 THEN s ELSE T(k, f[k-1])
  BY <1>5 DEF SweepEq, n, T
<1> DEFINE P == {k \in 0..n : f[k] \in S /\ Grows(s, f[k])}
<1>a. S \subseteq Seq(LocalStep) /\ s \in S  BY DEF S, Locals
<1>7. 0 \in P
  <2>1. 0 \in 0..n  BY <1>1
  <2>2. f[0] = s  BY <1>6, <2>1
  <2> QED  BY <1>a, <2>1, <2>2, GrowsOn
<1>8. ASSUME NEW k \in 1..n, k - 1 \in P PROVE k \in P /\ Grows(f[k-1], f[k])
  <2>1. k \in 0..n /\ k # 0  BY <1>1
  <2>2. f[k] = T(k, f[k-1])  BY <1>6, <2>1
  <2>3. f[k-1] \in S /\ Grows(s, f[k-1])  BY <1>8
  <2>4. f[k] \in S /\ Grows(f[k-1], f[k])  BY <1>2, <2>2, <2>3
  <2>5. Grows(s, f[k])  BY <1>a, <2>3, <2>4, GrowsOn
  <2> QED  BY <2>1, <2>4, <2>5
<1>9. \A k \in 0..n : k \in P
  <2> HIDE DEF P
  <2> QED  BY <1>1, <1>7, <1>8, Upward
<1>10. \A k \in 0..n : f[k] \in S /\ Grows(s, f[k])  BY <1>9
<1>11. \A k \in 1..n : f[k] = T(k, f[k-1]) /\ Grows(f[k-1], f[k])
  <2> TAKE k \in 1..n
  <2>1. k \in 0..n /\ k # 0 /\ k - 1 \in 0..n  BY <1>1
  <2>2. k - 1 \in P  BY <1>9, <2>1
  <2> QED  BY <1>6, <1>8, <2>1, <2>2
<1>12. f[0] = s
  <2>1. 0 \in 0..n  BY <1>1
  <2> QED  BY <1>6, <2>1
<1>13. f[n] = Sweep(s, db, citedOnly)  BY <1>3 DEF f
<1> QED  BY <1>10, <1>11, <1>12, <1>13 DEF SweepRun, n, S, T

LEMMA RoundGood ==
  ASSUME NEW db \in Seq(Actives), NEW cl \in Seq(Lits), NEW s \in Locals(db, cl)
  PROVE  Round(s, db) \in Locals(db, cl) /\ Grows(s, Round(s, db))
<1>1. ASSUME NEW c \in BOOLEAN
      PROVE  Sweep(s, db, c) \in Locals(db, cl) /\ Grows(s, Sweep(s, db, c))
  <2>1. PICK f : SweepRun(f, s, db, cl, c)  BY SweepStates
  <2>2. Len(db) \in 0..Len(db)  OBVIOUS
  <2> QED  BY <2>1, <2>2 DEF SweepRun
<1> QED  BY <1>1 DEF Round

(* A round that finds nothing has asked every clause of the list.            *)
LEMMA RoundAsksAll ==
  ASSUME NEW db \in Seq(Actives), NEW cl \in Seq(Lits), NEW s \in Locals(db, cl),
         Round(s, db) = s, NEW i \in 1..Len(db)
  PROVE  ProcessLocal(s, db[i]) = s
<1> DEFINE n == Len(db)
<1>0. n \in Nat /\ Locals(db, cl) \subseteq Seq(LocalStep)  BY DEF Locals
<1>1. Sweep(s, db, FALSE) = s  BY DEF Round
<1>2. PICK f : SweepRun(f, s, db, cl, FALSE)  BY SweepStates
<1>3. /\ f[0] = s /\ f[n] = s
      /\ \A k \in 0..n : f[k] \in Seq(LocalStep) /\ Grows(s, f[k])
      /\ \A k \in 1..n : Grows(f[k-1], f[k]) /\ f[k] = ProcessLocal(f[k-1], db[k])
  BY <1>0, <1>1, <1>2 DEF SweepRun, SweepTurn, SweepAt
<1> HIDE DEF n
<1> DEFINE P == {m \in 0..n : Grows(f[n-m], s)}
<1>4. 0 \in P
  <2>1. n - 0 = n /\ 0 \in 0..n /\ n \in 0..n  BY <1>0
  <2> QED  BY <1>3, <2>1, GrowsOn
<1>5. ASSUME NEW m \in 1..n, m - 1 \in P PROVE m \in P
  <2> DEFINE k == n - (m - 1)
  <2>1. k \in 1..n /\ k - 1 = n - m /\ m \in 0..n /\ k \in 0..n /\ k - 1 \in 0..n  BY <1>0
  <2>2. Grows(f[k], s)  BY <1>5
  <2> HIDE DEF k
  <2>3. Grows(f[k-1], f[k])  BY <1>3, <2>1
  <2>4. f[k-1] \in Seq(LocalStep) /\ f[k] \in Seq(LocalStep) /\ s \in Seq(LocalStep)
    BY <1>0, <1>3, <2>1
  <2>5. Grows(f[k-1], s)  BY <2>2, <2>3, <2>4, GrowsOn
  <2> QED  BY <2>1, <2>5
<1>6. \A m \in 0..n : m \in P
  <2> HIDE DEF P
  <2> QED  BY <1>0, <1>4, <1>5, Upward
<1>7. \A k \in 0..n : f[k] = s
  <2> TAKE k \in 0..n
  <2>1. n - k \in 0..n /\ n - (n - k) = k  BY <1>0
  <2>2. n - k \in P  BY <1>6, <2>1
  <2>3. Grows(f[k], s) /\ Grows(s, f[k]) /\ f[k] \in Seq(LocalStep) /\ s \in Seq(LocalStep)
    BY <1>0, <1>3, <2>1, <2>2
  <2>4. Len(f[k]) <= Len(s)  BY <2>3 DEF Grows
  <2> QED  BY <2>3, <2>4, GrowsOn
<1>8. i \in 1..n /\ i \in 0..n /\ i - 1 \in 0..n  BY <1>0 DEF n
<1> QED  BY <1>3, <1>7, <1>8

LEMMA HypsGood ==
  ASSUME NEW db \in Seq(Actives), NEW cl \in Seq(Lits)
  PROVE  Hyps(cl) \in Locals(db, cl)
<1> DEFINE n == Len(cl)
           s == Hyps(cl)
<1>1. n \in Nat /\ \A i \in 1..n : cl[i] \in Lits /\ cl[i] \in ToSet(cl)  BY DEF ToSet
<1>2. \A i \in 1..n : s[i] = [step |-> 0, cl |-> <<>>, lit |-> cl[i]]  BY DEF Hyps
<1>a. \A i \in 1..n : s[i].step = 0 /\ s[i].cl = <<>> /\ s[i].lit = cl[i]
  <2> HIDE DEF n
  <2> QED  BY DEF Hyps, n
<1> HIDE DEF s, n
<1>3. \A i \in 1..n : s[i] \in LocalStep
  <2> TAKE i \in 1..n
  <2>1. <<>> \in Seq(Lits) /\ cl[i] \in Lits \union {0} /\ 0 \in Nat  BY <1>1
  <2>2. [step |-> 0, cl |-> <<>>, lit |-> cl[i]] \in LocalStep
    <3> HIDE DEF s, n
    <3> DEFINE l == cl[i]
    <3>1. l \in Lits \union {0}  BY <2>1
    <3> HIDE DEF l
    <3> QED  BY <2>1, <3>1 DEF LocalStep, l
  <2> QED  BY <1>2, <2>2
<1>4. s \in Seq(LocalStep) /\ Len(s) = n
  <2>1. s = [i \in 1..n |-> s[i]]  BY DEF Hyps, s, n
  <2>2. s \in [1..n -> LocalStep]  BY <1>3, <2>1
  <2>3. s \in Seq(LocalStep)  BY <1>1, <1>3, <2>1
  <2>4. DOMAIN s = 1..n  BY <2>1
  <2> QED  BY <1>1, <2>3, <2>4, LenProperties
<1>5. \A k \in 1..Len(s)-1 : s[k].lit # 0
  <2> TAKE k \in 1..Len(s)-1
  <2>1. k \in 1..n  BY <1>1, <1>4
  <2> QED  BY <1>1, <1>a, <2>1, LitFacts
<1>6. \A k \in 1..Len(s) : s[k].step = 0 /\ s[k].cl = <<>> /\ s[k].lit \in ToSet(cl)
  BY <1>1, <1>a, <1>4
<1>7. s \in Locals(db, cl)  BY <1>4, <1>5, <1>6 DEF Locals
<1> QED  BY <1>7 DEF s

(* There are no more new variables than variables.                          *)
LEMMA NewVars ==
  ASSUME NEW s \in Seq(LocalStep), NEW t \in Seq(LocalStep), Grows(s, t),
         \A k \in 1..Len(t) : t[k].lit \in Lits
  PROVE  Len(t) <= Len(s) + NumVars
<1> DEFINE n == Len(s)
<1>1. n \in Nat /\ Len(t) \in Nat /\ NumVars \in Nat  BY Bounds
<1>2. SUFFICES ASSUME Len(t) > n + NumVars PROVE FALSE  BY <1>1
<1> DEFINE S == 1..NumVars+1
           T == 1..NumVars
           f == [i \in S |-> Var(t[n+i].lit)]
<1> HIDE DEF n
<1>3. \A i \in S : n + i \in n+1..Len(t) /\ n + i \in 1..Len(t)  BY <1>1, <1>2
<1>4. f \in [S -> T]
  <2>1. \A l \in Lits : Var(l) \in T  BY <1>1 DEF Lits, Var
  <2> QED  BY <1>3, <2>1
<1>5. \A i, j \in S : i < j => f[i] # f[j]
  <2> TAKE i, j \in S
  <2>1. i < j => n + i \in 1..(n+j)-1  BY <1>1
  <2> QED  BY <1>3, <2>1 DEF Grows, n
<1>6. IsFiniteSet(S) /\ IsFiniteSet(T) /\ Cardinality(T) < Cardinality(S)
  <2>1. 1 \in Int /\ NumVars \in Int /\ NumVars + 1 \in Int /\ ~(1 > NumVars + 1)  BY <1>1
  <2>2. IsFiniteSet(S) /\ Cardinality(S) = NumVars + 1 - 1 + 1  BY <2>1, FS_Interval
  <2>3. IsFiniteSet(T) /\ Cardinality(T) = IF 1 > NumVars THEN 0 ELSE NumVars - 1 + 1
    BY <2>1, FS_Interval
  <2>4. NumVars < NumVars + 1 - 1 + 1
        /\ (IF 1 > NumVars THEN 0 ELSE NumVars - 1 + 1) = NumVars  BY <1>1
  <2> QED  BY <2>2, <2>3, <2>4
<1> HIDE DEF f, T
<1>7. \E i, j \in S : i # j /\ f[i] = f[j]  BY <1>4, <1>6, FS_PigeonHole
<1>8. PICK i, j \in S : i # j /\ f[i] = f[j]  BY <1>7
<1>9. i < j \/ j < i  BY <1>1, <1>8
<1> QED  BY <1>5, <1>8, <1>9

SearchEq(f, db, cl) ==
  f = [k \in 0..NumVars+1 |-> IF k = 0 THEN Hyps(cl) ELSE Round(f[k-1], db)]

(* NumVars + 1 turns are enough for the loop to end.                         *)
LEMMA LocalGood ==
  ASSUME NEW db \in Seq(Actives), NEW cl \in Seq(Lits)
  PROVE  /\ LocalSteps(db, cl) \in Locals(db, cl)
         /\ Grows(Hyps(cl), LocalSteps(db, cl))
         /\ ~Conflict(LocalSteps(db, cl)) => Round(LocalSteps(db, cl), db) = LocalSteps(db, cl)
<1> DEFINE n == NumVars + 1
           S == Locals(db, cl)
<1>1. n \in Nat  BY Bounds
<1>2. Hyps(cl) \in S  BY HypsGood
<1>3. \A x \in S : Round(x, db) \in S /\ Grows(x, Round(x, db))  BY RoundGood
<1>a. S \subseteq Seq(LocalStep)  BY DEF Locals
<1>b. Len(Hyps(cl)) \in Nat  BY <1>2, <1>a
<1>4. LocalSteps(db, cl) = (CHOOSE f : SearchEq(f, db, cl))[n]  BY DEF LocalSteps, SearchEq
<1> HIDE DEF n, S
<1>5. \E f : SearchEq(f, db, cl)
  <2> DEFINE G == [p \in (1..n) \X S |-> Round(p[2], db)]
  <2>1. G \in [(1..n) \X S -> S]  BY <1>3
  <2>2. \A k \in 1..n : \A x \in S : G[<<k, x>>] = Round(x, db)  OBVIOUS
  <2> HIDE DEF G
  <2>9. PICK g : LoopOf(g, n, S, Hyps(cl), G)  BY ONLY <1>1, <1>2, <2>1, LoopExists
  <2>4. /\ g \in [0..n -> S] /\ g[0] = Hyps(cl)
        /\ \A k \in 1..n : g[k] = G[<<k, g[k-1]>>]
    BY <2>9 DEF LoopOf
  <2>5. \A k \in 1..n : g[k] = Round(g[k-1], db)
    <3> TAKE k \in 1..n
    <3>1. k - 1 \in 0..n  BY <1>1
    <3> QED  BY <2>2, <2>4, <3>1
  <2>6. \A k \in 0..n : g[k] = IF k = 0 THEN Hyps(cl) ELSE Round(g[k-1], db)
    <3> TAKE k \in 0..n
    <3>1. k = 0 \/ k \in 1..n  BY <1>1
    <3> QED  BY <2>4, <2>5, <3>1
  <2>7. g = [k \in 0..n |-> g[k]]  BY <2>4
  <2>8. g = [k \in 0..n |-> IF k = 0 THEN Hyps(cl) ELSE Round(g[k-1], db)]  BY <2>6, <2>7
  <2> QED  BY <2>8 DEF SearchEq, n
<1> DEFINE f == CHOOSE f : SearchEq(f, db, cl)
<1>6. SearchEq(f, db, cl)  BY <1>5
<1> HIDE DEF f
<1>7. \A k \in 0..n : f[k] = IF k = 0 THEN Hyps(cl) ELSE Round(f[k-1], db)
  BY <1>6 DEF SearchEq, n
<1> DEFINE h == Hyps(cl)
           Ended(x, k) == Round(x, db) = x \/ Len(x) >= Len(h) + k
           P == {k \in 0..n : f[k] \in S /\ Grows(h, f[k]) /\ Ended(f[k], k)}
<1> HIDE DEF h
<1>8. 0 \in P
  <2>1. 0 \in 0..n /\ f[0] = h  BY <1>1, <1>7 DEF h
  <2>2. h \in S /\ Grows(h, h) /\ Len(h) \in Nat  BY <1>2, <1>a, GrowsOn DEF h
  <2>3. Len(h) >= Len(h) + 0  BY <2>2
  <2> QED  BY <2>1, <2>2, <2>3
<1>9. ASSUME NEW k \in 1..n, k - 1 \in P PROVE k \in P
  <2> DEFINE x == f[k-1]
             y == f[k]
  <2>1. k \in 0..n /\ k # 0  BY <1>1
  <2>2. y = Round(x, db)  BY <1>7, <2>1
  <2>3. x \in S /\ Grows(h, x) /\ Ended(x, k - 1)  BY <1>9
  <2> HIDE DEF x, y
  <2>4. y \in S /\ Grows(x, y)  BY <1>3, <2>2, <2>3
  <2>5. h \in S  BY <1>2 DEF h
  <2>6. Grows(h, y)  BY <1>a, <2>3, <2>4, <2>5, GrowsOn
  <2>7. CASE y = x  BY <2>1, <2>2, <2>4, <2>6, <2>7 DEF y
  <2>8. CASE y # x
    <3>1. Len(x) \in Nat /\ Len(y) \in Nat /\ Len(h) \in Nat  BY <1>a, <2>3, <2>4, <2>5
    <3>2. Len(x) >= Len(h) + (k - 1)  BY <2>2, <2>3, <2>8
    <3>3. ~(Len(y) <= Len(x))  BY <1>a, <2>3, <2>4, <2>8, GrowsOn
    <3>4. Len(y) >= Len(h) + k  BY <3>1, <3>2, <3>3
    <3> QED  BY <2>1, <2>4, <2>6, <3>4 DEF y
  <2> QED  BY <2>7, <2>8
<1>10. \A k \in 0..n : k \in P
  <2> HIDE DEF P
  <2> QED  BY <1>1, <1>8, <1>9, Upward
<1>11. n \in 0..n  BY <1>1
<1>12. f[n] \in S /\ Grows(h, f[n]) /\ Ended(f[n], n)  BY <1>10, <1>11
<1> DEFINE s == f[n]
<1> HIDE DEF s
<1>13. ASSUME ~Conflict(s) PROVE Round(s, db) = s
  <2>1. s \in Locals(db, cl)  BY <1>12 DEF s, S
  <2>2. \A k \in 1..Len(s) : s[k].lit \in Lits  BY <1>13, <2>1, NoConflictLits
  <2>3. s \in Seq(LocalStep) /\ h \in Seq(LocalStep)  BY <1>2, <1>a, <1>12 DEF h, s
  <2>4. Len(s) <= Len(h) + NumVars  BY <1>12, <2>2, <2>3, NewVars DEF s
  <2>5. ~(Len(s) >= Len(h) + n)  BY <2>3, <2>4, Bounds DEF n
  <2> QED  BY <1>12, <2>5 DEF s
<1>14. LocalSteps(db, cl) = s  BY <1>4 DEF f, s
<1> QED  BY <1>12, <1>13, <1>14 DEF s, S, h

-----------------------------------------------------------------------------
(* What the search finds is a proof.                                       *)

(* The literals of a step's clause were falsified before it: the one that     *)
(* was left over never is.                                                  *)
LEMMA AntecedentsEarlier ==
  ASSUME NEW db \in Seq(Actives), NEW cl \in Seq(Lits),
         NEW s \in Locals(db, cl), NEW k \in 1..Len(s)
  PROVE  Antecedents(s, k) \subseteq 1..k-1
<1>0. s \in Seq(LocalStep) /\ Len(s) \in Nat /\ s[k] \in LocalStep  BY DEF Locals
<1>1. SUFFICES ASSUME NEW l \in ToSet(s[k].cl), NEW j \in FalsifiedAt(s, l)
               PROVE  j \in 1..k-1
  BY DEF Antecedents
<1>2. /\ j \in 1..Len(s) /\ s[j].lit = l
      /\ \A h \in j+1..Len(s) : Var(s[h].lit) # Var(l)
  BY <1>0, FalsifiedFacts
<1>3. FromClause(db, s, k)
  <2>1. s[k].cl # <<>>  BY DEF ToSet
  <2> QED  BY <2>1 DEF Locals
<1>4. l \in Lits /\ s[k].lit \in Lits \union {0}
  <2>1. s[k].cl \in Seq(Lits)  BY <1>0 DEF LocalStep
  <2>2. l \in Lits
    <3>1. PICK h \in 1..Len(s[k].cl) : l = s[k].cl[h]  BY <2>1 DEF ToSet
    <3> QED  BY <2>1, <3>1
  <2> QED  BY <1>0, <2>2 DEF LocalStep
<1>5. CASE l = -s[k].lit
  <2>1. Var(l) = Var(s[k].lit)  BY <1>4, <1>5, LitFacts
  <2>2. j = k  BY <1>2, <1>3, <2>1 DEF FromClause
  <2>3. s[k].lit = -s[k].lit  BY <1>2, <1>5, <2>2
  <2>4. s[k].lit = 0  BY <1>4, <2>3, LitFacts
  <2> QED  BY <1>2, <1>4, <2>2, <2>4, LitFacts
<1>6. CASE l # -s[k].lit
  <2>1. PICK h \in 1..k-1 : h \in FalsifiedAt(s, l)  BY <1>3, <1>6 DEF FromClause
  <2>2. /\ h \in 1..Len(s) /\ s[h].lit = l
        /\ \A i \in h+1..Len(s) : Var(s[i].lit) # Var(l)
    BY <1>0, <2>1, FalsifiedFacts
  <2>3. ~(j > h)  BY <1>0, <1>2, <2>2
  <2>4. ~(h > j)  BY <1>0, <1>2, <2>2
  <2>5. h = j  BY <1>2, <2>2, <2>3, <2>4
  <2> QED  BY <2>1, <2>5
<1> QED  BY <1>5, <1>6

ReachTurn(s, k, S) ==
  S \union IF Len(s) + 1 - k \in S THEN Antecedents(s, Len(s) + 1 - k) ELSE {}
ReachEq(f, s) ==
  f = [k \in 0..Len(s) |-> IF k = 0 THEN {Len(s)} ELSE ReachTurn(s, k, f[k-1])]

(* The stack goes on to the antecedents of all it takes.                    *)
LEMMA UsedClosed ==
  ASSUME NEW db \in Seq(Actives), NEW cl \in Seq(Lits),
         NEW s \in Locals(db, cl), s # <<>>
  PROVE  /\ Len(s) \in Used(s) /\ Used(s) \subseteq 1..Len(s)
         /\ \A k \in Used(s) : Antecedents(s, k) \subseteq Used(s)
<1> DEFINE n == Len(s)
           S == SUBSET (1..n)
           T(k, x) == ReachTurn(s, k, x)
<1>0. s \in Seq(LocalStep)  BY DEF Locals
<1>1. n \in Nat \ {0} /\ n \in Nat  BY <1>0
<1>2. ASSUME NEW k \in 1..n PROVE Antecedents(s, k) \subseteq 1..k-1
  BY <1>2, AntecedentsEarlier
<1>3. ASSUME NEW k \in 1..n, NEW x \in S PROVE T(k, x) \in S
  <2>1. n + 1 - k \in 1..n  BY <1>1
  <2>2. Antecedents(s, n + 1 - k) \subseteq 1..n
    <3>1. Antecedents(s, n + 1 - k) \subseteq 1..(n + 1 - k)-1  BY <1>2, <2>1
    <3> QED  BY <1>1, <2>1, <3>1
  <2> QED  BY <2>2 DEF ReachTurn
<1>4. Used(s) = (CHOOSE f : ReachEq(f, s))[n]
  BY DEF Used, ReachEq, ReachTurn
<1>a. {n} \in S  BY <1>1
<1> HIDE DEF n, S, T
<1>5. \E f : ReachEq(f, s)
  <2> DEFINE G == [p \in (1..n) \X S |-> T(p[1], p[2])]
  <2>1. G \in [(1..n) \X S -> S]  BY <1>3
  <2>2. \A k \in 1..n : \A x \in S : G[<<k, x>>] = T(k, x)  OBVIOUS
  <2> HIDE DEF G
  <2>3. PICK g : LoopOf(g, n, S, {n}, G)  BY ONLY <1>1, <1>a, <2>1, LoopExists
  <2>4. g \in [0..n -> S] /\ g[0] = {n} /\ \A k \in 1..n : g[k] = G[<<k, g[k-1]>>]
    BY <2>3 DEF LoopOf
  <2>5. \A k \in 1..n : g[k] = T(k, g[k-1])
    <3> TAKE k \in 1..n
    <3>1. k - 1 \in 0..n  BY <1>1
    <3> QED  BY <2>2, <2>4, <3>1
  <2>6. \A k \in 0..n : g[k] = IF k = 0 THEN {n} ELSE T(k, g[k-1])
    <3> TAKE k \in 0..n
    <3>1. k = 0 \/ k \in 1..n  BY <1>1
    <3> QED  BY <2>4, <2>5, <3>1
  <2>7. g = [k \in 0..n |-> g[k]]  BY <2>4
  <2>8. g = [k \in 0..n |-> IF k = 0 THEN {n} ELSE T(k, g[k-1])]  BY <2>6, <2>7
  <2> QED  BY <2>8 DEF ReachEq, n, T
<1> DEFINE f == CHOOSE f : ReachEq(f, s)
<1>6. ReachEq(f, s)  BY <1>5
<1> HIDE DEF f
<1>7. \A k \in 0..n : f[k] = IF k = 0 THEN {n} ELSE T(k, f[k-1])
  BY <1>6 DEF ReachEq, n, T
<1>8. f[0] = {n} /\ \A k \in 1..n : f[k] = T(k, f[k-1])
  <2>1. 0 \in 0..n /\ \A k \in 1..n : k \in 0..n /\ k # 0  BY <1>1
  <2> QED  BY <1>7, <2>1
(* After k turns: what was taken above n - k has its antecedents.            *)
<1> DEFINE Taken(k) == /\ f[k] \in S /\ n \in f[k]
                       /\ \A j \in f[k] : j > n - k => Antecedents(s, j) \subseteq f[k]
           P == {k \in 0..n : Taken(k)}
<1>9. 0 \in P
  <2>1. 0 \in 0..n /\ f[0] \in S /\ n \in f[0]  BY <1>1, <1>8, <1>a
  <2>2. \A j \in f[0] : ~(j > n - 0)  BY <1>1, <1>8
  <2> QED  BY <2>1, <2>2
<1>10. ASSUME NEW k \in 1..n, k - 1 \in P PROVE k \in P
  <2> DEFINE m == n + 1 - k
             A == f[k-1]
             B == f[k]
  <2>1. m \in 1..n /\ n - (k - 1) = m /\ n - k = m - 1 /\ k \in 0..n  BY <1>1
  <2>2. A \in S /\ n \in A /\ \A j \in A : j > m => Antecedents(s, j) \subseteq A
    BY <1>10, <2>1
  <2>3. B = A \union IF m \in A THEN Antecedents(s, m) ELSE {}
    BY <1>8 DEF T, ReachTurn, n
  <2>4. B \in S  BY <1>3, <1>8, <2>2
  <2>5. Antecedents(s, m) \subseteq 1..m-1  BY <1>2, <2>1
  <2> HIDE DEF A, B, m
  <2>6. ASSUME NEW j \in B, j > m - 1 PROVE Antecedents(s, j) \subseteq B
    <3>1. j \in A
      <4>1. j \notin 1..m-1  BY <2>1, <2>6
      <4> QED  BY <2>3, <2>5, <4>1
    <3>2. CASE j = m  BY <2>3, <3>1, <3>2
    <3>3. CASE j # m
      <4>1. j \in Nat
        <5>1. j \in 1..n  BY <2>2, <3>1 DEF S
        <5> QED  BY <5>1
      <4>2. j > m  BY <2>1, <2>6, <3>3, <4>1
      <4> QED  BY <2>2, <2>3, <3>1, <4>2
    <3> QED  BY <3>2, <3>3
  <2>7. n \in B  BY <2>2, <2>3
  <2> QED  BY <2>1, <2>4, <2>6, <2>7 DEF B
<1>11. \A k \in 0..n : k \in P
  <2> HIDE DEF P
  <2> QED  BY <1>1, <1>9, <1>10, Upward
<1>12. n \in 0..n /\ n - n = 0  BY <1>1
<1>13. Taken(n)  BY <1>11, <1>12
<1>14. f[n] \subseteq 1..n /\ n \in f[n]  BY <1>13 DEF S
<1>15. \A j \in f[n] : j > n - n  BY <1>12, <1>14
<1>16. Used(s) = f[n]  BY <1>4 DEF f
<1> QED  BY <1>13, <1>14, <1>15, <1>16 DEF n

LEMMA OneOfBoth ==
  ASSUME NEW true \in Assignments, NEW l \in Lits
  PROVE  l \in true <=> -l \notin true
<1>1. \A v \in 1..NumVars : v \in true <=> -v \notin true  BY DEF Assignments
<1>2. l \in 1..NumVars \/ -l \in 1..NumVars  BY Bounds DEF Lits
<1>3. -(-l) = l  BY LitFacts
<1> QED  BY <1>1, <1>2, <1>3

LEMMA RupSound ==
  ASSUME NEW db \in Seq(Actives), NEW cl \in Seq(Lits), NEW true \in Assignments,
         Conflict(LocalSteps(db, cl)),
         \A i \in RupSteps(db, cl) : Holds(db[i].cl, true)
  PROVE  Holds(cl, true)
<1> DEFINE s == LocalSteps(db, cl)
           n == Len(s)
<1>1. s \in Locals(db, cl)  BY LocalGood
<1>2. \A i \in 1..Len(db) : (\E k \in Used(s) : s[k].step = db[i].step) => Holds(db[i].cl, true)
  BY DEF RupSteps
<1>3. s # <<>> /\ s[n].lit = 0  BY DEF Conflict, Last
<1> HIDE DEF s
<1>4. s \in Seq(LocalStep) /\ n \in Nat \ {0}  BY <1>1, <1>3 DEF Locals
<1>5. /\ n \in Used(s) /\ Used(s) \subseteq 1..n
      /\ \A k \in Used(s) : Antecedents(s, k) \subseteq Used(s)
  BY <1>1, <1>3, UsedClosed
<1>6. SUFFICES ASSUME ~Holds(cl, true) PROVE FALSE  OBVIOUS
<1>7. \A l \in ToSet(cl) : l \notin true  BY <1>6 DEF Holds
(* The first step used that falsified a literal although it is true, or the   *)
(* conflict.                                                               *)
<1> DEFINE Bad == {k \in Used(s) : s[k].lit = 0 \/ s[k].lit \in true}
<1>8. PICK k \in Bad : \A j \in Bad : k <= j
  <2>1. n \in Bad  BY <1>3, <1>5
  <2>2. Bad \subseteq Nat  BY <1>5
  <2> HIDE DEF Bad
  <2> QED  BY <2>1, <2>2, Least
<1>9. k \in 1..n /\ k \in Used(s)  BY <1>5
<1>10. s[k] \in LocalStep  BY <1>4, <1>9
<1>11. FromClause(db, s, k)
  <2>1. s[k].lit \notin ToSet(cl)
    <3>1. CASE s[k].lit = 0
      <4>1. \A i \in 1..Len(cl) : cl[i] \in Lits  OBVIOUS
      <4> QED  BY <3>1, <4>1, LitFacts DEF ToSet
    <3>2. CASE s[k].lit \in true  BY <1>7, <3>2
    <3> QED  BY <3>1, <3>2
  <2> QED  BY <1>1, <1>9, <2>1 DEF Locals
<1>12. PICK i \in 1..Len(db) : db[i].step = s[k].step /\ db[i].cl = s[k].cl
  BY <1>11 DEF FromClause
<1>13. Holds(s[k].cl, true)  BY <1>2, <1>9, <1>12
<1>14. PICK l \in ToSet(s[k].cl) : l \in true  BY <1>13 DEF Holds
<1>15. l \in Lits  BY <1>14 DEF Assignments
<1>16. CASE l = -s[k].lit
  <2>1. s[k].lit \in Lits \union {0}  BY <1>10 DEF LocalStep
  <2>2. s[k].lit # 0  BY <1>15, <1>16, <2>1, LitFacts
  <2>3. s[k].lit \in Lits /\ s[k].lit \in true  BY <1>8, <2>1, <2>2
  <2> QED  BY <1>14, <1>16, <2>3, OneOfBoth
<1>17. CASE l # -s[k].lit
  <2>1. PICK j \in 1..k-1 : j \in FalsifiedAt(s, l)  BY <1>11, <1>14, <1>17 DEF FromClause
  <2>2. s[j].lit = l  BY <1>4, <2>1, FalsifiedFacts
  <2>3. j \in Used(s)  BY <1>5, <1>9, <2>1 DEF Antecedents
  <2>4. j \in Bad  BY <1>14, <2>2, <2>3
  <2>5. k <= j  BY <1>8, <2>4
  <2>6. k \in Nat /\ j \in Nat /\ j < k  BY <1>4, <1>9, <2>1
  <2> QED  BY <2>5, <2>6
<1> QED  BY <1>16, <1>17

(* A nonempty set of places has a last one.                                 *)
LEMMA Greatest ==
  ASSUME NEW n \in Nat, NEW T, T \subseteq 1..n, T # {}
  PROVE  \E x \in T : \A y \in T : y <= x
<1> DEFINE U == {n - x : x \in T}
<1>1. U \subseteq Nat /\ U # {}
  <2>1. \A x \in T : x \in 1..n /\ n - x \in Nat  OBVIOUS
  <2> QED  BY <2>1
<1>2. PICK u \in U : \A w \in U : u <= w
  <2> HIDE DEF U
  <2> QED  BY <1>1, Least
<1>3. PICK x \in T : u = n - x  OBVIOUS
<1>4. \A y \in T : n - y \in U /\ y \in 1..n  OBVIOUS
<1>5. \A y \in T : y <= x
  <2> HIDE DEF U
  <2> TAKE y \in T
  <2>1. n - x <= n - y /\ x \in Int /\ y \in Int  BY <1>2, <1>3, <1>4
  <2> QED  BY <2>1
<1> QED  BY <1>5

LEMMA HyperSound ==
  ASSUME NEW db \in Seq(Actives), NEW cl \in Seq(Lits), NEW true \in Assignments,
         Fits(db, cl) # {},
         \A i \in 1..Len(db) : db[i].step \in FindHyperResolution(db, cl) => Holds(db[i].cl, true)
  PROVE  Holds(cl, true)
<1> DEFINE hit == {k \in Fits(db, cl) : \A j \in Fits(db, cl) : j <= k}
           used == {i \in Units(db, cl) : \E k \in hit : -db[i].cl[1] \in ToSet(db[k].cl)}
<1>1. FindHyperResolution(db, cl) = {db[i].step : i \in hit \union used}
  BY DEF FindHyperResolution
<1>2. Fits(db, cl) \subseteq 1..Len(db) /\ Units(db, cl) \subseteq 1..Len(db)
  BY DEF Fits, Units
<1>3. PICK k \in hit : TRUE
  <2>1. Len(db) \in Nat  OBVIOUS
  <2> QED  BY <1>2, <2>1, Greatest
<1>4. k \in 1..Len(db) /\ db[k].step \in FindHyperResolution(db, cl)  BY <1>1, <1>2, <1>3
<1>5. PICK l \in ToSet(db[k].cl) : l \in true  BY <1>4 DEF Holds
<1>6. ToSet(db[k].cl) \subseteq Me(cl) \union {-db[i].cl[1] : i \in Units(db, cl)}
  BY <1>3 DEF Fits
<1>7. CASE l \in Me(cl)
  <2>1. l \in ToSet(cl)  BY <1>7 DEF Me, LastOnes, ToSet
  <2> QED  BY <1>5, <2>1 DEF Holds
<1>8. CASE l \notin Me(cl)
  <2>1. PICK i \in Units(db, cl) : l = -db[i].cl[1]  BY <1>5, <1>6, <1>8
  <2>2. i \in used  BY <1>3, <1>5, <2>1
  <2>3. i \in 1..Len(db) /\ db[i].step \in FindHyperResolution(db, cl)  BY <1>1, <1>2, <2>2
  <2>4. Holds(db[i].cl, true)  BY <2>3
  <2>5. Len(db[i].cl) = 1  BY <2>1 DEF Units, IsUnitClause
  <2>6. db[i].cl \in Seq(Lits)  BY <2>3, ListClauses
  <2>7. db[i].cl[1] \in Lits /\ ToSet(db[i].cl) = {db[i].cl[1]}  BY <2>5, <2>6 DEF ToSet
  <2>8. db[i].cl[1] \in true  BY <2>4, <2>7 DEF Holds
  <2> QED  BY <1>5, <2>1, <2>7, <2>8, OneOfBoth
<1> QED  BY <1>7, <1>8

(* A clause follows from those that its reason cites.                       *)
LEMMA ReasonSound ==
  ASSUME NEW db \in Seq(Actives), NEW cl \in Seq(Lits), NEW true \in Assignments,
         FindReason(db, cl).kind \in {"HR", "RUP"},
         \A i \in 1..Len(db) : db[i].step \in FindReason(db, cl).cites => Holds(db[i].cl, true)
  PROVE  Holds(cl, true)
<1>1. CASE Fits(db, cl) # {}
  <2>1. FindReason(db, cl).cites = FindHyperResolution(db, cl)  BY <1>1 DEF FindReason
  <2> QED  BY <1>1, <2>1, HyperSound
<1>2. CASE Fits(db, cl) = {} /\ Conflict(LocalSteps(db, cl))
  <2>1. FindReason(db, cl).cites = {db[i].step : i \in RupSteps(db, cl)}
    BY <1>2 DEF FindReason
  <2>2. \A i \in RupSteps(db, cl) : i \in 1..Len(db)  BY DEF RupSteps
  <2> QED  BY <1>2, <2>1, <2>2, RupSound
<1>3. CASE Fits(db, cl) = {} /\ ~Conflict(LocalSteps(db, cl))
  <2>1. FindReason(db, cl).kind = "Sorry"  BY <1>3 DEF FindReason
  <2> QED  BY <2>1
<1> QED  BY <1>1, <1>2, <1>3

-----------------------------------------------------------------------------
(* The clauses a reason cites are the ones that are printed.                *)

(* The clause that step t, not undone yet, added.                           *)
AddedBy(t) == Last(List(t+1)).cl

(* A token stands for one clause, wherever deletions and their undoing moved  *)
(* it.                                                                     *)
OneClause ==
  \A k \in 1..Len(steps)+1 : \A i \in 1..Len(List(k)) :
    List(k)[i].cl = AddedBy(List(k)[i].step)

(* Each line is of a step that is undone, and no two are of the same.        *)
PrintedOnce ==
  \A j \in 1..Len(out) :
    /\ out[j].step > Len(steps)
    /\ \A h \in 1..Len(out) : out[h].step = out[j].step => h = j

(* What the token of a citation stands for: the line printed for it or, until  *)
(* then, the clause of its step.                                            *)
Meant(t) == IF t <= Len(steps) THEN AddedBy(t) ELSE ClauseOf(t)
Follows ==
  \A k \in 1..Len(out) : out[k].reason.kind \in {"HR", "RUP"} =>
    \A true \in Assignments :
      (\A t \in out[k].reason.cites : Holds(Meant(t), true)) => Holds(out[k].cl, true)

(* A recorded step leaves each token its clause.                            *)
LEMMA StillOneClause ==
  ASSUME TypeOK, TypeOK', Dated, OneClause, NEW x \in Steps,
         steps' = Append(steps, x), snaps' = Append(snaps, active),
         \A i \in 1..Len(active') :
           \/ \E j \in 1..Len(active) : active'[i] = active[j]
           \/ active'[i] = Last(active') /\ active'[i].step = Len(steps) + 1
  PROVE  OneClause'
<1>0. /\ active \in Seq(Actives) /\ active' \in Seq(Actives)
      /\ steps \in Seq(Steps) /\ snaps \in Seq(Seq(Actives)) /\ Len(snaps) = Len(steps)
      /\ Len(steps) \in Nat /\ MaxSteps \in Nat
  BY Bounds DEF TypeOK
<1> PICK n \in Nat : n = Len(steps)  BY <1>0
<1>1. /\ Len(steps') = n + 1 /\ snaps'[n+1] = active
      /\ \A k \in 1..n : snaps'[k] = snaps[k]
  <2>1. Len(steps') = n + 1  BY <1>0, AppendProperties
  <2>2. snaps'[n+1] = active /\ \A k \in 1..n : snaps'[k] = snaps[k]
    BY <1>0, AppendProperties
  <2> QED  BY <2>1, <2>2
<1>2. \A k \in 1..n+1 : List(k)' = List(k)  BY <1>0, <1>1 DEF List
<1>3. List(n+2)' = active' /\ List(n+1) = active  BY <1>1 DEF List
<1>4. ASSUME NEW k \in 1..n+1, NEW i \in 1..Len(List(k)), NEW t, t = List(k)[i].step
      PROVE  List(k)[i].cl = AddedBy(t)'
  <2>1. List(k) \in Seq(Actives)  BY <1>0 DEF List
  <2>2. List(k)[i] \in Actives  BY <2>1
  <2>3. t \in Nat \ {0}  BY <1>0, <1>4, <2>2 DEF Actives, Tokens
  <2>4. t < k /\ List(k)[i].cl = AddedBy(t)  BY <1>4 DEF Dated, OneClause
  <2>5. t + 1 \in 1..n+1  BY <2>3, <2>4
  <2>6. List(t+1)' = List(t+1)  BY <1>2, <2>5
  <2> QED  BY <2>4, <2>6 DEF AddedBy
<1>5. ASSUME NEW i \in 1..Len(active'), NEW t, t = active'[i].step
      PROVE  active'[i].cl = AddedBy(t)'
  <2>1. CASE \E j \in 1..Len(active) : active'[i] = active[j]
    <3>1. PICK j \in 1..Len(active) : active'[i] = active[j]  BY <2>1
    <3>2. n + 1 \in 1..n+1  OBVIOUS
    <3>3. active[j].cl = AddedBy(t)'  BY <1>3, <1>4, <1>5, <3>1, <3>2
    <3> QED  BY <3>1, <3>3
  <2>2. CASE active'[i] = Last(active') /\ active'[i].step = Len(steps) + 1
    <3>1. t + 1 = n + 2  BY <1>5, <2>2
    <3> QED  BY <1>3, <2>2, <3>1 DEF AddedBy
  <2> QED  BY <2>1, <2>2
<1>6. ASSUME NEW k \in 1..n+2, NEW i \in 1..Len(List(k)'), NEW t, t = List(k)'[i].step
      PROVE  List(k)'[i].cl = AddedBy(t)'
  <2>1. CASE k \in 1..n+1  BY <1>2, <1>4, <1>6, <2>1
  <2>2. CASE k = n+2
    <3>1. List(k)' = active'  BY <1>3, <2>2
    <3> QED  BY <1>5, <1>6, <3>1
  <2>3. k \in 1..n+1 \/ k = n+2  OBVIOUS
  <2> QED  BY <2>1, <2>2, <2>3
<1>7. 1..Len(steps')+1 = 1..n+2  BY <1>1
<1> QED  BY <1>6, <1>7 DEF OneClause

(* What is appended is the last, what was there is there.                   *)
LEMMA AppendedOrOld ==
  ASSUME NEW s \in Seq(Actives), NEW a \in Actives, NEW i \in 1..Len(Append(s, a))
  PROVE  \/ \E j \in 1..Len(s) : Append(s, a)[i] = s[j]
         \/ Append(s, a)[i] = a /\ Last(Append(s, a)) = a
<1>1. /\ Len(Append(s, a)) = Len(s) + 1 /\ Append(s, a)[Len(s)+1] = a /\ Len(s) \in Nat
      /\ \A j \in 1..Len(s) : Append(s, a)[j] = s[j]
  BY AppendProperties
<1>2. Last(Append(s, a)) = a  BY FrontAppend
<1>3. i \in 1..Len(s) \/ i = Len(s) + 1  BY <1>1
<1> QED  BY <1>1, <1>2, <1>3

LEMMA OneClauseStep ==
  ASSUME IInv, IInv', Dated, OneClause, [Next]_vars
  PROVE  OneClause'
<1>0. /\ TypeOK /\ TypeOK' /\ Replay
      /\ active \in Seq(Actives) /\ steps \in Seq(Steps) /\ Len(steps) \in Nat
      /\ snaps \in Seq(Seq(Actives)) /\ Len(snaps) = Len(steps) /\ MaxSteps \in Nat
  BY Bounds DEF TypeOK, IInv
<1>1. ASSUME NEW cl \in Clauses, NEW hyp \in BOOLEAN, Pass1Add(cl, hyp) PROVE OneClause'
  <2> DEFINE a == [step |-> Len(steps) + 1, cl |-> cl, hyp |-> hyp]
             x == [kind |-> "Add"]
  <2>1. Len(steps) + 1 \in Tokens  BY <1>0, <1>1 DEF Pass1Add, Tokens
  <2>2. x \in Steps /\ a \in Actives /\ a.step = Len(steps) + 1  BY <2>1 DEF Steps, Actives
  <2>3. steps' = Append(steps, x) /\ snaps' = Append(snaps, active) /\ active' = Append(active, a)
    BY <1>1 DEF Pass1Add
  <2> HIDE DEF x, a
  <2>4. \A i \in 1..Len(active') :
          \/ \E j \in 1..Len(active) : active'[i] = active[j]
          \/ active'[i] = Last(active') /\ active'[i].step = Len(steps) + 1
    BY <1>0, <2>2, <2>3, AppendedOrOld
  <2> QED  BY <1>0, <2>2, <2>3, <2>4, StillOneClause
<1>2. CASE AddHyp
  <2>1. Head(fmla) \in Clauses  BY <1>2 DEF AddHyp, IInv, TypeOK
  <2> QED  BY <1>1, <1>2, <2>1 DEF AddHyp
<1>3. ASSUME NEW cl \in Clauses, Add(cl) PROVE OneClause'
  BY <1>1, <1>3 DEF Add
<1>4. ASSUME NEW cl \in Clauses, Del(cl) PROVE OneClause'
  <2>1. PICK i \in Matches(cl) :
          /\ steps' = Append(steps, [kind |-> "Del", at |-> i, a |-> active[i]])
          /\ active' = SwapRemove(active, i)
          /\ snaps' = Append(snaps, active)
    BY <1>4 DEF Del
  <2> DEFINE x == [kind |-> "Del", at |-> i, a |-> active[i]]
  <2>2. i \in 1..Len(active) /\ active[i] \in Actives  BY <1>0 DEF Matches
  <2>3. x \in Steps /\ steps' = Append(steps, x)  BY <2>1, <2>2 DEF Steps
  <2>4. \A h \in 1..Len(active') : \E j \in 1..Len(active) : active'[h] = active[j]
    <3>1. Len(active) \in Nat \ {0} /\ Len(active') = Len(active) - 1
      BY <1>0, <2>1, <2>2, SwapRemoveType
    <3> QED  BY <2>1, <3>1 DEF SwapRemove
  <2> HIDE DEF x
  <2> QED  BY <1>0, <2>1, <2>3, <2>4, StillOneClause
<1>5. CASE UNCHANGED <<steps, active, snaps>>
  BY <1>5 DEF OneClause, AddedBy, List
<1>6. CASE Turn \/ Number \/ UNCHANGED vars \/ \E cl \in Clauses : DelMissing(cl)
  BY <1>5, <1>6 DEF Turn, Number, DelMissing, vars
<1>7. CASE Back
  <2>1. PICK n \in Nat \ {0} : n = Len(steps)  BY <1>0, <1>7, Restored
  <2>2. /\ Len(steps') = n - 1 /\ active' = snaps[n]
        /\ \A k \in 1..n-1 : snaps'[k] = snaps[k]
    BY <1>0, <1>7, <2>1, Restored
  <2>3. \A k \in 1..n : List(k)' = List(k)  BY <2>1, <2>2 DEF List
  <2> SUFFICES ASSUME NEW k \in 1..n, NEW i \in 1..Len(List(k)), NEW t, t = List(k)[i].step
               PROVE  List(k)[i].cl = AddedBy(t)'
    BY <2>1, <2>2, <2>3 DEF OneClause
  <2>4. List(k) \in Seq(Actives)  BY <1>0, <2>1 DEF List
  <2>5. List(k)[i] \in Actives  BY <2>4
  <2>6. t \in Nat \ {0}  BY <1>0, <2>5 DEF Actives, Tokens
  <2>7. k \in 1..Len(steps)+1  BY <2>1
  <2>8. t < k /\ List(k)[i].cl = AddedBy(t)  BY <2>7 DEF Dated, OneClause
  <2>9. t + 1 \in 1..n  BY <2>6, <2>8
  <2>10. List(t+1)' = List(t+1)  BY <2>3, <2>9
  <2> QED  BY <2>8, <2>10 DEF AddedBy
<1> QED  BY <1>2, <1>3, <1>4, <1>6, <1>7 DEF Next

(* The token of a line has the clause of the line.                          *)
LEMMA ClauseOfLine ==
  ASSUME NEW j \in 1..Len(out), \A h \in 1..Len(out) : out[h].step = out[j].step => h = j
  PROVE  ClauseOf(out[j].step) = out[j].cl
BY DEF ClauseOf

LEMMA LineTypes ==
  ASSUME TypeOK, NEW j \in 1..Len(out)
  PROVE  out[j].step \in Nat
<1> DEFINE Outs == [step : Tokens, cl : Clauses, reason : Reasons]
<1>1. out \in Seq(Outs)  BY DEF TypeOK
<1>2. out[j] \in Outs
  <2> HIDE DEF Outs
  <2> QED  BY <1>1
<1>3. out[j].step \in Tokens  BY <1>2
<1> QED  BY <1>3, Bounds DEF Tokens

(* Printing the line of the step undone leaves each line its own token.      *)
LEMMA PrintedOnceStep ==
  ASSUME IInv, Dated, PrintedOnce, Pending, [Next]_vars
  PROVE  PrintedOnce'
<1>0. TypeOK /\ Replay  BY DEF IInv
<1>1. CASE AddHyp \/ \E cl \in Clauses : Add(cl) \/ Del(cl)
  <2>1. out' = <<>>
    BY <1>1 DEF AddHyp, Add, Del, Pass1Add, Reading, Pending
  <2> QED  BY <2>1 DEF PrintedOnce
<1>2. CASE UNCHANGED <<steps, out>>  BY <1>2 DEF PrintedOnce
<1>3. CASE Turn \/ Number \/ UNCHANGED vars \/ \E cl \in Clauses : DelMissing(cl)
  BY <1>2, <1>3 DEF Turn, Number, DelMissing, vars
<1>4. CASE Back
  <2>1. PICK n \in Nat \ {0} : n = Len(steps)  BY <1>0, <1>4, Restored
  <2>2. Len(steps') = n - 1  BY <1>0, <1>4, <2>1, Restored
  <2>3. \A j \in 1..Len(out) : /\ out[j].step > n /\ out[j].step > n - 1 /\ out[j].step # n
                               /\ \A h \in 1..Len(out) : out[h].step = out[j].step => h = j
    <3> TAKE j \in 1..Len(out)
    <3>1. out[j].step > n /\ \A h \in 1..Len(out) : out[h].step = out[j].step => h = j
      BY <2>1 DEF PrintedOnce
    <3>3. out[j].step \in Nat  BY <1>0, LineTypes
    <3> QED  BY <3>1, <3>3
  <2>4. CASE out' = out
    <3>1. \A j \in 1..Len(out) : out[j].step > Len(steps')  BY <2>2, <2>3
    <3> QED  BY <2>3, <2>4, <3>1 DEF PrintedOnce
  <2>5. ASSUME NEW rec, rec.step = n, out' = Append(out, rec) PROVE PrintedOnce'
    <3>1. /\ Len(out') = Len(out) + 1 /\ out'[Len(out)+1] = rec /\ Len(out) \in Nat
          /\ \A j \in 1..Len(out) : out'[j] = out[j]
      BY <1>0, <2>5 DEF TypeOK
    <3> SUFFICES ASSUME NEW j \in 1..Len(out)+1
                 PROVE  /\ out'[j].step > n - 1
                        /\ \A h \in 1..Len(out)+1 : out'[h].step = out'[j].step => h = j
      BY <2>2, <3>1 DEF PrintedOnce
    <3>2. \A h \in 1..Len(out)+1 : h \in 1..Len(out) \/ h = Len(out)+1  BY <3>1
    <3>3. CASE j = Len(out) + 1  BY <2>3, <2>5, <3>1, <3>2, <3>3
    <3>4. CASE j \in 1..Len(out)  BY <2>3, <2>5, <3>1, <3>2, <3>4
    <3> QED  BY <3>2, <3>3, <3>4
  <2>6. CASE UndoDel  BY <2>4, <2>6 DEF UndoDel
  <2>7. CASE UndoAdd
    <3> DEFINE a == Last(active)
               r == IF a.hyp THEN [kind |-> "Hyp", cites |-> {}]
                    ELSE FindReason(Front(active), a.cl)
               rec == [step |-> a.step, cl |-> a.cl, reason |-> r]
    <3>1. a.step = n  BY <1>0, <1>4, <2>1, <2>7, OnTop
    <3>2. out' = out \/ out' = Append(out, rec)  BY <2>7 DEF UndoAdd
    <3>3. rec.step = n  BY <3>1
    <3> HIDE DEF rec
    <3> QED  BY <2>4, <2>5, <3>2, <3>3
  <2> QED  BY <1>4, <2>6, <2>7 DEF Back
<1> QED  BY <1>1, <1>3, <1>4 DEF Next

(* What is meant stays, from the step to the line.                          *)
LEMMA MeantKept ==
  ASSUME IInv, Back, Dated, PrintedOnce, PrintedOnce', Pending,
         NEW k \in 1..Len(out), NEW t \in out[k].reason.cites,
         Len(out) <= Len(out'), \A j \in 1..Len(out) : out'[j] = out[j],
         steps[t].kind = "Add" /\ t = Len(steps) /\ t \in needed =>
           \E j \in 1..Len(out') : out'[j].step = t /\ out'[j].cl = AddedBy(t)
  PROVE  Meant(t)' = Meant(t)
<1>0. TypeOK /\ Replay /\ Len(out) \in Nat /\ Len(out') \in Nat
  <2>1. TypeOK /\ TypeOK'  BY TypeStep DEF IInv, Next
  <2> QED  BY <2>1 DEF IInv, TypeOK
<1>1. PICK n \in Nat \ {0} : n = Len(steps)  BY <1>0, Restored
<1>2. /\ Len(steps') = n - 1 /\ active' = snaps[n]
      /\ \A i \in 1..n-1 : snaps'[i] = snaps[i]
  BY <1>0, <1>1, Restored
<1>3. \A i \in 1..n : List(i)' = List(i)  BY <1>1, <1>2 DEF List
<1>4. \/ \E j \in k+1..Len(out) : out[j].step = t
      \/ t \in needed /\ t \in 1..n /\ steps[t].kind = "Add"
  BY <1>1 DEF Pending
<1>5. CASE \E j \in k+1..Len(out) : out[j].step = t
  <2>1. PICK j \in 1..Len(out) : out[j].step = t  BY <1>0, <1>5
  <2>2. j \in 1..Len(out') /\ out'[j] = out[j]  BY <1>0
  <2>3. t > n /\ ClauseOf(t) = out[j].cl
    <3>1. \A h \in 1..Len(out) : out[h].step = out[j].step => h = j  BY DEF PrintedOnce
    <3>2. out[j].step > n  BY <1>1 DEF PrintedOnce
    <3> QED  BY <2>1, <3>1, <3>2, ClauseOfLine
  <2>4. (CHOOSE h \in 1..Len(out') : out'[h].step = t) = j
    <3>1. \A h \in 1..Len(out') : out'[h].step = out'[j].step => h = j
      BY <2>2 DEF PrintedOnce
    <3> QED  BY <2>1, <2>2, <3>1
  <2>5. ClauseOf(t)' = out'[j].cl  BY <2>4 DEF ClauseOf
  <2>6. t \in Nat  BY <1>0, <2>1, LineTypes
  <2>7. ~(t <= n) /\ ~(t <= n - 1)  BY <2>3, <2>6
  <2> QED  BY <1>1, <1>2, <2>2, <2>3, <2>5, <2>7 DEF Meant
<1>6. CASE t \in 1..n-1
  <2>1. t + 1 \in 1..n /\ t <= n /\ t <= n - 1  BY <1>6
  <2>2. AddedBy(t)' = AddedBy(t)  BY <1>3, <2>1 DEF AddedBy
  <2> QED  BY <1>1, <1>2, <2>1, <2>2 DEF Meant
<1>7. CASE t = n /\ t \in needed /\ steps[t].kind = "Add"
  <2>1. PICK j \in 1..Len(out') : out'[j].step = t /\ out'[j].cl = AddedBy(t)
    BY <1>1, <1>7
  <2>2. (CHOOSE h \in 1..Len(out') : out'[h].step = t) = j
    <3>1. \A h \in 1..Len(out') : out'[h].step = out'[j].step => h = j
      BY DEF PrintedOnce
    <3> QED  BY <2>1, <3>1
  <2>3. ClauseOf(t)' = AddedBy(t)  BY <2>1, <2>2 DEF ClauseOf
  <2>4. t <= n /\ ~(t <= n - 1)  BY <1>7
  <2> QED  BY <1>1, <1>2, <2>3, <2>4 DEF Meant
<1> QED  BY <1>4, <1>5, <1>6, <1>7

(* The line of the step undone follows from what it cites.                   *)
LEMMA LineFollows ==
  ASSUME IInv, Dated, OneClause, Back, UndoAdd, ~Last(active).hyp,
         NEW true \in Assignments,
         FindReason(Front(active), Last(active).cl).kind \in {"HR", "RUP"},
         \A t \in FindReason(Front(active), Last(active).cl).cites : Holds(Meant(t)', true)
  PROVE  Holds(Last(active).cl, true)
<1> DEFINE a == Last(active)
           db == Front(active)
<1>0. TypeOK /\ Replay  BY DEF IInv
<1>1. PICK n \in Nat \ {0} : n = Len(steps)  BY <1>0, Restored
<1>2. /\ Len(steps') = n - 1 /\ active' = snaps[n]
      /\ \A i \in 1..n-1 : snaps'[i] = snaps[i]
  BY <1>0, <1>1, Restored
<1>3. \A i \in 1..n : List(i)' = List(i)  BY <1>1, <1>2 DEF List
<1>4. db = List(n) /\ db \in Seq(Actives) /\ a \in Actives
  BY <1>0, <1>1, <1>2, OnTop DEF UndoAdd, List
<1>5. a.cl \in Seq(Lits)  BY <1>4, ClausesAreClauses DEF Actives
<1> HIDE DEF a, db
<1>6. ASSUME NEW i \in 1..Len(db), db[i].step \in FindReason(db, a.cl).cites
      PROVE  Holds(db[i].cl, true)
  <2> DEFINE t == db[i].step
  <2>1. t \in Nat \ {0}  BY <1>4, ListClauses
  <2>2. n \in 1..Len(steps)+1  BY <1>1
  <2>3. t < n /\ db[i].cl = AddedBy(t)  BY <1>4, <2>2 DEF Dated, OneClause
  <2> SUFFICES ASSUME NEW u, u = t PROVE Holds(db[i].cl, true)  OBVIOUS
  <2> HIDE DEF t
  <2>4. u + 1 \in 1..n /\ u <= n - 1  BY <2>1, <2>3
  <2>5. AddedBy(u)' = AddedBy(u)  BY <1>3, <2>4 DEF AddedBy
  <2>6. Meant(u)' = db[i].cl  BY <1>2, <2>3, <2>4, <2>5 DEF Meant
  <2>7. u \in FindReason(db, a.cl).cites  BY <1>6 DEF t
  <2>8. Holds(Meant(u)', true)  BY <2>7 DEF a, db
  <2> QED  BY <2>6, <2>8
<1>7. FindReason(db, a.cl).kind \in {"HR", "RUP"}  BY DEF a, db
<1>8. Holds(a.cl, true)  BY <1>4, <1>5, <1>6, <1>7, ReasonSound
<1> QED  BY <1>8 DEF a

LEMMA FollowsStep ==
  ASSUME IInv, Dated, OneClause, PrintedOnce, PrintedOnce', Pending, Follows, [Next]_vars
  PROVE  Follows'
<1>0. TypeOK /\ Replay  BY DEF IInv
<1>1. CASE AddHyp \/ \E cl \in Clauses : Add(cl) \/ Del(cl)
  <2>1. out' = <<>>
    BY <1>1 DEF AddHyp, Add, Del, Pass1Add, Reading, Pending
  <2> QED  BY <2>1 DEF Follows
<1>2. CASE UNCHANGED <<steps, active, snaps, out>>
  <2>1. \A k : List(k)' = List(k)  BY <1>2 DEF List
  <2>2. \A t : AddedBy(t)' = AddedBy(t) /\ ClauseOf(t)' = ClauseOf(t)
    BY <1>2, <2>1 DEF AddedBy, ClauseOf
  <2>3. \A t : Meant(t)' = Meant(t)  BY <1>2, <2>2 DEF Meant
  <2> QED  BY <1>2, <2>3 DEF Follows
<1>3. CASE Turn \/ Number \/ UNCHANGED vars \/ \E cl \in Clauses : DelMissing(cl)
  BY <1>2, <1>3 DEF Turn, Number, DelMissing, vars
<1>4. CASE Back
  <2>1. Len(steps) \in Nat \ {0}  BY <1>0, <1>4, Restored
  <2>2. ASSUME NEW k \in 1..Len(out), out[k].reason.kind \in {"HR", "RUP"},
               NEW true \in Assignments,
               \A t \in out[k].reason.cites : Meant(t)' = Meant(t),
               \A t \in out[k].reason.cites : Holds(Meant(t)', true)
        PROVE  Holds(out[k].cl, true)
    BY <2>2 DEF Follows
  <2>3. CASE out' = out /\ \A t \in needed : ~(t = Len(steps) /\ steps[t].kind = "Add")
    <3>1. \A k \in 1..Len(out) : \A t \in out[k].reason.cites : Meant(t)' = Meant(t)
      <4>1. Len(out) <= Len(out') /\ \A j \in 1..Len(out) : out'[j] = out[j]
        <5>1. Len(out) \in Nat  BY <1>0 DEF TypeOK
        <5> QED  BY <2>3, <5>1
      <4> QED  BY <1>4, <2>3, <4>1, MeantKept
    <3>2. ASSUME NEW k \in 1..Len(out), out[k].reason.kind \in {"HR", "RUP"},
                 NEW true \in Assignments,
                 \A t \in out[k].reason.cites : Holds(Meant(t)', true)
          PROVE  Holds(out[k].cl, true)
      BY <2>2, <3>1, <3>2
    <3> QED  BY <2>3, <3>2 DEF Follows
  <2>4. CASE UndoDel
    <3>1. out' = out /\ steps[Len(steps)].kind = "Del"  BY <2>4 DEF UndoDel, Last
    <3> QED  BY <2>3, <3>1
  <2>5. CASE UndoAdd
    <3> DEFINE a == Last(active)
               r == IF a.hyp THEN [kind |-> "Hyp", cites |-> {}]
                    ELSE FindReason(Front(active), a.cl)
               rec == [step |-> a.step, cl |-> a.cl, reason |-> r]
    <3>1. a.step = Len(steps)  BY <1>0, <1>4, <2>5, OnTop
    <3>2. CASE ~(a.hyp \/ a.step \in needed)
      <4>1. out' = out  BY <2>5, <3>2 DEF UndoAdd
      <4> QED  BY <2>3, <3>1, <3>2, <4>1
    <3>3. CASE a.hyp \/ a.step \in needed
      <4>1. out' = Append(out, rec)  BY <2>5, <3>3 DEF UndoAdd
      <4>2. rec.step = a.step /\ rec.cl = a.cl /\ rec.reason = r  OBVIOUS
      <4>3. a.cl = AddedBy(Len(steps))
        <5>1. List(Len(steps)+1) = active  BY <2>1 DEF List
        <5> QED  BY <5>1 DEF AddedBy
      <4>4. ASSUME NEW true \in Assignments, r.kind \in {"HR", "RUP"},
                   \A t \in r.cites : Holds(Meant(t)', true)
            PROVE  Holds(a.cl, true)
        <5>1. ~a.hyp  BY <4>4
        <5>2. r = FindReason(Front(active), a.cl)  BY <5>1
        <5> HIDE DEF r
        <5> QED  BY <1>4, <2>5, <4>4, <5>1, <5>2, LineFollows
      <4> HIDE DEF rec, r, a
      <4>5. /\ Len(out') = Len(out) + 1 /\ out'[Len(out)+1] = rec /\ Len(out) \in Nat
            /\ \A j \in 1..Len(out) : out'[j] = out[j]
        BY <1>0, <4>1 DEF TypeOK
      <4>6. Len(out) <= Len(out') /\ Len(out)+1 \in 1..Len(out')  BY <4>5
      <4>7. \E j \in 1..Len(out') : out'[j].step = Len(steps) /\ out'[j].cl = AddedBy(Len(steps))
        BY <3>1, <4>2, <4>3, <4>5, <4>6
      <4>8. \A k \in 1..Len(out) : \A t \in out[k].reason.cites : Meant(t)' = Meant(t)
        BY <1>4, <4>5, <4>6, <4>7, MeantKept
      <4> SUFFICES ASSUME NEW k \in 1..Len(out)+1, out'[k].reason.kind \in {"HR", "RUP"},
                          NEW true \in Assignments,
                          \A t \in out'[k].reason.cites : Holds(Meant(t)', true)
                   PROVE  Holds(out'[k].cl, true)
        BY <4>5 DEF Follows
      <4>9. CASE k = Len(out) + 1
        <5>1. out'[k].reason = r /\ out'[k].cl = a.cl  BY <4>2, <4>5, <4>9
        <5> QED  BY <4>4, <5>1
      <4>10. CASE k \in 1..Len(out)
        <5>1. out'[k] = out[k]  BY <4>5, <4>10
        <5> QED  BY <2>2, <4>8, <4>10, <5>1
      <4>11. k = Len(out) + 1 \/ k \in 1..Len(out)  BY <4>5
      <4> QED  BY <4>9, <4>10, <4>11
    <3> QED  BY <3>2, <3>3
  <2> QED  BY <1>4, <2>4, <2>5 DEF Back
<1> QED  BY <1>1, <1>3, <1>4 DEF Next

(* What is printed as a reason is one: the clause follows from the clauses    *)
(* printed before it that the line cites.                                   *)
THEOREM ReasonsJustify == Spec => []Justified
<1> DEFINE J == Dated /\ Pending /\ OneClause /\ PrintedOnce /\ Follows
<1>1. Init => J
  BY DEF Init, Dated, Pending, OneClause, PrintedOnce, Follows, List
<1>2. IInv /\ IInv' /\ J /\ [Next]_vars => J'
  BY DatedStep, PendingStep, OneClauseStep, PrintedOnceStep, FollowsStep
<1>3. IInv /\ J => Justified
  <2> SUFFICES ASSUME IInv, J, pc = "done", NEW k \in 1..Len(out),
                      out[k].reason.kind \in {"HR", "RUP"}, NEW true \in Assignments,
                      \A t \in out[k].reason.cites : Holds(ClauseOf(t), true)
               PROVE  Holds(out[k].cl, true)
    BY DEF Justified
  <2>1. steps = <<>> /\ Len(steps) = 0  BY DEF Pending
  <2>2. ASSUME NEW t \in out[k].reason.cites PROVE Meant(t) = ClauseOf(t)
    <3>1. PICK j \in k+1..Len(out) : out[j].step = t  BY <2>1 DEF Pending
    <3>2. j \in 1..Len(out)  OBVIOUS
    <3>3. t \in Nat /\ t > 0  BY <2>1, <3>1, <3>2, LineTypes DEF IInv, PrintedOnce
    <3>4. ~(t <= Len(steps))  BY <2>1, <3>3
    <3> QED  BY <3>4 DEF Meant
  <2> QED  BY <2>2 DEF Follows
<1> HIDE DEF J
<1> QED  BY <1>1, <1>2, <1>3, Invariance, PTL DEF Spec

-----------------------------------------------------------------------------
(* Where the search gives up, there is no proof to be found.                *)

(* No literal twice, and not with its complement.                           *)
Plain(cl) == \A i, j \in 1..Len(cl) : i # j => Var(cl[i]) # Var(cl[j])

LEMMA StuckNotRup ==
  ASSUME NEW db \in Seq(Actives), NEW cl \in Seq(Lits), Plain(cl),
         \A i \in 1..Len(db) : Plain(db[i].cl),
         ~Conflict(LocalSteps(db, cl))
  PROVE  NotRup(db, cl)
<1> DEFINE s == LocalSteps(db, cl)
           n == Len(s)
           false == {s[k].lit : k \in 1..n}
<1>1. s \in Locals(db, cl) /\ Grows(Hyps(cl), s) /\ Round(s, db) = s
  BY LocalGood
<1>2. \A i \in 1..Len(db) : ProcessLocal(s, db[i]) = s  BY <1>1, RoundAsksAll
<1>3. ~Conflict(s)  OBVIOUS
<1> HIDE DEF s
<1>4. s \in Seq(LocalStep) /\ n \in Nat  BY <1>1 DEF Locals
<1>5. \A k \in 1..n : s[k].lit \in Lits  BY <1>1, <1>3, NoConflictLits
<1>6. /\ Len(Hyps(cl)) = Len(cl) /\ Len(cl) \in Nat /\ Len(cl) <= n
      /\ \A k \in 1..Len(cl) : s[k].lit = cl[k]
  <2>1. Hyps(cl) \in Seq(LocalStep)  BY HypsGood DEF Locals
  <2>2. DOMAIN Hyps(cl) = 1..Len(cl) /\ Len(cl) \in Nat  BY DEF Hyps
  <2>3. Len(Hyps(cl)) = Len(cl)  BY <2>1, <2>2, LenProperties
  <2>4. \A k \in 1..Len(cl) : Hyps(cl)[k].lit = cl[k]
    <3> TAKE k \in 1..Len(cl)
    <3>1. Hyps(cl)[k] = [step |-> 0, cl |-> <<>>, lit |-> cl[k]]  BY DEF Hyps
    <3> QED  BY <3>1
  <2> QED  BY <1>1, <2>2, <2>3, <2>4 DEF Grows
<1>7. ASSUME NEW j \in 1..n, NEW k \in 1..n, j < k PROVE Var(s[j].lit) # Var(s[k].lit)
  <2>1. CASE k <= Len(cl)
    <3>1. j \in 1..Len(cl) /\ k \in 1..Len(cl) /\ j # k  BY <1>4, <1>6, <1>7, <2>1
    <3>2. s[j].lit = cl[j] /\ s[k].lit = cl[k]  BY <1>6, <3>1
    <3> QED  BY <3>1, <3>2 DEF Plain
  <2>2. CASE k > Len(cl)
    <3>1. k \in Len(cl)+1..n /\ j \in 1..k-1  BY <1>4, <1>6, <1>7, <2>2
    <3> QED  BY <1>1, <1>6, <3>1 DEF Grows
  <2> QED  BY <1>4, <1>6, <2>1, <2>2
<1>8. \A l : FalsifiedAt(s, l) = {} => l \notin false
  <2> SUFFICES ASSUME NEW k \in 1..n PROVE FalsifiedAt(s, s[k].lit) # {}  OBVIOUS
  <2>1. \A j \in k+1..n : Var(s[j].lit) # Var(s[k].lit)
    <3> TAKE j \in k+1..n
    <3>1. j \in 1..n /\ k < j  BY <1>4
    <3> QED  BY <1>7, <3>1
  <2>2. k \in FalsifiedAt(s, s[k].lit)  BY <1>4, <2>1, FalsifiedFacts
  <2> QED  BY <2>2
<1>9. false \subseteq Lits /\ ToSet(cl) \subseteq false
  <2>1. \A l \in ToSet(cl) : \E k \in 1..Len(cl) : l = cl[k]  BY DEF ToSet
  <2>2. \A k \in 1..Len(cl) : k \in 1..n  BY <1>4, <1>6
  <2> QED  BY <1>5, <1>6, <2>1, <2>2
<1>10. ASSUME NEW l \in false PROVE -l \notin false
  <2>1. PICK k \in 1..n : l = s[k].lit  OBVIOUS
  <2>2. SUFFICES ASSUME NEW j \in 1..n, s[j].lit = -l PROVE FALSE  OBVIOUS
  <2>3. l \in Lits /\ l # -l /\ Var(s[j].lit) = Var(s[k].lit)
    <3>1. l \in Lits  BY <1>9
    <3>2. l \in Int /\ l # 0 /\ Var(-l) = Var(l)  BY <3>1, LitFacts
    <3> QED  BY <2>1, <2>2, <3>1, <3>2
  <2>4. j # k  BY <2>1, <2>2, <2>3
  <2>5. j < k \/ k < j  BY <1>4, <2>4
  <2> QED  BY <1>7, <2>3, <2>5
<1>11. ASSUME NEW i \in 1..Len(db)
       PROVE  /\ Open(db[i].cl, false) # {}
              /\ \A l \in Open(db[i].cl, false) : Open(db[i].cl, false) = {l} => -l \in false
  <2> DEFINE a == db[i]
             c == a.cl
             open == {h \in 1..Len(c) : FalsifiedAt(s, c[h]) = {}}
             assigned(l) == \E k \in 1..Len(s) : Var(s[k].lit) = Var(l)
             up(l) == [step |-> a.step, cl |-> c, lit |-> l]
  <2>0. c \in Seq(Lits) /\ Len(c) \in Nat  BY ListClauses
  <2>1. \A e : Append(s, e) # s
    <3> TAKE e
    <3>1. Len(Append(s, e)) = n + 1  BY <1>4
    <3> QED  BY <1>4, <3>1
  <2>2. open # {}
    <3>1. open = {} => ProcessLocal(s, a) = Append(s, up(0))  BY <1>3 DEF ProcessLocal
    <3> QED  BY <1>2, <2>1, <3>1
  <2>3. \A h \in open : open = {h} => assigned(c[h])
    <3>1. (\E h \in open : open = {h} /\ ~assigned(c[h]))
            => ProcessLocal(s, a) = Append(s, up(-c[CHOOSE h \in open : TRUE]))
      BY <1>3 DEF ProcessLocal
    <3> HIDE DEF open, up, assigned
    <3> QED  BY <1>2, <2>1, <3>1
  <2>4. \A h \in 1..Len(c) : h \in open <=> c[h] \notin false
    <3> TAKE h \in 1..Len(c)
    <3>1. h \in open => c[h] \notin false  BY <1>8
    <3>2. ASSUME h \notin open PROVE c[h] \in false
      <4>1. PICK k : k \in FalsifiedAt(s, c[h])  BY <3>2
      <4>2. k \in 1..n /\ s[k].lit = c[h]  BY <1>4, <4>1, FalsifiedFacts
      <4> QED  BY <4>2
    <3> QED  BY <3>1, <3>2
  <2>5. Open(c, false) = {c[h] : h \in open}
    <3>1. ToSet(c) = {c[h] : h \in 1..Len(c)}  BY <2>0 DEF ToSet
    <3>2. open \subseteq 1..Len(c)  OBVIOUS
    <3> HIDE DEF open, false
    <3> QED  BY <2>4, <3>1, <3>2 DEF Open
  <2>6. Open(c, false) # {}  BY <2>2, <2>5
  <2>7. ASSUME NEW l \in Open(c, false), Open(c, false) = {l} PROVE -l \in false
    <3>1. PICK h \in open : l = c[h]  BY <2>5
    <3>2. \A g \in open : g = h
      <4> TAKE g \in open
      <4>1. c[g] = c[h]  BY <2>5, <2>7, <3>1
      <4> QED  BY <4>1 DEF Plain
    <3>3. open = {h}  BY <3>2
    <3>4. PICK k \in 1..n : Var(s[k].lit) = Var(l)  BY <2>3, <3>1, <3>3
    <3>5. l \in Lits /\ s[k].lit \in Lits /\ l \notin false
      <4>1. l \in Lits  BY <2>0, <3>1
      <4> QED  BY <1>5, <2>4, <3>1, <4>1
    <3>6. s[k].lit = l \/ s[k].lit = -l
      <4>1. l \in Int /\ s[k].lit \in Int  BY <3>5, LitFacts
      <4> HIDE DEF false
      <4> QED  BY <3>4, <4>1 DEF Var
    <3>7. s[k].lit # l  BY <3>5
    <3> QED  BY <3>6, <3>7
  <2> QED  BY <2>6, <2>7
<1>12. \A a \in ToSet(db) : \E i \in 1..Len(db) : a = db[i]  BY DEF ToSet
<1> HIDE DEF false
<1>13. \A a \in ToSet(db) :
         /\ Open(a.cl, false) # {}
         /\ \A l \in Open(a.cl, false) : Open(a.cl, false) = {l} => -l \in false
  BY <1>11, <1>12
<1> QED  BY <1>9, <1>10, <1>13 DEF NotRup

(* If no clause has a literal twice or with its complement, the pass gives    *)
(* up on a clause only where unit propagation does not prove it.             *)
THEOREM GivesUpOnlyRightly == (\A c \in Clauses : Plain(c)) /\ Spec => GivesUpRightly
<1>1. ASSUME \A c \in Clauses : Plain(c), IInv, [Next]_vars,
             Len(out') > Len(out), Last(out').reason.kind = "Sorry"
      PROVE  NotRup(active', Last(out').cl)
  <2>0. TypeOK /\ Replay /\ Len(out) \in Nat  BY <1>1 DEF IInv, TypeOK
  <2>1. Back /\ UndoAdd
    <3>1. ~(Len(out) > Len(out))  BY <2>0
    <3>2. out' # out  BY <1>1, <3>1
    <3> QED  BY <1>1, <3>2 DEF Next, AddHyp, Add, Del, DelMissing, Pass1Add, Turn, Back,
                               UndoDel, Number, vars
  <2> DEFINE a == Last(active)
             r == IF a.hyp THEN [kind |-> "Hyp", cites |-> {}]
                  ELSE FindReason(Front(active), a.cl)
             rec == [step |-> a.step, cl |-> a.cl, reason |-> r]
  <2>2. active' = Front(active) /\ Front(active) \in Seq(Actives) /\ a \in Actives
    BY <2>0, <2>1, OnTop DEF UndoAdd
  <2>3. out' = Append(out, rec) \/ out' = out  BY <2>1 DEF UndoAdd
  <2>4. rec.cl = a.cl /\ rec.reason = r  OBVIOUS
  <2>5. r.kind = "Sorry" => ~a.hyp /\ r = FindReason(Front(active), a.cl)  OBVIOUS
  <2>6. FindReason(Front(active), a.cl).kind = "Sorry"
          => ~Conflict(LocalSteps(Front(active), a.cl))
    BY DEF FindReason
  <2>7. a.cl \in Clauses /\ a.cl \in Seq(Lits)  BY <2>2, ClausesAreClauses DEF Actives
  <2>8. \A i \in 1..Len(Front(active)) : Plain(Front(active)[i].cl)
    BY <1>1, <2>2, ListClauses
  <2> HIDE DEF a, r, rec
  <2>9. out' = Append(out, rec) /\ Last(out') = rec
    <3>1. out' = Append(out, rec)  BY <1>1, <2>0, <2>3
    <3>2. Len(out') = Len(out) + 1 /\ out'[Len(out)+1] = rec  BY <2>0, <3>1 DEF TypeOK
    <3> QED  BY <3>1, <3>2 DEF Last
  <2>10. ~Conflict(LocalSteps(Front(active), a.cl))  BY <1>1, <2>4, <2>5, <2>6, <2>9
  <2>11. NotRup(Front(active), a.cl)  BY <1>1, <2>2, <2>7, <2>8, <2>10, StuckNotRup
  <2> QED  BY <2>2, <2>4, <2>9, <2>11
<1> DEFINE Step == Len(out') > Len(out) /\ Last(out').reason.kind = "Sorry"
                     => NotRup(active', Last(out').cl)
<1>2. (\A c \in Clauses : Plain(c)) /\ IInv /\ [Next]_vars => [Step]_vars
  BY <1>1
<1> DEFINE PlainAll == \A c \in Clauses : Plain(c)
<1>3. PlainAll /\ IInv /\ [Next]_vars => [Step]_vars  BY <1>2
<1>4. CASE PlainAll
  <2>1. IInv /\ [Next]_vars => [Step]_vars  BY <1>3, <1>4
  <2>2. Spec => [][Step]_vars  BY <2>1, Invariance, PTL DEF Spec
  <2> QED  BY <2>2 DEF GivesUpRightly
<1> QED  BY <1>4
=============================================================================
