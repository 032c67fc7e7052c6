----------------------------- MODULE UnitHints ------------------------------
(***************************************************************************)
(* The hint of a step: what finalize_hint() of src/elab.rs writes down when  *)
(* the engine of UnitProp has found its conflict.  Walking back from both    *)
(* sides of the conflict along the reasons, it lists each clause that was     *)
(* needed after those it rests on.                                         *)
(***************************************************************************)
EXTENDS UnitProp, SequencesExt

(* The hint so far: out.temp the literals marked, out.steps the clauses.     *)
Outs == [temp : Seq(Lits), steps : Seq(Ids)]
NoHint == [temp |-> <<>>, steps |-> <<>>]

(* The literals of the reason of l that are false, in its order.            *)
Others(l) ==
  LET i == reasons[l] IN IF i = None \/ clauses[i] = <<>> THEN <<>> ELSE Tail(clauses[i])

(* mark() called by mark: the complements of others that have no mark yet.   *)
MarkEach(mark, others, out) ==
  LET after[k \in 0..Len(others)] ==
        IF k = 0 THEN out
        ELSE IF -others[k] \in Range(after[k-1].temp) THEN after[k-1]
        ELSE mark[<<-others[k], after[k-1]>>]
  IN after[Len(others)]

Listed(out, l) == IF reasons[l] = None THEN out ELSE [out EXCEPT !.steps = Append(@, reasons[l])]
Marked(out, l) == [out EXCEPT !.temp = Append(@, l)]

(* Mutant: a clause is listed before those it rests on.                     *)
MarkEarly(mark, l, out) == MarkEach(mark, Others(l), Listed(Marked(out, l), l))

MarkOne(mark, l, out) == Marked(Listed(MarkEach(mark, Others(l), out), l), l)

(* Finalize::mark().  A reason rests on literals assigned before, so that    *)
(* the length of the trail bounds the depth of the calls.                   *)
Mark(l, out) ==
  LET mark[d \in 0..Len(truStack)] ==
        [p \in Lits \X Outs |-> IF d = 0 THEN p[2] ELSE MarkOne(mark[d-1], p[1], p[2])]
  IN mark[Len(truStack)][<<l, out>>]

(* Mutant: only one side of the conflict is explained.                     *)
OneSide == Mark(conflict, NoHint).steps

FinalHint == Mark(-conflict, Mark(conflict, NoHint)).steps

-----------------------------------------------------------------------------
(* A checker with validate_hints (propagate_hint() as lratchk calls it) holds *)
(* the literals of A true and goes through the hint h: a satisfied clause is  *)
(* skipped, and any other must be unit, or falsified, which ends the proof.  *)
Use(st, c) ==
  LET free == {l \in Range(c) : -l \notin st.true} IN
  IF st.proved \/ st.rejected \/ Range(c) \intersect st.true # {} THEN st
  ELSE [true |-> st.true \union free, proved |-> free = {}, rejected |-> Cardinality(free) > 1]

ReplayFrom(A, h) ==
  LET after[n \in 0..Len(h)] ==
        IF n = 0 THEN [true |-> A, proved |-> FALSE, rejected |-> FALSE]
        ELSE Use(after[n-1], clauses[h[n]])
  IN after[Len(h)]

Replay(c, h) == ReplayFrom(Negated(c), h)

Tautology(c) == \E l \in Range(c) : -l \in Range(c)

(* The hint that elab writes is a proof: every clause of it is unit when its  *)
(* turn comes, and one of them is falsified.  Only a tautology may have a    *)
(* hint that proves nothing (the debug_assert of finalize_hint()).           *)
HintReplays ==
  pc = "found" => Replay(goal, FinalHint).proved \/ Tautology(goal)

(* trim() takes a step with one hint for a copy of the hint: the clause the   *)
(* hint names is then contained in the clause of the step.                  *)
HintSubsumes ==
  pc = "found" /\ Len(FinalHint) = 1 => Range(clauses[FinalHint[1]]) \subseteq Range(goal)
=============================================================================
