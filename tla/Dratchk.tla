------------------------------ MODULE Dratchk ------------------------------
(***************************************************************************)
(* src/dratchk.rs: the two-pass elaborator of DRAT proofs.  Pass1 reads the *)
(* formula and the proof and keeps the list of active clauses; Pass2 walks  *)
(* the steps backward, restores the list step by step, and looks for a      *)
(* reason for each clause that a later reason cites.                        *)
(*                                                                         *)
(* A clause is a sequence of literals (nonzero integers).  A StepToken is   *)
(* the number of the step that made it; its flag is membership in needed,   *)
(* shared by every copy of the token as the Rc shares it.                   *)
(***************************************************************************)
EXTENDS Integers, Sequences, SequencesExt

CONSTANTS
  NumVars,    \* the variables are 1..NumVars
  Clauses,    \* the clauses a proof may add or delete
  Formulas,   \* the formulas: sequences of clauses
  MaxSteps    \* bound: steps of a formula and its proof together

Lits == {l \in -NumVars..NumVars : l # 0}
Var(l) == IF l < 0 THEN -l ELSE l

ASSUME Bounds == NumVars \in Nat /\ MaxSteps \in Nat
ASSUME ClausesAreClauses == Clauses \subseteq Seq(Lits)
ASSUME FormulasAreFormulas == Formulas \subseteq Seq(Clauses)

VARIABLES
  pc,       \* "proof", "back", "done", or "panic"
  fmla,     \* the clauses of the formula not added yet
  steps,    \* Pass1.steps; Pass2 takes them from the end
  active,   \* the active clauses
  needed,   \* tokens a reason cites
  out,      \* Pass2.steps: what to print, the last line first
  snaps     \* history: the list of active clauses before each of steps

vars == <<pc, fmla, steps, active, needed, out, snaps>>

Tokens == 1..MaxSteps
Actives == [step : Tokens, cl : Clauses, hyp : BOOLEAN]

-----------------------------------------------------------------------------
(* The list of active clauses.                                             *)

(* Mutant: remove(), which keeps the order.                                 *)
ShiftRemove(s, i) == [j \in 1..Len(s)-1 |-> IF j < i THEN s[j] ELSE s[j+1]]

(* Vec::swap_remove: the last element takes the place of the removed one.   *)
SwapRemove(s, i) == [j \in 1..Len(s)-1 |-> IF j = i THEN s[Len(s)] ELSE s[j]]

(* swap_insert: the element in the way goes to the end.                     *)
SwapInsert(s, i, x) ==
  [j \in 1..Len(s)+1 |-> IF j = i THEN x ELSE IF j <= Len(s) THEN s[j] ELSE s[i]]

IsPermutation(c, d) == Len(c) = Len(d) /\ ToSet(c) \subseteq ToSet(d)

(* The places of the clauses a deletion may mean; it takes the first.       *)
Matches(cl) == {i \in 1..Len(active) : IsPermutation(active[i].cl, cl)}

-----------------------------------------------------------------------------
(* Pass1.                                                                  *)

Pass1Add(cl, hyp) ==
  /\ Len(steps) < MaxSteps
  /\ steps' = Append(steps, [kind |-> "Add"])
  /\ active' = Append(active, [step |-> Len(steps) + 1, cl |-> cl, hyp |-> hyp])
  /\ snaps' = Append(snaps, active)
  /\ UNCHANGED <<needed, out>>

AddHyp ==
  /\ pc = "proof" /\ fmla # <<>>
  /\ Pass1Add(Head(fmla), TRUE)
  /\ fmla' = Tail(fmla)
  /\ UNCHANGED pc

Reading == pc = "proof" /\ fmla = <<>>

Add(cl) == Reading /\ Pass1Add(cl, FALSE) /\ UNCHANGED <<pc, fmla>>

(* Mutant: the place in the list counted from 0.                            *)
DelFromZero(cl) ==
  /\ Reading /\ Len(steps) < MaxSteps
  /\ \E i \in Matches(cl) :
       /\ \A j \in Matches(cl) : i <= j
       /\ steps' = Append(steps, [kind |-> "Del", at |-> i - 1, a |-> active[i]])
       /\ active' = SwapRemove(active, i)
       /\ snaps' = Append(snaps, active)
  /\ UNCHANGED <<pc, fmla, needed, out>>

Del(cl) ==
  /\ Reading /\ Len(steps) < MaxSteps
  /\ \E i \in Matches(cl) :
       /\ \A j \in Matches(cl) : i <= j
       /\ steps' = Append(steps, [kind |-> "Del", at |-> i, a |-> active[i]])
       /\ active' = SwapRemove(active, i)
       /\ snaps' = Append(snaps, active)
  /\ UNCHANGED <<pc, fmla, needed, out>>

(* "could not find clause"                                                  *)
DelMissing(cl) ==
  /\ Reading /\ Matches(cl) = {}
  /\ pc' = "panic"
  /\ UNCHANGED <<fmla, steps, active, needed, out, snaps>>

-----------------------------------------------------------------------------
(* Pass2: the search for a reason.                                         *)

(* Pass2::new(); no clause left is an "incomplete proof".                   *)
Turn ==
  /\ Reading
  /\ IF active = <<>> THEN pc' = "panic" /\ UNCHANGED needed
     ELSE pc' = "back" /\ needed' = {Last(active).step}
  /\ UNCHANGED <<fmla, steps, active, out, snaps>>

(* One literal per variable of a sequence: assign[] keeps the last.         *)
LastOnes(s) == {i \in 1..Len(s) : \A j \in i+1..Len(s) : Var(s[j]) # Var(s[i])}
Me(cl) == {cl[i] : i \in LastOnes(cl)}

(* find_hyper_resolution: literals of the clause stand for themselves, on   *)
(* other variables the last unit clause takes away its complement.          *)
IsUnitClause(a) == Len(a.cl) = 1
Units(db, cl) ==
  {i \in 1..Len(db) :
     /\ IsUnitClause(db[i])
     /\ \A l \in ToSet(cl) : Var(l) # Var(db[i].cl[1])
     /\ \A j \in i+1..Len(db) : IsUnitClause(db[j]) => Var(db[j].cl[1]) # Var(db[i].cl[1])}

Fits(db, cl) ==
  {k \in 1..Len(db) :
     ToSet(db[k].cl) \subseteq Me(cl) \union {-db[i].cl[1] : i \in Units(db, cl)}}

(* The last clause that fits, and the unit clauses that resolve with it.    *)
FindHyperResolution(db, cl) ==
  LET hit == {k \in Fits(db, cl) : \A j \in Fits(db, cl) : j <= k}
      used == {i \in Units(db, cl) : \E k \in hit : -db[i].cl[1] \in ToSet(db[k].cl)}
  IN {db[i].step : i \in hit \union used}

(* find_reverse_unit_propagation: local is the list of local steps, each    *)
(* with the literal it falsifies (0: all literals of its clause are false); *)
(* a literal is false if the last local step on its variable falsifies it.  *)
FalsifiedAt(local, l) == {k \in LastOnes([j \in 1..Len(local) |-> local[j].lit]) : local[k].lit = l}

Conflict(local) == local # <<>> /\ Last(local).lit = 0

(* process_local: a clause with one literal left falsifies its complement.  *)
ProcessLocal(local, a) ==
  LET open == {i \in 1..Len(a.cl) : FalsifiedAt(local, a.cl[i]) = {}}
      assigned(l) == \E k \in 1..Len(local) : Var(local[k].lit) = Var(l)
      up(l) == [step |-> a.step, cl |-> a.cl, lit |-> l]
  IN IF Conflict(local) THEN local
     ELSE IF open = {} THEN Append(local, up(0))
     ELSE IF \E i \in open : open = {i} /\ ~assigned(a.cl[i])
     THEN Append(local, up(-a.cl[CHOOSE i \in open : TRUE]))
     ELSE local

(* The cited clauses from the end, or all clauses from the start.           *)
Sweep(local, db, citedOnly) ==
  LET at(k) == IF citedOnly THEN db[Len(db) + 1 - k] ELSE db[k]
      after[k \in 0..Len(db)] ==
        IF k = 0 THEN local
        ELSE IF citedOnly /\ at(k).step \notin needed THEN after[k-1]
        ELSE ProcessLocal(after[k-1], at(k))
  IN after[Len(db)]

(* One turn of the loop 'a: all clauses only when the cited give nothing.    *)
Round(local, db) ==
  LET first == Sweep(local, db, TRUE)
  IN IF first # local THEN first ELSE Sweep(local, db, FALSE)

Hyps(cl) == [i \in 1..Len(cl) |-> [step |-> 0, cl |-> <<>>, lit |-> cl[i]]]

(* Mutant: the loop does not go on after progress.                          *)
OneRound(db, cl) == Round(Hyps(cl), db)

(* Each turn falsifies a literal of another variable, finds the conflict or *)
(* is the last.                                                            *)
LocalSteps(db, cl) ==
  LET after[k \in 0..NumVars+1] ==
        IF k = 0 THEN Hyps(cl) ELSE Round(after[k-1], db)
  IN after[NumVars+1]

(* The local steps that falsified literals of the clause of step k.         *)
Antecedents(local, k) == UNION {FalsifiedAt(local, l) : l \in ToSet(local[k].cl)}

(* Mutant: the stack keeps the conflict and its hypotheses only.            *)
UsedOnce(local) == {Len(local)} \union Antecedents(local, Len(local))

(* The stack: from the conflict to the local steps that falsified the       *)
(* literals of a clause, down to the first one.                             *)
Used(local) ==
  LET n == Len(local)
      reached[k \in 0..n] ==
        IF k = 0 THEN {n}
        ELSE LET S == reached[k-1]
             IN S \union IF n + 1 - k \in S THEN Antecedents(local, n + 1 - k) ELSE {}
  IN reached[n]

RupSteps(db, cl) ==
  LET local == LocalSteps(db, cl)
  IN {i \in 1..Len(db) : \E k \in Used(local) : local[k].step = db[i].step}

FindReason(db, cl) ==
  IF Fits(db, cl) # {} THEN [kind |-> "HR", cites |-> FindHyperResolution(db, cl)]
  ELSE IF Conflict(LocalSteps(db, cl))
  THEN [kind |-> "RUP", cites |-> {db[i].step : i \in RupSteps(db, cl)}]
  ELSE [kind |-> "Sorry", cites |-> {}]

-----------------------------------------------------------------------------
(* Pass2: process_step.                                                    *)

UndoDel ==
  /\ pc = "back" /\ steps # <<>> /\ Last(steps).kind = "Del"
  /\ active' = SwapInsert(active, Last(steps).at, Last(steps).a)
  /\ UNCHANGED <<needed, out>>

(* Mutant: the hypotheses of a reason are not marked.                       *)
UndoAddForgets ==
  /\ pc = "back" /\ steps # <<>> /\ Last(steps).kind = "Add"
  /\ active' = Front(active)
  /\ LET a == Last(active)
     IN IF a.hyp \/ a.step \in needed
        THEN out' = Append(out, [step |-> a.step, cl |-> a.cl, reason |->
                IF a.hyp THEN [kind |-> "Hyp", cites |-> {}] ELSE FindReason(Front(active), a.cl)])
        ELSE UNCHANGED out
  /\ UNCHANGED needed

(* A clause of the formula is always printed, any other if it is cited.     *)
UndoAdd ==
  /\ pc = "back" /\ steps # <<>> /\ Last(steps).kind = "Add"
  /\ active' = Front(active)
  /\ LET a == Last(active)
         reason == IF a.hyp THEN [kind |-> "Hyp", cites |-> {}]
                   ELSE FindReason(Front(active), a.cl)
     IN IF a.hyp \/ a.step \in needed
        THEN /\ out' = Append(out, [step |-> a.step, cl |-> a.cl, reason |-> reason])
             /\ needed' = needed \union reason.cites
        ELSE UNCHANGED <<needed, out>>

Back ==
  /\ UndoDel \/ UndoAdd
  /\ steps' = Front(steps) /\ snaps' = Front(snaps)
  /\ UNCHANGED <<pc, fmla>>

(* The lines are numbered from the last pushed and printed.                 *)
Number ==
  /\ pc = "back" /\ steps = <<>>
  /\ pc' = "done"
  /\ UNCHANGED <<fmla, steps, active, needed, out, snaps>>

Init ==
  /\ pc = "proof" /\ fmla \in Formulas
  /\ steps = <<>> /\ active = <<>> /\ needed = {} /\ out = <<>> /\ snaps = <<>>

Next ==
  \/ AddHyp
  \/ \E cl \in Clauses : Add(cl) \/ Del(cl) \/ DelMissing(cl)
  \/ Turn \/ Back \/ Number

Spec == Init /\ [][Next]_vars

-----------------------------------------------------------------------------
(* Properties.                                                             *)

Steps == [kind : {"Add"}] \union [kind : {"Del"}, at : Nat \ {0}, a : Actives]
Reasons == [kind : {"Hyp", "HR", "RUP", "Sorry"}, cites : SUBSET Tokens]

(* Everything has its type, and there is one old list for each step.        *)
TypeOK ==
  /\ fmla \in Seq(Clauses)
  /\ pc \in {"proof", "back", "done", "panic"}
  /\ steps \in Seq(Steps) /\ Len(steps) <= MaxSteps
  /\ active \in Seq(Actives)
  /\ needed \subseteq Tokens
  /\ out \in Seq([step : Tokens, cl : Clauses, reason : Reasons])
  /\ snaps \in Seq(Seq(Actives)) /\ Len(snaps) = Len(steps)

(* Pass2 looks for reasons in the very lists of clauses that Pass1 had, each *)
(* clause in its place, although it only knows what each deletion removed.  *)
R == INSTANCE Rewind WITH now <- active, past <- snaps, Lists <- Seq(Actives)
Rewinds == R!Spec

(* A line that is printed cites only lines printed before it, so that every *)
(* token has its number, a smaller one: also when the cited clause was      *)
(* deleted, or deleted and its place taken by another, in between.          *)
CitedBefore ==
  pc = "done" =>
    \A k \in 1..Len(out) : \A t \in out[k].reason.cites :
      \E j \in k+1..Len(out) : out[j].step = t

(* A clause follows from the clauses its reason cites, whatever the         *)
(* variables are.                                                          *)
Holds(cl, true) == ToSet(cl) \intersect true # {}
Assignments == {true \in SUBSET Lits : \A v \in 1..NumVars : v \in true <=> -v \notin true}
ClauseOf(t) == LET k == CHOOSE k \in 1..Len(out) : out[k].step = t IN out[k].cl
Justified ==
  pc = "done" =>
    \A k \in 1..Len(out) : out[k].reason.kind \in {"HR", "RUP"} =>
      \A true \in Assignments :
        (\A t \in out[k].reason.cites : Holds(ClauseOf(t), true)) => Holds(out[k].cl, true)

(* The pass gives up on a clause only if unit propagation over the clauses  *)
(* active at that moment cannot prove it: its negation has an extension     *)
(* closed under propagation that falsifies no clause.  (Clauses without     *)
(* repeated literals, and not tautologies.)                                *)
Open(cl, false) == {l \in ToSet(cl) : l \notin false}
NotRup(db, cl) ==
  \E false \in SUBSET Lits :
    /\ ToSet(cl) \subseteq false
    /\ \A l \in false : -l \notin false
    /\ \A a \in ToSet(db) :
         /\ Open(a.cl, false) # {}
         /\ \A l \in Open(a.cl, false) : Open(a.cl, false) = {l} => -l \in false
GivesUpRightly ==
  [][Len(out') > Len(out) /\ Last(out').reason.kind = "Sorry"
       => NotRup(active', Last(out').cl)]_vars
=============================================================================
