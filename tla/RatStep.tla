------------------------------ MODULE RatStep -------------------------------
(***************************************************************************)
(* Add steps of elab() in src/elab.rs: run_step() and pr_resolve_one(), on   *)
(* top of the propagation engine of UnitProp.  A marked clause is taken out   *)
(* of the context and proved, by unit propagation or as a RAT or PR step: the *)
(* resolvent with each clause that the witness touches must be refuted, each  *)
(* from the trail that the step left.  What the resolvents share of their     *)
(* hints goes before the first of them.  The set of touched clauses is kept   *)
(* for the next step with the same pivot.                                   *)
(***************************************************************************)
EXTENDS UnitHints

CONSTANTS
  Clauses,    \* the clause of each address
  MaxSteps,   \* bound: the add steps that are processed, for each set of addresses
              \* that may be live at the same time
  Full,       \* the flag of elab(): unmarked clauses are resolved with as well
  Witnesses,  \* the sets of literals that may come as the witness of a PR step
  MaxRats     \* bound: the groups of RAT hints a step comes with

ASSUME Bounds == MaxRats \in Nat /\ Full \in BOOLEAN
ASSUME ClausesAreInputs == Clauses \in [Ids -> Inputs]
ASSUME WitnessesAreLits == \A w \in Witnesses : w \subseteq Lits \ {0} /\ w # {}

VARIABLES
  taken,      \* how many add steps were processed
  ratSet,     \* the touched clauses, kept from one step to the next
  ratSetLit,  \* the pivot that ratSet is for; 0 when it is for none
  task,       \* what the engine is called for
  lemma,      \* the clause of the step
  pivot,      \* its first literal, 0 if it has none
  witness,    \* the witness of the step
  groups,     \* the RAT hints that are left, each a clause and its hints
  depth,      \* how much of truStack all resolvents share
  closed,     \* history: propagate() was through with that part
  unseen,     \* the clauses of ratSet not resolved with yet
  resolvent,  \* the clause being resolved with
  given,      \* it has hints
  preRat,     \* the hint that is written: the steps before the first resolvent,
  written,    \* and the resolvents, each a clause and its steps
  temp        \* the marked literals of the shared part of the trail

cache == <<ratSet, ratSetLit, taken>>
step == <<task, lemma, pivot, witness, groups, depth, closed, unseen, resolvent, given,
          preRat, written, temp>>
ratVars == <<vars, cache, step>>

-----------------------------------------------------------------------------
(* The elements of s that are in T, in their order.                         *)
Keep(s, T) ==
  LET kept[n \in 0..Len(s)] ==
        IF n = 0 THEN <<>>
        ELSE IF s[n] \in T THEN Append(kept[n-1], s[n]) ELSE kept[n-1]
  IN kept[Len(s)]

(* What the witness w does to a clause.                                    *)

Satisfies(w, c) == Range(c) \intersect w # {}
Touches(w, c) == ~Satisfies(w, c) /\ \E l \in Range(c) : -l \in w
Reduct(w, c) == Keep(c, {l \in Range(c) : -l \notin w})

(* The candidates: for a single pivot, the clauses with its complement.      *)
Candidates(w) ==
  IF Cardinality(w) = 1
  THEN {i \in names : \E l \in Range(clauses[i]) : -l \in w}
  ELSE {i \in names : Touches(w, clauses[i])}

(* The step is one a valid proof may have: the clause follows by unit        *)
(* propagation, or each resolvent does.                                    *)
Justified(c, w) ==
  \/ Rup(c)
  \/ /\ w # {}
     /\ \A i \in Candidates(w) :
          Refuted(Negated(c) \union Negated(Reduct(w, clauses[i])))

(* A proof step for c: its first literal, 0 if it has none, and the witness   *)
(* if it is a PR step.                                                     *)
ValidSteps(c) ==
  {s \in (IF c = <<>> THEN {0} ELSE Range(c)) \X (Witnesses \union {{}}) :
     (s[2] # {} => s[1] \in s[2]) /\ Justified(c, IF s[2] = {} THEN {s[1]} \ {0} ELSE s[2])}

-----------------------------------------------------------------------------
RatInit ==
  /\ Init
  /\ taken = 0
  /\ ratSet = {} /\ ratSetLit = 0
  /\ task = "none"
  /\ lemma = <<>> /\ pivot = 0 /\ witness = {} /\ groups = <<>>
  /\ depth = 0 /\ closed = FALSE /\ unseen = {} /\ resolvent = None /\ given = FALSE
  /\ preRat = <<>> /\ written = <<>> /\ temp = <<>>

EndTask ==
  /\ task' = "none"
  /\ lemma' = <<>> /\ pivot' = 0 /\ witness' = {} /\ groups' = <<>>
  /\ depth' = 0 /\ closed' = FALSE /\ unseen' = {} /\ resolvent' = None /\ given' = FALSE
  /\ preRat' = <<>> /\ written' = <<>> /\ temp' = <<>>

(* With s live, n add steps may have been processed.                       *)
InBounds(s, n) == \E live \in DOMAIN MaxSteps : s \subseteq live /\ n <= MaxSteps[live]

(* Mutant: the kept set of touched clauses is not given up.                 *)
InsertKeepsCache(i) ==
  /\ task = "none"
  /\ InBounds(names \union {i}, taken)
  /\ InsertClause(i, Clauses[i], Clauses[i] = <<>>)
  /\ UNCHANGED <<cache, step>>

(* A del step, or the final step of the empty clause, backward.             *)
Insert(i) ==
  /\ task = "none"
  /\ InBounds(names \union {i}, taken)
  /\ InsertClause(i, Clauses[i], Clauses[i] = <<>>)
  /\ ratSetLit' = 0
  /\ UNCHANGED <<ratSet, taken, step>>

(* A step that is not modelled here needs clause i.                         *)
Need(i) == task = "none" /\ MarkClause(i) /\ UNCHANGED <<cache, step>>

(* An add step, backward: the clause leaves the context, and is proved if     *)
(* something needs it.                                                      *)
Take(i) ==
  /\ task = "none"
  /\ InBounds(names, taken + 1) /\ taken' = taken + 1
  /\ RemoveClause(i)
  /\ IF Full \/ i \in marked THEN task' = "begin" /\ lemma' = clauses[i]
     ELSE UNCHANGED <<task, lemma>>
  /\ UNCHANGED <<ratSet, ratSetLit, pivot, witness, groups, depth, closed, unseen,
                 resolvent, given, preRat, written, temp>>

Begin(p, w, h, hinted, rats) ==
  /\ Step(lemma, h, hinted)
  /\ task' = IF rats = <<>> THEN "rup" ELSE "rats"
  /\ pivot' = p /\ witness' = w /\ groups' = rats
  /\ UNCHANGED <<cache, lemma, depth, closed, unseen, resolvent, given, preRat, written, temp>>

RatHints ==
  UNION {[1..n -> {[clause |-> i, hints |-> h] : i \in names, h \in HintLists}]
         : n \in 0..MaxRats}

(* The hints of a step may be wrong or missing.  RAT hints come only with a   *)
(* clause that does not follow by unit propagation, and a PR step does not     *)
(* have an empty hint (the comment at elab.rs:768 assumes it).              *)
BeginStep ==
  /\ task = "begin"
  /\ \E s \in ValidSteps(lemma) :
     \/ Begin(s[1], s[2], <<>>, FALSE, <<>>)
     \/ \E rats \in (IF Rup(lemma) THEN {<<>>} ELSE RatHints), h \in HintLists :
          /\ s[2] # {} => h # <<>> \/ rats # <<>>
          /\ Begin(s[1], s[2], h, TRUE, rats)

-----------------------------------------------------------------------------
(* The engine at work, for the clause or for a resolvent.                   *)
Run ==
  /\ task \in {"rup", "rats", "resolve"}
  /\ StartHint \/ UseHint \/ Propagate \/ ProcessUnits \/ Assume
     \/ NextPropLit \/ PropDone \/ Visit
  /\ UNCHANGED <<cache, step>>

(* The special case of run_step(): with an empty hint that proves nothing,    *)
(* and no clause to resolve with, the step is accepted as it is.             *)
Untouched ==
  IF ratSetLit = pivot THEN ratSet = {}
  ELSE \A i \in names : -pivot \notin Range(clauses[i])

(* Mutant: progress is not reset for the next round.                        *)
RoundKeepsProgress ==
  /\ pc = "hints" /\ hints = <<>>
  /\ \/ /\ progress
        /\ hints' = queue /\ queue' = <<>>
        /\ UNCHANGED pc
     \/ /\ ~progress
        /\ pc' = IF task = "rats" THEN "stuck" ELSE "propagate"
        /\ UNCHANGED <<hints, queue>>
  /\ UNCHANGED <<context, va, stage, goal, rest, unprocessed, cur, root, conflict,
                 progress, cache, step>>

(* A round of hints is over.                                               *)
RoundEnds ==
  /\ pc = "hints" /\ hints = <<>>
  /\ \/ /\ progress
        /\ hints' = queue /\ queue' = <<>> /\ progress' = FALSE
        /\ UNCHANGED <<pc, task, witness>>
     \/ /\ ~progress /\ task = "rup"
        /\ IF stage = "empty" /\ pivot # 0 /\ Untouched
           THEN pc' = "write" /\ task' = "rat" /\ witness' = {pivot}
           ELSE pc' = "propagate" /\ UNCHANGED <<task, witness>>
        /\ UNCHANGED <<hints, queue, progress>>
     \/ /\ ~progress /\ task = "rats"
        /\ pc' = "stuck"
        /\ UNCHANGED <<task, witness, hints, queue, progress>>
     \/ /\ ~progress /\ task = "resolve"
        /\ pc' = "propagate"
        /\ UNCHANGED <<task, witness, hints, queue, progress>>
  /\ UNCHANGED <<context, va, stage, goal, rest, unprocessed, cur, root, conflict,
                 cache, lemma, pivot, groups, depth, closed, unseen, resolvent, given,
                 preRat, written, temp>>

(* The clause is proved by unit propagation.                               *)
Proved ==
  /\ pc = "found" /\ task \in {"rup", "rats"}
  /\ pc' = "write"
  /\ preRat' = FinalHint
  /\ UNCHANGED <<context, va, control, cache, task, lemma, pivot, witness, groups,
                 depth, closed, unseen, resolvent, given, written, temp>>

Panics ==
  /\ pc' = "panic"
  /\ UNCHANGED <<context, va, control, cache, step>>

(* It is not.  The literals of a PR witness that are true are dropped from   *)
(* it, and none may be false before the hypotheses.                         *)
NotProved ==
  /\ pc = "stuck" /\ task \in {"rup", "rats"}
  /\ LET w == IF witness = {} THEN {pivot} \ {0} ELSE {l \in witness : ~IsTrue(l)} IN
     IF w = {} \/ \E n \in 1..firstHyp : -truStack[n] \in witness THEN Panics
     ELSE
        /\ witness' = w
        /\ ratSet' = IF w = {ratSetLit} THEN ratSet ELSE Candidates(w)
        /\ ratSetLit' = IF Cardinality(w) = 1 THEN CHOOSE l \in w : TRUE ELSE ratSetLit
        /\ unseen' = ratSet'
        /\ depth' = Len(truStack)
        /\ closed' = (task = "rup")
        /\ task' = "rat"
        /\ pc' = "resolvents"
        /\ UNCHANGED <<context, va, control, taken, lemma, pivot, groups, resolvent,
                       given, preRat, written, temp>>

-----------------------------------------------------------------------------
(* pr_resolve_one()                                                        *)

(* Resolve with clause i: all its literals but those the witness falsifies   *)
(* are to be assumed false.  An entry of ratSet that is no clause stops the   *)
(* program.                                                                *)
Resolve(i, h, hinted) ==
  /\ unseen' = unseen \ {i}
  /\ IF i \notin names \/ (~Full /\ i \notin marked)
     THEN /\ pc' = IF i \in names THEN pc ELSE "panic"
          /\ UNCHANGED <<goal, rest, hints, queue, progress, stage, conflict, task,
                         resolvent, given>>
     ELSE /\ resolvent' = i /\ given' = hinted
          /\ task' = "resolve"
          /\ pc' = IF Unsat THEN "found" ELSE "resolve"
          /\ conflict' = IF Unsat THEN truStack[Len(truStack)] ELSE conflict
          /\ goal' = <<>>
          /\ rest' = Reduct(witness, clauses[i])
          /\ hints' = h /\ queue' = <<>> /\ progress' = FALSE
          /\ stage' = "hint"
  /\ UNCHANGED <<context, va, unprocessed, cur, root, cache, lemma, pivot, witness,
                 depth, closed, preRat, written, temp>>

(* First the clauses that came with hints, in that order, then the others in  *)
(* the order of a hash map.                                                *)
NextResolvent ==
  /\ pc = "resolvents"
  /\ \/ /\ groups # <<>>
        /\ groups' = Tail(groups)
        /\ IF Head(groups).clause \in unseen
           THEN Resolve(Head(groups).clause, Head(groups).hints, TRUE)
           ELSE UNCHANGED <<context, va, pc, control, cache, task, lemma, pivot, witness,
                            depth, closed, unseen, resolvent, given, preRat, written, temp>>
     \/ /\ groups = <<>>
        /\ \E i \in unseen : Resolve(i, <<>>, FALSE)
        /\ UNCHANGED groups
     \/ /\ groups = <<>> /\ unseen = {}
        /\ pc' = "write"
        /\ UNCHANGED <<context, va, control, cache, step>>

AssumeReduct ==
  /\ pc = "resolve"
  /\ \/ /\ rest # <<>>
        /\ Assign(-Head(rest), None)
        /\ rest' = Tail(rest)
        /\ IF IsTrue(Head(rest)) THEN pc' = "found" /\ conflict' = Head(rest)
           ELSE UNCHANGED <<pc, conflict>>
     \/ /\ rest = <<>>
        /\ pc' = IF given THEN "hint" ELSE "propagate"
        /\ UNCHANGED <<truStack, reasons, rest, conflict>>
  /\ UNCHANGED <<context, firstHyp, firstUnprocessed, unitsProcessed, stage, goal,
                 unprocessed, cur, root, hints, queue, progress, cache, step>>

(* The reasons of the literals of s that have one.                          *)
Steps(s) == LET f == Keep(s, {l \in Lits : reasons[l] # None})
            IN [n \in DOMAIN f |-> reasons[f[n]]]

(* Mutant: what a resolvent assumed is left on the trail.                   *)
RefutesKeepsTrail ==
  /\ pc = "found" /\ task = "resolve"
  /\ IF depth > Len(truStack) THEN Panics
     ELSE LET out == Mark(-conflict, Mark(conflict, [temp |-> temp, steps |-> <<>>]))
              new == SubSeq(out.temp, Len(temp) + 1, Len(out.temp))
              shared == {truStack[n] : n \in 1..depth}
          IN
          /\ preRat' = preRat \o Steps(Keep(new, shared))
          /\ written' = Append(written, [clause |-> resolvent,
                                        hints |-> Steps(Keep(new, Lits \ shared))])
          /\ temp' = temp \o Keep(new, shared)
          /\ task' = "rat"
          /\ pc' = "resolvents"
          /\ UNCHANGED <<context, va, control, cache, lemma, pivot, witness, groups,
                         depth, closed, unseen, resolvent, given>>

(* The resolvent is refuted.  The trail is cut back to what the resolvents    *)
(* share; the steps whose literals are in that part go to preRat.            *)
Refutes ==
  /\ pc = "found" /\ task = "resolve"
  /\ IF depth > Len(truStack) THEN Panics
     ELSE LET out == Mark(-conflict, Mark(conflict, [temp |-> temp, steps |-> <<>>]))
              new == SubSeq(out.temp, Len(temp) + 1, Len(out.temp))
              shared == {truStack[n] : n \in 1..depth}
          IN
          /\ preRat' = preRat \o Steps(Keep(new, shared))
          /\ written' = Append(written, [clause |-> resolvent,
                                        hints |-> Steps(Keep(new, Lits \ shared))])
          /\ temp' = temp \o Keep(new, shared)
          /\ ClearTo(depth)
          /\ task' = "rat"
          /\ pc' = "resolvents"
          /\ UNCHANGED <<context, firstHyp, unitsProcessed, control, cache, lemma, pivot,
                         witness, groups, depth, closed, unseen, resolvent, given>>

CannotRefute ==
  /\ pc = "stuck" /\ task = "resolve"
  /\ Panics

-----------------------------------------------------------------------------
(* The clauses that the hint names.                                        *)
Cited ==
  Range(preRat) \union UNION {{g.clause} \union Range(g.hints) : g \in Range(written)}

MarkAll(s) ==
  /\ marked' = marked \union s
  /\ watch' = [m \in BOOLEAN |-> [l \in Lits |->
       IF m THEN watch[TRUE][l] \o Keep(watch[FALSE][l], s) ELSE Keep(watch[FALSE][l], Ids \ s)]]
  /\ UNCHANGED <<names, clauses>>

(* The step is written, with its hint, and the clauses of the hint are         *)
(* marked.                                                                 *)
Write ==
  /\ pc = "write"
  /\ MarkAll(Cited)
  /\ ClearTo(firstHyp)
  /\ EndStep /\ EndTask
  /\ UNCHANGED <<firstHyp, unitsProcessed, cache>>

RatEngine ==
  \/ Run \/ RoundEnds \/ Proved \/ NotProved
  \/ NextResolvent \/ AssumeReduct \/ Refutes \/ CannotRefute
  \/ Write

RatNext ==
  \/ \E i \in Ids : Insert(i) \/ Need(i) \/ Take(i)
  \/ BeginStep
  \/ RatEngine

(* A step that has begun goes on: the program is sequential.                *)
RatSpec == RatInit /\ [][RatNext]_ratVars /\ WF_ratVars(RatEngine)

-----------------------------------------------------------------------------
(* Properties.                                                             *)

(* The hint of a step that is written is a proof, for a checker that reads it  *)
(* once: its first part proves the clause, or every resolvent listed is       *)
(* refuted by its hints, from what the first part left.  A tautology needs    *)
(* none.                                                                   *)
HintsAccepted ==
  pc = "write" =>
    LET first == ReplayFrom(Negated(lemma), preRat)
        refuted(g) ==
          LET assumed == first.true \union Negated(Reduct(witness, clauses[g.clause])) IN
          \/ \E l \in assumed : -l \in assumed
          \/ ReplayFrom(assumed, g.hints).proved
    IN \/ Tautology(lemma)
       \/ /\ ~first.rejected
          /\ \/ first.proved
             \/ task = "rat" /\ \A n \in DOMAIN written : refuted(written[n])

(* And no resolvent is missing (the assertion of pr_resolve_one()): of the     *)
(* clauses that the checker holds -- all, or with elab's del entries those     *)
(* that are marked -- each that the witness touches is listed.               *)
ResolventsListed ==
  pc = "write" /\ task = "rat" =>
    \A i \in (IF Full THEN names ELSE marked \union Cited) :
      Touches(witness, clauses[i]) => \E n \in DOMAIN written : written[n].clause = i

(* elab() gives up on a step of a valid proof only where propagate() has       *)
(* dropped the hypotheses, or for an entry of ratSet that is no clause, or      *)
(* after a resolvent that left the shared part of the trail half propagated.   *)
(* Otherwise, whatever earlier steps and resolvents left on the trail, a       *)
(* resolvent that unit propagation refutes is refuted.                      *)
StuckRightly ==
  pc = "stuck" /\ task = "resolve" /\ (closed \/ written = <<>>) =>
    ~(Negated(lemma) \subseteq Range(truStack))

(* Every resolvent of a valid step is refuted as long as the hypotheses are on *)
(* the trail: "Unit propagation stuck, cannot resolve clause" (elab.rs:733)    *)
(* is for steps that are not.                                              *)
ResolventsRefuted ==
  pc = "stuck" /\ task = "resolve" => ~(Negated(lemma) \subseteq Range(truStack))

(* The special case of run_step() says that "no clauses contain the negated     *)
(* pivot literal" (elab.rs:764) of a step that it accepts without a proof.     *)
SpecialCaseFresh ==
  pc = "write" /\ task = "rat" /\ depth = 0 =>
    \A i \in names : -pivot \notin Range(clauses[i])

(* Every add step is answered: the loops over hints, the rounds of hints and     *)
(* the resolvents all end, in a step that is written or a panic.              *)
AddStepEnds == task \in {"rup", "rats"} ~> pc \in {"idle", "panic"}
=============================================================================
