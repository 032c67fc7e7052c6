------------------------------ MODULE Pipeline ------------------------------
(***************************************************************************)
(* `frat-xor elab`: the backward pass elab() writes the temporary file, then *)
(* the forward pass trim() reads it from its end (main(), src/elab.rs).      *)
(* The two share nothing but the file.  Trim.tla states what trim() relies   *)
(* on as guards of its environment; here elab() is that environment.        *)
(***************************************************************************)
EXTENDS Naturals, FiniteSets, Sequences, SequencesExt

CONSTANTS Ids, Lits, Cnf, Modes, MaxSteps, RefMax, MaxK

(* What the two passes assume of their constants.                          *)
ASSUME IdsFinite == IsFiniteSet(Ids)
ASSUME StepsBound == MaxSteps \in Nat /\ Modes \subseteq BOOLEAN
ASSUME CnfClauses == Cnf \in Seq(SUBSET Lits)
ASSUME Counters == RefMax \in Nat \ {0, 1} /\ MaxK \in Nat /\ Len(Cnf) < MaxK

VARIABLES
  pc, full, names, lits, marked, nonFinal, finalizedEmpty, origs, theoryOrigs,
  temp, steps,
  phase, k, map, copies, usedOrigs, db, content, claim, accepted

E == INSTANCE Elab
T == INSTANCE Trim

(* All of elab()'s state but the file, and the state of trim().             *)
elabVars == <<pc, full, names, lits, marked, nonFinal, finalizedEmpty, origs,
              theoryOrigs, steps>>
trimVars == <<phase, k, map, copies, usedOrigs, db, content, claim, accepted>>

vars == <<elabVars, temp, trimVars>>

Init == E!Init /\ T!Init

-----------------------------------------------------------------------------
(* Elaboration of a whole proof: orig steps quote the formula, and at the    *)
(* start of the file every clause has been introduced.  Proofs that cannot   *)
(* become whole within MaxSteps are not followed further.                   *)
Quotes == \A n \in DOMAIN origs : origs[n].lits \in Range(Cnf)

Completable ==
  /\ Cardinality(names) <= MaxSteps - steps
  /\ nonFinal \/ temp # <<>> => finalizedEmpty

Elaborate ==
  /\ E!Next
  /\ pc' # "panic"
  /\ Quotes'
  /\ Completable'
  /\ pc' = "done" => names = {}
  /\ UNCHANGED trimVars

-----------------------------------------------------------------------------
(* ElabStepIter: the entry that trim() peeks at is the last one written.    *)
Peek == Last(temp)
IsOrig(e) == e.op \in {"orig", "theoryOrig"}

Pop == temp' = Front(temp)

EndHeader ==
  /\ phase = "origs"
  /\ ~(temp # <<>> /\ IsOrig(Peek))
  /\ T!EndOrigs
  /\ UNCHANGED temp

HeaderEntry ==
  /\ phase = "origs"
  /\ temp # <<>> /\ IsOrig(Peek)
  /\ Pop
  /\ IF Peek.op = "orig" THEN T!Orig(Peek.id, Peek.lits) ELSE UNCHANGED trimVars

(* The match on an entry of the main loop.                                 *)
Process(e) ==
  CASE e.op = "add" -> T!Add(e.id, e.lits, e.hints, e.oneHint)
    [] e.op = "imply" -> T!Imply(e.id, e.lits, e.hints)
    [] e.op = "theory" -> T!Theory(e.hints)
    [] e.op = "reloc" -> T!Reloc(e.src)
    [] e.op = "del" -> T!Del(e.id)
    [] IsOrig(e) -> T!LateOrig

Entry ==
  /\ phase = "steps"
  /\ temp # <<>>
  /\ Pop
  /\ Process(Peek)

NoMore ==
  /\ phase = "steps"
  /\ temp = <<>>
  /\ T!EndOfFile
  /\ UNCHANGED temp

Trim ==
  /\ pc = "done"
  /\ EndHeader \/ HeaderEntry \/ Entry \/ NoMore
  /\ UNCHANGED elabVars

Next == Elaborate \/ Trim

(* trim() is a loop over a finite file: it does not stop by itself.  Whether *)
(* the proof ever ends is up to the solver that wrote it.                   *)
Spec == Init /\ [][Next]_vars /\ WF_vars(Trim)

-----------------------------------------------------------------------------
(* elab() gives trim() only what Trim.tla assumes it is given: no free ID is  *)
(* redefined, no step cites itself, one hint subsumes its step.  So what is   *)
(* proved of Trim holds of the program.                                     *)
TrimContract == T!Init /\ [][T!Next]_trimVars

(* An elaborated proof never makes trim() panic: no hint, deletion or        *)
(* relocation names a step that is missing, no orig step comes late or       *)
(* twice, and the file does not end before the empty clause.                *)
NoPanic == phase # "panic"

(* Every whole proof with a finalized empty clause ends in a written         *)
(* refutation.                                                             *)
Refuted == pc = "done" ~> phase = "done"

(* Clauses pass through the two renamings and the relocations unharmed: the  *)
(* clause the checker gets for an ID is the one trim() knows by that ID or    *)
(* one that subsumes it, and hints and deletions name what it holds.         *)
CheckerAgrees == T!Accepted /\ T!StandIn
=============================================================================
