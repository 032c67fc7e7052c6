-------------------------------- MODULE Elab --------------------------------
(***************************************************************************)
(* elab() of src/elab.rs: the backward pass.  It reads a FRAT proof from    *)
(* its last step to its first, keeps the clauses that are live at the       *)
(* point it has reached, marks those that some later step needs, and        *)
(* writes elaborated steps to a temporary file that trim() will read from   *)
(* its end, in proof order again.                                          *)
(*                                                                         *)
(* A step is an input of its action; the proof is whatever sequence of      *)
(* steps the environment gives.  The propagation engine is the choice of    *)
(* the hints a step gets, with the one thing the passes rely on: a hint     *)
(* that is the whole proof subsumes the step.                              *)
(***************************************************************************)
EXTENDS Naturals, FiniteSets, Sequences, Functions, SequencesExt

CONSTANTS
  Ids,       \* the FRAT step IDs
  Lits,      \* the literals
  Modes,     \* the values of --full to consider
  MaxSteps   \* bound: the number of steps of the proof

ASSUME IdsFinite == IsFiniteSet(Ids)

ASSUME StepsBound == MaxSteps \in Nat /\ Modes \subseteq BOOLEAN

VARIABLES
  pc,              \* "elab", "done", "panic"
  full,            \* --full: keep the steps nothing needs
  names,           \* the IDs of the clauses in the context
  lits,            \* their literals, {} for other IDs
  marked,          \* the clauses a later step needs
  nonFinal,        \* last_non_finalize is Some(_)
  finalizedEmpty,  \* finalized_empty_clause
  origs,           \* the orig steps, delayed to the end
  theoryOrigs,     \* the number of delayed steps for original XORs and BNNs
  temp,            \* the temporary file, in the order written
  steps            \* history: the number of steps read

vars == <<pc, full, names, lits, marked, nonFinal, finalizedEmpty, origs,
          theoryOrigs, temp, steps>>

context == <<names, lits, marked>>

Clauses == SUBSET Lits

(* The entries of the temporary file.                                      *)
OrigE(i, c) == [op |-> "orig", id |-> i, lits |-> c]
TheoryOrigE == [op |-> "theoryOrig"]
AddE(i, c, U, one) == [op |-> "add", id |-> i, lits |-> c, hints |-> U, oneHint |-> one]
ImplyE(i, c, U) == [op |-> "imply", id |-> i, lits |-> c, hints |-> U]
TheoryE(U) == [op |-> "theory", hints |-> U]
RelocE(src) == [op |-> "reloc", src |-> src]
DelE(i) == [op |-> "del", id |-> i]

Init ==
  /\ pc = "elab"
  /\ full \in Modes
  /\ names = {} /\ lits = [i \in Ids |-> {}] /\ marked = {}
  /\ nonFinal = FALSE
  /\ finalizedEmpty = FALSE
  /\ origs = <<>> /\ theoryOrigs = 0
  /\ temp = <<>>
  /\ steps = 0

Reading ==
  /\ pc = "elab" /\ steps < MaxSteps
  /\ steps' = steps + 1
  /\ UNCHANGED full

Panic ==
  /\ pc' = "panic"
  /\ UNCHANGED <<context, nonFinal, finalizedEmpty, origs, theoryOrigs, temp>>

-----------------------------------------------------------------------------
(* Context::insert and Context::remove; M is the set of marked clauses      *)
(* once the step has marked its hints.                                     *)

InsertClause(i, c, mark) ==
  /\ names' = names \union {i}
  /\ lits' = [lits EXCEPT ![i] = c]
  /\ marked' = IF mark THEN marked \union {i} ELSE marked

(* Mutant: the removed clause stays marked.                                *)
RemoveKeepsMark(i, M) ==
  /\ names' = names \ {i}
  /\ lits' = [lits EXCEPT ![i] = {}]
  /\ marked' = M

RemoveClause(i, M) ==
  /\ names' = names \ {i}
  /\ lits' = [lits EXCEPT ![i] = {}]
  /\ marked' = M \ {i}

(* remove() finds the clause, and check_subsumed() the step's literals in   *)
(* it.                                                                     *)
Introduces(i, c) == i \in names /\ c \subseteq lits[i]

Needed(i) == full \/ i \in marked

(* Mutants: a deletion for every use of a clause; no deletions.             *)
DelsEachUse(U) ==
  IF full THEN <<>>
  ELSE LET all == SetToSeq(U) IN [n \in DOMAIN all |-> DelE(all[n])]
DelsNever(U) == <<>>

(* Marking the hints U: each new one is about to be used for the last time,  *)
(* so unless every del step is kept, its deletion is written here.          *)
Dels(U) ==
  IF full THEN <<>>
  ELSE LET new == SetToSeq(U \ marked)
       IN [n \in DOMAIN new |-> DelE(new[n])]

-----------------------------------------------------------------------------
(* Steps on clauses.                                                       *)

Orig(i, c) ==
  /\ Reading
  /\ \/ /\ Introduces(i, c)
        /\ RemoveClause(i, marked)
        /\ nonFinal' = TRUE
        /\ origs' = IF Needed(i) THEN Append(origs, OrigE(i, lits[i])) ELSE origs
        /\ UNCHANGED <<pc, finalizedEmpty, theoryOrigs, temp>>
     \/ ~Introduces(i, c) /\ Panic

(* Mutant: the deletions of the hints are written after their last use, so   *)
(* that they are read before it.                                           *)
AddThenDels(i, c, U, one) ==
  /\ Reading
  /\ \/ /\ Introduces(i, c)
        /\ nonFinal' = TRUE
        /\ IF Needed(i)
           THEN /\ RemoveClause(i, marked \union U)
                /\ temp' = temp \o <<AddE(i, lits[i], U, one)>> \o Dels(U)
           ELSE RemoveClause(i, marked) /\ temp' = temp
        /\ UNCHANGED <<pc, finalizedEmpty, origs, theoryOrigs>>
     \/ ~Introduces(i, c) /\ Panic

(* The step of an unneeded clause is dropped.  For a needed one run_step    *)
(* yields the hints U, or finds propagation stuck.                         *)
Add(i, c, U, one) ==
  /\ Reading
  /\ \/ /\ Introduces(i, c)
        /\ nonFinal' = TRUE
        /\ IF Needed(i)
           THEN /\ RemoveClause(i, marked \union U)
                /\ temp' = temp \o Dels(U) \o <<AddE(i, lits[i], U, one)>>
           ELSE RemoveClause(i, marked) /\ temp' = temp
        /\ UNCHANGED <<pc, finalizedEmpty, origs, theoryOrigs>>
     \/ ~Introduces(i, c) /\ Panic

Stuck(i, c) ==
  /\ Reading
  /\ Introduces(i, c) /\ Needed(i)
  /\ Panic

(* Read backward, a reloc step renames new IDs to old ones: src maps a new  *)
(* ID to the old one it replaces.  Moves of absent clauses are dropped.     *)
Reloc(src) ==
  LET kept == Restrict(src, DOMAIN src \intersect names)
      back(x) == CHOOSE y \in DOMAIN kept : kept[y] = x
      stay == names \ DOMAIN kept
  IN
  /\ Reading
  /\ \/ /\ IsInjective(kept) /\ Range(kept) \intersect stay = {}
        /\ names' = stay \union Range(kept)
        /\ lits' = [x \in Ids |-> IF x \in Range(kept) THEN lits[back(x)]
                                  ELSE IF x \in stay THEN lits[x] ELSE {}]
        /\ marked' = {x \in names' : IF x \in Range(kept) THEN back(x) \in marked
                                     ELSE x \in marked}
        /\ temp' = IF DOMAIN kept = {} THEN temp ELSE Append(temp, RelocE(kept))
        /\ UNCHANGED <<pc, nonFinal, finalizedEmpty, origs, theoryOrigs>>
     \/ ~(IsInjective(kept) /\ Range(kept) \intersect stay = {}) /\ Panic

Del(i, c) ==
  /\ Reading
  /\ \/ /\ i \notin names
        /\ InsertClause(i, c, FALSE)
        /\ nonFinal' = TRUE
        /\ temp' = IF full THEN Append(temp, DelE(i)) ELSE temp
        /\ UNCHANGED <<pc, finalizedEmpty, origs, theoryOrigs>>
     \/ i \in names /\ Panic

(* "'f' steps should only appear at the end of the proof"                  *)
Final(i, c) ==
  /\ Reading
  /\ \/ /\ ~nonFinal /\ i \notin names
        /\ InsertClause(i, c, c = {})
        /\ finalizedEmpty' = (finalizedEmpty \/ c = {})
        /\ UNCHANGED <<pc, nonFinal, origs, theoryOrigs, temp>>
     \/ (nonFinal \/ i \in names) /\ Panic

-----------------------------------------------------------------------------
(* Steps on XOR and BNN constraints.  The constraints have IDs of their own  *)
(* that nothing here looks up.                                             *)

(* OrigXor, OrigBnn                                                        *)
TheoryOrig ==
  /\ Reading
  /\ theoryOrigs' = theoryOrigs + 1
  /\ UNCHANGED <<pc, context, nonFinal, finalizedEmpty, origs, temp>>

(* AddXor, ImplyXor, AddBnn: U are the clauses the step cites.  DelXor and   *)
(* DelBnn: U is empty.                                                     *)
Theory(U) ==
  /\ Reading
  /\ \/ /\ U \subseteq names
        /\ marked' = marked \union U
        /\ temp' = temp \o Dels(U) \o <<TheoryE(U)>>
        /\ UNCHANGED <<pc, names, lits, nonFinal, finalizedEmpty, origs, theoryOrigs>>
     \/ ~(U \subseteq names) /\ Panic

(* Imply and BnnImply introduce a clause, and are written even when nothing  *)
(* needs it.  They do not set last_non_finalize.                           *)
ImplyClause(i, c, U) ==
  /\ Reading
  /\ \/ /\ Introduces(i, c) /\ U \subseteq names \ {i}
        /\ RemoveClause(i, marked \union U)
        /\ temp' = temp \o Dels(U) \o <<ImplyE(i, c, U)>>
        /\ UNCHANGED <<pc, nonFinal, finalizedEmpty, origs, theoryOrigs>>
     \/ ~(Introduces(i, c) /\ U \subseteq names \ {i}) /\ Panic

(* FinalXor, FinalBnn                                                      *)
TheoryFinal ==
  /\ Reading
  /\ \/ ~nonFinal /\ UNCHANGED <<pc, context, nonFinal, finalizedEmpty, origs,
                                 theoryOrigs, temp>>
     \/ nonFinal /\ Panic

(* An XOR, BNN or implied step that carries no proof.                      *)
NoProof ==
  /\ Reading
  /\ Panic

(* Mutant: no check that an empty clause was finalized.                    *)
StartOfFileUnchecked ==
  /\ pc = "elab"
  /\ temp' = temp \o origs \o [n \in 1..theoryOrigs |-> TheoryOrigE]
  /\ origs' = <<>> /\ theoryOrigs' = 0
  /\ pc' = "done"
  /\ UNCHANGED <<full, context, nonFinal, finalizedEmpty, steps>>

(* The start of the file: the delayed steps are written, to be read first.   *)
StartOfFile ==
  /\ pc = "elab"
  /\ temp' = temp \o origs \o [n \in 1..theoryOrigs |-> TheoryOrigE]
  /\ origs' = <<>> /\ theoryOrigs' = 0
  /\ pc' = IF finalizedEmpty THEN "done" ELSE "panic"
  /\ UNCHANGED <<full, context, nonFinal, finalizedEmpty, steps>>

-----------------------------------------------------------------------------
(***************************************************************************)
(* The steps a proof may hold and the hints propagation may find.  Hints    *)
(* are clauses of the context without the step's own.  An orig step may     *)
(* come late in the proof; since elab() moves it to the front, no earlier   *)
(* step may have used its ID.  Final steps end the proof: nothing that      *)
(* writes an entry was read before one.                                    *)
(***************************************************************************)
Hoisted == {origs[n].id : n \in DOMAIN origs}

AddStep ==
  \E i \in Ids, c \in Clauses :
    \/ \E U \in SUBSET (names \ {i}) :
         (U = {} => lits[i] # {}) /\ Add(i, c, U, FALSE)
    \/ \E u \in names \ {i} : lits[u] \subseteq lits[i] /\ Add(i, c, {u}, TRUE)

Relocations ==
  UNION {[D -> Ids \ Hoisted] : D \in (SUBSET Ids) \ {{}}}

Next ==
  \/ \E i \in Ids, c \in Clauses : Orig(i, c)
  \/ AddStep
  \/ \E i \in Ids, c \in Clauses : Stuck(i, c)
  \/ \E src \in Relocations : Reloc(src)
  \/ \E i \in Ids \ Hoisted, c \in Clauses : Del(i, c)
  \/ \E i \in Ids \ Hoisted, c \in Clauses : temp = <<>> /\ Final(i, c)
  \/ TheoryOrig
  \/ \E U \in SUBSET Ids : Theory(U)
  \/ \E i \in Ids, c \in Clauses, U \in SUBSET Ids : ImplyClause(i, c, U)
  \/ TheoryFinal
  \/ NoProof
  \/ StartOfFile

Spec == Init /\ [][Next]_vars

-----------------------------------------------------------------------------
(* Type invariant.  A finalized empty clause is the only clause that is     *)
(* born marked, so nothing is marked that is not in the context.           *)
TypeOK ==
  /\ pc \in {"elab", "done", "panic"}
  /\ full \in BOOLEAN
  /\ names \subseteq Ids
  /\ lits \in [Ids -> Clauses]
  /\ \A i \in Ids \ names : lits[i] = {}
  /\ marked \subseteq names
  /\ nonFinal \in BOOLEAN
  /\ finalizedEmpty \in BOOLEAN
  /\ \A n \in DOMAIN origs : origs[n].op = "orig" /\ origs[n].id \in Ids
  /\ theoryOrigs \in 0..MaxSteps
  /\ \A n \in DOMAIN temp :
       temp[n].op \in {"orig", "theoryOrig", "add", "imply", "theory", "reloc", "del"}
  /\ steps \in 0..MaxSteps

(***************************************************************************)
(* What a reader of the temporary file relies on.  It reads the entries     *)
(* from the last written to the first.  A clause it has read is "owed" a     *)
(* del entry, or "spare": empty (the proof ends with it) or implied (it is   *)
(* written whether or not a later step needs it).                           *)
(***************************************************************************)
Tagged(i, spare) == <<i, IF spare THEN "spare" ELSE "owed">>

IdsOf(L) == {x[1] : x \in L}

Cites(e) ==
  CASE e.op \in {"add", "imply", "theory"} -> e.hints
    [] e.op = "del" -> {e.id}
    [] OTHER -> {}

(* The entries of L that e puts another clause in place of.                *)
Replaces(L, e) ==
  CASE e.op \in {"orig", "add", "imply"} -> {x \in L : x[1] = e.id}
    [] e.op = "reloc" ->
         {x \in L : /\ x[1] \in DOMAIN e.src \ Range(e.src)
                    /\ e.src[x[1]] \in IdsOf(L)}
    [] OTHER -> {}

After(L, e) ==
  CASE e.op \in {"orig", "add", "imply"} ->
         (L \ Replaces(L, e)) \union {Tagged(e.id, e.op = "imply" \/ e.lits = {})}
    [] e.op = "del" -> {x \in L : x[1] # e.id}
    [] e.op = "reloc" ->
         {x \in L \ Replaces(L, e) : x[1] \notin Range(e.src)}
           \union {z \in (DOMAIN e.src) \X {"owed", "spare"} : <<e.src[z[1]], z[2]>> \in L}
    [] OTHER -> L

(* The file, if the proof began here: what is written, and the orig steps   *)
(* that are to be.  The clauses in Pending would be there from the start.   *)
File == temp \o origs
Entry(n) == File[Len(File) + 1 - n]
Pending == {Tagged(i, lits[i] = {}) : i \in {j \in names : Needed(j)}}

LiveAfter ==
  LET live[n \in 0..Len(File)] ==
        IF n = 0 THEN Pending ELSE After(live[n - 1], Entry(n))
  IN live

(* Read back in proof order, every hint and every deletion names a clause   *)
(* that an earlier entry introduced and none deleted, and no entry takes    *)
(* the ID of a clause that is still owed its deletion: in particular the    *)
(* deletions elab() makes up come after the last use (elab.rs:968-981).     *)
Readable ==
  pc # "panic" =>
    LET live == LiveAfter IN
    \A n \in 1..Len(File) :
      /\ Cites(Entry(n)) \subseteq IdsOf(live[n - 1])
      /\ \A x \in Replaces(live[n - 1], Entry(n)) : x[2] = "spare"

(* Without --full every clause written is deleted again after its last use,  *)
(* but for the empty clause and implied clauses: nothing dropped from the    *)
(* proof leaves a clause behind.                                            *)
NothingOwed ==
  pc # "panic" /\ ~full => \A x \in LiveAfter[Len(File)] : x[2] = "spare"
=============================================================================
