------------------------------- MODULE FromPr -------------------------------
(***************************************************************************)
(* src/from_drat.rs and src/from_pr.rs: DRAT and PR proofs turned to FRAT.  *)
(* A DRAT step names a clause, a FRAT step an ID: the context keeps the IDs *)
(* of the copies of each clause, and a deletion takes the last one.         *)
(* from-pr moreover replaces each PR step by steps that define a new        *)
(* variable, weaken the clauses in its way, and put everything back.        *)
(*                                                                         *)
(* Clauses are sequences of distinct literals (nonzero integers).           *)
(***************************************************************************)
EXTENDS Integers, Sequences, SequencesExt, FiniteSets, Bags

CONSTANTS
  Tools,      \* a subset of {"from-drat", "from-pr", "from-pr -O"}
  Header,     \* the number of variables the formula's header announces
  MaxVar,     \* bound: the variables of a proof are 1..MaxVar
  Formulas,   \* the formulas: sequences of clauses
  Clauses,    \* the clauses a proof may add (as RAT) or delete
  PrSteps,    \* the PR steps of a proof: records [lemma, witness]
  MaxSteps    \* bound: steps of a proof

Lits == {l \in -MaxVar..MaxVar : l # 0}
Var(l) == IF l < 0 THEN -l ELSE l

ASSUME Bounds == Header \in Nat /\ MaxVar \in Nat /\ Header <= MaxVar /\ MaxSteps \in Nat
ASSUME ToolsAreTools == Tools \subseteq {"from-drat", "from-pr", "from-pr -O"}

(* The witness of a PR step starts with the first literal of its lemma.     *)
ASSUME WitnessHasPivot == \A s \in PrSteps : s.witness[1] = s.lemma[1]

VARIABLES
  pc,       \* "formula", "proof", "done", or "panic"
  tool,     \* which of the two programs, and its option
  fmla,     \* the clauses of the formula not read yet
  k,        \* the last ID
  maxvar,   \* the largest variable seen
  ctx,      \* the context: a set of records [cl, ids]
  out,      \* the lines that the last step wrote
  db,       \* history: the clauses [id, cl] live after these lines, for a reader
  drat,     \* history: the bag of clauses the proof has at this moment
  step,     \* history: the last step
  count     \* history: the number of steps read

vars == <<pc, tool, fmla, k, maxvar, ctx, out, db, drat, step, count>>

Line(kind, id, cl, pf) == [kind |-> kind, id |-> id, cl |-> cl, pf |-> pf]
Added == {"Orig", "Add", "Guess"}       \* Guess: an addition without a proof

-----------------------------------------------------------------------------
(* The reader of the file: what is live after a line.                       *)

SameClause(c, d) == Len(c) = Len(d) /\ ToSet(c) \subseteq ToSet(d)

Apply(live, ln) ==
  IF ln.kind \in Added THEN live \union {[id |-> ln.id, cl |-> ln.cl]}
  ELSE {d \in live : d.id # ln.id}

LiveAt(live, lines, n) == FoldLeft(Apply, live, SubSeq(lines, 1, n))

Write(lines) == out' = lines /\ db' = LiveAt(db, lines, Len(lines))

-----------------------------------------------------------------------------
(* The context.                                                            *)

Entry(c) == {e \in ctx : SameClause(e.cl, c)}

(* Mutant: a clause written in another order is another clause.             *)
PushNew(c, id) == ctx \union {[cl |-> c, ids |-> <<id>>]}

(* ctx.entry(cl).or_default().push(id)                                      *)
Push(c, id) ==
  (ctx \ Entry(c)) \union
  (IF Entry(c) = {} THEN {[cl |-> c, ids |-> <<id>>]}
   ELSE {[e EXCEPT !.ids = Append(@, id)] : e \in Entry(c)})

(* Mutant: the copy that is deleted is the first, yet the last is forgotten. *)
PopFirst(e, c) ==
  /\ ctx' = (ctx \ {e}) \union
            (IF Len(e.ids) = 1 THEN {} ELSE {[e EXCEPT !.ids = Front(@)]})
  /\ Write(<<Line("Del", e.ids[1], c, <<>>)>>)

Pop(e, c) ==
  /\ ctx' = (ctx \ {e}) \union
            (IF Len(e.ids) = 1 THEN {} ELSE {[e EXCEPT !.ids = Front(@)]})
  /\ Write(<<Line("Del", Last(e.ids), c, <<>>)>>)

-----------------------------------------------------------------------------
(* add_pr_step: a is the assignment, with the stack of its minimization;    *)
(* order is the context in the order in which the map is iterated.          *)

(* A clause with all literals but one falsified forces that one, which is   *)
(* then Minimized; every literal falsified forces nothing.                  *)
Force(a, e) ==
  LET open == SelectSeq(e.cl, LAMBDA l : -l \notin a.assigned)
      l == open[1]
  IN IF Len(open) # 1 \/ l \notin a.assigned THEN a
     ELSE [assigned |-> a.assigned \ {l}, minimized |-> a.minimized \union {l},
           stack |-> Append(a.stack, [lit |-> l, cl |-> e.cl, id |-> e.ids[1]])]

Assignment(order, witness, opt) ==
  LET all == [assigned |-> ToSet(witness), minimized |-> {}, stack |-> <<>>]
  IN IF opt THEN FoldLeft(Force, all, order) ELSE all

Touched(a) == a.assigned \union a.minimized
TouchedOf(a, c) == SelectSeq(c, LAMBDA l : l \in Touched(a))

(* Mutant: satisfied clauses are shortened too.                             *)
ReducedAtAll(a, c) == \E l \in ToSet(c) : -l \in a.assigned

(* Reduced but not satisfied by the witness: phase I shortens a copy.       *)
Reduced(a, c) ==
  /\ ToSet(c) \intersect Touched(a) = {}
  /\ \E l \in ToSet(c) : -l \in a.assigned

Shortened(a, c) == SelectSeq(c, LAMBDA l : -l \notin Touched(a))

(* Mutant: only clauses that the witness satisfies twice are weakened.      *)
WeakenedTwice(a, c) ==
  /\ Cardinality(ToSet(c) \intersect Touched(a)) > 1
  /\ \E l \in ToSet(c) \ Touched(a) : -l \in a.assigned

(* Satisfied and reduced by the witness: phase II weakens it.               *)
Weakened(a, c) ==
  /\ ToSet(c) \intersect Touched(a) # {}
  /\ \E l \in ToSet(c) \ Touched(a) : -l \in a.assigned

(* "the original implementation does not make any sense"                    *)
MFlag(a, lemma) == ToSet(lemma) \intersect a.assigned = {} /\ Len(lemma) # 1

(* Phases I, III, II; ids counts from k0.                                   *)
Phase1(a, order, lemma, k0, def) ==
  LET red == SelectSeq(order, LAMBDA e : Reduced(a, e.cl)) IN
  IF MFlag(a, lemma)
  THEN [i \in DOMAIN lemma |-> Line("Add", k0 + i, <<-def, -lemma[i]>>, <<>>)]
  ELSE [i \in DOMAIN red |-> Line("Add", k0 + i, <<-def>> \o Shortened(a, red[i].cl), <<>>)]

Phase2(sat, weak, def) ==
  FlattenSeq([i \in DOMAIN sat |->
    <<Line("Add", weak + i, <<def>> \o sat[i].cl, <<sat[i].ids[1]>>)>>
      \o [j \in DOMAIN sat[i].ids |-> Line("Del", sat[i].ids[j], sat[i].cl, <<>>)]])

(* phase4_pfs[l]: a RAT hint for each clause with -l.  Only literals of the *)
(* witness get hints, and phase IV (a) clears those: none are left over.    *)
Phase4Pfs(a, order, lemma, sat, k0, weak, l) ==
  LET red == SelectSeq(order, LAMBDA e : Reduced(a, e.cl))
      ofRed(i) == IF -l \notin ToSet(red[i].cl) THEN <<>>
                  ELSE FlattenSeq([j \in DOMAIN red[i].ids |-> <<-red[i].ids[j], k0 + i>>])
      ofSat(i) == IF -l \in ToSet(sat[i].cl) THEN <<-(weak + i)>> ELSE <<>>
  IN (IF MFlag(a, lemma) THEN <<>> ELSE FlattenSeq([i \in DOMAIN red |-> ofRed(i)]))
     \o (IF -l \in ToSet(lemma) THEN <<-weak>> ELSE <<>>)
     \o FlattenSeq([i \in DOMAIN sat |-> ofSat(i)])

(* Phase IV (a), second part: the minimized literals, the last one first,   *)
(* each from its clause and the marked literals that falsify the rest.      *)
Implied(k1, def, acc, s) ==
  LET rest == SelectSeq(s.cl, LAMBDA l : l # s.lit)
      id == k1 + Len(acc.lines) + 1
  IN [lines |-> Append(acc.lines, Line("Add", id, <<-def, s.lit>>,
                  [i \in DOMAIN rest |-> acc.marked[-rest[i]]] \o <<s.id>>)),
      marked |-> [acc.marked EXCEPT ![s.lit] = id]]

(* Mutant: only the first copy comes back.                                  *)
StrengthenFirst(a, marked, e, c) ==
  LET l == TouchedOf(a, e.cl)[1]
  IN <<Line("Add", e.ids[1], e.cl, <<c.id, marked[l]>>), Line("Del", c.id, c.cl, <<>>)>>

(* Phase IV (b): a clause comes back under its old IDs; without the mark    *)
(* ("dubious") the satisfied literal is moved to the front.                 *)
Strengthen(a, marked, e, c) ==
  LET l == TouchedOf(a, e.cl)[1]
      i == CHOOSE i \in DOMAIN e.cl : e.cl[i] = l
      swapped == [e.cl EXCEPT ![1] = l, ![i] = e.cl[1]]
  IN <<IF marked[l] = 0 THEN Line("Add", e.ids[1], swapped, <<c.id>>)
       ELSE Line("Add", e.ids[1], e.cl, <<c.id, marked[l]>>)>>
     \o [j \in 1..Len(e.ids)-1 |-> Line("Add", e.ids[j+1], e.cl, <<e.ids[1]>>)]
     \o <<Line("Del", c.id, c.cl, <<>>)>>

Deletions(lines) == [i \in DOMAIN lines |-> Line("Del", lines[i].id, lines[i].cl, <<>>)]

(* All the lines of a PR step, and the ID of the lemma, which is the last.  *)
PrLines(order, lemma, witness, opt, def) ==
  LET a == Assignment(order, witness, opt)
      mflag == MFlag(a, lemma)
      phase1 == Phase1(a, order, lemma, k, def)
      weak == k + Len(phase1) + 1
      phase3 == Line("Guess", weak, <<def>> \o lemma, <<>>)
      sat == SelectSeq(order, LAMBDA e : Weakened(a, e.cl))
      omega == SelectSeq(witness, LAMBDA l : l \in a.assigned)
      k1 == weak + Len(sat)
      implications ==
        [i \in DOMAIN omega |->
           Line("Add", k1 + i, <<omega[i], -def>>,
                Phase4Pfs(a, order, lemma, sat, k, weak, omega[i]))]
      marks == [l \in Lits |-> IF \E i \in DOMAIN omega : omega[i] = l
                               THEN k1 + CHOOSE i \in DOMAIN omega : omega[i] = l ELSE 0]
      min == FoldLeft(LAMBDA acc, s : Implied(k1 + Len(omega), def, acc, s),
                      [lines |-> <<>>, marked |-> marks],
                      IF mflag THEN <<>> ELSE Reverse(a.stack))
      strengthened == [i \in DOMAIN sat |->
        Strengthen(a, min.marked, sat[i], Line("Add", weak + i, <<def>> \o sat[i].cl, <<>>))]
      id == k1 + Len(omega) + Len(min.lines) + 1
  IN [lines |->
        phase1 \o <<phase3>> \o Phase2(sat, weak, def) \o implications
          \o (IF mflag THEN Deletions(phase1) ELSE <<>>) \o min.lines
          \o FlattenSeq(strengthened)
          \o <<Line("Add", id, lemma, <<weak, min.marked[TouchedOf(a, lemma)[1]]>>)>>
          \o Deletions((IF mflag THEN <<>> ELSE phase1) \o <<phase3>> \o implications \o min.lines),
      id |-> id]

-----------------------------------------------------------------------------
(* The steps.                                                              *)

ReadClause ==
  /\ pc = "formula" /\ fmla # <<>>
  /\ fmla' = Tail(fmla) /\ k' = k + 1
  /\ ctx' = Push(Head(fmla), k')
  /\ Write(<<Line("Orig", k', Head(fmla), <<>>)>>)
  /\ drat' = drat (+) SetToBag({ToSet(Head(fmla))})
  /\ pc' = IF fmla' = <<>> THEN "proof" ELSE pc
  /\ UNCHANGED <<tool, maxvar, step, count>>

Reading(s) ==
  /\ pc = "proof" /\ count < MaxSteps
  /\ step' = s /\ count' = count + 1
  /\ UNCHANGED <<tool, fmla>>

(* max() of the literals, not of the variables.                             *)
SeeVars(lits) ==
  maxvar' = CHOOSE m \in {maxvar} \union lits : \A l \in {maxvar} \union lits : l <= m

AddRat(c) ==
  /\ Reading([kind |-> "rat", lemma |-> c])
  /\ c # <<>>
  /\ SeeVars(ToSet(c))
  /\ k' = k + 1 /\ ctx' = Push(c, k')
  /\ Write(<<Line("Guess", k', c, <<>>)>>)
  /\ drat' = drat (+) SetToBag({ToSet(c)})
  /\ UNCHANGED pc

(* from-drat leaves a PR step to the elaborator.                            *)
CopyPr(s) ==
  /\ tool = "from-drat" /\ Reading([kind |-> "pr", lemma |-> s.lemma, witness |-> s.witness])
  /\ k' = k + 1 /\ ctx' = Push(s.lemma, k')
  /\ Write(<<Line("Guess", k', s.lemma, <<>>)>>)
  /\ drat' = drat (+) SetToBag({ToSet(s.lemma)})
  /\ UNCHANGED <<pc, maxvar>>

(* The arrays have room for the variables of the header only.               *)
InBounds(s) ==
  \A l \in ToSet(s.lemma) \union ToSet(s.witness) \union UNION {ToSet(e.cl) : e \in ctx} :
    Var(l) <= Header

AddPr(s) ==
  /\ tool # "from-drat" /\ InBounds(s)
  /\ Reading([kind |-> "pr", lemma |-> s.lemma, witness |-> s.witness])
  /\ SeeVars(ToSet(s.lemma) \union ToSet(s.witness))
  /\ \E order \in SetToSeqs(ctx) :
       LET pr == PrLines(order, s.lemma, s.witness, tool = "from-pr -O", maxvar' + 1)
       IN k' = pr.id /\ ctx' = Push(s.lemma, pr.id) /\ Write(pr.lines)
  /\ drat' = drat (+) SetToBag({ToSet(s.lemma)})
  /\ UNCHANGED pc

(* "midvec index out of bounds"                                             *)
OutOfBounds(s) ==
  /\ tool # "from-drat" /\ ~InBounds(s)
  /\ Reading([kind |-> "pr", lemma |-> s.lemma, witness |-> s.witness])
  /\ pc' = "panic" /\ Write(<<>>)
  /\ UNCHANGED <<k, maxvar, ctx, drat>>

Del(c) ==
  /\ Reading([kind |-> "del", lemma |-> c])
  /\ \E e \in Entry(c) : Pop(e, c)
  /\ drat' = drat (-) SetToBag({ToSet(c)})
  /\ UNCHANGED <<pc, k, maxvar>>

(* "deleted nonexistent clause"                                             *)
DelMissing(c) ==
  /\ Reading([kind |-> "del", lemma |-> c])
  /\ Entry(c) = {}
  /\ pc' = "panic" /\ Write(<<>>)
  /\ UNCHANGED <<k, maxvar, ctx, drat>>

Finals == UNION {{[id |-> e.ids[i], cl |-> e.cl] : i \in DOMAIN e.ids} : e \in ctx}

(* The end of the proof, or its empty clause: the clauses left are final,   *)
(* the last one first (from-drat: in the order of the map).                 *)
Finish ==
  /\ pc = "proof" /\ pc' = "done"
  /\ k' = k + 1
  /\ LET finals == SetToSortSeq(Finals, LAMBDA x, y : x.id > y.id)
     IN Write(<<Line("Guess", k', <<>>, <<>>), Line("Final", k', <<>>, <<>>)>>
              \o [i \in DOMAIN finals |-> Line("Final", finals[i].id, finals[i].cl, <<>>)])
  /\ step' = [kind |-> "end"]
  /\ UNCHANGED <<tool, fmla, maxvar, ctx, drat, count>>

Init ==
  /\ tool \in Tools /\ fmla \in Formulas
  /\ pc = IF fmla = <<>> THEN "proof" ELSE "formula"
  /\ k = 0 /\ maxvar = Header
  /\ ctx = {} /\ out = <<>> /\ db = {} /\ drat = EmptyBag
  /\ step = [kind |-> "start"] /\ count = 0

Next ==
  \/ ReadClause
  \/ \E c \in Clauses : AddRat(c) \/ Del(c) \/ DelMissing(c)
  \/ \E s \in PrSteps : CopyPr(s) \/ AddPr(s) \/ OutOfBounds(s)
  \/ Finish

Spec == Init /\ [][Next]_vars

-----------------------------------------------------------------------------
(* Properties.                                                             *)

(* Everything has its type, and the context has every clause once.          *)
TypeOK ==
  /\ pc \in {"formula", "proof", "done", "panic"}
  /\ tool \in Tools /\ k \in Nat /\ maxvar \in Header..MaxVar
  /\ \A e, f \in ctx : e.ids # <<>> /\ (SameClause(e.cl, f.cl) => e = f)
  /\ \A e \in ctx : e.cl \in Seq(Lits) /\ ToSet(e.ids) \subseteq 1..k
  /\ \A i \in DOMAIN out : out[i].kind \in Added \union {"Del", "Final"} /\ out[i].id \in 1..k
  /\ IsABag(drat)

(* The file is a FRAT file: no line adds an ID that is live, and a deletion *)
(* or a final line names a live ID with its own clause; also inside the     *)
(* lines of a PR step, where clauses leave and come back under their IDs.   *)
Legal(live, ln) ==
  IF ln.kind \in Added THEN \A d \in live : d.id # ln.id
  ELSE \E d \in live : d.id = ln.id /\ SameClause(d.cl, ln.cl)
WellFormed ==
  [][\A n \in DOMAIN out' : Legal(LiveAt(db, out', n-1), out'[n])]_vars

(* After every step the file has the clauses of the DRAT proof, each as     *)
(* often as the proof has it and nothing with a new variable; and when it   *)
(* ends every clause was declared final.                                   *)
SameClauses ==
  /\ pc = "proof" =>
       /\ \A d \in db : CopiesIn(ToSet(d.cl), drat)
                          = Cardinality({e \in db : SameClause(e.cl, d.cl)})
       /\ \A c \in BagToSet(drat) : \E d \in db : ToSet(d.cl) = c
  /\ pc = "done" => db = {}

(* A proof checked against the live clauses: false is the set of literals   *)
(* that are false so far, a hint must be a unit or a conflict clause.       *)
Hint(live, acc, h) ==
  IF acc.verdict # "open" THEN acc
  ELSE IF \A d \in live : d.id # h THEN [acc EXCEPT !.verdict = "bad"]
  ELSE LET open == ToSet((CHOOSE d \in live : d.id = h).cl) \ acc.false
       IN IF open = {} THEN [acc EXCEPT !.verdict = "conflict"]
          ELSE IF Cardinality(open) > 1 THEN [acc EXCEPT !.verdict = "bad"]
          ELSE [acc EXCEPT !.false = @ \union {-l : l \in open}]

Conflict(live, false, pf) ==
  FoldLeft(LAMBDA acc, h : Hint(live, acc, h), [verdict |-> "open", false |-> false], pf).verdict
    = "conflict"

(* RUP by the hints; or RAT on the first literal: every live clause with    *)
(* its complement has its group, and only these do.                         *)
Proves(live, ln) ==
  LET starts == {i \in DOMAIN ln.pf : ln.pf[i] < 0}
      group(i) == SubSeq(ln.pf, i + 1,
                    Cardinality({j \in DOMAIN ln.pf : \A m \in starts : m > i => j < m}))
      against == {d \in live : -ln.cl[1] \in ToSet(d.cl)}
      rest(d) == ToSet(d.cl) \ {-ln.cl[1]}
  IN IF starts = {} /\ ln.pf # <<>> THEN Conflict(live, ToSet(ln.cl), ln.pf)
     ELSE /\ {-ln.pf[i] : i \in starts} = {d.id : d \in against}
          /\ \A i \in starts : \A d \in against :
               d.id = -ln.pf[i] =>
                 \/ \E l \in rest(d) : -l \in ToSet(ln.cl)
                 \/ Conflict(live, ToSet(ln.cl) \union rest(d), group(i))

(* Every proof that from-pr writes is accepted (without -O: there it may    *)
(* cite a clause that it has weakened, as its TODO comment says).           *)
HintsProve ==
  [][tool # "from-pr -O" =>
       \A n \in DOMAIN out' :
         out'[n].kind = "Add" => Proves(LiveAt(db, out', n-1), out'[n])]_vars

(* Unit propagation.                                                       *)
Closure(live, false) ==
  LET more(F) == F \union UNION {LET open == ToSet(d.cl) \ F
                                 IN IF Cardinality(open) = 1 THEN {-l : l \in open} ELSE {} : d \in live}
  IN FoldLeft(LAMBDA F, n : more(F), false, [n \in 1..2*MaxVar+2 |-> n])
Rup(live, c) ==
  \/ \E l \in c : -l \in c
  \/ LET F == Closure(live, c) IN \E d \in live : ToSet(d.cl) \subseteq F

(* A PR step is valid if every clause that the witness reduces and does not *)
(* satisfy follows, reduced, by unit propagation with the lemma false.      *)
IsPr(live, lemma, witness) ==
  \A d \in live :
    LET w == ToSet(witness)
        reduced == {l \in ToSet(d.cl) : -l \notin w}
    IN (ToSet(d.cl) \intersect w = {} /\ reduced # ToSet(d.cl))
         => Rup(live, ToSet(lemma) \union reduced)

(* "this is the key step: we don't know the proof but it should be RUP if   *)
(* the step is PR": the one line of a PR step without a proof can be found  *)
(* by the elaborator, as RAT on its first literal, the new variable: every  *)
(* clause with the complement resolves to a clause that is RUP.  (-O: too.)  *)
Rat(live, c) ==
  \A d \in live :
    -c[1] \in ToSet(d.cl) => Rup(live, ToSet(c) \union (ToSet(d.cl) \ {-c[1]}))
KeyStep ==
  [][tool # "from-drat" /\ step'.kind = "pr" /\ count' > count
       /\ IsPr(db, step'.lemma, step'.witness) =>
       \A n \in DOMAIN out' :
         out'[n].kind = "Guess" => Rat(LiveAt(db, out', n-1), out'[n].cl)]_vars
(* The TODO comment of phase IV (b) says when the proof of a line cites a   *)
(* clause that has been weakened, "opt = mflag = true".  mflag is false for *)
(* a lemma of one literal: there every proof would cite live clauses.       *)
CitesLive ==
  [][step'.kind = "pr" /\ count' > count /\ Len(step'.lemma) = 1 =>
       \A n \in DOMAIN out' : \A i \in DOMAIN out'[n].pf :
         \E d \in LiveAt(db, out', n-1) : d.id \in {out'[n].pf[i], -out'[n].pf[i]}]_vars
=============================================================================
