------------------------------ MODULE UnitProp ------------------------------
(***************************************************************************)
(* The propagation engine of src/elab.rs: Context with its trail (VAssign)   *)
(* and its watch lists (Watches), as elab() uses it.  Clauses come and go    *)
(* between steps; a step asks whether a clause follows by unit propagation,  *)
(* first along the hints it came with, then by propagate().  The trail of   *)
(* units that hold whatever the step is kept from one step to the next and   *)
(* repaired when a clause is removed.                                      *)
(*                                                                         *)
(* A literal is an integer, its complement the negated integer; 0 stands    *)
(* for the literal of the empty clause.  A clause is known by its address;   *)
(* an address is used again after the clause is removed.                   *)
(***************************************************************************)
EXTENDS Integers, FiniteSets, Sequences, Functions

CONSTANTS
  Ids,        \* addresses of clauses
  NumVars,    \* the variables are 1..NumVars
  Inputs,     \* the clauses that may be inserted: sequences of literals
  Goals,      \* the clauses that steps ask for
  MaxHints,   \* bound: the hints a step comes with
  None        \* Reason::NONE

Lits == -NumVars..NumVars

ASSUME Sizes == NumVars \in Nat /\ MaxHints \in Nat
ASSUME NoneIsNoId == None \notin Ids
ASSUME InputsAreClauses ==
  Inputs \union Goals \subseteq {c \in Seq(Lits \ {0}) : IsInjective(c)}

VARIABLES
  names,             \* the addresses in use
  clauses,           \* address -> its literals; the first two are watched
  marked,            \* the marked clauses
  watch,             \* class -> literal -> the clauses that watch it
  truStack,          \* the true literals in the order they were assigned
  reasons,           \* literal -> the clause it follows from, or None
  firstHyp,          \* how many of truStack hold without the step's hypotheses
  firstUnprocessed,  \* how many of truStack are propagated
  unitsProcessed,    \* the unit clauses are on the trail
  pc,                \* where the engine is
  stage,             \* "hint", or "empty" with no hint; then "root" and "goal"
  goal,              \* the clause of the step
  rest,              \* literals of the goal not assumed false yet
  unprocessed,       \* class -> how many of truStack are propagated to it
  cur,               \* the watch list being visited and the place in it
  root,              \* propagate_core() was called without hypotheses
  conflict,          \* the literal found both true and false
  hints,             \* propagate_hint(): hints to try in this round
  queue,             \* hints put off to the next round
  progress           \* a hint of this round was used

context == <<names, clauses, marked, watch>>
va == <<truStack, reasons, firstHyp, firstUnprocessed, unitsProcessed>>
control == <<stage, goal, rest, unprocessed, cur, root, conflict, hints, queue, progress>>
vars == <<context, va, pc, control>>

-----------------------------------------------------------------------------
(* The assignment.                                                         *)

IsTrue(l) == l \in Range(truStack)
IsFalse(l) == IsTrue(-l)

(* unsat(): only the last literal is looked at.                            *)
UnsatAt(n) == n > 0 /\ \E m \in 1..n : truStack[m] = -truStack[n]
Unsat == UnsatAt(Len(truStack))

Assign(l, r) ==
  IF IsTrue(l) THEN UNCHANGED <<truStack, reasons>>
  ELSE /\ truStack' = Append(truStack, l)
       /\ reasons' = [reasons EXCEPT ![l] = r]

(* Mutant: the rest of the trail still counts as propagated.                *)
ClearToKeepsQueue(n) ==
  /\ truStack' = SubSeq(truStack, 1, n)
  /\ reasons' = [l \in Lits |-> IF \E m \in n+1..Len(truStack) : truStack[m] = l
                                THEN None ELSE reasons[l]]
  /\ UNCHANGED firstUnprocessed

ClearTo(n) ==
  /\ truStack' = SubSeq(truStack, 1, n)
  /\ reasons' = [l \in Lits |-> IF \E m \in n+1..Len(truStack) : truStack[m] = l
                                THEN None ELSE reasons[l]]
  /\ firstUnprocessed' = IF n < firstUnprocessed THEN n ELSE firstUnprocessed

(* Mutant: what was propagated from the rest of the trail is not redone.    *)
UnassignKeepsQueue(l) ==
  IF ~IsTrue(l) THEN UNCHANGED va
  ELSE LET n == (CHOOSE m \in DOMAIN truStack : truStack[m] = l) - 1 IN
       /\ ClearTo(n)
       /\ firstHyp' = n
       /\ unitsProcessed' = FALSE

(* Mutant: only the literal itself is taken off the trail.                  *)
UnassignOne(l) ==
  IF ~IsTrue(l) THEN UNCHANGED va
  ELSE /\ truStack' = SelectSeq(truStack, LAMBDA x : x # l)
       /\ reasons' = [reasons EXCEPT ![l] = None]
       /\ firstHyp' = Len(truStack) - 1
       /\ firstUnprocessed' = 0
       /\ unitsProcessed' = FALSE

Unassign(l) ==
  IF ~IsTrue(l) THEN UNCHANGED va
  ELSE LET n == (CHOOSE m \in DOMAIN truStack : truStack[m] = l) - 1 IN
       /\ truStack' = SubSeq(truStack, 1, n)
       /\ reasons' = [x \in Lits |-> IF \E m \in n+1..Len(truStack) : truStack[m] = x
                                     THEN None ELSE reasons[x]]
       /\ firstHyp' = n
       /\ firstUnprocessed' = 0
       /\ unitsProcessed' = FALSE

AddUnit(l, i) ==
  /\ Assign(l, i)
  /\ firstHyp' = IF IsTrue(l) THEN firstHyp ELSE firstHyp + 1

-----------------------------------------------------------------------------
(* Watch lists.                                                            *)

SwapRemove(s, i) ==
  LET n == CHOOSE m \in DOMAIN s : s[m] = i
  IN [m \in 1..Len(s)-1 |-> IF m = n THEN s[Len(s)] ELSE s[m]]

WatchDel(w, m, l, i) == [w EXCEPT ![m][l] = SwapRemove(@, i)]
WatchAdd(w, m, l, i) == [w EXCEPT ![m][l] = Append(@, i)]

Swap(s, m, n) == [s EXCEPT ![m] = s[n], ![n] = s[m]]

(* sort_unit(): the literals that are not false come first.                 *)
Sorted(c) ==
  LET sort[n \in 0..Len(c)] ==
        IF n = 0 THEN [lits |-> c, size |-> 0]
        ELSE LET s == sort[n - 1] IN
             IF IsFalse(c[n]) THEN s
             ELSE [lits |-> Swap(s.lits, n, s.size + 1), size |-> s.size + 1]
  IN sort[Len(c)].lits

IsUnit(c) ==
  /\ \A l \in Range(c) : ~IsTrue(l)
  /\ Cardinality({l \in Range(c) : ~IsFalse(l)}) <= 1

(* The literal of a unit clause, and 0 of the empty one.                    *)
UnitLit(c) == IF c = <<>> THEN 0 ELSE c[1]

UnitClauses == {i \in names : Len(clauses[i]) <= 1}

-----------------------------------------------------------------------------
Init ==
  /\ names = {} /\ marked = {}
  /\ clauses = [i \in Ids |-> <<>>]
  /\ watch = [m \in BOOLEAN |-> [l \in Lits |-> <<>>]]
  /\ truStack = <<>> /\ reasons = [l \in Lits |-> None]
  /\ firstHyp = 0 /\ firstUnprocessed = 0 /\ unitsProcessed = FALSE
  /\ pc = "idle"
  /\ stage = "root"
  /\ goal = <<>> /\ rest = <<>>
  /\ unprocessed = [m \in BOOLEAN |-> 0]
  /\ cur = [class |-> TRUE, lit |-> 0, at |-> 1]
  /\ root = TRUE /\ conflict = 0
  /\ hints = <<>> /\ queue = <<>> /\ progress = FALSE

(* The local variables of a step are gone when it ends.                     *)
EndStep ==
  /\ pc' = "idle"
  /\ stage' = "root"
  /\ goal' = <<>> /\ rest' = <<>>
  /\ unprocessed' = [m \in BOOLEAN |-> 0]
  /\ cur' = [class |-> TRUE, lit |-> 0, at |-> 1]
  /\ root' = TRUE /\ conflict' = 0
  /\ hints' = <<>> /\ queue' = <<>> /\ progress' = FALSE

(* Between steps: elab() inserts, removes and marks clauses.                *)

InsertClause(i, c, m) ==
  /\ pc = "idle" /\ i \notin names
  /\ LET s == Sorted(c) IN
     /\ names' = names \union {i}
     /\ clauses' = [clauses EXCEPT ![i] = s]
     /\ marked' = IF m THEN marked \union {i} ELSE marked
     /\ watch' = IF Len(s) >= 2 THEN WatchAdd(WatchAdd(watch, m, s[1], i), m, s[2], i)
                 ELSE watch
     /\ IF IsUnit(c) /\ ~Unsat THEN AddUnit(UnitLit(s), i)
        ELSE UNCHANGED <<truStack, reasons, firstHyp>>
  /\ UNCHANGED <<firstUnprocessed, unitsProcessed, pc, control>>

RemoveClause(i) ==
  /\ pc = "idle" /\ i \in names
  /\ LET c == clauses[i]
         m == i \in marked
     IN
     /\ watch' = IF Len(c) >= 2 THEN WatchDel(WatchDel(watch, m, c[1], i), m, c[2], i)
                 ELSE watch
     /\ IF Len(c) <= 1 \/ reasons[c[1]] = i THEN Unassign(UnitLit(c))
        ELSE UNCHANGED va
  /\ names' = names \ {i}
  /\ marked' = marked \ {i}
  /\ clauses' = [clauses EXCEPT ![i] = <<>>]
  /\ UNCHANGED <<pc, control>>

(* Mutant: the clause stays in the lists of the unmarked clauses.           *)
MarkInPlace(i) ==
  /\ pc = "idle" /\ i \in names \ marked
  /\ marked' = marked \union {i}
  /\ UNCHANGED <<names, clauses, watch, va, pc, control>>

MarkClause(i) ==
  /\ pc = "idle" /\ i \in names \ marked
  /\ marked' = marked \union {i}
  /\ LET c == clauses[i] IN
     watch' = IF Len(c) < 2 THEN watch
              ELSE WatchAdd(WatchAdd(WatchDel(WatchDel(watch, FALSE, c[1], i),
                                              FALSE, c[2], i), TRUE, c[1], i), TRUE, c[2], i)
  /\ UNCHANGED <<names, clauses, va, pc, control>>

-----------------------------------------------------------------------------
(* build_step(): a step asks for the clause c, with the hints h or none.    *)

Step(c, h, given) ==
  /\ pc = "idle"
  /\ goal' = c
  /\ hints' = h /\ queue' = <<>> /\ progress' = FALSE
  /\ pc' = IF given THEN "hint" ELSE "propagate"
  /\ stage' = IF h = <<>> THEN "empty" ELSE "hint"
  /\ UNCHANGED <<context, va, rest, unprocessed, cur, root, conflict>>

Found(k) ==
  /\ pc' = "found"
  /\ conflict' = k
  /\ UNCHANGED <<stage, goal, rest, unprocessed, cur, root, hints, queue, progress>>

Hinted == stage \in {"hint", "empty"}

(* propagate_hint(): the unit clauses are looked at, but not propagated.    *)
StartHint ==
  /\ pc = "hint"
  /\ \/ Unsat /\ Found(truStack[Len(truStack)])
     \/ /\ ~Unsat
        /\ rest' = goal
        /\ pc' = IF unitsProcessed THEN "assume" ELSE "units"
        /\ UNCHANGED <<stage, goal, unprocessed, cur, root, conflict, hints, queue, progress>>
  /\ UNCHANGED <<context, va>>

HintLit(c) == {n \in DOMAIN c : ~IsFalse(c[n])}

(* One hint: satisfied, not unit yet, unit, or the conflict.  The unit       *)
(* literal is moved to the front, and watched there.                       *)
UseHint ==
  /\ pc = "hints" /\ hints # <<>>
  /\ hints' = Tail(hints)
  /\ LET i == Head(hints)
         c == clauses[i]
         m == i \in marked
     IN
     \/ /\ \E l \in Range(c) : IsTrue(l)
        /\ UNCHANGED <<context, va, pc, conflict, queue, progress>>
     \/ /\ \A l \in Range(c) : ~IsTrue(l)
        /\ Cardinality(HintLit(c)) > 1
        /\ queue' = Append(queue, i)
        /\ UNCHANGED <<context, va, pc, conflict, progress>>
     \/ /\ \A l \in Range(c) : ~IsTrue(l)
        /\ \E n \in HintLit(c) :
           /\ HintLit(c) = {n}
           /\ clauses' = [clauses EXCEPT ![i] = Swap(c, 1, n)]
           /\ watch' = IF n > 2 THEN WatchAdd(WatchDel(watch, m, c[1], i), m, c[n], i)
                       ELSE watch
           /\ Assign(c[n], i)
        /\ progress' = TRUE
        /\ UNCHANGED <<names, marked, firstHyp, firstUnprocessed, unitsProcessed,
                       pc, conflict, queue>>
     \/ /\ HintLit(c) = {}
        /\ \A l \in Range(c) : ~IsTrue(l)
        /\ Assign(UnitLit(c), i)
        /\ conflict' = UnitLit(c)
        /\ pc' = "found"
        /\ UNCHANGED <<context, firstHyp, firstUnprocessed, unitsProcessed, queue, progress>>
  /\ UNCHANGED <<stage, goal, rest, unprocessed, cur, root>>

Fresh(l) == \A i \in names : -l \notin Range(clauses[i])

(* A round of hints is over.  After one that did nothing the clause is       *)
(* accepted as a RAT step if it came with an empty hint and no clause has     *)
(* the complement of its pivot (0 when it has none); otherwise propagate()  *)
(* is tried.                                                               *)
HintRound ==
  /\ pc = "hints" /\ hints = <<>>
  /\ \/ /\ progress
        /\ hints' = queue /\ queue' = <<>> /\ progress' = FALSE
        /\ UNCHANGED <<va, pc, stage, goal, rest, unprocessed, cur, root, conflict>>
     \/ /\ ~progress
        /\ \E pivot \in Range(goal) \union {0} :
             IF stage = "empty" /\ pivot # 0 /\ Fresh(pivot)
             THEN /\ EndStep
                  /\ ClearTo(firstHyp)
                  /\ UNCHANGED <<firstHyp, unitsProcessed>>
             ELSE pc' = "propagate" /\ UNCHANGED <<va, control>>
  /\ UNCHANGED context

-----------------------------------------------------------------------------
(* propagate()                                                             *)

(* Called with hypotheses on the trail that the hints left, and the trail   *)
(* below them not propagated, it starts over without them.                 *)
Propagate ==
  /\ pc = "propagate"
  /\ \/ /\ Unsat
        /\ Found(truStack[Len(truStack)])
        /\ UNCHANGED va
     \/ /\ ~Unsat
        /\ ~unitsProcessed \/ firstUnprocessed < firstHyp
        /\ IF firstHyp < Len(truStack) THEN ClearTo(firstHyp)
           ELSE UNCHANGED <<truStack, reasons, firstUnprocessed>>
        /\ UNCHANGED <<firstHyp, unitsProcessed>>
        /\ IF UnsatAt(firstHyp) THEN Found(truStack[firstHyp])
           ELSE /\ stage' = "root"
                /\ root' = TRUE
                /\ unprocessed' = [m \in BOOLEAN |-> firstUnprocessed']
                /\ pc' = IF unitsProcessed THEN "prop" ELSE "units"
                /\ UNCHANGED <<goal, rest, cur, conflict, hints, queue, progress>>
     \/ /\ ~Unsat
        /\ unitsProcessed /\ firstUnprocessed >= firstHyp
        /\ stage' = "root"
        /\ root' = (firstHyp >= Len(truStack))
        /\ unprocessed' = [m \in BOOLEAN |-> firstUnprocessed]
        /\ pc' = "prop"
        /\ UNCHANGED <<va, goal, rest, cur, conflict, hints, queue, progress>>
  /\ UNCHANGED context

(* The loop over units, in the order of a hash map.                        *)
ProcessUnits ==
  /\ pc = "units"
  /\ LET new == {i \in UnitClauses : ~IsTrue(UnitLit(clauses[i]))} IN
     \/ /\ new = {}
        /\ unitsProcessed' = TRUE
        /\ pc' = IF Hinted THEN "assume" ELSE "prop"
        /\ UNCHANGED <<truStack, reasons, firstHyp, conflict>>
     \/ \E i \in new :
        /\ AddUnit(UnitLit(clauses[i]), i)
        /\ IF IsFalse(UnitLit(clauses[i])) \/ UnitLit(clauses[i]) = 0
           THEN pc' = "found" /\ conflict' = UnitLit(clauses[i])
           ELSE UNCHANGED <<pc, conflict>>
        /\ UNCHANGED unitsProcessed
  /\ UNCHANGED <<context, firstUnprocessed, stage, goal, rest, unprocessed, cur,
                 root, hints, queue, progress>>

(* The negated goal is assumed, literal by literal.                        *)
Assume ==
  /\ pc = "assume"
  /\ \/ /\ rest # <<>>
        /\ Assign(-Head(rest), None)
        /\ rest' = Tail(rest)
        /\ IF IsTrue(Head(rest))
           THEN pc' = "found" /\ conflict' = Head(rest)
           ELSE UNCHANGED <<pc, conflict>>
        /\ UNCHANGED <<root, unprocessed>>
     \/ /\ rest = <<>>
        /\ pc' = IF Hinted THEN "hints" ELSE "prop"
        /\ IF Hinted THEN UNCHANGED <<root, unprocessed>>
           ELSE /\ root' = (firstHyp >= Len(truStack))
                /\ unprocessed' = [m \in BOOLEAN |-> firstUnprocessed]
        /\ UNCHANGED <<truStack, reasons, rest, conflict>>
  /\ UNCHANGED <<context, firstHyp, firstUnprocessed, unitsProcessed, stage, goal,
                 cur, hints, queue, progress>>

-----------------------------------------------------------------------------
(* propagate_core(): marked clauses first, then the others.                 *)

NextPropLit ==
  /\ pc = "prop"
  /\ \E m \in BOOLEAN :
     /\ unprocessed[m] < Len(truStack)
     /\ m \/ unprocessed[TRUE] = Len(truStack)
     /\ cur' = [class |-> m, lit |-> truStack[unprocessed[m] + 1], at |-> 1]
     /\ unprocessed' = [unprocessed EXCEPT ![m] = @ + 1]
  /\ pc' = "visit"
  /\ UNCHANGED <<context, va, stage, goal, rest, root, conflict, hints, queue, progress>>

PropDone ==
  /\ pc = "prop"
  /\ \A m \in BOOLEAN : unprocessed[m] = Len(truStack)
  /\ firstUnprocessed' = Len(truStack)
  /\ firstHyp' = IF root THEN Len(truStack) ELSE firstHyp
  /\ \/ Unsat /\ Found(truStack[Len(truStack)])
     \/ /\ ~Unsat
        /\ IF stage = "root" /\ goal # <<>>
           THEN pc' = "assume" /\ stage' = "goal" /\ rest' = goal
           ELSE pc' = "stuck" /\ UNCHANGED <<stage, rest>>
        /\ UNCHANGED <<goal, unprocessed, cur, root, conflict, hints, queue, progress>>
  /\ UNCHANGED <<context, truStack, reasons, unitsProcessed>>

(* Literal n of clause i is watched in place of the falsified one.  The      *)
(* list being visited shrinks, its last clause now in this place.           *)
Replace(i, c, n) ==
  /\ clauses' = [clauses EXCEPT ![i] = Swap(c, 2, n)]
  /\ watch' = WatchAdd(WatchDel(watch, cur.class, -cur.lit, i), cur.class, c[n], i)
  /\ UNCHANGED <<names, marked, cur, va, pc, conflict>>

(* No literal is left but the first: a new unit, or the conflict.            *)
Imply(i, c) ==
  /\ clauses' = [clauses EXCEPT ![i] = c]
  /\ Assign(c[1], i)
  /\ IF IsFalse(c[1])
     THEN /\ pc' = "found" /\ conflict' = c[1]
          /\ firstUnprocessed' = Len(truStack')
          /\ firstHyp' = IF root THEN Len(truStack') ELSE firstHyp
     ELSE UNCHANGED <<pc, conflict, firstUnprocessed, firstHyp>>
  /\ cur' = [cur EXCEPT !.at = @ + 1]
  /\ UNCHANGED <<names, marked, watch, unitsProcessed>>

Visit ==
  /\ pc = "visit"
  /\ LET is == watch[cur.class][-cur.lit] IN
     \/ /\ cur.at > Len(is)
        /\ pc' = "prop"
        /\ UNCHANGED <<context, va, cur, conflict>>
     \/ /\ cur.at <= Len(is)
        /\ LET i == is[cur.at]
               wrong == (i \in marked) # cur.class
               old == clauses[i]
               c == IF old[1] = -cur.lit THEN Swap(old, 1, 2) ELSE old
               free == {n \in 3..Len(c) : ~IsFalse(c[n])}
           IN
           \/ /\ wrong \/ IsTrue(c[1]) \/ IsTrue(c[2])
              /\ cur' = [cur EXCEPT !.at = @ + 1]
              /\ UNCHANGED <<context, va, pc, conflict>>
           \/ /\ ~(wrong \/ IsTrue(c[1]) \/ IsTrue(c[2]))
              /\ \E n \in free : (\A m \in free : n <= m) /\ Replace(i, c, n)
           \/ /\ ~(wrong \/ IsTrue(c[1]) \/ IsTrue(c[2]))
              /\ free = {}
              /\ Imply(i, c)
  /\ UNCHANGED <<stage, goal, rest, unprocessed, root, hints, queue, progress>>

-----------------------------------------------------------------------------
(* Mutant: the hypotheses stay on the trail.                               *)
FinishKeepsHyps ==
  /\ pc = "found"
  /\ EndStep
  /\ UNCHANGED <<context, va>>

(* The end of a step that was proved: run_step() takes its hypotheses back.  *)
(* One that was not proved ends "stuck": RatStep says what run_step() then     *)
(* does.                                                                   *)
Finish ==
  /\ pc = "found"
  /\ EndStep
  /\ ClearTo(firstHyp)
  /\ UNCHANGED <<context, firstHyp, unitsProcessed>>

HintLists == UNION {{h \in [1..n -> names] : IsInjective(h)} : n \in 0..MaxHints}

Engine ==
  \/ StartHint \/ UseHint \/ HintRound
  \/ Propagate \/ ProcessUnits \/ Assume
  \/ NextPropLit \/ PropDone \/ Visit
  \/ Finish

Next ==
  \/ \E i \in Ids, c \in Inputs : InsertClause(i, c, c = <<>>)
  \/ \E i \in Ids : RemoveClause(i) \/ MarkClause(i)
  \/ \E c \in Goals : Step(c, <<>>, FALSE) \/ \E h \in HintLists : Step(c, h, TRUE)
  \/ Engine

Spec == Init /\ [][Next]_vars

-----------------------------------------------------------------------------
(* Properties.                                                             *)

(* What self_test() checks of the watch lists, and its converse: a clause    *)
(* of two literals or more is once in the list of each of its first two, in   *)
(* the class it is marked for, and nothing else is in a list.               *)
WatchesOk ==
  \A i \in Ids, m \in BOOLEAN, l \in Lits :
    Cardinality({n \in DOMAIN watch[m][l] : watch[m][l][n] = i}) =
      IF i \in names /\ m = (i \in marked) /\ Len(clauses[i]) >= 2
         /\ l \in {clauses[i][1], clauses[i][2]}
      THEN 1 ELSE 0

(* The trail is a derivation: a literal with a reason is the first of a live  *)
(* clause whose other literals were false before it (finalize_hint() relies  *)
(* on both), one without a reason is a hypothesis, of which none is left       *)
(* between steps ("uncleared hypotheses" in unassign() and add_unit()), and   *)
(* only the last literal may contradict another: unsat() looks at no other.   *)
(* No literal is on it twice, and the two marks in it do not outrun it.      *)
TrailOk ==
  /\ truStack \in Seq(Lits) /\ IsInjective(truStack)
  /\ firstHyp \in 0..Len(truStack) /\ firstUnprocessed \in 0..Len(truStack)
  /\ pc = "idle" => firstHyp = Len(truStack)
  /\ \A n \in DOMAIN truStack :
       LET l == truStack[n]
           i == reasons[l]
       IN /\ IF i = None THEN n > firstHyp
             ELSE /\ i \in names
                  /\ l = UnitLit(clauses[i])
                  /\ \A k \in 2..Len(clauses[i]) :
                       \E m \in 1..n-1 : truStack[m] = -clauses[i][k]
          /\ n < Len(truStack) => ~UnsatAt(n)

(* What self_test() checks of the trail: when propagate_core() returns without *)
(* a conflict no clause is unit or falsified.  The trail may have been cut     *)
(* back, and clauses inserted over false literals, since its first part was   *)
(* last propagated.                                                        *)
Saturated ==
  (pc = "assume" /\ stage = "goal" /\ rest = goal) \/ pc = "stuck" =>
    \A i \in names :
      \/ \E l \in Range(clauses[i]) : IsTrue(l)
      \/ Cardinality({l \in Range(clauses[i]) : ~IsFalse(l)}) > 1

(* The literals of A lead to a contradiction by unit propagation: whatever    *)
(* holds them, and is closed under unit clauses, holds a literal and its      *)
(* complement.                                                             *)
Refuted(A) ==
  \A S \in SUBSET Lits :
    (/\ A \subseteq S
     /\ \A i \in names :
          \/ clauses[i] # <<>> /\ \E l \in Range(clauses[i]) : l \in S
          \/ Cardinality({l \in Range(clauses[i]) : -l \notin S}) > 1)
    => \E l \in S : l # 0 /\ -l \in S

Negated(c) == {-l : l \in Range(c)}
Rup(c) == Refuted(Negated(c))

(* The engine says a clause follows only if it does, and gives up only if it  *)
(* does not, whatever units earlier steps left on the trail, however the      *)
(* hints went and wherever the watches stood.                               *)
Verdict ==
  /\ pc = "found" => Rup(goal)
  /\ pc = "stuck" => ~Rup(goal)
=============================================================================
