--------------------------- MODULE PipelineProofs ---------------------------
(***************************************************************************)
(* Proofs about Pipeline, for every instance: trim() reads what elab()      *)
(* wrote without a panic, and what Trim.tla assumes of the steps it is given *)
(* holds of them.                                                          *)
(*                                                                         *)
(* ElabProofs has it that there is a chain of sets of clauses, one between   *)
(* every two entries of the temporary file, that a reader must know there.   *)
(* Here the reader is trim(): the invariant says that what it has renamed    *)
(* fits the first of these sets.                                           *)
(***************************************************************************)
EXTENDS Pipeline, SequenceTheorems, TLAPS

EP == INSTANCE ElabProofs
TP == INSTANCE TrimProofs

-----------------------------------------------------------------------------
(* What is proved of the two passes, for the definitions of this module.     *)

LEMMA Constants ==
  /\ EP!IsFiniteSet(Ids) /\ TP!IsFiniteSet(Ids)
  /\ MaxSteps \in Nat /\ Modes \subseteq BOOLEAN
  /\ Cnf \in Seq(SUBSET Lits)
  /\ RefMax \in Nat \ {0, 1} /\ MaxK \in Nat /\ Len(Cnf) < MaxK
BY IdsFinite, StepsBound, CnfClauses, Counters
   DEF EP!IsFiniteSet, TP!IsFiniteSet, IsFiniteSet

LEMMA SameElab ==
  /\ E!Init => EP!Init
  /\ E!Next => EP!Next
<1>1. E!Init => EP!Init  BY DEF E!Init, EP!Init
<1>2. E!Next => EP!Next
  BY DEF E!Next, EP!Next, E!Orig, EP!Orig, E!AddStep, EP!AddStep, E!Add, EP!Add,
         E!Stuck, EP!Stuck, E!Reloc, EP!Reloc, E!Relocations, EP!Relocations,
         E!Del, EP!Del, E!Final, EP!Final, E!TheoryOrig, EP!TheoryOrig,
         E!Theory, EP!Theory, E!ImplyClause, EP!ImplyClause,
         E!TheoryFinal, EP!TheoryFinal, E!NoProof, EP!NoProof,
         E!StartOfFile, EP!StartOfFile,
         E!Reading, EP!Reading, E!Panic, EP!Panic, E!context, EP!context,
         E!Clauses, EP!Clauses, E!Hoisted, EP!Hoisted, E!Needed, EP!Needed,
         E!Introduces, EP!Introduces, E!Dels, EP!Dels,
         E!InsertClause, EP!InsertClause, E!RemoveClause, EP!RemoveClause,
         E!OrigE, EP!OrigE, E!TheoryOrigE, EP!TheoryOrigE, E!AddE, EP!AddE,
         E!ImplyE, EP!ImplyE, E!TheoryE, EP!TheoryE, E!RelocE, EP!RelocE,
         E!DelE, EP!DelE, E!SetToSeq, EP!SetToSeq, E!IsInjective, EP!IsInjective,
         E!Range, EP!Range, E!Restrict, EP!Restrict, E!Cardinality, EP!Cardinality
<1> QED  BY <1>1, <1>2

LEMMA SameTrim ==
  /\ T!Init <=> TP!Init
  /\ \A i, c : T!Orig(i, c) <=> TP!Orig(i, c)
  /\ T!EndOrigs <=> TP!EndOrigs
  /\ \A i, c, U, one : T!Add(i, c, U, one) <=> TP!Add(i, c, U, one)
  /\ \A i, c, U : T!Imply(i, c, U) <=> TP!Imply(i, c, U)
  /\ \A U : T!Theory(U) <=> TP!Theory(U)
  /\ \A src : T!Reloc(src) <=> TP!Reloc(src)
  /\ \A i : T!Del(i) <=> TP!Del(i)
  /\ T!LateOrig <=> TP!LateOrig
  /\ T!EndOfFile <=> TP!EndOfFile
<1>1. T!Init <=> TP!Init  BY DEF T!Init, TP!Init, T!Outs, TP!Outs, T!Origs, TP!Origs
<1>2. \A i, c : T!Orig(i, c) <=> TP!Orig(i, c)
  BY DEF T!Orig, TP!Orig, T!OrigFound, TP!OrigFound, T!Named, TP!Named,
         T!Position, TP!Position, T!Matches, TP!Matches, T!Origs, TP!Origs,
         T!SaturatingInc, TP!SaturatingInc, T!Panic, TP!Panic
<1>3. T!EndOrigs <=> TP!EndOrigs
  BY DEF T!EndOrigs, TP!EndOrigs, T!Origs, TP!Origs
<1>4. \A i, c, U : T!Derive(i, c, U) <=> TP!Derive(i, c, U)
  BY DEF T!Derive, TP!Derive, T!Named, TP!Named, T!Panic, TP!Panic
<1>5. \A i, c, u : T!Share(i, c, u) <=> TP!Share(i, c, u)
  BY DEF T!Share, TP!Share, T!Named, TP!Named, T!Panic, TP!Panic
<1>6. \A i, c, U, one : T!Add(i, c, U, one) <=> TP!Add(i, c, U, one)
  BY <1>4, <1>5 DEF T!Add, TP!Add
<1>7. \A i, c, U : T!Imply(i, c, U) <=> TP!Imply(i, c, U)
  BY <1>4 DEF T!Imply, TP!Imply
<1>8. \A U : T!Theory(U) <=> TP!Theory(U)
  BY DEF T!Theory, TP!Theory, T!Named, TP!Named, T!Panic, TP!Panic
<1>9. \A src : T!Reloc(src) <=> TP!Reloc(src)
  BY DEF T!Reloc, TP!Reloc, T!Moved, TP!Moved, T!Named, TP!Named, T!Range, TP!Range
<1>10. \A i : T!Del(i) <=> TP!Del(i)
  BY DEF T!Del, TP!Del, T!Named, TP!Named, T!Released, TP!Released, T!Origs, TP!Origs,
         T!Panic, TP!Panic
<1>11. (T!LateOrig <=> TP!LateOrig) /\ (T!EndOfFile <=> TP!EndOfFile)
  BY DEF T!LateOrig, TP!LateOrig, T!EndOfFile, TP!EndOfFile, T!Panic, TP!Panic
<1> QED  BY <1>1, <1>2, <1>3, <1>6, <1>7, <1>8, <1>9, <1>10, <1>11

(* The environment that Trim.tla allows is the same, too.                   *)
LEMMA SameEnvironment ==
  /\ TP!Next => T!Next
  /\ TP!Accepted /\ TP!StandIn => CheckerAgrees
<1>1. \A i : T!Replaceable(i) <=> TP!Replaceable(i)
  BY DEF T!Replaceable, TP!Replaceable, T!Named, TP!Named, T!Origs, TP!Origs
<1>2. T!Relocations = TP!Relocations
  BY <1>1 DEF T!Relocations, TP!Relocations, T!IsInjective, TP!IsInjective,
              T!Range, TP!Range, T!Named, TP!Named
<1>3. TP!Define => T!Define
  BY <1>1, SameTrim DEF T!Define, TP!Define, T!Clauses, TP!Clauses
<1>4. TP!DefineCopy => T!DefineCopy
  BY <1>1, SameTrim
  DEF T!DefineCopy, TP!DefineCopy, T!Clauses, TP!Clauses, T!Named, TP!Named
<1>5. TP!Next => T!Next
  BY <1>2, <1>3, <1>4, SameTrim DEF T!Next, TP!Next, T!Clauses, TP!Clauses
<1>6. TP!Accepted /\ TP!StandIn => CheckerAgrees
  BY DEF CheckerAgrees, T!Accepted, TP!Accepted, T!StandIn, TP!StandIn, T!Named, TP!Named
<1> QED  BY <1>5, <1>6

-----------------------------------------------------------------------------
(* The inductive invariant.                                                *)

(* trim() has renamed the clauses that a reader must know, to what subsumes   *)
(* them.  What else it has renamed is not needed and may be written over;     *)
(* in the header there is no such thing.                                    *)
Fits(Q) ==
  /\ \A x \in Q : map[x[1]] # 0 /\ claim[x[1]] \subseteq x[2]
  /\ \A i \in Ids : i \notin EP!IdsOf(Q) => TP!Replaceable(i)
  /\ phase = "origs" => \A i \in Ids : map[i] # 0 => i \in EP!IdsOf(Q)

(* The orig steps, which quote the formula, are the end of the file that is   *)
(* read first.                                                             *)
OrigsLast ==
  \A m \in 1..Len(temp) : IsOrig(temp[m]) =>
    /\ phase = "origs"
    /\ temp[m].op = "orig" => temp[m].lits \in Range(Cnf)
    /\ \A n \in m..Len(temp) : IsOrig(temp[n])

(* What trim() has before it: entries that lead from clauses it has to some   *)
(* where an empty clause is.                                                *)
Ahead(Q, R) == EP!Chain(temp, Q, R) /\ \E x \in R : x[2] = {}

FileGood ==
  /\ temp \in Seq(EP!Entries)
  /\ OrigsLast
  /\ \E Q, R \in EP!Known : Fits(Q) /\ Ahead(Q, R)

PInv ==
  /\ pc \in {"elab", "done"}
  /\ phase # "panic"
  /\ TP!IInv /\ TP!CInv
  /\ pc = "elab" => EP!IInv /\ Quotes /\ TP!Init
  /\ pc = "done" /\ phase \in {"origs", "steps"} => FileGood

-----------------------------------------------------------------------------
(* One entry.                                                              *)

LEMMA FrontFacts ==
  ASSUME NEW S, NEW s \in Seq(S), s # <<>>
  PROVE  /\ Front(s) \in Seq(S)
         /\ Len(s) \in Nat \ {0}
         /\ Len(Front(s)) = Len(s) - 1
         /\ \A m \in 1..Len(s)-1 : Front(s)[m] = s[m]
         /\ Last(s) = s[Len(s)] /\ Last(s) \in S
<1> DEFINE n == Len(s) - 1
<1>1. Len(s) \in Nat \ {0} /\ n \in Nat /\ 1 \in Int /\ n \in Int  OBVIOUS
<1>2. \A m \in 1..n : s[m] \in S  BY <1>1
<1>3. Last(s) = s[Len(s)] /\ Last(s) \in S  BY <1>1 DEF Last
<1>4. Front(s) = SubSeq(s, 1, n)  BY DEF Front
<1> HIDE DEF n
<1>5. /\ SubSeq(s, 1, n) \in Seq(S)
      /\ Len(SubSeq(s, 1, n)) = IF 1 <= n THEN n - 1 + 1 ELSE 0
      /\ \A m \in 1..n-1+1 : SubSeq(s, 1, n)[m] = s[1 + m - 1]
  BY ONLY <1>1, <1>2, SubSeqProperties
<1>6. Len(SubSeq(s, 1, n)) = n /\ \A m \in 1..n : SubSeq(s, 1, n)[m] = s[m]
  <2>1. n - 1 + 1 = n /\ \A m \in 1..n : 1 + m - 1 = m  BY <1>1
  <2>2. 1 <= n \/ n = 0  BY <1>1
  <2> QED  BY <1>5, <2>1, <2>2
<1> QED  BY <1>1, <1>3, <1>4, <1>5, <1>6 DEF n

(* The last entry of the file is read first.                                *)
LEMMA FirstRead ==
  ASSUME temp \in Seq(EP!Entries), temp # <<>>,
         NEW Q \in EP!Known, NEW R \in EP!Known, EP!Chain(temp, Q, R)
  PROVE  /\ Peek \in EP!Entries /\ Front(temp) \in Seq(EP!Entries)
         /\ \E M \in EP!Known : EP!Step(Q, Peek, M) /\ EP!Chain(Front(temp), M, R)
<1> DEFINE N == Len(temp)
           f == Front(temp)
<1>1. N \in Nat /\ N # 0  OBVIOUS
<1>2. Peek = temp[N] /\ Peek \in EP!Entries  BY FrontFacts DEF Peek
<1>3. f \in Seq(EP!Entries) /\ Len(f) = N - 1 /\ \A m \in 1..N-1 : f[m] = temp[m]
  BY FrontFacts
<1>4. PICK q \in [0..N -> EP!Known] :
        /\ q[N] = Q /\ q[0] = R
        /\ \A m \in 1..N : EP!Step(q[m], temp[m], q[m - 1])
  BY DEF EP!Chain
<1> HIDE DEF f, N
<1> DEFINE M == q[N - 1]
           p == [m \in 0..N-1 |-> q[m]]
<1>5. M \in EP!Known /\ EP!Step(Q, Peek, M)
  <2>1. N \in 1..N /\ N - 1 \in 0..N  BY <1>1
  <2> QED  BY <1>2, <1>4, <2>1
<1>6. p \in [0..N-1 -> EP!Known] /\ p[N - 1] = M /\ p[0] = R
  BY <1>1, <1>4
<1>7. \A m \in 1..N-1 : EP!Step(p[m], f[m], p[m - 1])
  <2>1. \A m \in 1..N-1 : /\ m \in 1..N /\ p[m] = q[m] /\ p[m - 1] = q[m - 1]
                          /\ f[m] = temp[m]
    BY <1>1, <1>3
  <2> HIDE DEF p
  <2> QED  BY <1>4, <2>1
<1> HIDE DEF p, M
<1>8. EP!Chain(f, M, R)  BY <1>3, <1>6, <1>7 DEF EP!Chain
<1> QED  BY <1>2, <1>3, <1>5, <1>8 DEF f

(* The file has no entry: nothing is ahead.                                 *)
LEMMA NothingAhead ==
  ASSUME temp = <<>>, NEW Q, NEW R, EP!Chain(temp, Q, R)
  PROVE  Q = R
<1>1. Len(temp) = 0  OBVIOUS
<1> QED  BY <1>1 DEF EP!Chain

(* The operators of TrimProofs in terms of the state.                        *)
LEMMA Types ==
  ASSUME TP!IInv
  PROVE  /\ map \in [Ids -> 0..MaxK] /\ claim \in [Ids -> SUBSET Lits]
         /\ copies \in [1..MaxK -> Nat] /\ k \in Nat /\ MaxK \in Nat
         /\ \A i \in Ids : map[i] # 0 => map[i] \in 1..MaxK
BY Constants DEF TP!IInv, TP!TypeOK, TP!Outs, TP!Clauses

LEMMA IdsOfMember ==
  ASSUME NEW Q, NEW x \in Q
  PROVE  x[1] \in EP!IdsOf(Q)
BY DEF EP!IdsOf

LEMMA KnownMember ==
  ASSUME NEW Q \in EP!Known
  PROVE  /\ \A x \in Q : x[1] \in Ids /\ x[2] \in SUBSET Lits /\ x = <<x[1], x[2]>>
         /\ EP!IdsOf(Q) \subseteq Ids
BY DEF EP!Known, EP!IdsOf, EP!Clauses

(* A written line: clause i is c, or what subsumes it, from now on, and no    *)
(* copy of it was made.                                                     *)
LEMMA DeriveFits ==
  ASSUME TP!IInv, phase = "steps", NEW Q \in EP!Known, Fits(Q),
         NEW i \in Ids, NEW c \in SUBSET Lits, NEW U, TP!Derive(i, c, U),
         U \subseteq EP!IdsOf(Q), i \notin EP!IdsOf(Q),
         NEW R \in EP!Known, Q \subseteq R,
         \A x \in R \ Q : x[1] = i /\ c \subseteq x[2]
  PROVE  phase' \in {"steps", "done"} /\ Fits(R)'
<1>1. \A u \in U : map[u] # 0  BY DEF Fits, EP!IdsOf
<1>2. /\ k < MaxK
      /\ map' = [map EXCEPT ![i] = k + 1]
      /\ claim' = [claim EXCEPT ![i] = c]
      /\ copies' = copies
      /\ phase' \in {"steps", "done"}
  BY <1>1 DEF TP!Derive, TP!Named
<1>3. /\ map \in [Ids -> 0..MaxK] /\ claim \in [Ids -> SUBSET Lits]
      /\ copies \in [1..MaxK -> Nat] /\ k \in Nat
  BY Types
<1>4. k + 1 \in TP!Outs \ TP!Origs /\ \A x \in Ids : map[x] # k + 1
  BY <1>2, TP!NewOutput, Constants
<1>5. copies[k + 1] = 0
  <2>1. TP!Refs(k + 1) = {}  BY <1>4 DEF TP!Refs
  <2> QED  BY <1>4, <2>1 DEF TP!IInv, TP!RefCounts, TP!DerivedCounts
<1>6. map'[i] = k + 1 /\ claim'[i] = c
      /\ \A j \in Ids \ {i} : map'[j] = map[j] /\ claim'[j] = claim[j]
  BY <1>2, <1>3
<1>7. ASSUME NEW x \in R PROVE map'[x[1]] # 0 /\ claim'[x[1]] \subseteq x[2]
  <2>1. CASE x \in Q
    <3>1. x[1] \in Ids \ {i}  BY <2>1, IdsOfMember, KnownMember
    <3> QED  BY <1>6, <2>1, <3>1 DEF Fits
  <2>2. CASE x \notin Q
    <3>1. x[1] = i /\ c \subseteq x[2]  BY <2>2
    <3> QED  BY <1>3, <1>6, <3>1
  <2> QED  BY <2>1, <2>2
<1>8. ASSUME NEW j \in Ids, j \notin EP!IdsOf(R) PROVE TP!Replaceable(j)'
  <2>1. CASE j = i
    BY <1>2, <1>4, <1>5, <1>6, <2>1 DEF TP!Replaceable, TP!Origs
  <2>2. CASE j # i
    <3>1. j \notin EP!IdsOf(Q)  BY <1>8 DEF EP!IdsOf
    <3>2. TP!Replaceable(j)  BY <3>1 DEF Fits
    <3> QED  BY <1>2, <1>6, <2>2, <3>2 DEF TP!Replaceable, TP!Named, TP!Origs
  <2> QED  BY <2>1, <2>2
<1>9. phase' # "origs"  BY <1>2
<1> QED  BY <1>2, <1>7, <1>8, <1>9 DEF Fits

(* A copy of clause u: u is needed, so none of the clauses that are not gets  *)
(* a copy.                                                                 *)
LEMMA ShareFits ==
  ASSUME TP!IInv, phase = "steps", NEW Q \in EP!Known, Fits(Q),
         NEW i \in Ids, NEW c \in SUBSET Lits, NEW u, TP!Share(i, c, u),
         u \in EP!IdsOf(Q), i \notin EP!IdsOf(Q)
  PROVE  phase' = "steps" /\ Fits(Q \union {<<i, c>>})'
<1> DEFINE R == Q \union {<<i, c>>}
           g == map[u]
<1>1. u \in Ids /\ g # 0  BY KnownMember DEF Fits, EP!IdsOf
<1>2. /\ map' = [map EXCEPT ![i] = g]
      /\ claim' = [claim EXCEPT ![i] = c]
      /\ copies' = [copies EXCEPT ![g] = @ + 1]
      /\ phase' = "steps"
  BY <1>1 DEF TP!Share, TP!Named
<1>3. /\ map \in [Ids -> 0..MaxK] /\ claim \in [Ids -> SUBSET Lits]
      /\ copies \in [1..MaxK -> Nat] /\ g \in 1..MaxK
  BY <1>1, Types
<1> HIDE DEF g
<1>4. map'[i] = g /\ claim'[i] = c
      /\ \A j \in Ids \ {i} : map'[j] = map[j] /\ claim'[j] = claim[j]
  BY <1>2, <1>3
<1>5. <<i, c>>[1] = i /\ <<i, c>>[2] = c  OBVIOUS
<1>6. ASSUME NEW x \in R PROVE map'[x[1]] # 0 /\ claim'[x[1]] \subseteq x[2]
  <2>1. CASE x \in Q
    <3>1. x[1] \in Ids \ {i}  BY <2>1, IdsOfMember, KnownMember
    <3> QED  BY <1>4, <2>1, <3>1 DEF Fits
  <2>2. CASE x = <<i, c>>  BY <1>3, <1>4, <1>5, <2>2
  <2> QED  BY <2>1, <2>2
<1>7. ASSUME NEW j \in Ids, j \notin EP!IdsOf(R) PROVE TP!Replaceable(j)'
  <2>1. j # i /\ j \notin EP!IdsOf(Q)  BY <1>5, <1>7 DEF EP!IdsOf
  <2>2. TP!Replaceable(j) /\ map'[j] = map[j]  BY <1>4, <2>1 DEF Fits
  <2>3. CASE map[j] # 0
    <3>1. map[j] \in TP!Outs  BY <1>3, <2>3, Types DEF TP!Outs
    <3>2. TP!Refs(map[j]) = {j}
      BY <2>2, <3>1, TP!ReplaceableEntry, Constants
    <3>3. map[j] # g
      <4>1. map[j] = g => u \in TP!Refs(map[j])  BY <1>1 DEF TP!Refs, g
      <4> QED  BY <2>1, <3>2, <4>1
    <3>4. copies'[map[j]] = copies[map[j]]  BY <1>2, <1>3, <3>1, <3>3 DEF TP!Outs
    <3> QED  BY <2>2, <3>4 DEF TP!Replaceable, TP!Named, TP!Origs
  <2>4. CASE map[j] = 0  BY <2>2, <2>4 DEF TP!Replaceable, TP!Named
  <2> QED  BY <2>3, <2>4
<1>8. phase' # "origs"  BY <1>2
<1> QED  BY <1>2, <1>6, <1>7, <1>8 DEF Fits

(* A deletion: the copies of what is not needed do not become more.          *)
LEMMA DelFits ==
  ASSUME TP!IInv, phase = "steps", NEW Q \in EP!Known, Fits(Q),
         NEW i \in EP!IdsOf(Q), TP!Del(i)
  PROVE  phase' = "steps" /\ Fits({x \in Q : x[1] # i})'
<1> DEFINE R == {x \in Q : x[1] # i}
           g == map[i]
<1>1. i \in Ids /\ g # 0  BY KnownMember DEF Fits, EP!IdsOf
<1>2. /\ map' = [map EXCEPT ![i] = 0]
      /\ claim' = [claim EXCEPT ![i] = {}]
      /\ copies' = [copies EXCEPT ![g] = IF @ > 0 THEN @ - 1 ELSE 0]
      /\ phase' = "steps"
  BY <1>1 DEF TP!Del, TP!Named
<1>3. /\ map \in [Ids -> 0..MaxK] /\ claim \in [Ids -> SUBSET Lits]
      /\ copies \in [1..MaxK -> Nat] /\ g \in 1..MaxK
  BY <1>1, Types
<1> HIDE DEF g
<1>4. map'[i] = 0 /\ \A j \in Ids \ {i} : map'[j] = map[j] /\ claim'[j] = claim[j]
  BY <1>1, <1>2, <1>3
<1>5. \A h \in 1..MaxK : copies[h] = 0 => copies'[h] = 0
  <2>1. copies'[g] = IF copies[g] > 0 THEN copies[g] - 1 ELSE 0  BY <1>2, <1>3
  <2>2. copies[g] = 0 => copies'[g] = 0  BY <1>3, <2>1
  <2>3. \A h \in 1..MaxK : h # g => copies'[h] = copies[h]  BY <1>2, <1>3
  <2> QED  BY <2>2, <2>3
<1>6. ASSUME NEW x \in R PROVE map'[x[1]] # 0 /\ claim'[x[1]] \subseteq x[2]
  <2>1. x \in Q /\ x[1] \in Ids \ {i}  BY KnownMember
  <2> QED  BY <1>4, <2>1 DEF Fits
<1>7. ASSUME NEW j \in Ids, j \notin EP!IdsOf(R) PROVE TP!Replaceable(j)'
  <2>1. CASE j = i  BY <1>4, <2>1 DEF TP!Replaceable, TP!Named
  <2>2. CASE j # i
    <3>1. j \notin EP!IdsOf(Q)  BY <1>7, <2>2 DEF EP!IdsOf
    <3>2. TP!Replaceable(j) /\ map'[j] = map[j]  BY <1>4, <2>2, <3>1 DEF Fits
    <3>3. map[j] # 0 => map[j] \in 1..MaxK  BY Types
    <3> QED  BY <1>5, <3>2, <3>3 DEF TP!Replaceable, TP!Named, TP!Origs
  <2> QED  BY <2>1, <2>2
<1>8. phase' # "origs"  BY <1>2
<1> QED  BY <1>2, <1>6, <1>7, <1>8 DEF Fits

(* A relocation: what is needed moves with what it is renamed to, and what a   *)
(* name was that is given away is gone.                                     *)
LEMMA RelocFits ==
  ASSUME TP!IInv, phase = "steps", NEW Q \in EP!Known, Fits(Q),
         NEW src \in EP!Sources, TP!Reloc(src),
         \A x \in Q : x[1] \notin DOMAIN src \ Range(src)
  PROVE  /\ phase' = "steps"
         /\ Fits({x \in Q : x[1] \notin Range(src)}
                   \union {z \in (DOMAIN src) \X (SUBSET Lits) : <<src[z[1]], z[2]>> \in Q})'
<1> DEFINE D == DOMAIN src
           G == Range(src)
           there == {x \in Q : x[1] \notin G}
           moved == {z \in D \X (SUBSET Lits) : <<src[z[1]], z[2]>> \in Q}
           R == there \union moved
<1>1. /\ map' = TP!Moved(map, src, 0)
      /\ claim' = TP!Moved(claim, src, {})
      /\ copies' = copies /\ phase' = "steps"
  BY DEF TP!Reloc
<1>2. D \subseteq Ids /\ \A y \in D : src[y] \in Ids /\ src[y] \in G
  BY DEF EP!Sources, Range
<1>3. ASSUME NEW j \in Ids
      PROVE  /\ map'[j] = IF j \in D /\ map[src[j]] # 0 THEN map[src[j]]
                          ELSE IF j \in G THEN 0 ELSE map[j]
             /\ claim'[j] = IF j \in D /\ map[src[j]] # 0 THEN claim[src[j]]
                            ELSE IF j \in G THEN {} ELSE claim[j]
  BY <1>1 DEF TP!Moved, TP!Named, TP!Range, Range
<1> HIDE DEF D, G
<1>4. ASSUME NEW x \in R PROVE map'[x[1]] # 0 /\ claim'[x[1]] \subseteq x[2]
  <2>1. CASE x \in there
    <3>1. x \in Q /\ x[1] \in Ids /\ x[1] \notin G /\ x[1] \notin D
      BY <2>1, KnownMember DEF D, G
    <3>2. map'[x[1]] = map[x[1]] /\ claim'[x[1]] = claim[x[1]]  BY <1>3, <3>1
    <3> QED  BY <3>1, <3>2 DEF Fits
  <2>2. CASE x \in moved
    <3> DEFINE y == x[1]
               u == <<src[y], x[2]>>
    <3>1. y \in D /\ u \in Q  BY <2>2
    <3>2. u[1] = src[y] /\ u[2] = x[2]  OBVIOUS
    <3> HIDE DEF u
    <3>3. map[src[y]] # 0 /\ claim[src[y]] \subseteq x[2]  BY <3>1, <3>2 DEF Fits
    <3>4. map'[y] = map[src[y]] /\ claim'[y] = claim[src[y]]
      BY <1>2, <1>3, <3>1, <3>3
    <3> QED  BY <3>3, <3>4
  <2> QED  BY <2>1, <2>2
<1>5. ASSUME NEW j \in Ids, j \notin EP!IdsOf(R) PROVE TP!Replaceable(j)'
  <2>1. \A y \in EP!IdsOf(Q) : y \in G \/ y \in EP!IdsOf(R)  BY DEF EP!IdsOf
  <2>2. CASE j \in D /\ map[src[j]] # 0
    <3>1. src[j] \notin EP!IdsOf(Q)
      <4>1. SUFFICES ASSUME NEW x \in Q, x[1] = src[j] PROVE FALSE
        BY DEF EP!IdsOf
      <4>2. x = <<src[j], x[2]>> /\ x[2] \in SUBSET Lits  BY <4>1, KnownMember
      <4> DEFINE z == <<j, x[2]>>
      <4>3. z[1] = j /\ z[2] = x[2] /\ z \in D \X (SUBSET Lits)  BY <2>2, <4>2
      <4> HIDE DEF z
      <4>4. z \in moved  BY <4>2, <4>3
      <4> QED  BY <1>5, <4>3, <4>4 DEF EP!IdsOf
    <3>2. TP!Replaceable(src[j])  BY <1>2, <2>2, <3>1 DEF Fits
    <3>3. map'[j] = map[src[j]]  BY <1>3, <2>2
    <3> QED  BY <1>1, <2>2, <3>2, <3>3 DEF TP!Replaceable, TP!Named, TP!Origs
  <2>3. CASE ~(j \in D /\ map[src[j]] # 0) /\ j \in G
    <3>1. map'[j] = 0  BY <1>3, <2>3
    <3> QED  BY <3>1 DEF TP!Replaceable, TP!Named
  <2>4. CASE ~(j \in D /\ map[src[j]] # 0) /\ j \notin G
    <3>1. map'[j] = map[j] /\ j \notin EP!IdsOf(Q)  BY <1>3, <1>5, <2>1, <2>4
    <3>2. TP!Replaceable(j)  BY <3>1 DEF Fits
    <3> QED  BY <1>1, <3>1, <3>2 DEF TP!Replaceable, TP!Named, TP!Origs
  <2> QED  BY <2>2, <2>3, <2>4
<1>6. phase' # "origs"  BY <1>1
<1> HIDE DEF there, moved
<1>7. Fits(R)'  BY <1>4, <1>5, <1>6 DEF Fits
<1> QED  BY <1>1, <1>7 DEF R, there, moved, D, G

-----------------------------------------------------------------------------
(* The steps of trim().                                                    *)

(* A step of trim() that it is allowed keeps what is proved of it.           *)
LEMMA TrimKept ==
  ASSUME TP!IInv, TP!CInv, TP!Next \/ UNCHANGED trimVars
  PROVE  (TP!IInv /\ TP!CInv)'
<1>1. TP!Next \/ UNCHANGED TP!vars  BY DEF trimVars, TP!vars
<1> QED  BY <1>1, TP!NextInv, TP!NextClaims, Constants

LEMMA Popped ==
  ASSUME FileGood, temp # <<>>, Pop, phase' = phase
  PROVE  temp' \in Seq(EP!Entries) /\ OrigsLast'
<1>1. /\ temp' \in Seq(EP!Entries) /\ Len(temp) \in Nat \ {0}
      /\ Len(temp') = Len(temp) - 1
      /\ \A m \in 1..Len(temp)-1 : temp'[m] = temp[m]
  BY FrontFacts DEF FileGood, Pop
<1>2. \A m \in 1..Len(temp') : /\ m \in 1..Len(temp) /\ temp'[m] = temp[m]
                               /\ \A n \in m..Len(temp') : /\ n \in 1..Len(temp')
                                                           /\ n \in m..Len(temp)
  BY <1>1
<1>3. OrigsLast'  BY <1>2 DEF FileGood, OrigsLast
<1> QED  BY <1>1, <1>3

(* The entries after the header.                                           *)
LEMMA EntryFits ==
  ASSUME TP!IInv, TP!CInv, phase = "steps",
         NEW Q \in EP!Known, Fits(Q), NEW R \in EP!Known,
         NEW e \in EP!Entries, ~IsOrig(e), EP!Step(Q, e, R), Process(e)
  PROVE  TP!Next /\ phase' \in {"steps", "done"} /\ Fits(R)'
<1>1. EP!Cites(e) \subseteq EP!IdsOf(Q) /\ EP!IdsOf(Q) \subseteq Ids
  BY KnownMember DEF EP!Step
<1>2. \A i \in EP!IdsOf(Q) : i \in Ids /\ map[i] # 0  BY <1>1 DEF Fits, EP!IdsOf
<1>3. CASE e.op = "add"
  <2>1. e.id \in Ids /\ e.lits \in SUBSET Lits /\ e.oneHint \in BOOLEAN
    BY <1>3, EP!EntryKinds, Constants DEF EP!Clauses
  <2>2. TP!Add(e.id, e.lits, e.hints, e.oneHint)
    BY <1>3, SameTrim DEF Process, IsOrig
  <2>3. /\ e.hints \subseteq EP!IdsOf(Q) /\ e.id \notin EP!IdsOf(Q)
        /\ R = Q \union {<<e.id, e.lits>>}
        /\ e.oneHint => \E x \in Q : e.hints = {x[1]} /\ x[2] \subseteq e.lits
    BY <1>1, <1>3 DEF EP!Step, EP!Cites
  <2>4. TP!Replaceable(e.id) /\ e.lits \in TP!Clauses
    BY <2>1, <2>3 DEF Fits, TP!Clauses
  <2>5. CASE e.oneHint
    <3>1. PICK x \in Q : e.hints = {x[1]} /\ x[2] \subseteq e.lits  BY <2>3, <2>5
    <3>2. x[1] \in EP!IdsOf(Q) /\ x[1] \in Ids  BY <1>1, IdsOfMember
    <3>3. TP!Add(e.id, e.lits, {x[1]}, TRUE)
      <4>1. e.oneHint = TRUE  BY <2>1, <2>5
      <4> QED  BY <2>2, <3>1, <4>1
    <3>4. TP!Share(e.id, e.lits, x[1])  BY <3>3 DEF TP!Add
    <3>5. claim[x[1]] \subseteq e.lits  BY <3>1 DEF Fits
    <3>6. TP!DefineCopy
      BY <2>1, <2>3, <2>4, <3>2, <3>3, <3>5 DEF TP!DefineCopy
    <3>7. phase' = "steps" /\ Fits(Q \union {<<e.id, e.lits>>})'
      BY <2>1, <2>3, <3>2, <3>4, ShareFits
    <3> QED  BY <2>3, <3>6, <3>7 DEF TP!Next
  <2>6. CASE ~e.oneHint
    <3>1. TP!Add(e.id, e.lits, e.hints, FALSE)
      <4>1. e.oneHint = FALSE  BY <2>1, <2>6
      <4> QED  BY <2>2, <4>1
    <3>2. TP!Derive(e.id, e.lits, e.hints)  BY <3>1 DEF TP!Add
    <3>3. e.hints \in SUBSET (Ids \ {e.id})  BY <1>1, <2>3
    <3>4. TP!Define  BY <2>1, <2>4, <3>1, <3>3 DEF TP!Define
    <3>5. \A x \in R \ Q : x[1] = e.id /\ e.lits \subseteq x[2]
      BY <2>3
    <3>6. phase' \in {"steps", "done"} /\ Fits(R)'
      BY <2>1, <2>3, <3>2, <3>5, DeriveFits
    <3> QED  BY <3>4, <3>6 DEF TP!Next
  <2> QED  BY <2>5, <2>6
<1>4. CASE e.op = "imply"
  <2>1. e.id \in Ids /\ e.lits \in SUBSET Lits
    BY <1>4, EP!EntryKinds, Constants DEF EP!Clauses
  <2>2. TP!Imply(e.id, e.lits, e.hints)
    BY <1>4, SameTrim DEF Process, IsOrig
  <2>3. /\ e.hints \subseteq EP!IdsOf(Q) /\ e.id \notin EP!IdsOf(Q) /\ Q \subseteq R
        /\ \A x \in R \ Q : x[1] = e.id /\ e.lits \subseteq x[2]
    BY <1>1, <1>4 DEF EP!Step, EP!Cites
  <2>4. TP!Replaceable(e.id) /\ e.lits \in TP!Clauses
    BY <2>1, <2>3 DEF Fits, TP!Clauses
  <2>5. TP!Derive(e.id, e.lits, e.hints)  BY <2>2 DEF TP!Imply
  <2>6. e.hints \in SUBSET (Ids \ {e.id})  BY <1>1, <2>3
  <2>7. TP!Define  BY <2>1, <2>2, <2>4, <2>6 DEF TP!Define
  <2>8. phase' \in {"steps", "done"} /\ Fits(R)'
    BY <2>1, <2>3, <2>5, DeriveFits
  <2> QED  BY <2>7, <2>8 DEF TP!Next
<1>5. CASE e.op = "theory"
  <2>1. TP!Theory(e.hints)  BY <1>5, SameTrim DEF Process, IsOrig
  <2>2. e.hints \subseteq EP!IdsOf(Q) /\ R = Q
    BY <1>1, <1>5 DEF EP!Step, EP!Cites
  <2>3. phase' = "steps" /\ UNCHANGED <<map, claim, copies>>
    BY <1>2, <2>1, <2>2 DEF TP!Theory, TP!Named
  <2>4. Fits(R)'
    BY <2>2, <2>3 DEF Fits, TP!Replaceable, TP!Named, TP!Origs
  <2>5. e.hints \in SUBSET Ids  BY <1>1, <2>2
  <2> QED  BY <2>1, <2>3, <2>4, <2>5 DEF TP!Next
<1>6. CASE e.op = "reloc"
  <2>1. e.src \in EP!Sources  BY <1>6, EP!EntryKinds, Constants
  <2>2. TP!Reloc(e.src)  BY <1>6, SameTrim DEF Process, IsOrig
  <2>3. /\ TP!IsInjective(e.src) /\ DOMAIN e.src # {}
        /\ \A x \in Q : x[1] \notin DOMAIN e.src \ Range(e.src)
        /\ R = {x \in Q : x[1] \notin Range(e.src)}
                 \union {z \in (DOMAIN e.src) \X (SUBSET Lits) : <<e.src[z[1]], z[2]>> \in Q}
    BY <1>6 DEF EP!Step, EP!IsInjective, TP!IsInjective, EP!Range, Range, EP!Clauses
  <2>4. phase' = "steps" /\ Fits(R)'  BY <2>1, <2>2, <2>3, RelocFits
  <2>5. \A x \in Ids : x \in DOMAIN e.src \ Range(e.src) => TP!Replaceable(x)
    BY <2>3 DEF Fits, EP!IdsOf
  <2>6. e.src \in TP!Relocations
    <3>1. PICK D \in SUBSET Ids : e.src \in [D -> Ids]  BY <2>1 DEF EP!Sources
    <3>2. D \in (SUBSET Ids) \ {{}} /\ DOMAIN e.src = D  BY <2>3, <3>1
    <3>3. e.src \in UNION {[C -> Ids] : C \in (SUBSET Ids) \ {{}}}  BY <3>1, <3>2
    <3>4. TP!Range(e.src) = Range(e.src)  BY DEF TP!Range, Range
    <3> QED  BY <2>3, <2>5, <3>1, <3>2, <3>3, <3>4 DEF TP!Relocations
  <2> QED  BY <2>2, <2>4, <2>6 DEF TP!Next
<1>7. CASE e.op = "del"
  <2>1. TP!Del(e.id)  BY <1>7, SameTrim DEF Process, IsOrig
  <2>2. e.id \in EP!IdsOf(Q) /\ R = {x \in Q : x[1] # e.id}
    BY <1>1, <1>7 DEF EP!Step, EP!Cites
  <2>3. phase' = "steps" /\ Fits(R)'  BY <2>1, <2>2, DelFits
  <2> QED  BY <1>1, <2>1, <2>2, <2>3 DEF TP!Next
<1>8. e.op \in {"add", "imply", "theory", "reloc", "del"}
  BY EP!EntryKinds, Constants DEF IsOrig
<1> QED  BY <1>3, <1>4, <1>5, <1>6, <1>7, <1>8

(* The header: an orig step finds its clause in the formula.                 *)
LEMMA HeaderFits ==
  ASSUME TP!IInv, TP!CInv, phase = "origs",
         NEW Q \in EP!Known, Fits(Q), NEW R \in EP!Known,
         NEW e \in EP!Entries, e.op = "orig", e.lits \in Range(Cnf),
         EP!Step(Q, e, R), TP!Orig(e.id, e.lits)
  PROVE  TP!Next /\ phase' \in {"origs", "done"} /\ Fits(R)'
<1> DEFINE i == e.id
           c == e.lits
<1>1. i \in Ids /\ c \in SUBSET Lits  BY EP!EntryKinds, Constants DEF EP!Clauses
<1>2. i \notin EP!IdsOf(Q) /\ R = Q \union {<<i, c>>}  BY DEF EP!Step
<1>3. map[i] = 0  BY <1>1, <1>2 DEF Fits
<1>4. TP!Matches(c) # {}
  <2>1. \E j \in 1..Len(Cnf) : Cnf[j] = c
    <3>1. DOMAIN Cnf = 1..Len(Cnf)  BY Constants
    <3> QED  BY <3>1 DEF Range
  <2> QED  BY <2>1 DEF TP!Matches, TP!Origs
<1> HIDE DEF i, c
<1>5. TP!Orig(i, c)  BY DEF i, c
<1>6. TP!OrigFound(i, c)  BY <1>3, <1>4, <1>5 DEF TP!Orig, TP!Named
<1>7. PICK j \in TP!Position(c) :
        /\ map' = [map EXCEPT ![i] = j]
        /\ claim' = [claim EXCEPT ![i] = c]
        /\ phase' \in {"origs", "done"}
  BY <1>6 DEF TP!OrigFound
<1>8. j # 0
  BY Constants DEF TP!Position, TP!Matches, TP!Origs
<1>9. map \in [Ids -> 0..MaxK] /\ claim \in [Ids -> SUBSET Lits]  BY Types
<1>10. map'[i] = j /\ claim'[i] = c
       /\ \A x \in Ids \ {i} : map'[x] = map[x] /\ claim'[x] = claim[x]
  BY <1>1, <1>7, <1>9
<1>11. <<i, c>>[1] = i /\ <<i, c>>[2] = c  OBVIOUS
<1>12. R = Q \union {<<i, c>>} /\ i \notin EP!IdsOf(Q)  BY <1>2 DEF i, c
<1>13. ASSUME NEW x \in R PROVE map'[x[1]] # 0 /\ claim'[x[1]] \subseteq x[2]
  <2>1. CASE x \in Q
    <3>1. x[1] \in Ids \ {i}  BY <1>12, <2>1, IdsOfMember, KnownMember
    <3> QED  BY <1>10, <2>1, <3>1 DEF Fits
  <2>2. CASE x = <<i, c>>  BY <1>8, <1>10, <1>11, <2>2
  <2> QED  BY <1>12, <2>1, <2>2
<1>14. ASSUME NEW x \in Ids, x \notin EP!IdsOf(R) PROVE map'[x] = 0
  <2>1. x # i /\ x \notin EP!IdsOf(Q)  BY <1>11, <1>12, <1>14 DEF EP!IdsOf
  <2> QED  BY <1>10, <2>1 DEF Fits
<1>15. Fits(R)'  BY <1>13, <1>14 DEF Fits, TP!Replaceable, TP!Named
<1>16. TP!Next  BY <1>1, <1>5 DEF TP!Next, TP!Clauses
<1> QED  BY <1>7, <1>15, <1>16

(* elab() does nothing once it is done, and ends at the start of the file.   *)
LEMMA ElabSteps ==
  ASSUME EP!Next
  PROVE  /\ pc = "elab"
         /\ pc' \in {"elab", "done", "panic"}
         /\ pc' = "done" => EP!StartOfFile
BY DEF EP!Next, EP!Orig, EP!AddStep, EP!Add, EP!Stuck, EP!Reloc, EP!Del, EP!Final,
       EP!TheoryOrig, EP!Theory, EP!ImplyClause, EP!TheoryFinal, EP!NoProof,
       EP!StartOfFile, EP!Reading, EP!Panic

(* The whole file: delayed steps after all others, which are read first, from  *)
(* nothing to an empty clause.                                             *)
LEMMA FileWritten ==
  ASSUME EP!IInv, EP!IInv', TP!Init, Quotes, EP!StartOfFile, pc' = "done",
         names' = {}, UNCHANGED trimVars
  PROVE  FileGood'
<1> DEFINE g == [n \in 1..theoryOrigs |-> EP!TheoryOrigE]
           A == Len(temp)
           B == Len(origs)
<1>1. temp' = temp \o origs \o g /\ origs' = <<>> /\ finalizedEmpty'
  BY DEF EP!StartOfFile
<1>2. temp \in Seq(EP!Steps) /\ origs \in Seq(EP!OrigEntries) /\ theoryOrigs \in Nat
  BY StepsBound DEF EP!IInv, EP!Apart, EP!TypeOK, EP!StartOfFile
<1>3. temp' \in Seq(EP!Entries) /\ EP!CertOf(full', finalizedEmpty', temp', EP!Start')
  BY DEF EP!IInv
<1>4. PICK R \in EP!Known : /\ EP!Chain(temp', EP!Start', R)
                            /\ \E x \in R : x[2] = {}
  BY <1>1, <1>3 DEF EP!CertOf
<1>5. EP!Start' = {}
  <2>1. EP!Wanted' = {}  BY DEF EP!Wanted, EP!WantedIn
  <2>2. EP!Delayed' = {}  BY <1>1 DEF EP!Delayed
  <2> QED  BY <2>1, <2>2 DEF EP!Start
<1>6. phase' = "origs" /\ map' = [i \in Ids |-> 0]  BY DEF TP!Init, trimVars
<1>7. {} \in EP!Known  BY DEF EP!Known
<1>8. Fits({})'  BY <1>6 DEF Fits, TP!Replaceable, TP!Named
<1>9. OrigsLast'
  <2>1. A \in Nat /\ B \in Nat /\ Len(g) = theoryOrigs
    BY <1>2
  <2>2. /\ Len(temp') = A + B + theoryOrigs
        /\ \A m \in 1..A : temp'[m] = temp[m]
        /\ \A m \in A+1..A+B : temp'[m] = origs[m - A] /\ m - A \in 1..B
        /\ \A m \in A+B+1..A+B+theoryOrigs : temp'[m] = EP!TheoryOrigE
    BY <1>1, <1>2
  <2>3. \A m \in 1..A : ~IsOrig(temp'[m])
    <3>1. \A s \in EP!Steps : s \in EP!Entries /\ ~IsOrig(s)
      <4>1. \A s \in EP!Steps : s \in EP!Entries  BY DEF EP!Entries
      <4> QED  BY <4>1, EP!EntryKinds, Constants DEF IsOrig
    <3> QED  BY <1>2, <2>2, <3>1
  <2>4. \A n \in 1..B : origs[n].op = "orig" /\ origs[n].lits \in Range(Cnf)
    BY <1>2 DEF Quotes, EP!OrigEntries, EP!OrigE
  <2> HIDE DEF A, B, g
  <2>5. \A m \in A+1..A+B+theoryOrigs :
          IsOrig(temp'[m]) /\ (temp'[m].op = "orig" => temp'[m].lits \in Range(Cnf))
    <3> TAKE m \in A+1..A+B+theoryOrigs
    <3>1. CASE m \in A+1..A+B  BY <2>2, <2>4, <3>1 DEF IsOrig
    <3>2. CASE m \in A+B+1..A+B+theoryOrigs
      BY <2>2, <3>2 DEF IsOrig, EP!TheoryOrigE
    <3> QED  BY <1>2, <2>1, <3>1, <3>2
  <2> SUFFICES ASSUME NEW m \in 1..Len(temp'), IsOrig(temp'[m])
               PROVE  /\ temp'[m].op = "orig" => temp'[m].lits \in Range(Cnf)
                      /\ \A n \in m..Len(temp') : IsOrig(temp'[n])
    BY <1>6 DEF OrigsLast
  <2>6. m \in A+1..A+B+theoryOrigs  BY <1>2, <2>1, <2>2, <2>3
  <2>7. \A n \in m..Len(temp') : n \in A+1..A+B+theoryOrigs  BY <1>2, <2>1, <2>2, <2>6
  <2> QED  BY <2>5, <2>6, <2>7
<1>10. \E Q, S \in EP!Known : Fits(Q)' /\ EP!Chain(temp', Q, S) /\ \E x \in S : x[2] = {}
  BY <1>4, <1>5, <1>7, <1>8
<1> QED  BY <1>3, <1>9, <1>10 DEF FileGood, Ahead

LEMMA ElaborateInv ==
  ASSUME PInv, Elaborate
  PROVE  PInv' /\ UNCHANGED trimVars
<1>1. EP!Next /\ pc' # "panic" /\ Quotes' /\ UNCHANGED trimVars
      /\ (pc' = "done" => names = {})
  BY SameElab DEF Elaborate
<1>2. pc = "elab" /\ pc' \in {"elab", "done"} /\ (pc' = "done" => EP!StartOfFile)
  BY <1>1, ElabSteps, Constants
<1>3. EP!IInv /\ Quotes /\ TP!Init /\ TP!IInv /\ TP!CInv /\ phase # "panic"
  BY <1>2 DEF PInv
<1>4. EP!IInv'  BY <1>1, <1>3, EP!NextInv, Constants
<1>5. TP!IInv' /\ TP!CInv'  BY <1>1, <1>3, TrimKept
<1>6. TP!Init'  BY <1>1, <1>3 DEF TP!Init, TP!Origs, TP!Outs, trimVars
<1>7. ASSUME pc' = "done" PROVE FileGood'
  <2>1. EP!StartOfFile /\ names = {}  BY <1>1, <1>2, <1>7
  <2>2. names' = {}  BY <2>1 DEF EP!StartOfFile, EP!context
  <2> QED  BY <1>1, <1>3, <1>4, <1>7, <2>1, <2>2, FileWritten
<1>8. phase' # "panic"  BY <1>1, <1>3 DEF trimVars
<1> QED  BY <1>1, <1>2, <1>4, <1>5, <1>6, <1>7, <1>8 DEF PInv

(* What trim() begins a step with.                                         *)
LEMMA Begins ==
  ASSUME PInv, pc = "done", phase \in {"origs", "steps"}
  PROVE  /\ TP!IInv /\ TP!CInv /\ FileGood /\ temp \in Seq(EP!Entries) /\ OrigsLast
         /\ \E Q, R \in EP!Known : Fits(Q) /\ Ahead(Q, R)
         /\ Len(temp) \in Nat
BY DEF PInv, FileGood

(* What a step of trim() has to establish.                                  *)
LEMMA Assemble ==
  ASSUME PInv, UNCHANGED elabVars, pc = "done",
         TP!Next \/ UNCHANGED trimVars, phase' # "panic",
         phase' \in {"origs", "steps"} => FileGood'
  PROVE  PInv' /\ (T!Next \/ UNCHANGED trimVars)
<1>1. pc' = "done"  BY DEF elabVars
<1>2. (TP!IInv /\ TP!CInv)'  BY TrimKept DEF PInv
<1> QED  BY <1>1, <1>2, SameEnvironment DEF PInv

LEMMA EndHeaderInv ==
  ASSUME PInv, pc = "done", EndHeader, UNCHANGED elabVars
  PROVE  PInv' /\ (T!Next \/ UNCHANGED trimVars)
<1>1. /\ phase = "origs" /\ ~(temp # <<>> /\ IsOrig(Peek)) /\ temp' = temp
      /\ TP!EndOrigs
  BY SameTrim DEF EndHeader
<1>2. /\ temp \in Seq(EP!Entries) /\ OrigsLast /\ Len(temp) \in Nat
      /\ \E Q, R \in EP!Known : Fits(Q) /\ Ahead(Q, R)
  BY <1>1, Begins
<1>3. \A m \in 1..Len(temp) : ~IsOrig(temp[m])
  <2> SUFFICES ASSUME NEW m \in 1..Len(temp), IsOrig(temp[m]) PROVE FALSE
    OBVIOUS
  <2>1. temp # <<>> /\ Len(temp) \in m..Len(temp)  BY <1>2
  <2>2. IsOrig(temp[Len(temp)])  BY <1>2, <2>1 DEF OrigsLast
  <2> QED  BY <1>1, <2>1, <2>2 DEF Peek, Last
<1>4. OrigsLast'  BY <1>1, <1>3 DEF OrigsLast
<1>5. phase' = "steps" /\ UNCHANGED <<map, claim, copies>>  BY <1>1 DEF TP!EndOrigs
<1>6. \A Q, R : Fits(Q) /\ Ahead(Q, R) => Fits(Q)' /\ Ahead(Q, R)'
  BY <1>1, <1>5 DEF Fits, Ahead, EP!Chain, TP!Replaceable, TP!Named, TP!Origs
<1>7. FileGood'  BY <1>1, <1>2, <1>4, <1>6 DEF FileGood
<1>8. TP!Next  BY <1>1 DEF TP!Next
<1> QED  BY <1>5, <1>7, <1>8, Assemble

LEMMA HeaderEntryInv ==
  ASSUME PInv, pc = "done", HeaderEntry, UNCHANGED elabVars
  PROVE  PInv' /\ (T!Next \/ UNCHANGED trimVars)
<1>1. /\ phase = "origs" /\ temp # <<>> /\ IsOrig(Peek) /\ Pop
      /\ IF Peek.op = "orig" THEN TP!Orig(Peek.id, Peek.lits) ELSE UNCHANGED trimVars
  BY SameTrim DEF HeaderEntry
<1>2. /\ TP!IInv /\ TP!CInv /\ FileGood /\ temp \in Seq(EP!Entries) /\ OrigsLast
      /\ Len(temp) \in Nat
  BY <1>1, Begins
<1>3. PICK Q, R \in EP!Known : Fits(Q) /\ Ahead(Q, R)  BY <1>1, Begins
<1>4. Peek \in EP!Entries /\ temp' \in Seq(EP!Entries)
  BY <1>1, <1>2, FrontFacts DEF Peek, Pop
<1>5. PICK M \in EP!Known : EP!Step(Q, Peek, M) /\ EP!Chain(temp', M, R)
  BY <1>1, <1>2, <1>3, FirstRead DEF Ahead, Pop
<1>6. Ahead(M, R)'  BY <1>3, <1>5 DEF Ahead, EP!Chain
<1>7. CASE Peek.op = "orig"
  <2>1. Peek.lits \in Range(Cnf)
    <3>1. Peek = temp[Len(temp)] /\ Len(temp) \in 1..Len(temp)
      BY <1>1, <1>2 DEF Peek, Last
    <3> QED  BY <1>1, <1>2, <1>7, <3>1 DEF OrigsLast
  <2>2. TP!Next /\ phase' \in {"origs", "done"} /\ Fits(M)'
    BY <1>1, <1>2, <1>3, <1>4, <1>5, <1>7, <2>1, HeaderFits
  <2>3. phase' = "origs" => FileGood'
    <3>1. phase' = "origs" => OrigsLast'  BY <1>1, <1>2, Popped
    <3> QED  BY <1>4, <1>6, <2>2, <3>1 DEF FileGood
  <2> QED  BY <2>2, <2>3, Assemble
<1>8. CASE Peek.op # "orig"
  <2>1. UNCHANGED trimVars  BY <1>1, <1>8
  <2>2. phase' = phase /\ UNCHANGED <<map, claim, copies>>  BY <2>1 DEF trimVars
  <2>3. Peek.op = "theoryOrig"  BY <1>1, <1>8 DEF IsOrig
  <2>4. M = Q  BY <1>5, <2>3 DEF EP!Step
  <2>5. Fits(M)'
    BY <1>3, <2>2, <2>4 DEF Fits, TP!Replaceable, TP!Named, TP!Origs
  <2>6. FileGood'
    <3>1. OrigsLast'  BY <1>1, <1>2, <2>2, Popped
    <3> QED  BY <1>4, <1>6, <2>5, <3>1 DEF FileGood
  <2>7. phase' # "panic"  BY <1>1, <2>2
  <2> QED  BY <2>1, <2>6, <2>7, Assemble
<1> QED  BY <1>7, <1>8

LEMMA EntryInv ==
  ASSUME PInv, pc = "done", Entry, UNCHANGED elabVars
  PROVE  PInv' /\ (T!Next \/ UNCHANGED trimVars)
<1>1. phase = "steps" /\ temp # <<>> /\ Pop /\ Process(Peek)
  BY DEF Entry
<1>2. /\ TP!IInv /\ TP!CInv /\ FileGood /\ temp \in Seq(EP!Entries) /\ OrigsLast
      /\ Len(temp) \in Nat
  BY <1>1, Begins
<1>3. PICK Q, R \in EP!Known : Fits(Q) /\ Ahead(Q, R)  BY <1>1, Begins
<1>4. Peek \in EP!Entries /\ temp' \in Seq(EP!Entries)
  BY <1>1, <1>2, FrontFacts DEF Peek, Pop
<1>5. PICK M \in EP!Known : EP!Step(Q, Peek, M) /\ EP!Chain(temp', M, R)
  BY <1>1, <1>2, <1>3, FirstRead DEF Ahead, Pop
<1>6. Ahead(M, R)'  BY <1>3, <1>5 DEF Ahead, EP!Chain
<1>7. ~IsOrig(Peek)
  <2>1. Peek = temp[Len(temp)] /\ Len(temp) \in 1..Len(temp)
    BY <1>1, <1>2 DEF Peek, Last
  <2> QED  BY <1>1, <1>2, <2>1 DEF OrigsLast
<1>8. TP!Next /\ phase' \in {"steps", "done"} /\ Fits(M)'
  BY <1>1, <1>2, <1>3, <1>4, <1>5, <1>7, EntryFits
<1>9. phase' = "steps" => FileGood'
  <2>1. phase' = "steps" => OrigsLast'  BY <1>1, <1>2, Popped
  <2> QED  BY <1>4, <1>6, <1>8, <2>1 DEF FileGood
<1> QED  BY <1>8, <1>9, Assemble

(* trim() is done before the file ends: somewhere in it is an empty clause,   *)
(* and trim() stops when it gives one a name.                               *)
LEMMA NoMoreNever ==
  ASSUME PInv, pc = "done", NoMore
  PROVE  FALSE
<1>1. phase = "steps" /\ temp = <<>>  BY DEF NoMore
<1>2. PICK Q, R \in EP!Known : Fits(Q) /\ Ahead(Q, R)  BY <1>1, Begins
<1>3. Q = R  BY <1>1, <1>2, NothingAhead DEF Ahead
<1>4. PICK x \in Q : x[2] = {}  BY <1>2, <1>3 DEF Ahead
<1>5. x[1] \in Ids /\ map[x[1]] # 0 /\ claim[x[1]] \subseteq {}
  BY <1>2, <1>4, KnownMember DEF Fits
<1>6. \A i \in Ids : map[i] # 0 => claim[i] # {}
  BY <1>1 DEF PInv, TP!CInv, TP!StopsAtEmpty, TP!Named
<1> QED  BY <1>5, <1>6

LEMMA InitPInv ==
  ASSUME Init
  PROVE  PInv
<1>1. EP!Init /\ TP!Init  BY SameElab, SameTrim DEF Init
<1>2. EP!IInv  BY <1>1, EP!InitInv, Constants
<1>3. TP!IInv /\ TP!CInv  BY <1>1, TP!InitInv, TP!InitClaims, Constants
<1>4. pc = "elab" /\ phase = "origs" /\ origs = <<>>  BY <1>1 DEF EP!Init, TP!Init
<1>5. Quotes  BY <1>4 DEF Quotes
<1> QED  BY <1>1, <1>2, <1>3, <1>4, <1>5 DEF PInv

LEMMA NextPInv ==
  ASSUME PInv, [Next]_vars
  PROVE  PInv' /\ [T!Next]_trimVars
<1>1. CASE Elaborate  BY <1>1, ElaborateInv
<1>2. CASE Trim
  <2>1. pc = "done" /\ UNCHANGED elabVars
        /\ (EndHeader \/ HeaderEntry \/ Entry \/ NoMore)
    BY <1>2 DEF Trim
  <2> QED  BY <2>1, EndHeaderInv, HeaderEntryInv, EntryInv, NoMoreNever
<1>3. CASE UNCHANGED vars
  <2>1. UNCHANGED <<elabVars, temp, trimVars>>  BY <1>3 DEF vars
  <2>2. /\ UNCHANGED <<pc, full, names, lits, marked, nonFinal, finalizedEmpty, origs,
                       theoryOrigs, temp, steps>>
        /\ UNCHANGED trimVars
    BY <2>1 DEF elabVars
  <2>3. TP!IInv' /\ TP!CInv'  BY <2>2, TrimKept DEF PInv
  <2>4. EP!IInv => EP!IInv'
    <3>1. UNCHANGED EP!vars  BY <2>2 DEF EP!vars
    <3> QED  BY <3>1, EP!NextInv, Constants
  <2>5. /\ (Quotes => Quotes') /\ (TP!Init => TP!Init') /\ (FileGood => FileGood')
        /\ pc' = pc /\ phase' = phase
    <3>1. UNCHANGED <<phase, k, map, copies, usedOrigs, db, content, claim, accepted>>
      BY <2>2 DEF trimVars
    <3>2. Quotes => Quotes'  BY <2>2 DEF Quotes
    <3>3. TP!Init => TP!Init'  BY <3>1 DEF TP!Init, TP!Origs, TP!Outs
    <3>4. FileGood => FileGood'
      BY <2>2, <3>1
      DEF FileGood, OrigsLast, Fits, Ahead, EP!Chain, TP!Replaceable, TP!Named, TP!Origs
    <3> QED  BY <2>2, <3>1, <3>2, <3>3, <3>4
  <2> QED  BY <2>2, <2>3, <2>4, <2>5 DEF PInv
<1> QED  BY <1>1, <1>2, <1>3 DEF Next

-----------------------------------------------------------------------------
(* The results.                                                            *)

(* What trim() has renamed fits what is left of the file, at every step.     *)
THEOREM Invariance == Spec => []PInv
<1> QED  BY InitPInv, NextPInv, PTL DEF Spec

(* trim() never panics on a file that elab() wrote without one, for a proof    *)
(* that was elaborated from end to end.                                    *)
THEOREM NeverPanics == Spec => []NoPanic
<1>1. PInv => NoPanic  BY DEF PInv, NoPanic
<1> QED  BY <1>1, Invariance, PTL

(* The checker has met no line that names what it does not hold, and what it  *)
(* holds under an ID subsumes what trim() knows by that ID.                  *)
THEOREM CheckerAlwaysAgrees == Spec => []CheckerAgrees
<1>1. PInv => CheckerAgrees
  BY SameEnvironment, Constants DEF PInv, TP!IInv, TP!CInv
<1> QED  BY <1>1, Invariance, PTL

(* The refinement: of the two passes, the second is a behaviour of Trim.tla,  *)
(* whose environment is as restrained as elab() is.                         *)
THEOREM ContractKept == Spec => TrimContract
<1>1. Init => T!Init  BY DEF Init
<1>2. PInv /\ [Next]_vars => [T!Next]_trimVars  BY NextPInv
<1> QED  BY <1>1, <1>2, Invariance, PTL DEF Spec, TrimContract
=============================================================================
