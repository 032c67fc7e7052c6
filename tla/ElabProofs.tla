----------------------------- MODULE ElabProofs -----------------------------
(***************************************************************************)
(* Proofs about Elab, for every instance: what elab() writes can be read    *)
(* back.  Readable is about the states a reader passes through, which are    *)
(* computed from the other end of the file than the one elab() writes at.    *)
(* The inductive invariant therefore does not compute them: it says that     *)
(* there is a chain of states, one between every two entries, of the         *)
(* clauses that a reader must know there.                                   *)
(***************************************************************************)
EXTENDS Elab, FiniteSetTheorems, SequenceTheorems, TLAPS

(* What a reader must know: IDs and the clauses they stand for.             *)
Known == SUBSET (Ids \X Clauses)

Sources == UNION {[D -> Ids] : D \in SUBSET Ids}

OrigEntries == {OrigE(i, c) : i \in Ids, c \in Clauses}

(* The entries after the header of the file, and all entries.               *)
Steps ==
  {AddE(i, c, U, one) : i \in Ids, c \in Clauses, U \in SUBSET Ids, one \in BOOLEAN}
    \union {ImplyE(i, c, U) : i \in Ids, c \in Clauses, U \in SUBSET Ids}
    \union {TheoryE(U) : U \in SUBSET Ids}
    \union {RelocE(src) : src \in Sources}
    \union {DelE(i) : i \in Ids}
Entries == Steps \union OrigEntries \union {TheoryOrigE}

(* Who knows Q can read e, and then knows R.  An implied clause is written    *)
(* although nobody may have to know it.                                     *)
Step(Q, e, R) ==
  /\ Cites(e) \subseteq IdsOf(Q)
  /\ e.op \in {"orig", "add"} =>
       e.id \notin IdsOf(Q) /\ R = Q \union {<<e.id, e.lits>>}
  /\ e.op = "add" =>
       (e.oneHint => \E x \in Q : e.hints = {x[1]} /\ x[2] \subseteq e.lits)
  /\ e.op = "imply" =>
       /\ e.id \notin IdsOf(Q) /\ Q \subseteq R
       /\ \A x \in R \ Q : x[1] = e.id /\ e.lits \subseteq x[2]
  /\ e.op \in {"theory", "theoryOrig"} => R = Q
  /\ e.op = "del" => R = {x \in Q : x[1] # e.id}
  /\ e.op = "reloc" =>
       /\ IsInjective(e.src) /\ DOMAIN e.src # {}
       /\ \A x \in Q : x[1] \notin DOMAIN e.src \ Range(e.src)
       /\ R = {x \in Q : x[1] \notin Range(e.src)}
                \union {z \in (DOMAIN e.src) \X Clauses : <<e.src[z[1]], z[2]>> \in Q}

(* f, read from its last entry to its first, leads from Q to R by way of the  *)
(* states q.                                                               *)
Chain(f, Q, R) ==
  \E q \in [0..Len(f) -> Known] :
    /\ q[Len(f)] = Q /\ q[0] = R
    /\ \A m \in 1..Len(f) : Step(q[m], f[m], q[m - 1])

-----------------------------------------------------------------------------
(* Lemmas about chains.                                                    *)

(* The least element principle, with a set in the place of a predicate.     *)
LEMMA Least ==
  ASSUME NEW T, T \subseteq Nat, T # {}
  PROVE  \E x \in T : \A y \in T : x <= y
<1> DEFINE Below == {x \in Nat \X Nat : x[1] < x[2]}
<1>1. IsWellFoundedOn(Below, Nat)
  <2>1. IsWellFoundedOn(OpToRel(<, Nat), Nat)  BY NatLessThanWellFounded
  <2>2. OpToRel(<, Nat) = Below  BY DEF OpToRel
  <2> HIDE DEF Below
  <2> QED  BY <2>1, <2>2
<1>2. \A y, x \in Nat : y < x => <<y, x>> \in Below  OBVIOUS
<1> HIDE DEF Below
<1>3. PICK x \in T : \A y \in T : ~ (<<y, x>> \in Below)  BY <1>1, WFMin
<1>4. \A y \in T : ~(y < x)  BY <1>2, <1>3
<1> QED  BY <1>3, <1>4

LEMMA ChainNothing ==
  ASSUME NEW Q \in Known
  PROVE  Chain(<<>>, Q, Q)
<1> DEFINE q == [m \in {0} |-> Q]
<1>1. Len(<<>>) = 0 /\ 0..0 = {0}  OBVIOUS
<1>2. q \in [0..Len(<<>>) -> Known] /\ q[Len(<<>>)] = Q /\ q[0] = Q  BY <1>1
<1>3. \A m \in 1..Len(<<>>) : FALSE  BY <1>1
<1> QED  BY <1>2, <1>3 DEF Chain

LEMMA ChainOne ==
  ASSUME NEW Q \in Known, NEW R \in Known, NEW e, Step(Q, e, R)
  PROVE  Chain(<<e>>, Q, R)
<1> DEFINE q == [m \in 0..1 |-> IF m = 0 THEN R ELSE Q]
<1>1. Len(<<e>>) = 1 /\ <<e>>[1] = e  OBVIOUS
<1>2. q \in [0..1 -> Known] /\ q[1] = Q /\ q[0] = R  OBVIOUS
<1>3. \A m \in 1..1 : m = 1 /\ m - 1 = 0  OBVIOUS
<1> HIDE DEF q
<1>4. \A m \in 1..1 : Step(q[m], <<e>>[m], q[m - 1])  BY <1>1, <1>2, <1>3
<1> QED  BY <1>1, <1>2, <1>4 DEF Chain

(* The entries of g are read before those of f.                            *)
LEMMA ChainBoth ==
  ASSUME NEW f \in Seq(Entries), NEW g \in Seq(Entries),
         NEW Q, NEW M, NEW R, Chain(g, Q, M), Chain(f, M, R)
  PROVE  f \o g \in Seq(Entries) /\ Chain(f \o g, Q, R)
<1>1. PICK q1 \in [0..Len(f) -> Known] :
        /\ q1[Len(f)] = M /\ q1[0] = R
        /\ \A m \in 1..Len(f) : Step(q1[m], f[m], q1[m - 1])
  BY DEF Chain
<1>2. PICK q2 \in [0..Len(g) -> Known] :
        /\ q2[Len(g)] = Q /\ q2[0] = M
        /\ \A m \in 1..Len(g) : Step(q2[m], g[m], q2[m - 1])
  BY DEF Chain
<1> DEFINE h == f \o g
           N == Len(f) + Len(g)
           q == [m \in 0..N |-> IF m <= Len(f) THEN q1[m] ELSE q2[m - Len(f)]]
<1>3. Len(f) \in Nat /\ Len(g) \in Nat  OBVIOUS
<1>4. h \in Seq(Entries) /\ Len(h) = N
      /\ (\A m \in 1..Len(f) : h[m] = f[m])
      /\ (\A m \in Len(f)+1..N : h[m] = g[m - Len(f)])
  OBVIOUS
<1>5. q \in [0..N -> Known] /\ q[0] = R /\ q[N] = Q
  <2>1. \A m \in 0..N : m <= Len(f) => m \in 0..Len(f)  BY <1>3
  <2>2. \A m \in 0..N : ~(m <= Len(f)) => m - Len(f) \in 0..Len(g)  BY <1>3
  <2>3. q \in [0..N -> Known]  BY <1>1, <1>2, <2>1, <2>2
  <2>4. q[0] = R  BY <1>1, <1>3
  <2>5. q[N] = Q
    <3>1. CASE Len(g) = 0  BY <1>1, <1>2, <1>3, <3>1
    <3>2. CASE Len(g) # 0  BY <1>2, <1>3, <3>2
    <3> QED  BY <3>1, <3>2
  <2> QED  BY <2>3, <2>4, <2>5
<1>6. \A m \in 1..Len(f) : q[m] = q1[m] /\ q[m - 1] = q1[m - 1]  BY <1>3
<1>7. \A m \in Len(f)+1..N : /\ m - Len(f) \in 1..Len(g)
                             /\ q[m] = q2[m - Len(f)]
                             /\ q[m - 1] = q2[(m - Len(f)) - 1]
  BY <1>1, <1>2, <1>3
<1> HIDE DEF q, h
<1>8. \A m \in 1..N : Step(q[m], h[m], q[m - 1])
  <2> TAKE m \in 1..N
  <2>1. CASE m \in 1..Len(f)  BY <1>1, <1>4, <1>6, <2>1
  <2>2. CASE m \in Len(f)+1..N  BY <1>2, <1>4, <1>7, <2>2
  <2> QED  BY <1>3, <2>1, <2>2
<1>9. Chain(h, Q, R)  BY <1>4, <1>5, <1>8 DEF Chain
<1> QED  BY <1>4, <1>9 DEF h

-----------------------------------------------------------------------------
(* What the parts of the file do.                                          *)

(* SetToSeq lists a finite set, each element once.                          *)
LEMMA Listed ==
  ASSUME NEW S \in SUBSET Ids
  PROVE  LET s == SetToSeq(S) IN
         /\ s \in Seq(S)
         /\ \A m, n \in 1..Len(s) : s[m] = s[n] => m = n
         /\ \A x \in S : \E n \in 1..Len(s) : s[n] = x
<1> DEFINE N == Cardinality(S)
           s == SetToSeq(S)
<1>1. IsFiniteSet(S)  BY IdsFinite, FS_Subset
<1>2. PICK n \in Nat : ExistsBijection(1..n, S)  BY <1>1, FS_NatBijection
<1>3. N = n  BY <1>2, FS_CountingElements
<1>4. \E f \in [1..N -> S] : IsInjective(f)
  BY <1>2, <1>3 DEF ExistsBijection, Bijection, Injection, IsInjective
<1>5. s \in [1..N -> S] /\ IsInjective(s)
  BY <1>4 DEF SetToSeq
<1>6. s \in Seq(S) /\ Len(s) = N  BY <1>2, <1>3, <1>5
<1>7. \A m, k \in 1..Len(s) : s[m] = s[k] => m = k
  BY <1>5, <1>6 DEF IsInjective
<1>8. \A x \in S : \E k \in 1..Len(s) : s[k] = x
  <2> DEFINE X == {s[k] : k \in 1..N}
  <2>1. s \in Bijection(1..N, X)
    BY <1>5 DEF Bijection, Injection, Surjection, IsInjective
  <2>2. Cardinality(X) = N
    BY <2>1, <1>2, <1>3, FS_CountingElements DEF ExistsBijection
  <2>3. X \subseteq S  BY <1>5
  <2>4. X = S  BY <1>1, <2>2, <2>3, FS_Subset
  <2> QED  BY <1>6, <2>4
<1> QED  BY <1>6, <1>7, <1>8

LEMMA EntryTypes ==
  /\ \A i \in Ids, c \in Clauses : OrigE(i, c) \in OrigEntries
  /\ \A i \in Ids, c \in Clauses, U \in SUBSET Ids, one \in BOOLEAN :
       AddE(i, c, U, one) \in Steps
  /\ \A i \in Ids, c \in Clauses, U \in SUBSET Ids : ImplyE(i, c, U) \in Steps
  /\ \A U \in SUBSET Ids : TheoryE(U) \in Steps
  /\ \A src \in Sources : RelocE(src) \in Steps
  /\ \A i \in Ids : DelE(i) \in Steps
  /\ TheoryOrigE \in Entries
  /\ Steps \subseteq Entries /\ OrigEntries \subseteq Entries
  BY DEF Entries, OrigEntries, Steps

(* Reading the deletions that elab() makes up takes just the new hints away. *)
LEMMA DelsChain ==
  ASSUME ~full, NEW U \in SUBSET Ids, NEW Q \in Known, U \ marked \subseteq IdsOf(Q)
  PROVE  /\ Dels(U) \in Seq(Steps)
         /\ Chain(Dels(U), Q, {x \in Q : x[1] \notin U \ marked})
<1> DEFINE X == U \ marked
           s == SetToSeq(X)
           f == [n \in DOMAIN s |-> DelE(s[n])]
           N == Len(s)
           Rest(m) == {s[n] : n \in m+1..N}
           q == [m \in 0..N |-> {x \in Q : x[1] \notin Rest(m)}]
<1>1. X \in SUBSET Ids  OBVIOUS
<1>2. /\ s \in Seq(X)
      /\ \A m, n \in 1..N : s[m] = s[n] => m = n
      /\ \A x \in X : \E n \in 1..N : s[n] = x
  <2> HIDE DEF X
  <2> QED  BY <1>1, Listed
<1>3. N \in Nat /\ DOMAIN s = 1..N /\ \A n \in 1..N : s[n] \in X
  <2> HIDE DEF s, X
  <2> QED  BY <1>2
<1>4. Dels(U) = f  BY DEF Dels
<1>5. f \in Seq(Steps) /\ Len(f) = N /\ \A n \in 1..N : f[n] = DelE(s[n])
  <2>1. \A n \in 1..N : DelE(s[n]) \in Steps  BY <1>3, EntryTypes
  <2> HIDE DEF s
  <2> QED  BY <1>3, <2>1
<1> HIDE DEF s, f
<1>6. q \in [0..N -> Known] /\ q[N] = Q /\ q[0] = {x \in Q : x[1] \notin X}
  <2>1. Rest(N) = {}  BY <1>3
  <2>2. Rest(0) = X  BY <1>2, <1>3
  <2>3. \A m \in 0..N : {x \in Q : x[1] \notin Rest(m)} \in Known  BY DEF Known
  <2> HIDE DEF X, Rest
  <2>4. q \in [0..N -> Known]  BY <2>3
  <2>5. q[N] = {x \in Q : x[1] \notin Rest(N)} /\ q[0] = {x \in Q : x[1] \notin Rest(0)}
    BY <1>3
  <2> QED  BY <2>1, <2>2, <2>4, <2>5
<1>7. \A m \in 1..N : Step(q[m], f[m], q[m - 1])
  <2> TAKE m \in 1..N
  <2> DEFINE i == s[m]
  <2>1. i \in X /\ i \notin Rest(m) /\ i \in IdsOf(Q)  BY <1>2, <1>3
  <2>2. Rest(m - 1) = Rest(m) \union {i}  BY <1>3
  <2>3. /\ q[m] = {x \in Q : x[1] \notin Rest(m)}
        /\ q[m - 1] = {x \in q[m] : x[1] # i}
    BY <1>3, <2>2
  <2>4. i \in IdsOf(q[m])  BY <2>1, <2>3 DEF IdsOf
  <2>5. f[m] = DelE(i)  BY <1>5
  <2> HIDE DEF q, i
  <2>6. DelE(i).op = "del" /\ DelE(i).id = i  BY DEF DelE
  <2> QED  BY <2>3, <2>4, <2>5, <2>6 DEF Step, Cites
<1> HIDE DEF q
<1>8. Chain(f, Q, {x \in Q : x[1] \notin X})
  BY <1>5, <1>6, <1>7 DEF Chain
<1> QED  BY <1>4, <1>5, <1>8

(* The entries of original XORs and BNNs change nothing.                    *)
LEMMA TheoryOrigsChain ==
  ASSUME NEW k \in Nat, NEW Q \in Known
  PROVE  LET f == [n \in 1..k |-> TheoryOrigE] IN
         f \in Seq(Entries) /\ Chain(f, Q, Q)
<1> DEFINE f == [n \in 1..k |-> TheoryOrigE]
           q == [m \in 0..k |-> Q]
<1>1. f \in Seq(Entries) /\ Len(f) = k /\ \A n \in 1..k : f[n] = TheoryOrigE
  BY EntryTypes
<1>2. q \in [0..k -> Known] /\ q[k] = Q /\ q[0] = Q
      /\ \A m \in 1..k : q[m] = Q /\ q[m - 1] = Q
  OBVIOUS
<1>3. Step(Q, TheoryOrigE, Q)
  <2>1. TheoryOrigE.op = "theoryOrig"  BY DEF TheoryOrigE
  <2> QED  BY <2>1 DEF Step, Cites
<1> HIDE DEF f, q
<1>4. Chain(f, Q, Q)  BY <1>1, <1>2, <1>3 DEF Chain
<1> QED  BY <1>1, <1>4 DEF f

(* The delayed orig steps: no two have the same ID, and their IDs are not    *)
(* used anywhere later in the proof.                                        *)
Delayed == {<<origs[n].id, origs[n].lits>> : n \in DOMAIN origs}
Apart ==
  /\ origs \in Seq(OrigEntries)
  /\ Hoisted \intersect names = {}
  /\ \A m, n \in DOMAIN origs : origs[m].id = origs[n].id => m = n

(* The clauses that would have to be there, if the proof began here.         *)
WantedIn(N, M) == {<<j, lits[j]>> : j \in {i \in N : full \/ i \in M}}
Wanted == WantedIn(names, marked)

LEMMA WantedType ==
  ASSUME TypeOK, NEW N \in SUBSET names, NEW M
  PROVE  /\ WantedIn(N, M) \in Known
         /\ IdsOf(WantedIn(N, M)) = {i \in N : full \/ i \in M}
<1>1. \A i \in N : <<i, lits[i]>> \in Ids \X Clauses  BY DEF TypeOK
<1>2. WantedIn(N, M) \in Known  BY <1>1 DEF WantedIn, Known
<1>3. IdsOf(WantedIn(N, M)) = {i \in N : full \/ i \in M}
  <2>1. \A i : <<i, lits[i]>>[1] = i  OBVIOUS
  <2> QED  BY <2>1 DEF WantedIn, IdsOf
<1> QED  BY <1>2, <1>3

LEMMA DelayedType ==
  ASSUME origs \in Seq(OrigEntries)
  PROVE  /\ \A n \in DOMAIN origs :
              /\ origs[n] = OrigE(origs[n].id, origs[n].lits)
              /\ origs[n].id \in Ids /\ origs[n].lits \in Clauses
         /\ Delayed \in Known
         /\ IdsOf(Delayed) = Hoisted
<1>1. ASSUME NEW n \in DOMAIN origs
      PROVE  /\ origs[n] = OrigE(origs[n].id, origs[n].lits)
             /\ origs[n].id \in Ids /\ origs[n].lits \in Clauses
  <2>1. origs[n] \in OrigEntries  BY <1>1
  <2>2. PICK i \in Ids, c \in Clauses : origs[n] = OrigE(i, c)  BY <2>1 DEF OrigEntries
  <2> QED  BY <2>2 DEF OrigE
<1>2. Delayed \in Known  BY <1>1 DEF Delayed, Known
<1>3. IdsOf(Delayed) = Hoisted
  <2> DEFINE Clause(n) == <<origs[n].id, origs[n].lits>>
  <2>1. \A n : Clause(n)[1] = origs[n].id  OBVIOUS
  <2>2. Delayed = {Clause(n) : n \in DOMAIN origs}  BY DEF Delayed
  <2> HIDE DEF Clause
  <2> QED  BY <2>1, <2>2 DEF Hoisted, IdsOf
<1> QED  BY <1>1, <1>2, <1>3

LEMMA OrigsChain ==
  ASSUME TypeOK, Apart
  PROVE  origs \in Seq(Entries) /\ Chain(origs, Wanted, Wanted \union Delayed)
<1> DEFINE N == Len(origs)
           Clause(n) == <<origs[n].id, origs[n].lits>>
           Read(m) == {Clause(n) : n \in m+1..N}
           q == [m \in 0..N |-> Wanted \union Read(m)]
<1>1. N \in Nat /\ DOMAIN origs = 1..N /\ origs \in Seq(OrigEntries)
  BY DEF Apart
<1>2. origs \in Seq(Entries)  BY <1>1, EntryTypes
<1>3. \A n \in 1..N : /\ origs[n] = OrigE(origs[n].id, origs[n].lits)
                      /\ Clause(n) \in Ids \X Clauses
  BY <1>1, DelayedType
<1>4. Wanted \in Known /\ IdsOf(Wanted) \subseteq names
  BY WantedType DEF Wanted
<1>5. \A m \in 0..N : Wanted \union Read(m) \in Known
  BY <1>1, <1>3, <1>4 DEF Known
<1>6. Read(N) = {} /\ Read(0) = Delayed  BY <1>1 DEF Delayed
<1>7. q \in [0..N -> Known] /\ q[N] = Wanted /\ q[0] = Wanted \union Delayed
  BY <1>1, <1>5, <1>6
<1>8. \A m \in 1..N : Step(q[m], origs[m], q[m - 1])
  <2> TAKE m \in 1..N
  <2> DEFINE e == origs[m]
             Q == Wanted \union Read(m)
             R == Wanted \union Read(m - 1)
  <2>1. q[m] = Q /\ q[m - 1] = R  BY <1>1
  <2>2. Read(m - 1) = Read(m) \union {Clause(m)}  BY <1>1
  <2>3. R = Q \union {<<e.id, e.lits>>}  BY <2>2
  <2>4. e.op = "orig" /\ Cites(e) = {}
    <3>1. e = OrigE(e.id, e.lits)  BY <1>3
    <3> HIDE DEF e
    <3>2. e.op = "orig"  BY <3>1 DEF OrigE
    <3> QED  BY <3>2 DEF Cites
  <2>5. e.id \notin IdsOf(Q)
    <3>1. e.id \notin names  BY <1>1 DEF Apart, Hoisted
    <3>2. \A x \in Read(m) : x[1] # e.id
      BY <1>1 DEF Apart
    <3>3. \A x \in Wanted : x[1] # e.id  BY <1>4, <3>1 DEF IdsOf
    <3> QED  BY <3>2, <3>3 DEF IdsOf
  <2> HIDE DEF Q, R, e
  <2>6. Step(Q, e, R)  BY <2>3, <2>4, <2>5 DEF Step
  <2> QED  BY <2>1, <2>6 DEF e
<1> HIDE DEF q
<1>9. Chain(origs, Wanted, Wanted \union Delayed)
  BY <1>7, <1>8 DEF Chain
<1> QED  BY <1>2, <1>9

-----------------------------------------------------------------------------
(* From chains to readers.  A reader knows IDs, each owed its deletion or     *)
(* spare.                                                                  *)

States == SUBSET (Ids \X {"owed", "spare"})

(* L has the clauses of Q, and owes none but those of Q that are not empty.   *)
Covers(L, Q) ==
  /\ IdsOf(Q) \subseteq IdsOf(L)
  /\ \A x \in L : x[2] = "owed" => \E y \in Q : y[1] = x[1] /\ y[2] # {}

(* What StepReads says of a reader in state L.                             *)
CanRead(L, e, R) ==
  /\ Cites(e) \subseteq IdsOf(L)
  /\ \A x \in Replaces(L, e) : x[2] = "spare"
  /\ After(L, e) \in States
  /\ Covers(After(L, e), R)

(* An entry that brings in clause e.id.                                    *)
LEMMA Brought ==
  ASSUME NEW Q \in Known, NEW e, NEW R \in Known, Step(Q, e, R),
         e.op \in {"orig", "add", "imply"}, e.id \in Ids,
         NEW L \in States, Covers(L, Q)
  PROVE  CanRead(L, e, R)
<1> DEFINE tag == Tagged(e.id, e.op = "imply" \/ e.lits = {})
           rest == {x \in L : x[1] # e.id}
<1>1. Replaces(L, e) = {x \in L : x[1] = e.id}  BY DEF Replaces
<1>2. After(L, e) = (L \ Replaces(L, e)) \union {tag}  BY DEF After
<1>3. After(L, e) = rest \union {tag}  BY <1>1, <1>2
<1>4. /\ tag \in Ids \X {"owed", "spare"} /\ tag[1] = e.id
      /\ tag[2] = "owed" => e.op # "imply" /\ e.lits # {}
  BY DEF Tagged
<1>5. L \subseteq Ids \X {"owed", "spare"}  BY DEF States
<1>6. After(L, e) \in States  BY <1>3, <1>4, <1>5 DEF States
<1>7. e.id \notin IdsOf(Q) /\ Q \subseteq R  BY DEF Step
<1>8. e.op # "imply" => <<e.id, e.lits>> \in R  BY DEF Step
<1>9. IdsOf(R) \subseteq IdsOf(Q) \union {e.id}
  <2>1. \A x \in R : x \in Q \/ x[1] = e.id
    <3>1. <<e.id, e.lits>>[1] = e.id  OBVIOUS
    <3> QED  BY <3>1 DEF Step
  <2> QED  BY <2>1 DEF IdsOf
<1>10. \A x \in L : x[2] = "owed" => \E y \in Q : y[1] = x[1] /\ y[2] # {}
  BY DEF Covers
<1>11. \A x \in Replaces(L, e) : x[2] = "spare"
  <2> SUFFICES ASSUME NEW x \in L, x[1] = e.id, x[2] = "owed" PROVE FALSE
    BY <1>1, <1>5
  <2> QED  BY <1>7, <1>10 DEF IdsOf
<1> HIDE DEF tag
<1>12. IdsOf(R) \subseteq IdsOf(rest \union {tag})
  <2> SUFFICES ASSUME NEW y \in IdsOf(R) PROVE y \in IdsOf(rest \union {tag})
    OBVIOUS
  <2>1. CASE y = e.id  BY <1>4, <2>1 DEF IdsOf
  <2>2. CASE y # e.id
    <3>1. y \in IdsOf(L)  BY <1>9, <2>2 DEF Covers
    <3> QED  BY <2>2, <3>1 DEF IdsOf
  <2> QED  BY <2>1, <2>2
<1>13. \A x \in rest \union {tag} : x[2] = "owed" => \E y \in R : y[1] = x[1] /\ y[2] # {}
  <2> SUFFICES ASSUME NEW x \in rest \union {tag}, x[2] = "owed"
               PROVE  \E y \in R : y[1] = x[1] /\ y[2] # {}
    OBVIOUS
  <2>1. CASE x \in rest  BY <1>7, <1>10, <2>1
  <2>2. CASE x = tag
    <3>1. <<e.id, e.lits>>[1] = e.id /\ <<e.id, e.lits>>[2] = e.lits  OBVIOUS
    <3>2. <<e.id, e.lits>> \in R /\ e.lits # {}  BY <1>4, <1>8, <2>2
    <3> QED  BY <1>4, <2>2, <3>1, <3>2
  <2> QED  BY <2>1, <2>2
<1>14. Covers(rest \union {tag}, R)
  <2> HIDE DEF rest
  <2> QED  BY <1>12, <1>13 DEF Covers
<1>15. Cites(e) \subseteq IdsOf(L)  BY DEF Step, Covers
<1> QED  BY <1>3, <1>6, <1>11, <1>14, <1>15 DEF CanRead

(* An entry that takes a clause out.                                       *)
LEMMA TakenOut ==
  ASSUME NEW Q \in Known, NEW e, NEW R \in Known, Step(Q, e, R), e.op = "del",
         NEW L \in States, Covers(L, Q)
  PROVE  CanRead(L, e, R)
<1>1. R = {x \in Q : x[1] # e.id} /\ Cites(e) \subseteq IdsOf(L)  BY DEF Step, Covers
<1>2. Replaces(L, e) = {} /\ After(L, e) = {x \in L : x[1] # e.id}
  BY DEF Replaces, After
<1>3. ASSUME NEW y \in IdsOf(R) PROVE y \in IdsOf({x \in L : x[1] # e.id})
  <2>1. y \in IdsOf(Q) /\ y # e.id  BY <1>1, <1>3 DEF IdsOf
  <2>2. y \in IdsOf(L)  BY <2>1 DEF Covers
  <2> QED  BY <2>1, <2>2 DEF IdsOf
<1>4. \A x \in L : x[1] # e.id /\ x[2] = "owed" => \E y \in R : y[1] = x[1] /\ y[2] # {}
  BY <1>1 DEF Covers
<1>5. Covers({x \in L : x[1] # e.id}, R)  BY <1>3, <1>4 DEF Covers
<1> QED  BY <1>1, <1>2, <1>5 DEF CanRead, States

(* An entry that moves clauses.                                            *)
LEMMA MovedOver ==
  ASSUME NEW Q \in Known, NEW e, NEW R \in Known, Step(Q, e, R), e.op = "reloc",
         e.src \in Sources, NEW L \in States, Covers(L, Q)
  PROVE  CanRead(L, e, R)
<1> DEFINE src == e.src
           D == DOMAIN src
           G == Range(src)
           replaced == {x \in L : x[1] \in D \ G /\ src[x[1]] \in IdsOf(L)}
           still == {x \in L \ replaced : x[1] \notin G}
           moved == {z \in D \X {"owed", "spare"} : <<src[z[1]], z[2]>> \in L}
<1>1. /\ \A x \in Q : x[1] \notin D \ G
      /\ R = {x \in Q : x[1] \notin G} \union {z \in D \X Clauses : <<src[z[1]], z[2]>> \in Q}
      /\ Cites(e) = {}
  BY DEF Step, Cites
<1>2. Replaces(L, e) = replaced  BY DEF Replaces
<1>3. After(L, e) = still \union moved
  <2>1. After(L, e) = {x \in L \ Replaces(L, e) : x[1] \notin Range(e.src)}
                        \union {z \in (DOMAIN e.src) \X {"owed", "spare"} :
                                  <<e.src[z[1]], z[2]>> \in L}
    BY DEF After
  <2> QED  BY <1>2, <2>1
<1>4. D \subseteq Ids /\ \A y \in D : src[y] \in G  BY DEF Sources, Range
<1>5. L \subseteq Ids \X {"owed", "spare"} /\ Q \subseteq Ids \X Clauses  BY DEF States, Known
<1>6. After(L, e) \in States  BY <1>3, <1>4, <1>5 DEF States
<1>7. /\ \A y \in IdsOf(Q) : \E x \in L : x[1] = y
      /\ \A x \in L : x[2] = "owed" => \E y \in Q : y[1] = x[1] /\ y[2] # {}
  BY DEF Covers, IdsOf
<1>8. \A x \in replaced : x[2] = "spare"
  <2> SUFFICES ASSUME NEW x \in replaced, x[2] = "owed" PROVE FALSE
    BY <1>5
  <2> QED  BY <1>1, <1>7
<1> HIDE DEF src, D, G
<1>9. ASSUME NEW y \in IdsOf(R) PROVE y \in IdsOf(still \union moved)
  <2>1. PICK x \in R : x[1] = y  BY <1>9 DEF IdsOf
  <2>2. CASE x \in Q /\ x[1] \notin G
    <3>1. y \in IdsOf(Q)  BY <2>1, <2>2 DEF IdsOf
    <3>2. PICK u \in L : u[1] = y  BY <1>7, <3>1
    <3>3. u \in still  BY <1>1, <2>1, <2>2, <3>2
    <3> QED  BY <3>2, <3>3 DEF IdsOf
  <2>3. CASE x \in D \X Clauses /\ <<src[x[1]], x[2]>> \in Q
    <3>1. y \in D /\ <<src[y], x[2]>> \in Q /\ <<src[y], x[2]>>[1] = src[y]  BY <2>1, <2>3
    <3>2. src[y] \in IdsOf(Q)  BY <3>1 DEF IdsOf
    <3>3. PICK u \in L : u[1] = src[y]  BY <1>7, <3>2
    <3>4. u = <<src[y], u[2]>> /\ u[2] \in {"owed", "spare"}  BY <1>5, <3>3
    <3>5. <<y, u[2]>> \in moved  BY <3>1, <3>3, <3>4
    <3>6. <<y, u[2]>>[1] = y  OBVIOUS
    <3> HIDE DEF moved, still
    <3> QED  BY <3>5, <3>6 DEF IdsOf
  <2> QED  BY <1>1, <2>1, <2>2, <2>3
<1>10. ASSUME NEW x \in still, x[2] = "owed" PROVE \E y \in R : y[1] = x[1] /\ y[2] # {}
  <2>1. PICK y \in Q : y[1] = x[1] /\ y[2] # {}  BY <1>7, <1>10
  <2>2. y \in R  BY <1>1, <2>1
  <2> QED  BY <2>1, <2>2
<1>11. ASSUME NEW z \in moved, z[2] = "owed" PROVE \E y \in R : y[1] = z[1] /\ y[2] # {}
  <2>1. z[1] \in D /\ <<src[z[1]], "owed">> \in L  BY <1>11
  <2>2. PICK y \in Q : y[1] = src[z[1]] /\ y[2] # {}  BY <1>7, <2>1
  <2>3. y = <<src[z[1]], y[2]>> /\ y[2] \in Clauses  BY <1>5, <2>2
  <2>4. <<z[1], y[2]>> \in R  BY <1>1, <2>1, <2>3
  <2>5. <<z[1], y[2]>>[1] = z[1] /\ <<z[1], y[2]>>[2] = y[2]  OBVIOUS
  <2> QED  BY <2>2, <2>4, <2>5
<1>12. Covers(still \union moved, R)
  <2> HIDE DEF still, moved
  <2> QED  BY <1>9, <1>10, <1>11 DEF Covers
<1> QED  BY <1>1, <1>2, <1>3, <1>6, <1>8, <1>12 DEF CanRead

(* What an entry is.                                                       *)
LEMMA EntryKinds ==
  ASSUME NEW e \in Entries
  PROVE  \/ e.op = "orig" /\ e.id \in Ids /\ e.lits \in Clauses /\ e \notin Steps
         \/ /\ e.op = "add" /\ e.id \in Ids /\ e.lits \in Clauses
            /\ e.hints \in SUBSET Ids /\ e.oneHint \in BOOLEAN
         \/ e.op = "imply" /\ e.id \in Ids /\ e.lits \in Clauses /\ e.hints \in SUBSET Ids
         \/ e.op = "theory" /\ e.hints \in SUBSET Ids
         \/ e.op = "reloc" /\ e.src \in Sources
         \/ e.op = "del" /\ e.id \in Ids
         \/ e.op = "theoryOrig" /\ e \notin Steps
<1>0. \A s \in Steps : s.op \in {"add", "imply", "theory", "reloc", "del"}
  <2> SUFFICES ASSUME NEW s \in Steps
               PROVE  s.op \in {"add", "imply", "theory", "reloc", "del"}
    OBVIOUS
  <2>1. ASSUME NEW i \in Ids, NEW c \in Clauses, NEW U \in SUBSET Ids,
               NEW one \in BOOLEAN, s = AddE(i, c, U, one)
        PROVE  s.op = "add"
    BY <2>1 DEF AddE
  <2>2. ASSUME NEW i \in Ids, NEW c \in Clauses, NEW U \in SUBSET Ids, s = ImplyE(i, c, U)
        PROVE  s.op = "imply"
    BY <2>2 DEF ImplyE
  <2>3. CASE \E U \in SUBSET Ids : s = TheoryE(U)  BY <2>3 DEF TheoryE
  <2>4. CASE \E src \in Sources : s = RelocE(src)  BY <2>4 DEF RelocE
  <2>5. CASE \E i \in Ids : s = DelE(i)  BY <2>5 DEF DelE
  <2> QED  BY <2>1, <2>2, <2>3, <2>4, <2>5 DEF Steps
<1>1. ASSUME NEW i \in Ids, NEW c \in Clauses, e = OrigE(i, c)
      PROVE  e.op = "orig" /\ e.id \in Ids /\ e.lits \in Clauses
  BY <1>1 DEF OrigE
<1>2. ASSUME NEW i \in Ids, NEW c \in Clauses, NEW U \in SUBSET Ids,
             NEW one \in BOOLEAN, e = AddE(i, c, U, one)
      PROVE  /\ e.op = "add" /\ e.id \in Ids /\ e.lits \in Clauses
             /\ e.hints \in SUBSET Ids /\ e.oneHint \in BOOLEAN
  BY <1>2 DEF AddE
<1>3. ASSUME NEW i \in Ids, NEW c \in Clauses, NEW U \in SUBSET Ids, e = ImplyE(i, c, U)
      PROVE  e.op = "imply" /\ e.id \in Ids /\ e.lits \in Clauses /\ e.hints \in SUBSET Ids
  BY <1>3 DEF ImplyE
<1>4. ASSUME NEW U \in SUBSET Ids, e = TheoryE(U)
      PROVE  e.op = "theory" /\ e.hints \in SUBSET Ids
  BY <1>4 DEF TheoryE
<1>5. ASSUME NEW src \in Sources, e = RelocE(src)
      PROVE  e.op = "reloc" /\ e.src \in Sources
  BY <1>5 DEF RelocE
<1>6. ASSUME NEW i \in Ids, e = DelE(i)
      PROVE  e.op = "del" /\ e.id \in Ids
  BY <1>6 DEF DelE
<1>7. ASSUME e = TheoryOrigE PROVE e.op = "theoryOrig"  BY <1>7 DEF TheoryOrigE
<1>8. \/ \E i \in Ids, c \in Clauses : e = OrigE(i, c)
      \/ \E i \in Ids, c \in Clauses, U \in SUBSET Ids, one \in BOOLEAN : e = AddE(i, c, U, one)
      \/ \E i \in Ids, c \in Clauses, U \in SUBSET Ids : e = ImplyE(i, c, U)
      \/ \E U \in SUBSET Ids : e = TheoryE(U)
      \/ \E src \in Sources : e = RelocE(src)
      \/ \E i \in Ids : e = DelE(i)
      \/ e = TheoryOrigE
  BY DEF Entries, OrigEntries, Steps
<1>9. e.op \in {"orig", "theoryOrig"} => e \notin Steps  BY <1>0
<1> QED  BY <1>1, <1>2, <1>3, <1>4, <1>5, <1>6, <1>7, <1>8, <1>9

(* A reader who knows at least Q and owes no more can read e, and is then     *)
(* where R says.                                                           *)
LEMMA StepReads ==
  ASSUME NEW Q \in Known, NEW e \in Entries, NEW R \in Known, Step(Q, e, R),
         NEW L \in States, Covers(L, Q)
  PROVE  CanRead(L, e, R)
<1>1. CASE e.op \in {"orig", "add", "imply"}
  <2>1. e.id \in Ids  BY <1>1, EntryKinds
  <2> QED  BY <1>1, <2>1, Brought
<1>2. CASE e.op = "del"  BY <1>2, TakenOut
<1>3. CASE e.op = "reloc"
  <2>1. e.src \in Sources  BY <1>3, EntryKinds
  <2> QED  BY <1>3, <2>1, MovedOver
<1>4. CASE e.op \in {"theory", "theoryOrig"}
  <2>1. Replaces(L, e) = {} /\ After(L, e) = L  BY <1>4 DEF Replaces, After
  <2>2. R = Q /\ Cites(e) \subseteq IdsOf(L)  BY <1>4 DEF Step, Covers
  <2> QED  BY <2>1, <2>2 DEF CanRead
<1> QED  BY <1>1, <1>2, <1>3, <1>4, EntryKinds

-----------------------------------------------------------------------------
(* The states of the reader of File.                                       *)

LiveEq(g, n) ==
  g = [m \in 0..n |-> IF m = 0 THEN Pending ELSE After(g[m - 1], Entry(m))]

(* The recursion of LiveAfter defines a function.                           *)
LEMMA LiveExists ==
  ASSUME NEW n \in Nat
  PROVE  \E g : LiveEq(g, n)
<1> DEFINE Bad == {m \in Nat : ~ \E g : LiveEq(g, m)}
<1>1. SUFFICES ASSUME Bad # {} PROVE FALSE  OBVIOUS
<1>2. PICK m \in Bad : \A y \in Bad : m <= y  BY <1>1, Least
<1>3. m \in Nat  OBVIOUS
<1>4. m # 0
  <2> DEFINE g == [x \in 0..0 |-> Pending]
  <2>1. \A x \in 0..0 : x = 0  OBVIOUS
  <2>2. g = [x \in 0..0 |-> IF x = 0 THEN Pending ELSE After(g[x - 1], Entry(x))]
    BY <2>1
  <2>3. LiveEq(g, 0)  BY <2>2 DEF LiveEq
  <2> QED  BY <2>3
<1>5. m - 1 \in Nat /\ m - 1 \notin Bad  BY <1>2, <1>3, <1>4
<1>6. PICK g : LiveEq(g, m - 1)  BY <1>5
<1> DEFINE h == [x \in 0..m |-> IF x = m THEN After(g[m - 1], Entry(m)) ELSE g[x]]
<1>7. \A x \in 0..m-1 : g[x] = IF x = 0 THEN Pending ELSE After(g[x - 1], Entry(x))
  BY <1>6 DEF LiveEq
<1>8. \A x \in 0..m : h[x] = IF x = 0 THEN Pending ELSE After(h[x - 1], Entry(x))
  <2> TAKE x \in 0..m
  <2>1. CASE x = m  
    <3>1. h[m] = After(g[m - 1], Entry(m)) /\ h[m - 1] = g[m - 1]  BY <1>3, <1>4
    <3> QED  BY <1>4, <2>1, <3>1
  <2>2. CASE x # m /\ x # 0
    <3>1. x \in 0..m-1 /\ h[x] = g[x] /\ h[x - 1] = g[x - 1]  BY <1>3, <2>2
    <3> QED  BY <1>7, <2>2, <3>1
  <2>3. CASE x # m /\ x = 0
    <3>1. 0 \in 0..m-1 /\ h[0] = g[0]  BY <1>3, <1>5, <2>3
    <3> QED  BY <1>7, <2>3, <3>1
  <2> QED  BY <2>1, <2>2, <2>3
<1>9. h = [x \in 0..m |-> h[x]]  OBVIOUS
<1> HIDE DEF h
<1>10. LiveEq(h, m)  BY <1>8, <1>9 DEF LiveEq
<1> QED  BY <1>10

LEMMA LiveStep ==
  ASSUME File \in Seq(Entries)
  PROVE  /\ LiveAfter[0] = Pending
         /\ \A n \in 1..Len(File) : LiveAfter[n] = After(LiveAfter[n - 1], Entry(n))
<1>1. Len(File) \in Nat  OBVIOUS
<1>2. \E g : LiveEq(g, Len(File))  BY <1>1, LiveExists
<1>3. LiveAfter = CHOOSE g : LiveEq(g, Len(File))  BY DEF LiveAfter, LiveEq
<1>4. LiveEq(LiveAfter, Len(File))  BY <1>2, <1>3
<1> HIDE DEF File
<1>5. \A n \in 0..Len(File) :
        LiveAfter[n] = IF n = 0 THEN Pending ELSE After(LiveAfter[n - 1], Entry(n))
  BY <1>4 DEF LiveEq
<1> QED  BY <1>1, <1>5

(* Pending is what is wanted, by its tags.                                 *)
LEMMA PendingWanted ==
  ASSUME TypeOK
  PROVE  Pending \in States /\ Covers(Pending, Wanted)
<1>1. names \subseteq Ids  BY DEF TypeOK
<1>2. \A i, c : Tagged(i, c)[1] = i  BY DEF Tagged
<1>3. \A i \in Ids : \A c : Tagged(i, c) \in Ids \X {"owed", "spare"}  BY DEF Tagged
<1>4. Pending \in States  BY <1>1, <1>3 DEF Pending, States
<1>5. IdsOf(Pending) = {j \in names : full \/ j \in marked}
  BY <1>2 DEF Pending, IdsOf, Needed
<1>6. IdsOf(Wanted) = {j \in names : full \/ j \in marked}  BY WantedType DEF Wanted
<1>7. ASSUME NEW x \in Pending, x[2] = "owed"
      PROVE  \E y \in Wanted : y[1] = x[1] /\ y[2] # {}
  <2>1. PICK j \in names : Needed(j) /\ x = Tagged(j, lits[j] = {})  BY DEF Pending
  <2>2. lits[j] # {} /\ x[1] = j  BY <1>7, <2>1 DEF Tagged
  <2>3. <<j, lits[j]>> \in Wanted  BY <2>1 DEF Wanted, WantedIn, Needed
  <2>4. <<j, lits[j]>>[1] = j /\ <<j, lits[j]>>[2] = lits[j]  OBVIOUS
  <2> QED  BY <2>2, <2>3, <2>4
<1> QED  BY <1>4, <1>5, <1>6, <1>7 DEF Covers

(* Every reader's states cover the states of the chain.                     *)
LEMMA ChainReads ==
  ASSUME TypeOK, File \in Seq(Entries), NEW R, Chain(File, Wanted, R)
  PROVE  /\ \A n \in 1..Len(File) :
              /\ Cites(Entry(n)) \subseteq IdsOf(LiveAfter[n - 1])
              /\ \A x \in Replaces(LiveAfter[n - 1], Entry(n)) : x[2] = "spare"
         /\ LiveAfter[Len(File)] \in States
         /\ Covers(LiveAfter[Len(File)], R)
<1> DEFINE N == Len(File)
<1>1. N \in Nat  OBVIOUS
<1>2. PICK q \in [0..N -> Known] :
        /\ q[N] = Wanted /\ q[0] = R
        /\ \A m \in 1..N : Step(q[m], File[m], q[m - 1])
  BY DEF Chain
<1> DEFINE Ok(n) == LiveAfter[n] \in States /\ Covers(LiveAfter[n], q[N - n])
<1>a. \A m \in 1..N : File[m] \in Entries  OBVIOUS
<1> HIDE DEF File, N
<1>3. ASSUME NEW n \in 1..N, Ok(n - 1)
      PROVE  /\ Cites(Entry(n)) \subseteq IdsOf(LiveAfter[n - 1])
             /\ \A x \in Replaces(LiveAfter[n - 1], Entry(n)) : x[2] = "spare"
             /\ Ok(n)
  <2> DEFINE m == N + 1 - n
  <2>1. m \in 1..N /\ m = N - (n - 1) /\ m - 1 = N - n /\ m \in 0..N /\ m - 1 \in 0..N
    BY <1>1
  <2>2. Entry(n) = File[m] /\ Entry(n) \in Entries  BY <1>a, <2>1 DEF Entry, N
  <2>3. Step(q[N - (n - 1)], Entry(n), q[N - n])  BY <1>2, <2>1, <2>2
  <2>4. q[N - (n - 1)] \in Known /\ q[N - n] \in Known  BY <1>2, <2>1
  <2>5. LiveAfter[n - 1] \in States /\ Covers(LiveAfter[n - 1], q[N - (n - 1)])
    BY <1>3
  <2>6. CanRead(LiveAfter[n - 1], Entry(n), q[N - n])
    BY ONLY <2>2, <2>3, <2>4, <2>5, StepReads
  <2>7. LiveAfter[n] = After(LiveAfter[n - 1], Entry(n))  BY LiveStep DEF N
  <2> QED  BY <2>6, <2>7 DEF CanRead
<1>4. Ok(0)
  <2>1. LiveAfter[0] = Pending /\ q[N - 0] = Wanted  BY <1>1, <1>2, LiveStep
  <2> QED  BY <2>1, PendingWanted
<1>5. \A n \in 0..N : Ok(n)
  <2> DEFINE Bad == {n \in 0..N : ~Ok(n)}
  <2> HIDE DEF Ok
  <2>1. SUFFICES ASSUME Bad # {} PROVE FALSE  OBVIOUS
  <2>2. PICK n \in Bad : \A y \in Bad : n <= y
    <3>1. Bad \subseteq Nat  BY <1>1
    <3> HIDE DEF Bad
    <3> QED  BY <2>1, <3>1, Least
  <2>3. n \in 1..N /\ n - 1 \in 0..N  BY <1>1, <1>4
  <2>4. Ok(n - 1)  BY <2>2, <2>3
  <2> QED  BY <1>3, <2>3, <2>4
<1>6. LiveAfter[N] \in States /\ Covers(LiveAfter[N], R)
  <2>1. N \in 0..N /\ N - N = 0  BY <1>1
  <2> QED  BY <1>2, <1>5, <2>1
<1>7. \A n \in 1..N : n - 1 \in 0..N  BY <1>1
<1> QED  BY <1>3, <1>5, <1>6, <1>7 DEF N

-----------------------------------------------------------------------------
(* The inductive invariant.                                                *)

(* What is in force where the file begins: the clauses that are wanted, if    *)
(* the proof began here, and those of the delayed orig steps.               *)
Start == Wanted \union Delayed

(* f can be read by whoever knows Q; without --full only empty clauses stay,  *)
(* and with an empty clause finalized one stays.                            *)
CertOf(keepAll, empty, f, Q) ==
  \E R \in Known :
    /\ ~keepAll => \A x \in R : x[2] = {}
    /\ empty => \E x \in R : x[2] = {}
    /\ Chain(f, Q, R)

IInv ==
  /\ TypeOK
  /\ theoryOrigs <= steps
  /\ temp \in Seq(Entries)
  /\ pc = "elab" => temp \in Seq(Steps)
  /\ pc # "panic" => Apart /\ CertOf(full, finalizedEmpty, temp, Start)

LEMMA StartType ==
  ASSUME TypeOK, Apart
  PROVE  Start \in Known
<1>1. Wanted \in Known  BY WantedType DEF Wanted
<1>2. Delayed \in Known  BY DelayedType DEF Apart
<1> QED  BY <1>1, <1>2 DEF Start, Known

LEMMA WantedRemoved ==
  ASSUME NEW i \in names, NEW M, RemoveClause(i, M), full' = full, TypeOK
  PROVE  Wanted' = WantedIn(names \ {i}, M)
<1>1. /\ names' = names \ {i} /\ lits' = [lits EXCEPT ![i] = {}]
      /\ marked' = M \ {i}
  BY DEF RemoveClause
<1>2. \A j \in names \ {i} : lits'[j] = lits[j]  BY <1>1 DEF TypeOK
<1>3. Wanted' = {<<j, lits'[j]>> : j \in {n \in names \ {i} : full \/ n \in M}}
  BY <1>1 DEF Wanted, WantedIn
<1> QED  BY <1>2, <1>3 DEF WantedIn

ContextType ==
  /\ names \subseteq Ids /\ lits \in [Ids -> Clauses]
  /\ \A j \in Ids \ names : lits[j] = {}
  /\ marked \subseteq names

LEMMA RemoveType ==
  ASSUME TypeOK, NEW i, NEW M \in SUBSET names, RemoveClause(i, M)
  PROVE  ContextType'
BY DEF TypeOK, RemoveClause, Clauses, ContextType

LEMMA InsertType ==
  ASSUME TypeOK, NEW i \in Ids, NEW c \in Clauses, NEW mark, InsertClause(i, c, mark)
  PROVE  ContextType'
BY DEF TypeOK, InsertClause, ContextType

(* What a step with the hints U needs in addition.                          *)
WithHints(U) == Start \union {<<j, lits[j]>> : j \in U \ marked}

LEMMA HintsType ==
  ASSUME TypeOK, Apart, NEW U \in SUBSET names
  PROVE  WithHints(U) \in Known
<1>1. \A j \in U : <<j, lits[j]>> \in Ids \X Clauses  BY DEF TypeOK
<1> QED  BY <1>1, StartType DEF WithHints, Known

(* With the hints known, the deletions elab() makes up lead back to Start.   *)
LEMMA HintsChain ==
  ASSUME TypeOK, Apart, NEW U \in SUBSET names
  PROVE  Dels(U) \in Seq(Steps) /\ Chain(Dels(U), WithHints(U), Start)
<1>1. U \in SUBSET Ids  BY DEF TypeOK
<1> DEFINE Clause(j) == <<j, lits[j]>>
<1>2. \A j : Clause(j)[1] = j  OBVIOUS
<1>a. /\ Wanted = {Clause(j) : j \in {i \in names : full \/ i \in marked}}
      /\ WithHints(U) = Start \union {Clause(j) : j \in U \ marked}
  BY DEF Wanted, WantedIn, WithHints
<1> HIDE DEF Clause
<1>3. CASE full
  <2>1. Dels(U) = <<>> /\ <<>> \in Seq(Steps)  BY <1>3 DEF Dels
  <2>2. {Clause(j) : j \in U \ marked} \subseteq Wanted  BY <1>3, <1>a
  <2>3. WithHints(U) = Start  BY <1>a, <2>2 DEF Start
  <2> QED  BY <2>1, <2>3, StartType, ChainNothing
<1>4. CASE ~full
  <2>1. \A x \in Start : x[1] \notin U \ marked
    <3>1. \A x \in Wanted : x[1] \in marked  BY <1>2, <1>4, <1>a
    <3>2. \A x \in Delayed : x[1] \in Hoisted
      BY DelayedType DEF Apart, IdsOf
    <3> QED  BY <3>1, <3>2 DEF Start, Apart
  <2>2. Start = {x \in WithHints(U) : x[1] \notin U \ marked}
    BY <1>2, <1>a, <2>1
  <2>3. U \ marked \subseteq IdsOf(WithHints(U))
    BY <1>2, <1>a DEF IdsOf
  <2>4. WithHints(U) \in Known  BY HintsType
  <2> QED  BY <1>1, <1>4, <2>2, <2>3, <2>4, DelsChain
<1> QED  BY <1>3, <1>4

LEMMA StepsAreEntries == Seq(Steps) \subseteq Seq(Entries)
<1>1. Steps \subseteq Entries  BY DEF Entries
<1> QED  BY <1>1

(* So an entry e after those deletions extends the file.                    *)
LEMMA Extended ==
  ASSUME IInv, pc = "elab", NEW U \in SUBSET names, NEW e \in Steps,
         NEW Q \in Known, Step(Q, e, WithHints(U))
  PROVE  /\ temp \o Dels(U) \o <<e>> \in Seq(Steps)
         /\ CertOf(full, finalizedEmpty, temp \o Dels(U) \o <<e>>, Q)
<1>1. TypeOK /\ Apart /\ temp \in Seq(Steps) /\ temp \in Seq(Entries)  BY DEF IInv
<1>2. PICK R \in Known : /\ ~full => \A x \in R : x[2] = {}
                         /\ finalizedEmpty => \E x \in R : x[2] = {}
                         /\ Chain(temp, Start, R)
  BY DEF IInv, CertOf
<1>3. Dels(U) \in Seq(Steps) /\ Chain(Dels(U), WithHints(U), Start)  BY <1>1, HintsChain
<1> DEFINE f == temp \o Dels(U)
<1>4. f \in Seq(Steps) /\ Chain(f, WithHints(U), R)
  <2>1. Dels(U) \in Seq(Entries)  BY <1>3, StepsAreEntries
  <2>2. Chain(f, WithHints(U), R)  BY <1>1, <1>2, <1>3, <2>1, ChainBoth
  <2> QED  BY <1>1, <1>3, <2>2
<1> HIDE DEF f
<1>5. <<e>> \in Seq(Steps) /\ Chain(<<e>>, Q, WithHints(U))
  BY <1>1, HintsType, ChainOne
<1>6. f \o <<e>> \in Seq(Steps) /\ Chain(f \o <<e>>, Q, R)
  <2>1. f \in Seq(Entries) /\ <<e>> \in Seq(Entries)  BY <1>4, <1>5, StepsAreEntries
  <2>2. Chain(f \o <<e>>, Q, R)  BY <1>4, <1>5, <2>1, ChainBoth
  <2> QED  BY <1>4, <1>5, <2>2
<1> QED  BY <1>2, <1>6 DEF CertOf, f

(* Or an entry without hints.                                              *)
LEMMA ExtendedByOne ==
  ASSUME IInv, pc = "elab", NEW e \in Steps, NEW Q \in Known, Step(Q, e, Start)
  PROVE  /\ Append(temp, e) \in Seq(Steps)
         /\ CertOf(full, finalizedEmpty, Append(temp, e), Q)
<1>1. TypeOK /\ Apart /\ temp \in Seq(Steps) /\ temp \in Seq(Entries)  BY DEF IInv
<1>2. PICK R \in Known : /\ ~full => \A x \in R : x[2] = {}
                         /\ finalizedEmpty => \E x \in R : x[2] = {}
                         /\ Chain(temp, Start, R)
  BY DEF IInv, CertOf
<1>3. <<e>> \in Seq(Steps) /\ Chain(<<e>>, Q, Start)
  BY <1>1, StartType, ChainOne
<1>4. <<e>> \in Seq(Entries)  BY <1>3, StepsAreEntries
<1>5. Chain(temp \o <<e>>, Q, R)
  BY <1>1, <1>2, <1>3, <1>4, ChainBoth
<1>6. Append(temp, e) = temp \o <<e>> /\ Append(temp, e) \in Seq(Steps)  BY <1>1
<1> QED  BY <1>2, <1>5, <1>6 DEF CertOf

-----------------------------------------------------------------------------
(* The steps.                                                              *)

Ops == {"orig", "theoryOrig", "add", "imply", "theory", "reloc", "del"}

LEMMA EntryOps ==
  ASSUME NEW f \in Seq(Entries)
  PROVE  \A n \in DOMAIN f : f[n].op \in Ops
<1>1. \A e \in Entries : e.op \in Ops  BY EntryKinds DEF Ops
<1> QED  BY <1>1

LEMMA IdsOfBoth ==
  ASSUME NEW A, NEW B
  PROVE  IdsOf(A \union B) = IdsOf(A) \union IdsOf(B)
BY DEF IdsOf

(* A step that does not panic preserves IInv if it keeps the types of the    *)
(* context and the file readable.                                          *)
LEMMA Assemble ==
  ASSUME IInv, Reading, pc' = pc, ContextType',
         nonFinal' \in BOOLEAN, finalizedEmpty' \in BOOLEAN,
         theoryOrigs' \in {theoryOrigs, theoryOrigs + 1},
         temp' \in Seq(Steps), Apart', CertOf(full', finalizedEmpty', temp', Start')
  PROVE  IInv'
<1>1. steps' \in 0..MaxSteps /\ theoryOrigs' \in 0..MaxSteps /\ theoryOrigs' <= steps'
  BY StepsBound DEF IInv, TypeOK, Reading
<1>2. full' \in BOOLEAN /\ pc' \in {"elab", "done", "panic"}
  BY DEF IInv, TypeOK, Reading
<1>3. temp' \in Seq(Entries)  BY StepsAreEntries
<1>4. \A n \in DOMAIN temp' : temp'[n].op \in Ops  BY <1>3, EntryOps
<1>5. \A n \in DOMAIN origs' : origs'[n].op = "orig" /\ origs'[n].id \in Ids
  <2> SUFFICES ASSUME NEW n \in DOMAIN origs'
               PROVE  origs'[n].op = "orig" /\ origs'[n].id \in Ids
    OBVIOUS
  <2>1. origs' \in Seq(OrigEntries)  BY DEF Apart
  <2>2. origs'[n] \in OrigEntries  BY <2>1
  <2> QED  BY <2>2 DEF OrigEntries, OrigE
<1>6. TypeOK'
  BY <1>1, <1>2, <1>4, <1>5 DEF TypeOK, ContextType, Ops
<1> QED  BY <1>1, <1>3, <1>6 DEF IInv

LEMMA PanicInv ==
  ASSUME IInv, Reading, Panic
  PROVE  IInv'
<1>1. steps' \in 0..MaxSteps /\ theoryOrigs <= steps' /\ theoryOrigs \in 0..MaxSteps
  BY StepsBound DEF IInv, TypeOK, Reading
<1>2. UNCHANGED <<names, lits, marked, nonFinal, finalizedEmpty, origs, theoryOrigs, temp>>
      /\ full' = full /\ pc' = "panic"
  BY DEF Panic, Reading, context
<1>3. TypeOK'
  BY <1>1, <1>2 DEF IInv, TypeOK
<1> QED  BY <1>1, <1>2, <1>3 DEF IInv

(* What a step begins with.                                                *)
LEMMA Begins ==
  ASSUME IInv, Reading
  PROVE  /\ TypeOK /\ Apart /\ pc = "elab" /\ full' = full
         /\ temp \in Seq(Steps) /\ CertOf(full, finalizedEmpty, temp, Start)
         /\ names \in SUBSET Ids /\ marked \in SUBSET names
         /\ nonFinal \in BOOLEAN /\ finalizedEmpty \in BOOLEAN
BY DEF IInv, Reading, TypeOK

(* A step that leaves the delayed steps alone and adds no ID of theirs.      *)
LEMMA ApartKept ==
  ASSUME Apart, origs' = origs, names' \intersect Hoisted = {}
  PROVE  Apart' /\ Delayed' = Delayed
BY DEF Apart, Hoisted, Delayed

LEMMA OrigStep ==
  ASSUME IInv, NEW i \in Ids, NEW c \in Clauses, Orig(i, c)
  PROVE  IInv'
<1>0. Reading  BY DEF Orig
<1>1. /\ TypeOK /\ Apart /\ pc = "elab" /\ full' = full
      /\ temp \in Seq(Steps) /\ CertOf(full, finalizedEmpty, temp, Start)
      /\ names \in SUBSET Ids /\ marked \in SUBSET names /\ finalizedEmpty \in BOOLEAN
  BY <1>0, Begins
<1>2. CASE ~Introduces(i, c)  BY <1>0, <1>2, PanicInv DEF Orig
<1>3. CASE Introduces(i, c)
  <2>1. /\ RemoveClause(i, marked) /\ nonFinal' = TRUE
        /\ origs' = IF Needed(i) THEN Append(origs, OrigE(i, lits[i])) ELSE origs
        /\ pc' = pc /\ finalizedEmpty' = finalizedEmpty
        /\ theoryOrigs' = theoryOrigs /\ temp' = temp
    BY <1>3 DEF Orig
  <2>2. i \in names /\ lits[i] \in Clauses  BY <1>1, <1>3 DEF Introduces, TypeOK
  <2>4. names' = names \ {i}  BY <2>1 DEF RemoveClause
  <2>5. Wanted' = WantedIn(names \ {i}, marked)
    BY <1>1, <2>1, <2>2, WantedRemoved
  <2>6. ContextType'  BY <1>1, <2>1, <2>2, RemoveType
  <2>7. CASE ~Needed(i)
    <3>1. Wanted' = Wanted
      BY <2>5, <2>7 DEF Wanted, WantedIn, Needed
    <3>2. Apart' /\ Delayed' = Delayed
      BY <1>1, <2>1, <2>4, <2>7, ApartKept DEF Apart
    <3>3. Start' = Start  BY <3>1, <3>2 DEF Start
    <3> QED  BY <1>0, <1>1, <2>1, <2>6, <3>2, <3>3, Assemble
  <2>8. CASE Needed(i)
    <3> DEFINE e == OrigE(i, lits[i])
               N == Len(origs)
    <3>1. origs' = Append(origs, e)  BY <2>1, <2>8
    <3>2. e \in OrigEntries /\ e.id = i /\ e.lits = lits[i]
      BY <2>2 DEF OrigEntries, OrigE
    <3>3. origs \in Seq(OrigEntries) /\ N \in Nat /\ DOMAIN origs = 1..N
      BY <1>1 DEF Apart
    <3> HIDE DEF e
    <3>4. /\ origs' \in Seq(OrigEntries) /\ DOMAIN origs' = 1..N+1
          /\ origs'[N + 1] = e /\ \A n \in 1..N : origs'[n] = origs[n]
      BY <3>1, <3>2, <3>3
    <3>5. \A n \in 1..N : origs[n].id \in Hoisted /\ origs[n].id # i
      BY <1>1, <2>2, <3>3 DEF Apart, Hoisted
    <3>a. \A n \in 1..N+1 : n \in 1..N \/ n = N + 1  BY <3>3
    <3>b. (\A n \in 1..N : n \in 1..N+1) /\ N + 1 \in 1..N+1  BY <3>3
    <3>6. Hoisted' = Hoisted \union {i}
      <4>1. Hoisted' = {origs'[n].id : n \in 1..N+1}  BY <3>4 DEF Hoisted
      <4>2. Hoisted = {origs[n].id : n \in 1..N}  BY <3>3 DEF Hoisted
      <4> QED  BY <3>2, <3>4, <3>a, <3>b, <4>1, <4>2
    <3>7. Apart'
      <4>1. Hoisted' \intersect names' = {}  BY <1>1, <2>4, <3>6 DEF Apart
      <4>2. \A m, n \in 1..N : origs[m].id = origs[n].id => m = n
        BY <1>1, <3>3 DEF Apart
      <4>3. \A m, n \in 1..N+1 : origs'[m].id = origs'[n].id => m = n
        BY <3>2, <3>4, <3>5, <3>a, <4>2
      <4> QED  BY <3>4, <4>1, <4>3 DEF Apart
    <3>8. Delayed' = Delayed \union {<<i, lits[i]>>}
      <4>1. Delayed' = {<<origs'[n].id, origs'[n].lits>> : n \in 1..N+1}
        BY <3>4 DEF Delayed
      <4>2. Delayed = {<<origs[n].id, origs[n].lits>> : n \in 1..N}
        BY <3>3 DEF Delayed
      <4>3. <<e.id, e.lits>> = <<i, lits[i]>>  BY <3>2
      <4> QED  BY <3>4, <3>a, <3>b, <4>1, <4>2, <4>3
    <3>9. Wanted = Wanted' \union {<<i, lits[i]>>}
      BY <2>2, <2>5, <2>8 DEF Wanted, WantedIn, Needed
    <3>10. Start' = Start  BY <3>8, <3>9 DEF Start
    <3> QED  BY <1>0, <1>1, <2>1, <2>6, <3>7, <3>10, Assemble
  <2> QED  BY <2>7, <2>8
<1> QED  BY <1>2, <1>3

(* An entry that introduces clause i with the hints U.  Only an implied       *)
(* clause is written although nothing needs it.                             *)
LEMMA Written ==
  ASSUME IInv, pc = "elab", full' = full, NEW i \in names, NEW U \in SUBSET (names \ {i}),
         RemoveClause(i, marked \union U), origs' = origs, finalizedEmpty' = finalizedEmpty,
         NEW e \in Steps, e.op \in {"add", "imply"}, e.id = i, e.hints = U,
         e.op = "add" => /\ Needed(i) /\ e.lits = lits[i]
                         /\ e.oneHint => \E u \in U : U = {u} /\ lits[u] \subseteq lits[i],
         e.op = "imply" => e.lits \subseteq lits[i],
         temp' = temp \o Dels(U) \o <<e>>
  PROVE  /\ ContextType' /\ Apart' /\ temp' \in Seq(Steps)
         /\ CertOf(full', finalizedEmpty', temp', Start')
<1>1. TypeOK /\ Apart /\ names \in SUBSET Ids /\ marked \in SUBSET names
  BY DEF IInv, TypeOK
<1>2. ContextType'  BY <1>1, RemoveType
<1>3. names' = names \ {i}  BY DEF RemoveClause
<1>4. Apart' /\ Delayed' = Delayed  BY <1>1, <1>3, ApartKept DEF Apart
<1> DEFINE M == marked \union U
           N == names \ {i}
           Q == WantedIn(N, M) \union Delayed
           Clause(j) == <<j, lits[j]>>
<1>5. Start' = Q  BY <1>1, <1>4, WantedRemoved DEF Start
<1>6. /\ WantedIn(N, M) \in Known
      /\ IdsOf(WantedIn(N, M)) = {j \in N : full \/ j \in M}
  <2>1. N \in SUBSET names  OBVIOUS
  <2> HIDE DEF M, N
  <2> QED  BY <1>1, <2>1, WantedType
<1>7. Delayed \in Known /\ IdsOf(Delayed) = Hoisted  BY <1>1, DelayedType DEF Apart
<1>8. Q \in Known  BY <1>6, <1>7 DEF Known
<1>9. IdsOf(Q) = {j \in N : full \/ j \in M} \union Hoisted
  BY ONLY <1>6, <1>7, IdsOfBoth
<1>10. Cites(e) = U  BY DEF Cites
<1>11. U \subseteq IdsOf(Q) /\ i \notin IdsOf(Q)  BY <1>1, <1>9 DEF Apart
<1>12. WithHints(U) \in Known  BY <1>1, HintsType
<1>13. /\ WithHints(U) = {Clause(j) : j \in {n \in names : full \/ n \in marked}}
                           \union Delayed \union {Clause(j) : j \in U \ marked}
       /\ Q = {Clause(j) : j \in {n \in N : full \/ n \in M}} \union Delayed
  BY DEF WithHints, Start, Wanted, WantedIn
<1>14. \A j : Clause(j)[1] = j /\ Clause(j)[2] = lits[j]  OBVIOUS
<1> HIDE DEF Q, Clause
<1>15. Q \subseteq WithHints(U) /\ \A x \in WithHints(U) \ Q : x = Clause(i)
  BY <1>13
<1>16. Needed(i) => WithHints(U) = Q \union {Clause(i)}
  <2>1. Needed(i) => Clause(i) \in WithHints(U)  BY <1>13 DEF Needed
  <2> QED  BY <1>15, <2>1
<1>17. CASE e.op = "add"
  <2>1. Needed(i) /\ Clause(i) = <<e.id, e.lits>>  BY <1>17 DEF Clause
  <2>2. ASSUME e.oneHint
        PROVE  \E x \in Q : e.hints = {x[1]} /\ x[2] \subseteq e.lits
    <3>1. PICK u \in U : U = {u} /\ lits[u] \subseteq lits[i]  BY <1>17, <2>2
    <3>2. Clause(u) \in Q  BY <1>13, <3>1
    <3> QED  BY <1>14, <1>17, <3>1, <3>2
  <2>3. Step(Q, e, WithHints(U))
    BY <1>10, <1>11, <1>16, <1>17, <2>1, <2>2 DEF Step
  <2> QED  BY <1>2, <1>4, <1>5, <1>8, <2>3, Extended
<1>18. CASE e.op = "imply"
  <2>1. \A x \in WithHints(U) \ Q : x[1] = e.id /\ e.lits \subseteq x[2]
    BY <1>14, <1>15, <1>18
  <2>2. Step(Q, e, WithHints(U))
    BY <1>10, <1>11, <1>15, <1>18, <2>1 DEF Step
  <2> QED  BY <1>2, <1>4, <1>5, <1>8, <2>2, Extended
<1> QED  BY <1>17, <1>18

LEMMA AddInv ==
  ASSUME IInv, NEW i \in Ids, NEW c \in Clauses, NEW one \in BOOLEAN,
         NEW U \in SUBSET (names \ {i}), Add(i, c, U, one),
         one => \E u \in U : U = {u} /\ lits[u] \subseteq lits[i]
  PROVE  IInv'
<1>0. Reading  BY DEF Add
<1>1. /\ TypeOK /\ Apart /\ pc = "elab" /\ full' = full
      /\ temp \in Seq(Steps) /\ CertOf(full, finalizedEmpty, temp, Start)
      /\ names \in SUBSET Ids /\ marked \in SUBSET names /\ finalizedEmpty \in BOOLEAN
  BY <1>0, Begins
<1>2. CASE ~Introduces(i, c)  BY <1>0, <1>2, PanicInv DEF Add
<1>3. CASE Introduces(i, c)
  <2>1. /\ nonFinal' = TRUE /\ pc' = pc /\ finalizedEmpty' = finalizedEmpty
        /\ origs' = origs /\ theoryOrigs' = theoryOrigs
    BY <1>3 DEF Add
  <2>2. i \in names /\ lits[i] \in Clauses /\ U \in SUBSET Ids
    BY <1>1, <1>3 DEF Introduces, TypeOK
  <2>3. CASE Needed(i)
    <3> DEFINE e == AddE(i, lits[i], U, one)
    <3>1. RemoveClause(i, marked \union U) /\ temp' = temp \o Dels(U) \o <<e>>
      BY <1>3, <2>3 DEF Add
    <3>2. e \in Steps  BY <2>2, EntryTypes
    <3>3. e.op = "add" /\ e.id = i /\ e.hints = U /\ e.lits = lits[i] /\ e.oneHint = one
      BY DEF AddE
    <3> HIDE DEF e
    <3>4. /\ ContextType' /\ Apart' /\ temp' \in Seq(Steps)
          /\ CertOf(full', finalizedEmpty', temp', Start')
      BY <1>1, <2>1, <2>2, <2>3, <3>1, <3>2, <3>3, Written
    <3> QED  BY <1>0, <1>1, <2>1, <3>4, Assemble
  <2>4. CASE ~Needed(i)
    <3>1. RemoveClause(i, marked) /\ temp' = temp  BY <1>3, <2>4 DEF Add
    <3>2. ContextType'  BY <1>1, <2>2, <3>1, RemoveType
    <3>3. Wanted' = Wanted
      BY <1>1, <2>2, <2>4, <3>1, WantedRemoved DEF Wanted, WantedIn, Needed
    <3>4. Apart' /\ Delayed' = Delayed
      BY <1>1, <2>1, <3>1, ApartKept DEF Apart, RemoveClause
    <3>5. Start' = Start  BY <3>3, <3>4 DEF Start
    <3> QED  BY <1>0, <1>1, <2>1, <3>1, <3>2, <3>4, <3>5, Assemble
  <2> QED  BY <2>3, <2>4
<1> QED  BY <1>2, <1>3

LEMMA ImplyInv ==
  ASSUME IInv, NEW i \in Ids, NEW c \in Clauses, NEW U \in SUBSET Ids,
         ImplyClause(i, c, U)
  PROVE  IInv'
<1>0. Reading  BY DEF ImplyClause
<1>1. /\ TypeOK /\ pc = "elab" /\ full' = full
      /\ nonFinal \in BOOLEAN /\ finalizedEmpty \in BOOLEAN
  BY <1>0, Begins
<1>2. CASE ~(Introduces(i, c) /\ U \subseteq names \ {i})
  BY <1>0, <1>2, PanicInv DEF ImplyClause
<1>3. CASE Introduces(i, c) /\ U \subseteq names \ {i}
  <2> DEFINE e == ImplyE(i, c, U)
  <2>1. /\ RemoveClause(i, marked \union U) /\ temp' = temp \o Dels(U) \o <<e>>
        /\ nonFinal' = nonFinal /\ pc' = pc /\ finalizedEmpty' = finalizedEmpty
        /\ origs' = origs /\ theoryOrigs' = theoryOrigs
    BY <1>3 DEF ImplyClause
  <2>2. i \in names /\ c \subseteq lits[i]  BY <1>3 DEF Introduces
  <2>3. e \in Steps  BY EntryTypes
  <2>4. e.op = "imply" /\ e.id = i /\ e.hints = U /\ e.lits = c  BY DEF ImplyE
  <2> HIDE DEF e
  <2>5. /\ ContextType' /\ Apart' /\ temp' \in Seq(Steps)
        /\ CertOf(full', finalizedEmpty', temp', Start')
    BY <1>1, <1>3, <2>1, <2>2, <2>3, <2>4, Written
  <2> QED  BY <1>0, <1>1, <2>1, <2>5, Assemble
<1> QED  BY <1>2, <1>3

(* What the steps that leave clauses and delayed orig steps alone keep.      *)
LEMMA ContextKept ==
  ASSUME IInv, pc = "elab", UNCHANGED <<names, lits, origs>>,
         marked \subseteq marked', marked' \subseteq names
  PROVE  ContextType' /\ Apart' /\ Delayed' = Delayed
<1>1. TypeOK /\ Apart  BY DEF IInv
<1>2. ContextType'  BY <1>1 DEF TypeOK, ContextType
<1>3. names' \intersect Hoisted = {}  BY <1>1 DEF Apart
<1> QED  BY <1>1, <1>2, <1>3, ApartKept

LEMMA TheoryInv ==
  ASSUME IInv, NEW U \in SUBSET Ids, Theory(U)
  PROVE  IInv'
<1>0. Reading  BY DEF Theory
<1>1. /\ TypeOK /\ Apart /\ pc = "elab" /\ full' = full
      /\ temp \in Seq(Steps) /\ CertOf(full, finalizedEmpty, temp, Start)
      /\ names \in SUBSET Ids /\ marked \in SUBSET names
      /\ nonFinal \in BOOLEAN /\ finalizedEmpty \in BOOLEAN
  BY <1>0, Begins
<1>2. CASE ~(U \subseteq names)  BY <1>0, <1>2, PanicInv DEF Theory
<1>3. CASE U \subseteq names
  <2> DEFINE e == TheoryE(U)
  <2>1. /\ marked' = marked \union U /\ temp' = temp \o Dels(U) \o <<e>>
        /\ UNCHANGED <<pc, names, lits, nonFinal, finalizedEmpty, origs, theoryOrigs>>
    BY <1>3 DEF Theory
  <2>3. ContextType' /\ Apart' /\ Delayed' = Delayed
    BY <1>1, <1>3, <2>1, ContextKept
  <2>4. Start' = WithHints(U)
    <3>1. Wanted' = {<<j, lits[j]>> : j \in {i \in names : full \/ i \in marked \union U}}
      BY <1>1, <2>1 DEF Wanted, WantedIn
    <3>2. Wanted = {<<j, lits[j]>> : j \in {i \in names : full \/ i \in marked}}
      BY DEF Wanted, WantedIn
    <3>3. Wanted' = Wanted \union {<<j, lits[j]>> : j \in U \ marked}
      BY <1>3, <3>1, <3>2
    <3> QED  BY <2>3, <3>3 DEF Start, WithHints
  <2>5. Step(WithHints(U), e, WithHints(U))
    <3>1. e.op = "theory" /\ Cites(e) = U  BY DEF Cites, TheoryE
    <3>2. U \subseteq IdsOf(WithHints(U))
      <4> DEFINE Clause(j) == <<j, lits[j]>>
      <4>1. \A j : Clause(j)[1] = j  OBVIOUS
      <4>2. /\ Wanted = {Clause(j) : j \in {i \in names : full \/ i \in marked}}
            /\ WithHints(U) = Start \union {Clause(j) : j \in U \ marked}
        BY DEF Wanted, WantedIn, WithHints
      <4> HIDE DEF Clause
      <4>3. \A u \in U : Clause(u) \in WithHints(U)  BY <1>3, <4>2 DEF Start
      <4> QED  BY <4>1, <4>3 DEF IdsOf
    <3> HIDE DEF e
    <3> QED  BY <3>1, <3>2 DEF Step
  <2>6. e \in Steps  BY EntryTypes
  <2>7. WithHints(U) \in Known  BY <1>1, <1>3, HintsType
  <2> HIDE DEF e
  <2>8. temp' \in Seq(Steps) /\ CertOf(full, finalizedEmpty, temp', WithHints(U))
    BY <1>1, <1>3, <2>1, <2>5, <2>6, <2>7, Extended
  <2> QED  BY <1>0, <1>1, <2>1, <2>3, <2>4, <2>8, Assemble
<1> QED  BY <1>2, <1>3

LEMMA TheoryOrigInv ==
  ASSUME IInv, TheoryOrig \/ TheoryFinal
  PROVE  IInv'
<1>0. Reading  BY DEF TheoryOrig, TheoryFinal
<1>1. /\ TypeOK /\ Apart /\ pc = "elab" /\ full' = full
      /\ temp \in Seq(Steps) /\ CertOf(full, finalizedEmpty, temp, Start)
      /\ marked \in SUBSET names /\ nonFinal \in BOOLEAN /\ finalizedEmpty \in BOOLEAN
  BY <1>0, Begins
<1>2. CASE TheoryFinal /\ nonFinal
  BY <1>0, <1>2, PanicInv DEF TheoryFinal
<1>3. CASE TheoryOrig \/ ~nonFinal
  <2>1. /\ UNCHANGED <<pc, names, lits, marked, nonFinal, finalizedEmpty, origs, temp>>
        /\ theoryOrigs' \in {theoryOrigs, theoryOrigs + 1}
    BY <1>3 DEF TheoryOrig, TheoryFinal, context
  <2>3. ContextType' /\ Apart' /\ Delayed' = Delayed
    BY <1>1, <2>1, ContextKept
  <2>4. Start' = Start  BY <1>1, <2>1, <2>3 DEF Start, Wanted, WantedIn
  <2> QED  BY <1>0, <1>1, <2>1, <2>3, <2>4, Assemble
<1> QED  BY <1>2, <1>3

LEMMA Inserted ==
  ASSUME TypeOK, full' = full, NEW i \in Ids, i \notin names, NEW c \in Clauses,
         NEW mark \in BOOLEAN, InsertClause(i, c, mark)
  PROVE  Wanted' = Wanted \union {x \in {<<i, c>>} : full \/ mark}
<1>1. i \notin marked /\ marked \subseteq names /\ names \subseteq Ids
  BY DEF TypeOK
<1>2. /\ names' = names \union {i} /\ lits' = [lits EXCEPT ![i] = c]
      /\ marked' = IF mark THEN marked \union {i} ELSE marked
  BY DEF InsertClause
<1>3. (\A j \in names : lits'[j] = lits[j]) /\ lits'[i] = c  BY <1>1, <1>2 DEF TypeOK
<1>4. /\ \A j \in names : j \in marked' <=> j \in marked
      /\ i \in marked' <=> mark
  BY <1>1, <1>2
<1>5. Wanted' = {<<j, lits'[j]>> : j \in {n \in names' : full \/ n \in marked'}}
  BY DEF Wanted, WantedIn
<1>6. Wanted = {<<j, lits[j]>> : j \in {n \in names : full \/ n \in marked}}
  BY DEF Wanted, WantedIn
<1>7. {n \in names' : full \/ n \in marked'}
        = {n \in names : full \/ n \in marked} \union {n \in {i} : full \/ mark}
  BY <1>2, <1>4
<1> QED  BY <1>3, <1>5, <1>6, <1>7

LEMMA DelInv ==
  ASSUME IInv, NEW i \in Ids \ Hoisted, NEW c \in Clauses, Del(i, c)
  PROVE  IInv'
<1>0. Reading  BY DEF Del
<1>1. /\ TypeOK /\ Apart /\ pc = "elab" /\ full' = full
      /\ temp \in Seq(Steps) /\ CertOf(full, finalizedEmpty, temp, Start)
      /\ finalizedEmpty \in BOOLEAN
  BY <1>0, Begins
<1>2. CASE i \in names  BY <1>0, <1>2, PanicInv DEF Del
<1>3. CASE i \notin names
  <2>1. /\ InsertClause(i, c, FALSE) /\ nonFinal' = TRUE
        /\ temp' = IF full THEN Append(temp, DelE(i)) ELSE temp
        /\ UNCHANGED <<pc, finalizedEmpty, origs, theoryOrigs>>
    BY <1>3 DEF Del
  <2>3. ContextType'  BY <1>1, <2>1, InsertType
  <2>4. Apart' /\ Delayed' = Delayed
    BY <1>1, <2>1, ApartKept DEF Apart, InsertClause
  <2>5. Wanted' = Wanted \union {x \in {<<i, c>>} : full}
    <3>1. FALSE \in BOOLEAN  OBVIOUS
    <3>2. Wanted' = Wanted \union {x \in {<<i, c>>} : full \/ FALSE}
      BY <1>1, <1>3, <2>1, <3>1, Inserted
    <3> QED  BY <3>2
  <2>6. CASE ~full
    <3>1. Start' = Start  BY <2>4, <2>5, <2>6 DEF Start
    <3> QED  BY <1>0, <1>1, <2>1, <2>3, <2>4, <2>6, <3>1, Assemble
  <2>7. CASE full
    <3> DEFINE e == DelE(i)
               Q == Start \union {<<i, c>>}
    <3>1. Start' = Q  BY <2>4, <2>5, <2>7 DEF Start
    <3>2. <<i, c>> \in Ids \X Clauses /\ <<i, c>>[1] = i  OBVIOUS
    <3>3. Q \in Known  BY <1>1, <3>2, StartType DEF Known
    <3>4. Step(Q, e, Start)
      <4>1. \A x \in Start : x[1] # i
        <5>1. IdsOf(Wanted) \subseteq names /\ IdsOf(Delayed) = Hoisted
          BY <1>1, WantedType, DelayedType DEF Wanted, Apart
        <5>2. \A x \in Wanted : x[1] \in names  BY <5>1 DEF IdsOf
        <5>3. \A x \in Delayed : x[1] \in Hoisted  BY <5>1 DEF IdsOf
        <5> QED  BY <1>3, <5>2, <5>3 DEF Start
      <4>2. Start = {x \in Q : x[1] # i}  BY <3>2, <4>1
      <4>3. i \in IdsOf(Q)  BY <3>2 DEF IdsOf
      <4>4. e.op = "del" /\ e.id = i /\ Cites(e) = {i}  BY DEF DelE, Cites
      <4> HIDE DEF Q, e
      <4> QED  BY <4>2, <4>3, <4>4 DEF Step
    <3>5. e \in Steps  BY EntryTypes
    <3> HIDE DEF e, Q
    <3>6. temp' = Append(temp, e)  BY <2>1, <2>7 DEF e
    <3>7. temp' \in Seq(Steps) /\ CertOf(full, finalizedEmpty, temp', Q)
      BY <1>1, <3>3, <3>4, <3>5, <3>6, ExtendedByOne
    <3> QED  BY <1>0, <1>1, <2>1, <2>3, <2>4, <3>1, <3>7, Assemble
  <2> QED  BY <2>6, <2>7
<1> QED  BY <1>2, <1>3

(* Before the first entry is written, any clause may stay with --full, and    *)
(* without it only the empty clause is marked.                              *)
LEMMA FinalInv ==
  ASSUME IInv, NEW i \in Ids \ Hoisted, NEW c \in Clauses, temp = <<>>, Final(i, c)
  PROVE  IInv'
<1>0. Reading  BY DEF Final
<1>1. /\ TypeOK /\ Apart /\ pc = "elab" /\ full' = full
      /\ temp \in Seq(Steps) /\ CertOf(full, finalizedEmpty, temp, Start)
      /\ nonFinal \in BOOLEAN /\ finalizedEmpty \in BOOLEAN
  BY <1>0, Begins
<1>2. CASE nonFinal \/ i \in names  BY <1>0, <1>2, PanicInv DEF Final
<1>3. CASE ~nonFinal /\ i \notin names
  <2>1. /\ InsertClause(i, c, c = {})
        /\ finalizedEmpty' = (finalizedEmpty \/ c = {})
        /\ UNCHANGED <<pc, nonFinal, origs, theoryOrigs, temp>>
    BY <1>3 DEF Final
  <2>3. ContextType'  BY <1>1, <2>1, InsertType
  <2>4. Apart' /\ Delayed' = Delayed
    BY <1>1, <2>1, ApartKept DEF Apart, InsertClause
  <2> DEFINE new == {x \in {<<i, c>>} : full \/ c = {}}
             Q == Start \union new
  <2>5. Start' = Q
    <3>1. Wanted' = Wanted \union new
      <4> DEFINE mark == c = {}
      <4>1. mark \in BOOLEAN /\ InsertClause(i, c, mark)  BY <2>1
      <4> HIDE DEF mark
      <4>2. Wanted' = Wanted \union {x \in {<<i, c>>} : full \/ mark}
        BY <1>1, <1>3, <4>1, Inserted
      <4> QED  BY <4>2 DEF mark
    <3> QED  BY <2>4, <3>1 DEF Start
  <2>6. PICK R \in Known : /\ ~full => \A x \in R : x[2] = {}
                           /\ finalizedEmpty => \E x \in R : x[2] = {}
                           /\ Chain(temp, Start, R)
    BY <1>1 DEF CertOf
  <2>7. R = Start
    <3>1. Len(temp) = 0  OBVIOUS
    <3> QED  BY <2>6, <3>1 DEF Chain
  <2>8. Q \in Known  BY <2>6, <2>7 DEF Known
  <2>9. <<i, c>>[2] = c  OBVIOUS
  <2>10. ~full => \A x \in Q : x[2] = {}  BY <2>6, <2>7, <2>9
  <2>11. finalizedEmpty' => \E x \in Q : x[2] = {}
    <3>1. CASE finalizedEmpty  BY <2>6, <2>7, <3>1
    <3>2. CASE c = {}
      <4>1. <<i, c>> \in Q  BY <3>2
      <4> QED  BY <2>9, <3>2, <4>1
    <3> QED  BY <2>1, <3>1, <3>2
  <2>12. Chain(temp', Q, Q)  BY <2>1, <2>8, ChainNothing
  <2> HIDE DEF Q
  <2>13. CertOf(full', finalizedEmpty', temp', Start')
    BY <1>1, <2>5, <2>8, <2>10, <2>11, <2>12 DEF CertOf
  <2>14. finalizedEmpty' \in BOOLEAN  BY <2>1
  <2> QED  BY <1>0, <1>1, <2>1, <2>3, <2>4, <2>13, <2>14, Assemble
<1> QED  BY <1>2, <1>3

(* Membership in Wanted.                                                   *)
LEMMA InWanted ==
  /\ \A j \in names : Needed(j) => <<j, lits[j]>> \in Wanted
  /\ \A x \in Wanted : x[1] \in names /\ Needed(x[1]) /\ x = <<x[1], lits[x[1]]>>
BY DEF Wanted, WantedIn, Needed

(* What a relocation does to the clauses: those of kept move, the others     *)
(* stay.                                                                   *)
LEMMA RelocMoves ==
  ASSUME TypeOK, NEW src \in Relocations, Reloc(src), pc' # "panic"
  PROVE  LET kept == Restrict(src, DOMAIN src \intersect names)
             stay == names \ DOMAIN kept
         IN
         /\ DOMAIN kept = DOMAIN src \intersect names
         /\ kept \in Sources /\ IsInjective(kept) /\ Range(kept) \intersect Hoisted = {}
         /\ Range(kept) \intersect stay = {}
         /\ names' = stay \union Range(kept)
         /\ \A y \in DOMAIN kept : /\ kept[y] \in Range(kept)
                                   /\ lits'[kept[y]] = lits[y]
                                   /\ kept[y] \in marked' <=> y \in marked
         /\ \A y \in stay : lits'[y] = lits[y] /\ (y \in marked' <=> y \in marked)
         /\ temp' = IF DOMAIN kept = {} THEN temp ELSE Append(temp, RelocE(kept))
         /\ ContextType'
         /\ UNCHANGED <<pc, nonFinal, finalizedEmpty, origs, theoryOrigs>>
<1> DEFINE kept == Restrict(src, DOMAIN src \intersect names)
           stay == names \ DOMAIN kept
           back(x) == CHOOSE y \in DOMAIN kept : kept[y] = x
<1>1. PICK D \in SUBSET Ids : src \in [D -> Ids \ Hoisted]  BY DEF Relocations
<1>2. /\ DOMAIN kept = DOMAIN src \intersect names
      /\ kept \in [D \intersect names -> Ids \ Hoisted]
      /\ DOMAIN kept \subseteq names
  BY <1>1 DEF Restrict
<1>3. kept \in Sources
  <2>1. D \intersect names \in SUBSET Ids  BY <1>1
  <2>2. kept \in [D \intersect names -> Ids]  BY <1>2
  <2> HIDE DEF kept
  <2> QED  BY <2>1, <2>2 DEF Sources
<1>4. /\ IsInjective(kept) /\ Range(kept) \intersect stay = {}
      /\ names' = stay \union Range(kept)
      /\ lits' = [x \in Ids |-> IF x \in Range(kept) THEN lits[back(x)]
                                ELSE IF x \in stay THEN lits[x] ELSE {}]
      /\ marked' = {x \in names' : IF x \in Range(kept) THEN back(x) \in marked
                                   ELSE x \in marked}
      /\ temp' = IF DOMAIN kept = {} THEN temp ELSE Append(temp, RelocE(kept))
      /\ UNCHANGED <<pc, nonFinal, finalizedEmpty, origs, theoryOrigs>>
  BY DEF Reloc, Panic
<1>5. names \subseteq Ids /\ lits \in [Ids -> Clauses]  BY DEF TypeOK
<1> HIDE DEF kept
<1>6. Range(kept) \subseteq Ids \ Hoisted  BY <1>2 DEF Range
<1>7. \A x \in Range(kept) : back(x) \in DOMAIN kept /\ kept[back(x)] = x
  BY DEF Range
<1>8. \A y \in DOMAIN kept : kept[y] \in Range(kept) /\ back(kept[y]) = y
  BY <1>4, <1>7 DEF Range, IsInjective
<1> HIDE DEF back, stay
<1>9. ASSUME NEW y \in DOMAIN kept
      PROVE  /\ kept[y] \in Range(kept) /\ lits'[kept[y]] = lits[y]
             /\ kept[y] \in marked' <=> y \in marked
  <2>1. kept[y] \in Range(kept) /\ back(kept[y]) = y  BY <1>8
  <2>2. kept[y] \in Ids /\ kept[y] \in names'  BY <1>4, <1>6, <2>1
  <2> QED  BY <1>4, <2>1, <2>2
<1>10. ASSUME NEW y \in stay
       PROVE  lits'[y] = lits[y] /\ (y \in marked' <=> y \in marked)
  <2>1. y \in Ids /\ y \in names' /\ y \notin Range(kept)  BY <1>4, <1>5 DEF stay
  <2> QED  BY <1>4, <2>1
<1>11. ContextType'
  <2>1. names' \subseteq Ids  BY <1>4, <1>5, <1>6 DEF stay
  <2>2. \A x \in Range(kept) : lits[back(x)] \in Clauses
    BY <1>2, <1>5, <1>7
  <2>3. {} \in Clauses  BY DEF Clauses
  <2>4. lits' \in [Ids -> Clauses]  BY <1>4, <1>5, <2>2, <2>3
  <2>5. \A x \in Ids \ names' : lits'[x] = {}  BY <1>4
  <2>6. marked' \subseteq names'  BY <1>4
  <2> QED  BY <2>1, <2>4, <2>5, <2>6 DEF ContextType
<1>12. Range(kept) \intersect Hoisted = {}  BY <1>6
<1> QED  BY <1>2, <1>3, <1>4, <1>9, <1>10, <1>11, <1>12 DEF kept, stay

(* The context after kept was applied: the clauses in it N, their literals C, *)
(* those marked M, and what is wanted P.                                    *)
MovedTo(kept, N, C, M, P) ==
  /\ IsInjective(kept) /\ DOMAIN kept \subseteq names /\ DOMAIN kept # {}
  /\ Range(kept) \intersect Hoisted = {}
  /\ Range(kept) \intersect (names \ DOMAIN kept) = {}
  /\ N = (names \ DOMAIN kept) \union Range(kept)
  /\ \A y \in DOMAIN kept : /\ kept[y] \in Range(kept) /\ C[kept[y]] = lits[y]
                            /\ (full \/ kept[y] \in M) <=> Needed(y)
  /\ \A y \in names \ DOMAIN kept : /\ C[y] = lits[y]
                                    /\ (full \/ y \in M) <=> Needed(y)
  /\ \A j \in N : (full \/ j \in M) => <<j, C[j]>> \in P
  /\ \A x \in P : /\ x[1] \in N /\ (full \/ x[1] \in M)
                  /\ x = <<x[1], C[x[1]]>>

(* Reading the entry moves them the other way.                              *)
LEMMA RelocRead ==
  ASSUME NEW kept \in Sources, names \subseteq Ids, names \intersect Hoisted = {},
         lits \in [Ids -> Clauses],
         NEW N, NEW C, NEW M, NEW P, MovedTo(kept, N, C, M, P),
         \A x \in Delayed : x[1] \in Hoisted
  PROVE  Step(P \union Delayed, RelocE(kept), Start)
<1> DEFINE e == RelocE(kept)
           D == DOMAIN kept
           G == Range(kept)
           stay == names \ D
           Q == P \union Delayed
           there == {x \in Q : x[1] \notin G}
           moved == {z \in D \X Clauses : <<kept[z[1]], z[2]>> \in Q}
<1>1. e.op = "reloc" /\ e.src = kept /\ Cites(e) = {}  BY DEF RelocE, Cites
<1>2. /\ D \subseteq names /\ D # {} /\ G \intersect Hoisted = {} /\ G \intersect stay = {}
      /\ N = stay \union G /\ IsInjective(kept)
      /\ \A y \in D : /\ kept[y] \in G /\ C[kept[y]] = lits[y]
                      /\ (full \/ kept[y] \in M) <=> Needed(y)
      /\ \A y \in stay : C[y] = lits[y] /\ ((full \/ y \in M) <=> Needed(y))
      /\ \A j \in N : (full \/ j \in M) => <<j, C[j]>> \in P
      /\ \A x \in P : /\ x[1] \in N /\ (full \/ x[1] \in M)
                      /\ x = <<x[1], C[x[1]]>>
  BY DEF MovedTo
<1> HIDE DEF e, D, G
<1>3. \A x \in Q : x[1] \notin D \ G  BY <1>2
<1>4. ASSUME NEW x \in Wanted PROVE x \in there \union moved
  <2> DEFINE j == x[1]
  <2>1. j \in names /\ Needed(j) /\ x = <<j, lits[j]>>  BY InWanted
  <2> HIDE DEF j
  <2>2. CASE j \in D
    <3>1. <<kept[j], C[kept[j]]>> \in P  BY <1>2, <2>1, <2>2
    <3>2. lits[j] \in Clauses  BY <2>1
    <3>3. <<kept[j], lits[j]>> \in Q  BY <1>2, <2>2, <3>1
    <3>4. <<j, lits[j]>> \in moved  BY <2>2, <3>2, <3>3
    <3> HIDE DEF moved
    <3> QED  BY <2>1, <3>4
  <2>3. CASE j \in stay
    <3>1. <<j, C[j]>> \in P  BY <1>2, <2>1, <2>3
    <3>2. x \in Q /\ x[1] \notin G  BY <1>2, <2>1, <2>3, <3>1
    <3> QED  BY <3>2
  <2> QED  BY <2>1, <2>2, <2>3
<1>5. \A x \in Delayed : x \in there  BY <1>2
<1>6. ASSUME NEW x \in there PROVE x \in Start
  <2>1. CASE x \in Delayed  BY <2>1 DEF Start
  <2>2. CASE x \in P
    <3>1. x[1] \in stay  BY <1>2, <1>6, <2>2
    <3>2. Needed(x[1]) /\ x = <<x[1], lits[x[1]]>>  BY <1>2, <2>2, <3>1
    <3> QED  BY <3>1, <3>2, InWanted DEF Start
  <2> QED  BY <1>6, <2>1, <2>2
<1>7. ASSUME NEW z \in moved PROVE z \in Start
  <2> DEFINE y == z[1]
             u == <<kept[y], z[2]>>
  <2>1. y \in D /\ z = <<y, z[2]>> /\ u \in Q  BY <1>7
  <2>2. u[1] = kept[y] /\ u[2] = z[2]  OBVIOUS
  <2> HIDE DEF y, u
  <2>3. u \in P  BY <1>2, <2>1, <2>2
  <2>4. (full \/ u[1] \in M) /\ u = <<u[1], C[u[1]]>>  BY <1>2, <2>3
  <2>5. u[2] = C[u[1]]  BY <2>4
  <2>6. Needed(y) /\ z = <<y, lits[y]>>  BY <1>2, <2>1, <2>2, <2>4, <2>5
  <2> QED  BY <1>2, <2>1, <2>6, InWanted DEF Start
<1>8. Start = there \union moved
  <2> HIDE DEF there, moved
  <2> QED  BY <1>4, <1>5, <1>6, <1>7 DEF Start
<1>9. /\ IsInjective(e.src) /\ DOMAIN e.src # {}
      /\ \A x \in Q : x[1] \notin DOMAIN e.src \ Range(e.src)
      /\ Start = {x \in Q : x[1] \notin Range(e.src)}
                   \union {z \in (DOMAIN e.src) \X Clauses : <<e.src[z[1]], z[2]>> \in Q}
  BY <1>1, <1>2, <1>3, <1>8 DEF D, G
<1> HIDE DEF Q
<1>10. Step(Q, e, Start)  BY <1>1, <1>9 DEF Step
<1> QED  BY <1>10 DEF Q, e

LEMMA RelocInv ==
  ASSUME IInv, NEW src \in Relocations, Reloc(src)
  PROVE  IInv'
<1>0. Reading  BY DEF Reloc
<1>1. /\ TypeOK /\ Apart /\ pc = "elab" /\ full' = full
      /\ temp \in Seq(Steps) /\ CertOf(full, finalizedEmpty, temp, Start)
      /\ nonFinal \in BOOLEAN /\ finalizedEmpty \in BOOLEAN
  BY <1>0, Begins
<1>2. CASE pc' = "panic"
  <2>1. Panic  BY <1>1, <1>2 DEF Reloc
  <2> QED  BY <1>0, <1>1, <2>1, PanicInv
<1>3. CASE pc' # "panic"
  <2> DEFINE kept == Restrict(src, DOMAIN src \intersect names)
             D == DOMAIN kept
             G == Range(kept)
             stay == names \ D
             e == RelocE(kept)
  <2>1. /\ D \subseteq names /\ kept \in Sources /\ IsInjective(kept)
        /\ G \intersect Hoisted = {} /\ G \intersect stay = {}
        /\ names' = stay \union G
        /\ temp' = IF D = {} THEN temp ELSE Append(temp, e)
        /\ ContextType'
        /\ UNCHANGED <<pc, nonFinal, finalizedEmpty, origs, theoryOrigs>>
    BY <1>1, <1>3, RelocMoves
  <2>2. \A y \in D : /\ kept[y] \in G /\ lits'[kept[y]] = lits[y]
                     /\ (full \/ kept[y] \in marked') <=> Needed(y)
    <3>1. \A y \in D : /\ kept[y] \in G /\ lits'[kept[y]] = lits[y]
                       /\ kept[y] \in marked' <=> y \in marked
      BY <1>1, <1>3, RelocMoves
    <3> HIDE DEF kept
    <3> QED  BY <3>1 DEF Needed
  <2>3. \A y \in stay : lits'[y] = lits[y] /\ ((full \/ y \in marked') <=> Needed(y))
    BY <1>1, <1>3, RelocMoves DEF Needed
  <2>4. \A x \in G : \E y \in D : x = kept[y]  BY DEF Range
  <2> HIDE DEF kept
  <2>5. names \subseteq Ids /\ lits \in [Ids -> Clauses] /\ names \intersect Hoisted = {}
    BY <1>1 DEF TypeOK, Apart
  <2>6. Apart' /\ Delayed' = Delayed  BY <1>1, <2>1, <2>5, ApartKept
  <2>7. /\ \A j \in names' : (full \/ j \in marked') => <<j, lits'[j]>> \in Wanted'
        /\ \A x \in Wanted' : /\ x[1] \in names' /\ (full \/ x[1] \in marked')
                              /\ x = <<x[1], lits'[x[1]]>>
    BY <1>1 DEF Wanted, WantedIn
  <2>8. CASE D = {}
    <3>1. stay = names /\ names' = names  BY <2>1, <2>4, <2>8
    <3>2. Wanted' = Wanted
      <4>1. Wanted' \subseteq Wanted  BY <2>3, <2>7, <3>1, InWanted
      <4>2. Wanted \subseteq Wanted'  BY <2>3, <2>7, <3>1, InWanted
      <4> QED  BY <4>1, <4>2
    <3>3. Start' = Start  BY <2>6, <3>2 DEF Start
    <3> QED  BY <1>0, <1>1, <2>1, <2>6, <2>8, <3>3, Assemble
  <2>9. CASE D # {}
    <3> DEFINE Q == Wanted' \union Delayed
    <3>1. Start' = Q  BY <2>6 DEF Start
    <3>2. Q \in Known
      <4>1. \A j \in names' : <<j, lits'[j]>> \in Ids \X Clauses
        BY <2>1 DEF ContextType
      <4>2. Wanted' \in Known  BY <2>7, <4>1 DEF Known
      <4> QED  BY <1>1, <4>2, DelayedType DEF Apart, Known
    <3>3. \A x \in Delayed : x[1] \in Hoisted
      BY <1>1, DelayedType DEF Apart, IdsOf
    <3>4. Step(Q, e, Start)
      <4>1. MovedTo(kept, names', lits', marked', Wanted')
        BY <2>1, <2>2, <2>3, <2>7, <2>9 DEF MovedTo
      <4> QED  BY <2>1, <2>5, <3>3, <4>1, RelocRead
    <3>5. e \in Steps  BY <2>1, EntryTypes
    <3>6. temp' \in Seq(Steps) /\ CertOf(full, finalizedEmpty, temp', Q)
      <4>1. temp' = Append(temp, e)  BY <2>1, <2>9
      <4> HIDE DEF e, Q
      <4> QED  BY <1>1, <3>2, <3>4, <3>5, <4>1, ExtendedByOne
    <3> QED  BY <1>0, <1>1, <2>1, <2>6, <3>1, <3>6, Assemble
  <2> QED  BY <2>8, <2>9
<1> QED  BY <1>2, <1>3

(* The delayed steps, written last and read first, lead to Start.           *)
LEMMA FileRead ==
  ASSUME IInv, pc # "panic"
  PROVE  /\ File \in Seq(Entries)
         /\ CertOf(full, finalizedEmpty, File, Wanted)
<1>1. TypeOK /\ Apart /\ temp \in Seq(Entries)  BY DEF IInv
<1>2. PICK R \in Known : /\ ~full => \A x \in R : x[2] = {}
                         /\ finalizedEmpty => \E x \in R : x[2] = {}
                         /\ Chain(temp, Start, R)
  BY DEF IInv, CertOf
<1>3. origs \in Seq(Entries) /\ Chain(origs, Wanted, Start)
  BY <1>1, OrigsChain DEF Start
<1>4. temp \o origs \in Seq(Entries) /\ Chain(temp \o origs, Wanted, R)
  BY <1>1, <1>2, <1>3, ChainBoth
<1> QED  BY <1>2, <1>4 DEF CertOf, File

LEMMA StartOfFileInv ==
  ASSUME IInv, StartOfFile
  PROVE  IInv'
<1> DEFINE f == [n \in 1..theoryOrigs |-> TheoryOrigE]
<1>1. /\ pc = "elab" /\ pc' \in {"done", "panic"} /\ temp' = temp \o origs \o f
      /\ origs' = <<>> /\ theoryOrigs' = 0
      /\ UNCHANGED <<full, names, lits, marked, nonFinal, finalizedEmpty, steps>>
  BY DEF StartOfFile, context
<1>2. TypeOK /\ theoryOrigs \in Nat /\ steps \in Nat
  BY StepsBound DEF IInv, TypeOK
<1>3. PICK R \in Known : /\ ~full => \A x \in R : x[2] = {}
                         /\ finalizedEmpty => \E x \in R : x[2] = {}
                         /\ File \in Seq(Entries) /\ Chain(File, Wanted, R)
  BY <1>1, FileRead DEF CertOf
<1>4. Wanted \in Known  BY <1>2, WantedType DEF Wanted
<1>5. f \in Seq(Entries) /\ Chain(f, Wanted, Wanted)
  BY <1>2, <1>4, TheoryOrigsChain
<1> HIDE DEF f
<1>6. File \o f \in Seq(Entries) /\ Chain(File \o f, Wanted, R)
  BY <1>3, <1>5, ChainBoth
<1>7. temp' = File \o f  BY <1>1 DEF File
<1>8. Wanted' = Wanted  BY <1>1 DEF Wanted, WantedIn
<1>9. Apart' /\ Delayed' = {}  BY <1>1 DEF Apart, Hoisted, Delayed
<1>10. Start' = Wanted  BY <1>8, <1>9 DEF Start
<1>11. CertOf(full', finalizedEmpty', temp', Start')
  BY <1>1, <1>3, <1>6, <1>7, <1>10 DEF CertOf
<1>12. temp' \in Seq(Entries)  BY <1>6, <1>7
<1>13. \A n \in DOMAIN temp' : temp'[n].op \in Ops  BY <1>12, EntryOps
<1>14. theoryOrigs' \in 0..MaxSteps /\ theoryOrigs' <= steps'
  BY <1>1, <1>2, StepsBound
<1>15. DOMAIN origs' = {}  BY <1>1
<1>16. TypeOK'  BY <1>1, <1>2, <1>13, <1>14, <1>15 DEF TypeOK, Ops
<1> QED  BY <1>1, <1>9, <1>11, <1>12, <1>14, <1>16 DEF IInv

LEMMA InitInv ==
  ASSUME Init
  PROVE  IInv
<1>1. temp = <<>> /\ origs = <<>> /\ names = {} /\ marked = {} /\ pc = "elab"
      /\ theoryOrigs = 0 /\ steps = 0 /\ finalizedEmpty = FALSE
  BY DEF Init
<1>2. DOMAIN temp = {} /\ DOMAIN origs = {} /\ temp \in Seq(Entries) /\ temp \in Seq(Steps)
  BY <1>1
<1>3. TypeOK
  <2>1. full \in BOOLEAN /\ nonFinal \in BOOLEAN /\ finalizedEmpty \in BOOLEAN
    BY StepsBound DEF Init
  <2>2. {} \in Clauses  BY DEF Clauses
  <2>3. lits \in [Ids -> Clauses] /\ \A i \in Ids : lits[i] = {}
    BY <2>2 DEF Init
  <2>4. 0 \in 0..MaxSteps  BY StepsBound
  <2> QED  BY <1>1, <1>2, <2>1, <2>3, <2>4 DEF TypeOK
<1>4. Apart
  <2>1. origs \in Seq(OrigEntries)  BY <1>1
  <2> QED  BY <1>1, <1>2, <2>1 DEF Apart
<1>5. Start = {}  BY <1>1, <1>2 DEF Start, Wanted, WantedIn, Delayed
<1>6. {} \in Known  BY DEF Known
<1>7. CertOf(full, finalizedEmpty, temp, Start)
  BY <1>1, <1>5, <1>6, ChainNothing DEF CertOf
<1> QED  BY <1>1, <1>2, <1>3, <1>4, <1>7 DEF IInv

LEMMA NextInv ==
  ASSUME IInv, [Next]_vars
  PROVE  IInv'
<1>1. ASSUME NEW i \in Ids, NEW c \in Clauses, Orig(i, c) PROVE IInv'
  BY <1>1, OrigStep
<1>2. ASSUME AddStep PROVE IInv'
  <2>1. PICK i \in Ids, c \in Clauses :
          \/ \E U \in SUBSET (names \ {i}) : Add(i, c, U, FALSE)
          \/ \E u \in names \ {i} : lits[u] \subseteq lits[i] /\ Add(i, c, {u}, TRUE)
    BY <1>2 DEF AddStep
  <2>2. CASE \E U \in SUBSET (names \ {i}) : Add(i, c, U, FALSE)
    <3>1. FALSE \in BOOLEAN  OBVIOUS
    <3> QED  BY <2>2, <3>1, AddInv
  <2>3. ASSUME NEW u \in names \ {i}, lits[u] \subseteq lits[i], Add(i, c, {u}, TRUE)
        PROVE  IInv'
    <3>1. {u} \in SUBSET (names \ {i}) /\ TRUE \in BOOLEAN  OBVIOUS
    <3>2. \E v \in {u} : {u} = {v} /\ lits[v] \subseteq lits[i]  BY <2>3
    <3> QED  BY <2>3, <3>1, <3>2, AddInv
  <2> QED  BY <2>1, <2>2, <2>3
<1>3. ASSUME NEW i \in Ids, NEW c \in Clauses, Stuck(i, c) PROVE IInv'
  BY <1>3, PanicInv DEF Stuck
<1>4. ASSUME NEW src \in Relocations, Reloc(src) PROVE IInv'
  BY <1>4, RelocInv
<1>5. ASSUME NEW i \in Ids \ Hoisted, NEW c \in Clauses, Del(i, c) PROVE IInv'
  BY <1>5, DelInv
<1>6. ASSUME NEW i \in Ids \ Hoisted, NEW c \in Clauses, temp = <<>>, Final(i, c)
      PROVE IInv'
  BY <1>6, FinalInv
<1>7. ASSUME TheoryOrig \/ TheoryFinal PROVE IInv'
  BY <1>7, TheoryOrigInv
<1>8. ASSUME NEW U \in SUBSET Ids, Theory(U) PROVE IInv'
  BY <1>8, TheoryInv
<1>9. ASSUME NEW i \in Ids, NEW c \in Clauses, NEW U \in SUBSET Ids, ImplyClause(i, c, U)
      PROVE IInv'
  BY <1>9, ImplyInv
<1>10. ASSUME NoProof PROVE IInv'  BY <1>10, PanicInv DEF NoProof
<1>11. ASSUME StartOfFile PROVE IInv'  BY <1>11, StartOfFileInv
<1>12. ASSUME UNCHANGED vars PROVE IInv'
  <2>1. /\ UNCHANGED <<pc, full, names, lits, marked, nonFinal, finalizedEmpty, origs,
                       theoryOrigs, temp, steps>>
    BY <1>12 DEF vars
  <2>2. TypeOK'  BY <2>1 DEF IInv, TypeOK
  <2>3. Apart' <=> Apart  BY <2>1 DEF Apart, Hoisted
  <2>4. Start' = Start  BY <2>1 DEF Start, Wanted, WantedIn, Delayed
  <2> QED  BY <2>1, <2>2, <2>3, <2>4 DEF IInv
<1> QED  BY <1>1, <1>2, <1>3, <1>4, <1>5, <1>6, <1>7, <1>8, <1>9, <1>10, <1>11, <1>12
         DEF Next

-----------------------------------------------------------------------------
(* The results.                                                            *)

(* The inductive invariant of elab(): types, the delayed orig steps apart    *)
(* from the rest, and the file readable from its beginning.                 *)
THEOREM Invariance == Spec => []IInv
<1> QED  BY InitInv, NextInv, PTL DEF Spec

(* elab() stays within its types; what is marked is in the context.          *)
THEOREM TypeCorrect == Spec => []TypeOK
<1>1. IInv => TypeOK  BY DEF IInv
<1> QED  BY <1>1, Invariance, PTL

(* Whatever proof elab() is given and whatever hints propagation finds, the   *)
(* temporary file reads back: hints and deletions name live clauses, and no   *)
(* clause takes the ID of one that is still owed its deletion.              *)
THEOREM ReadsBack == Spec => []Readable
<1>1. IInv => Readable
  <2> SUFFICES ASSUME IInv, pc # "panic"
               PROVE  \A n \in 1..Len(File) :
                        /\ Cites(Entry(n)) \subseteq IdsOf(LiveAfter[n - 1])
                        /\ \A x \in Replaces(LiveAfter[n - 1], Entry(n)) : x[2] = "spare"
    BY DEF Readable
  <2>1. TypeOK  BY DEF IInv
  <2>2. File \in Seq(Entries) /\ \E R : Chain(File, Wanted, R)
    BY FileRead DEF CertOf
  <2> QED  BY <2>1, <2>2, ChainReads
<1> QED  BY <1>1, Invariance, PTL

(* Without --full nothing that is written stays behind: every clause but the  *)
(* empty and the implied ones is deleted again.                             *)
THEOREM NothingStaysOwed == Spec => []NothingOwed
<1>1. IInv => NothingOwed
  <2> SUFFICES ASSUME IInv, pc # "panic", ~full
               PROVE  \A x \in LiveAfter[Len(File)] : x[2] = "spare"
    BY DEF NothingOwed
  <2>1. TypeOK  BY DEF IInv
  <2>2. File \in Seq(Entries)  BY FileRead
  <2>3. PICK R \in Known : (\A x \in R : x[2] = {}) /\ Chain(File, Wanted, R)
    BY FileRead DEF CertOf
  <2>4. /\ LiveAfter[Len(File)] \in States
        /\ Covers(LiveAfter[Len(File)], R)
    BY <2>1, <2>2, <2>3, ChainReads
  <2>5. \A x \in LiveAfter[Len(File)] : x[2] # "owed"
    BY <2>3, <2>4 DEF Covers
  <2>6. \A x \in LiveAfter[Len(File)] : x[2] \in {"owed", "spare"}
    BY <2>4 DEF States
  <2> QED  BY <2>5, <2>6
<1> QED  BY <1>1, Invariance, PTL
=============================================================================
