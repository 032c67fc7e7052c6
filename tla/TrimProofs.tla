----------------------------- MODULE TrimProofs -----------------------------
(***************************************************************************)
(* Proofs about Trim for every set of IDs, every formula and every width of *)
(* the reference counter: first names and counts, then, on top of that       *)
(* invariant, what the clauses that a checker holds are to the clauses that  *)
(* the proof knows.                                                        *)
(***************************************************************************)
EXTENDS Trim, FiniteSetTheorems, TLAPS

(* The IDs that a renaming m sends to output ID j.                         *)
RefsOf(m, j) == {x \in Ids : m[x] = j}

(* The IDs whose entry a reloc step puts another one in place of.          *)
Overwritten(src) == {x \in DOMAIN src \ Range(src) : Named(src[x])}

(* The references to an output ID are finitely many, since IDs are.         *)
LEMMA RefsFinite ==
  ASSUME NEW m, NEW j
  PROVE  /\ IsFiniteSet(RefsOf(m, j))
         /\ Cardinality(RefsOf(m, j)) \in Nat
         /\ RefsOf(m, j) = {} <=> Cardinality(RefsOf(m, j)) = 0
<1>1. RefsOf(m, j) \in SUBSET Ids  BY DEF RefsOf
<1>2. IsFiniteSet(RefsOf(m, j))  BY <1>1, IdsFinite, FS_Subset
<1> QED  BY <1>2, FS_CardinalityType, FS_EmptySet

(* A reloc step keeps the number of references of every output ID, but for  *)
(* the entries it overwrites: swaps and chains of moves included.          *)
LEMMA RefsAfterReloc ==
  ASSUME map \in [Ids -> 0..MaxK], NEW src \in Relocations, NEW j \in Outs
  PROVE  Cardinality(RefsOf(Moved(map, src, 0), j))
           = Cardinality(RefsOf(map, j) \ Overwritten(src))
<1> DEFINE n == Moved(map, src, 0)
           S == RefsOf(map, j) \ Overwritten(src)
           T == RefsOf(n, j)
           to(i) == IF i \in Range(src) THEN CHOOSE x \in DOMAIN src : src[x] = i ELSE i
           g == [i \in S |-> to(i)]
<1>0. j # 0 /\ j \in Nat  BY DEF Outs
<1>1. /\ DOMAIN src \subseteq Ids
      /\ \A x \in DOMAIN src : src[x] \in Ids
      /\ \A x, y \in DOMAIN src : src[x] = src[y] => x = y
  BY DEF Relocations, IsInjective
<1>2. \A i \in Range(src) : to(i) \in DOMAIN src /\ src[to(i)] = i
  BY DEF Range
<1>3. \A i \in S : i \in Ids /\ map[i] = j /\ Named(i)
  BY <1>0 DEF RefsOf, Named
<1>4. \A x \in Ids : n[x] = IF x \in DOMAIN src /\ Named(src[x]) THEN map[src[x]]
                            ELSE IF x \in Range(src) THEN 0 ELSE map[x]
  BY DEF Moved
<1>5. \A i \in S : g[i] \in T
  <2> SUFFICES ASSUME NEW i \in S PROVE to(i) \in Ids /\ n[to(i)] = j
    BY DEF RefsOf
  <2>1. CASE i \in Range(src)
    BY <1>1, <1>2, <1>3, <1>4, <2>1
  <2>2. CASE i \notin Range(src)
    <3>1. to(i) = i /\ i \notin Overwritten(src)  BY <2>2
    <3>2. ~(i \in DOMAIN src /\ Named(src[i]))  BY <2>2, <3>1 DEF Overwritten
    <3> QED  BY <1>3, <1>4, <2>2, <3>1, <3>2
  <2> QED  BY <2>1, <2>2
<1>6. \A i1, i2 \in S : g[i1] = g[i2] => i1 = i2
  <2> SUFFICES ASSUME NEW i1 \in S, NEW i2 \in S, to(i1) = to(i2) PROVE i1 = i2
    OBVIOUS
  <2>1. \A h, i \in S : h \in Range(src) /\ i \notin Range(src) => to(h) # to(i)
    <3> SUFFICES ASSUME NEW h \in S, NEW i \in S, h \in Range(src), i \notin Range(src),
                        to(h) = to(i)
                 PROVE  FALSE
      OBVIOUS
    <3>1. i \in DOMAIN src /\ Named(src[i])  BY <1>2, <1>3
    <3>2. i \in Overwritten(src)  BY <3>1 DEF Overwritten
    <3> QED  BY <3>2
  <2>2. CASE i1 \in Range(src) /\ i2 \in Range(src)  BY <1>2, <2>2
  <2>3. CASE i1 \notin Range(src) /\ i2 \notin Range(src)  BY <2>3
  <2> QED  BY <2>1, <2>2, <2>3
<1>7. \A y \in T : \E i \in S : g[i] = y
  <2> SUFFICES ASSUME NEW y \in T PROVE \E i \in S : to(i) = y
    OBVIOUS
  <2>0. y \in Ids /\ n[y] = j  BY DEF RefsOf
  <2>1. CASE y \in DOMAIN src /\ Named(src[y])
    <3>1. src[y] \in Range(src)  BY <2>1 DEF Range
    <3>2. src[y] \in S  BY <1>1, <1>4, <2>0, <2>1, <3>1 DEF RefsOf, Overwritten
    <3>3. to(src[y]) = y  BY <1>1, <1>2, <2>1, <3>1
    <3> QED  BY <3>2, <3>3
  <2>2. CASE ~(y \in DOMAIN src /\ Named(src[y]))
    <3>1. y \notin Range(src) /\ map[y] = j  BY <1>0, <1>4, <2>0, <2>2
    <3>2. y \in S  BY <2>0, <2>2, <3>1 DEF RefsOf, Overwritten
    <3> QED  BY <3>1, <3>2
  <2> QED  BY <2>1, <2>2
<1>8. ExistsBijection(S, T)
  <2> HIDE DEF to, S, T
  <2>1. g \in [S -> T]  BY <1>5
  <2>2. g \in Bijection(S, T)
    BY <1>6, <1>7, <2>1 DEF Bijection, Injection, Surjection, IsInjective
  <2> QED  BY <2>2 DEF ExistsBijection
<1>9. IsFiniteSet(S)
  BY RefsFinite, FS_Subset, S \in SUBSET RefsOf(map, j)
<1> HIDE DEF S, T
<1>10. Cardinality(T) = Cardinality(S)  BY <1>8, <1>9, FS_Bijection
<1> QED  BY <1>10 DEF S, T
-----------------------------------------------------------------------------
(* The formula is shorter than the bound on output IDs, so there is room    *)
(* for the line an empty orig step writes.                                 *)
LEMMA Bounds ==
  /\ Len(Cnf) \in Nat /\ MaxK \in Nat /\ Len(Cnf) + 1 \in Outs
  /\ Origs \subseteq Outs
  /\ RefMax \in Nat /\ RefMax > 1
  /\ \A j \in Origs : Cnf[j] \in Clauses
BY CnfClauses, Counters DEF Origs, Outs, Clauses

(* IInv in terms of the numbers of references before and after a step.     *)
LEMMA Numbers ==
  /\ \A j : Refs(j) = RefsOf(map, j) /\ Refs(j)' = RefsOf(map', j)
  /\ \A j : /\ Cardinality(Refs(j)) \in Nat
            /\ Cardinality(Refs(j)') \in Nat
            /\ Refs(j) = {} <=> Cardinality(Refs(j)) = 0
            /\ Refs(j)' = {} <=> Cardinality(Refs(j)') = 0
<1>1. \A j : Refs(j) = RefsOf(map, j) /\ Refs(j)' = RefsOf(map', j)
  BY DEF Refs, RefsOf
<1> QED  BY <1>1, RefsFinite

(* Giving one ID a new entry moves one reference from the old to the new    *)
(* output ID: HashMap::insert and HashMap::remove on map.                  *)
LEMMA InsertNumbers ==
  ASSUME map \in [Ids -> 0..MaxK], NEW i \in Ids, NEW v \in 0..MaxK,
         map' = [map EXCEPT ![i] = v], NEW h \in Outs
  PROVE  /\ map[i] = h /\ v = h => Cardinality(Refs(h)') = Cardinality(Refs(h))
         /\ map[i] = h /\ v # h => Cardinality(Refs(h)') = Cardinality(Refs(h)) - 1
         /\ map[i] # h /\ v = h => Cardinality(Refs(h)') = Cardinality(Refs(h)) + 1
         /\ map[i] # h /\ v # h => Cardinality(Refs(h)') = Cardinality(Refs(h))
<1>1. Refs(h)' = IF v = h THEN Refs(h) \union {i} ELSE Refs(h) \ {i}
  BY DEF Refs
<1>2. i \in Refs(h) <=> map[i] = h  BY DEF Refs
<1>3. IsFiniteSet(Refs(h))  BY RefsFinite, Numbers
<1>4. CASE v = h
  <2>1. Refs(h)' = Refs(h) \union {i}  BY <1>1, <1>4
  <2> QED  BY <1>2, <1>3, <1>4, <2>1, FS_AddElement
<1>5. CASE v # h
  <2>1. Refs(h)' = Refs(h) \ {i}  BY <1>1, <1>5
  <2> QED  BY <1>2, <1>3, <1>5, <2>1, FS_RemoveElement
<1> QED  BY <1>4, <1>5

(* The invariant holds before the first step.                              *)
LEMMA InitInv == Init => IInv
<1> SUFFICES ASSUME Init PROVE IInv
  OBVIOUS
<1> USE DEF Init
<1>1. TypeOK  BY Bounds DEF TypeOK, Clauses, Origs, Outs
<1>2. \A j \in Outs : Refs(j) = {}  BY DEF Refs, Outs
<1>3. \A j \in Outs : Cardinality(Refs(j)) = 0 /\ copies[j] = 0
  BY <1>2, FS_EmptySet
<1>4. RefCounts
  BY <1>2, <1>3, Bounds DEF RefCounts, OrigCounts, DerivedCounts
<1>5. HeaderState /\ MappedLive /\ Accepted
  BY DEF HeaderState, MappedLive, Accepted, Named
<1> QED  BY <1>1, <1>4, <1>5 DEF IInv

(* A panic changes nothing but the phase.                                  *)
LEMMA PanicInv ==
  ASSUME IInv, Panic
  PROVE  IInv'
<1> USE DEF Panic
<1>1. TypeOK'  BY DEF IInv, TypeOK
<1>2. \A j : Refs(j)' = Refs(j)  BY DEF Refs
<1>3. RefCounts'
  BY <1>2 DEF IInv, RefCounts, OrigCounts, DerivedCounts
<1>4. HeaderState' /\ MappedLive' /\ Accepted'
  BY DEF IInv, HeaderState, MappedLive, Accepted, Named
<1> QED  BY <1>1, <1>3, <1>4 DEF IInv

(* An orig step found in the formula: one more reference, one more use     *)
(* unless the counter is saturated.                                        *)
LEMMA OrigInv ==
  ASSUME IInv, NEW i \in Ids, NEW c \in Clauses, phase = "origs", OrigFound(i, c)
  PROVE  IInv'
<1>1. PICK j \in Origs :
        /\ usedOrigs' = [usedOrigs EXCEPT ![j] = SaturatingInc(@)]
        /\ map' = [map EXCEPT ![i] = j]
        /\ claim' = [claim EXCEPT ![i] = c]
        /\ IF c = {}
           THEN /\ phase' = "done"
                /\ db' = db \union {k + 1}
                /\ content' = [content EXCEPT ![k + 1] = {}]
                /\ accepted' = (accepted /\ j \in db)
           ELSE UNCHANGED <<phase, db, content, accepted>>
        /\ UNCHANGED <<k, copies>>
  BY DEF OrigFound, Position, Matches
<1>2. TypeOK /\ HeaderState /\ MappedLive /\ accepted = TRUE /\ map[i] = 0
  BY DEF IInv, OrigFound, Named, Accepted, TypeOK
<1>3. k = Len(Cnf) /\ Origs \subseteq db  BY <1>2 DEF HeaderState
<1>4. TypeOK'
  <2>1. usedOrigs' \in [Origs -> 0..RefMax]
    <3>1. usedOrigs[j] \in 0..RefMax  BY <1>2 DEF TypeOK
    <3>2. SaturatingInc(usedOrigs[j]) \in 0..RefMax
      BY <3>1, Bounds DEF SaturatingInc
    <3> QED  BY <1>1, <1>2, <3>2 DEF TypeOK
  <2>2. map' \in [Ids -> 0..MaxK]  BY <1>1, <1>2, Bounds DEF TypeOK, Outs
  <2>3. /\ db' \in SUBSET Outs
        /\ content' \in [Outs -> Clauses]
        /\ phase' \in {"origs", "steps", "done", "panic"}
    BY <1>1, <1>2, <1>3, Bounds DEF TypeOK, Clauses
  <2>4. claim' \in [Ids -> Clauses] /\ accepted' \in BOOLEAN
    BY <1>1, <1>2, <1>3 DEF TypeOK
  <2> QED  BY <1>1, <1>2, <2>1, <2>2, <2>3, <2>4 DEF TypeOK
<1>5. j \in 0..MaxK /\ j # 0 /\ j \in Outs
  BY Bounds DEF Outs
<1>6. \A h \in Outs : Cardinality(Refs(h)') =
        IF h = j THEN Cardinality(Refs(h)) + 1 ELSE Cardinality(Refs(h))
  <2> SUFFICES ASSUME NEW h \in Outs
               PROVE  Cardinality(Refs(h)') =
                        IF h = j THEN Cardinality(Refs(h)) + 1 ELSE Cardinality(Refs(h))
    OBVIOUS
  <2>1. h # 0 /\ map \in [Ids -> 0..MaxK]  BY <1>2 DEF Outs, TypeOK
  <2> QED  BY <1>1, <1>2, <1>5, <2>1, InsertNumbers
<1>7. OrigCounts'
  <2> SUFFICES ASSUME NEW h \in Origs
               PROVE  /\ usedOrigs'[h] < RefMax =>
                           Cardinality(Refs(h)') = usedOrigs'[h] + copies'[h]
                      /\ usedOrigs'[h] = 0 => copies'[h] = 0
    BY DEF OrigCounts
  <2>1. /\ usedOrigs[h] < RefMax => Cardinality(Refs(h)) = usedOrigs[h] + copies[h]
        /\ usedOrigs[h] = 0 => copies[h] = 0
        /\ copies'[h] = copies[h] /\ copies[h] \in Nat
        /\ usedOrigs[h] \in 0..RefMax
    BY <1>1, <1>2, Bounds DEF IInv, RefCounts, OrigCounts, TypeOK
  <2>2. usedOrigs'[h] = IF h = j THEN SaturatingInc(usedOrigs[h]) ELSE usedOrigs[h]
    BY <1>1, <1>2 DEF TypeOK
  <2>3. Cardinality(Refs(h)') =
          IF h = j THEN Cardinality(Refs(h)) + 1 ELSE Cardinality(Refs(h))
    BY <1>6, Bounds
  <2> QED  BY <2>1, <2>2, <2>3, Numbers, Bounds DEF SaturatingInc
<1>8. DerivedCounts'
  BY <1>1, <1>2, <1>6, Numbers, Bounds DEF IInv, RefCounts, DerivedCounts
<1>9. MappedLive'
  BY <1>1, <1>2, <1>3, Bounds DEF MappedLive, Named, TypeOK
<1>10. HeaderState' /\ Accepted'
  BY <1>1, <1>2, <1>3 DEF HeaderState, Accepted
<1> QED  BY <1>4, <1>7, <1>8, <1>9, <1>10 DEF IInv, RefCounts
(* The end of the header deletes only originals that no ID refers to.      *)
LEMMA EndOrigsInv ==
  ASSUME IInv, EndOrigs
  PROVE  IInv'
<1> USE DEF EndOrigs
<1>1. TypeOK'  BY DEF IInv, TypeOK
<1>2. \A j : Refs(j)' = Refs(j)  BY DEF Refs
<1>3. RefCounts'
  BY <1>2 DEF IInv, RefCounts, OrigCounts, DerivedCounts
<1>4. MappedLive'
  <2> SUFFICES ASSUME NEW i \in Ids, Named(i)' PROVE map[i] \in db'
    BY DEF MappedLive
  <2>1. map[i] \in db /\ map[i] \in Outs
    BY DEF IInv, MappedLive, Named, TypeOK, Outs
  <2>2. CASE map[i] \in Origs
    <3> DEFINE j == map[i]
    <3>1. i \in Refs(j)  BY DEF Refs
    <3>2. Cardinality(Refs(j)) # 0  BY <3>1, Numbers
    <3>3. /\ usedOrigs[j] < RefMax => Cardinality(Refs(j)) = usedOrigs[j] + copies[j]
          /\ usedOrigs[j] = 0 => copies[j] = 0
          /\ usedOrigs[j] \in Nat
      BY <2>2, Bounds DEF IInv, RefCounts, OrigCounts, TypeOK
    <3>4. usedOrigs[j] > 0  BY <3>2, <3>3, Bounds
    <3> QED  BY <2>1, <3>4
  <2> QED  BY <2>1, <2>2
<1>5. HeaderState' /\ Accepted'
  BY DEF IInv, HeaderState, Accepted
<1> QED  BY <1>1, <1>3, <1>4, <1>5 DEF IInv

(* An entry that a definition may overwrite is the only name of a derived   *)
(* clause that was never copied.                                           *)
LEMMA ReplaceableEntry ==
  ASSUME IInv, NEW i \in Ids, Replaceable(i), NEW h \in Outs, map[i] = h
  PROVE  /\ h \in Outs \ Origs
         /\ copies[h] = 0
         /\ Cardinality(Refs(h)) = 1
         /\ Refs(h) = {i}
<1>1. h \in Outs \ Origs /\ copies[h] = 0
  BY DEF Replaceable, Named, Outs
<1>2. i \in Refs(h)  BY DEF Refs
<1>3. Cardinality(Refs(h)) = 1
  BY <1>1, <1>2 DEF IInv, RefCounts, DerivedCounts
<1>4. IsFiniteSet(Refs(h))  BY Numbers, RefsFinite
<1>5. \E x : Refs(h) = {x}  BY <1>3, <1>4, FS_Singleton
<1> QED  BY <1>1, <1>2, <1>3, <1>5

(* A written line: the new ID refers to a new output ID, and the hints were *)
(* live.                                                                   *)
LEMMA DeriveInv ==
  ASSUME IInv, NEW i \in Ids, NEW c \in Clauses, NEW U \in SUBSET (Ids \ {i}),
         phase = "steps", Replaceable(i), Derive(i, c, U)
  PROVE  IInv'
<1>1. CASE ~(\A u \in U : u = i \/ Named(u))
  <2>1. Panic  BY <1>1 DEF Derive
  <2> QED  BY <2>1, PanicInv
<1>2. CASE \A u \in U : u = i \/ Named(u)
  <2>1. /\ k < MaxK
        /\ k' = k + 1
        /\ map' = [map EXCEPT ![i] = k + 1]
        /\ claim' = [claim EXCEPT ![i] = c]
        /\ content' = [content EXCEPT ![k + 1] = c]
        /\ accepted' = (accepted /\ i \notin U /\ \A u \in U : map[u] \in db)
        /\ db' = db \union {k + 1}
        /\ phase' = IF c = {} THEN "done" ELSE phase
        /\ UNCHANGED <<copies, usedOrigs>>
    BY <1>2 DEF Derive
  <2>2. TypeOK /\ MappedLive /\ accepted = TRUE
    BY DEF IInv, Accepted
  <2>3. k + 1 \in Outs \ Origs /\ k + 1 \in 0..MaxK /\ k \in Nat
    BY <2>1, <2>2, Bounds DEF TypeOK, Outs, Origs
  <2>4. TypeOK'
    BY <2>1, <2>2, <2>3, Bounds DEF TypeOK
  <2>5. /\ Refs(k + 1) = {}
        /\ Cardinality(Refs(k + 1)) = 0
        /\ copies[k + 1] = 0
        /\ map[i] # k + 1
    <3>1. Refs(k + 1) = {}
      BY <2>3 DEF IInv, RefCounts, DerivedCounts
    <3>2. copies[k + 1] = 0
      BY <2>3, <3>1 DEF IInv, RefCounts, DerivedCounts
    <3> QED  BY <3>1, <3>2, Numbers DEF Refs
  <2>6. \A h \in Outs : map[i] = h =>
          /\ h \notin Origs /\ copies[h] = 0
          /\ Cardinality(Refs(h)') = 0
    <3> SUFFICES ASSUME NEW h \in Outs, map[i] = h
                 PROVE  /\ h \notin Origs /\ copies[h] = 0
                        /\ Cardinality(Refs(h)') = 0
      OBVIOUS
    <3>1. /\ h \notin Origs /\ copies[h] = 0 /\ Cardinality(Refs(h)) = 1
      BY ReplaceableEntry
    <3>2. Cardinality(Refs(h)') = Cardinality(Refs(h)) - 1
      BY <2>1, <2>2, <2>3, <2>5, InsertNumbers DEF TypeOK
    <3> QED  BY <3>1, <3>2
  <2>7. \A h \in Outs : map[i] # h =>
          Cardinality(Refs(h)') = IF h = k + 1 THEN 1 ELSE Cardinality(Refs(h))
    <3> SUFFICES ASSUME NEW h \in Outs, map[i] # h
                 PROVE  Cardinality(Refs(h)') =
                          IF h = k + 1 THEN 1 ELSE Cardinality(Refs(h))
      OBVIOUS
    <3>1. map \in [Ids -> 0..MaxK]  BY <2>2 DEF TypeOK
    <3>2. CASE h = k + 1
      <4>1. Cardinality(Refs(h)') = Cardinality(Refs(h)) + 1
        BY <2>1, <2>3, <3>1, <3>2, InsertNumbers
      <4>2. Cardinality(Refs(h)) = 0  BY <2>5, <3>2
      <4> QED  BY <3>2, <4>1, <4>2
    <3>3. CASE h # k + 1
      <4>1. Cardinality(Refs(h)') = Cardinality(Refs(h))
        BY <2>1, <2>3, <3>1, <3>3, InsertNumbers
      <4> QED  BY <3>3, <4>1
    <3> QED  BY <3>2, <3>3
  <2>8. OrigCounts'
    BY <2>1, <2>3, <2>6, <2>7, Bounds DEF IInv, RefCounts, OrigCounts
  <2>9. DerivedCounts'
    <3> SUFFICES ASSUME NEW h \in Outs \ Origs
                 PROVE  /\ Refs(h)' = {} => copies[h] = 0
                        /\ Refs(h)' # {} =>
                             h <= k + 1 /\ Cardinality(Refs(h)') = copies[h] + 1
      BY <2>1 DEF DerivedCounts
    <3>0. h \in Nat /\ k + 1 \in Nat  BY <2>3 DEF Outs
    <3>1. CASE map[i] = h  BY <2>6, <3>1, Numbers
    <3>2. CASE h = k + 1  BY <2>5, <2>7, <3>0, <3>2, Numbers
    <3>3. CASE map[i] # h /\ h # k + 1
      <4>1. Cardinality(Refs(h)') = Cardinality(Refs(h))  BY <2>7, <3>3
      <4>2. /\ Refs(h) = {} => copies[h] = 0
            /\ Refs(h) # {} => h <= k /\ Cardinality(Refs(h)) = copies[h] + 1
        BY DEF IInv, RefCounts, DerivedCounts
      <4> QED  BY <2>3, <3>0, <4>1, <4>2, Numbers
    <3> QED  BY <3>1, <3>2, <3>3
  <2>10. MappedLive'
    BY <2>1, <2>2, <2>3 DEF MappedLive, Named, TypeOK
  <2>11. HeaderState' /\ Accepted'
    BY <1>2, <2>1, <2>2 DEF HeaderState, Accepted, MappedLive
  <2> QED  BY <2>4, <2>8, <2>9, <2>10, <2>11 DEF IInv, RefCounts
<1> QED  BY <1>1, <1>2
(* A shared output ID: one more name and one more copy.                    *)
LEMMA ShareInv ==
  ASSUME IInv, NEW i \in Ids, NEW c \in Clauses, NEW u \in Ids,
         phase = "steps", Replaceable(i), u # i, Share(i, c, u)
  PROVE  IInv'
<1>1. CASE ~Named(u)
  <2>1. Panic  BY <1>1 DEF Share
  <2> QED  BY <2>1, PanicInv
<1>2. CASE Named(u)
  <2> DEFINE j == map[u]
  <2>1. /\ map' = [map EXCEPT ![i] = j]
        /\ claim' = [claim EXCEPT ![i] = c]
        /\ copies' = [copies EXCEPT ![j] = @ + 1]
        /\ UNCHANGED <<phase, k, usedOrigs, db, content, accepted>>
    BY <1>2 DEF Share
  <2>2. TypeOK /\ MappedLive
    BY DEF IInv
  <2>3. j \in Outs /\ j \in 0..MaxK /\ j \in db
    BY <1>2, <2>2 DEF TypeOK, MappedLive, Named, Outs
  <2>4. TypeOK'
    BY <2>1, <2>2, <2>3 DEF TypeOK
  <2>5. u \in Refs(j)  BY DEF Refs
  <2>6. map[i] # j
    <3> SUFFICES ASSUME map[i] = j PROVE FALSE
      OBVIOUS
    <3>1. Refs(j) = {i}  BY <2>3, ReplaceableEntry
    <3> QED  BY <2>5, <3>1
  <2>7. \A h \in Outs : map[i] = h =>
          /\ h \notin Origs /\ copies'[h] = 0
          /\ Cardinality(Refs(h)') = 0
    <3> SUFFICES ASSUME NEW h \in Outs, map[i] = h
                 PROVE  /\ h \notin Origs /\ copies'[h] = 0
                        /\ Cardinality(Refs(h)') = 0
      OBVIOUS
    <3>1. /\ h \notin Origs /\ copies[h] = 0 /\ Cardinality(Refs(h)) = 1
      BY ReplaceableEntry
    <3>2. Cardinality(Refs(h)') = Cardinality(Refs(h)) - 1
      BY <2>1, <2>2, <2>3, <2>6, InsertNumbers DEF TypeOK
    <3>3. copies'[h] = copies[h]  BY <2>1, <2>2, <2>6 DEF TypeOK
    <3> QED  BY <3>1, <3>2, <3>3
  <2>8. \A h \in Outs : map[i] # h =>
          /\ Cardinality(Refs(h)') =
               IF h = j THEN Cardinality(Refs(h)) + 1 ELSE Cardinality(Refs(h))
          /\ copies'[h] = IF h = j THEN copies[h] + 1 ELSE copies[h]
    <3> SUFFICES ASSUME NEW h \in Outs, map[i] # h
                 PROVE  /\ Cardinality(Refs(h)') =
                             IF h = j THEN Cardinality(Refs(h)) + 1
                             ELSE Cardinality(Refs(h))
                        /\ copies'[h] = IF h = j THEN copies[h] + 1 ELSE copies[h]
      OBVIOUS
    <3>1. map \in [Ids -> 0..MaxK]  BY <2>2 DEF TypeOK
    <3>2. CASE h = j
      <4>1. Cardinality(Refs(h)') = Cardinality(Refs(h)) + 1
        BY <2>1, <2>3, <3>1, <3>2, InsertNumbers
      <4>2. copies'[h] = copies[h] + 1  BY <2>1, <2>2, <3>2 DEF TypeOK
      <4> QED  BY <3>2, <4>1, <4>2
    <3>3. CASE h # j
      <4>1. Cardinality(Refs(h)') = Cardinality(Refs(h))
        BY <2>1, <2>3, <3>1, <3>3, InsertNumbers
      <4>2. copies'[h] = copies[h]  BY <2>1, <2>2, <3>3 DEF TypeOK
      <4> QED  BY <3>3, <4>1, <4>2
    <3> QED  BY <3>2, <3>3
  <2>9. OrigCounts'
    <3> SUFFICES ASSUME NEW h \in Origs
                 PROVE  /\ usedOrigs[h] < RefMax =>
                             Cardinality(Refs(h)') = usedOrigs[h] + copies'[h]
                        /\ usedOrigs[h] = 0 => copies'[h] = 0
      BY <2>1 DEF OrigCounts
    <3>1. /\ usedOrigs[h] < RefMax => Cardinality(Refs(h)) = usedOrigs[h] + copies[h]
          /\ usedOrigs[h] = 0 => copies[h] = 0
          /\ usedOrigs[h] \in Nat /\ copies[h] \in Nat /\ h \in Outs
      BY <2>2, Bounds DEF IInv, RefCounts, OrigCounts, TypeOK
    <3>2. map[i] # h  BY <2>7, <3>1
    <3>3. CASE h = j
      <4>1. Cardinality(Refs(h)) # 0  BY <2>5, <3>3, Numbers
      <4>2. usedOrigs[h] # 0  BY <3>1, <4>1, Bounds
      <4> QED  BY <2>8, <3>1, <3>2, <3>3, <4>2, Numbers
    <3>4. CASE h # j  BY <2>8, <3>1, <3>2, <3>4
    <3> QED  BY <3>3, <3>4
  <2>10. DerivedCounts'
    <3> SUFFICES ASSUME NEW h \in Outs \ Origs
                 PROVE  /\ Refs(h)' = {} => copies'[h] = 0
                        /\ Refs(h)' # {} =>
                             h <= k /\ Cardinality(Refs(h)') = copies'[h] + 1
      BY <2>1 DEF DerivedCounts
    <3>1. /\ Refs(h) = {} => copies[h] = 0
          /\ Refs(h) # {} => h <= k /\ Cardinality(Refs(h)) = copies[h] + 1
          /\ copies[h] \in Nat
      BY <2>2 DEF IInv, RefCounts, DerivedCounts, TypeOK
    <3>2. CASE map[i] = h  BY <2>7, <3>2, Numbers
    <3>3. CASE map[i] # h /\ h = j  BY <2>5, <2>8, <3>1, <3>3, Numbers
    <3>4. CASE map[i] # h /\ h # j  BY <2>8, <3>1, <3>4, Numbers
    <3> QED  BY <3>2, <3>3, <3>4
  <2>11. MappedLive' /\ HeaderState' /\ Accepted'
    BY <2>1, <2>2, <2>3 DEF IInv, MappedLive, Named, TypeOK, HeaderState, Accepted
  <2> QED  BY <2>4, <2>9, <2>10, <2>11 DEF IInv, RefCounts
<1> QED  BY <1>1, <1>2

(* A line about XOR or BNN constraints only reads the renaming.            *)
LEMMA TheoryInv ==
  ASSUME IInv, NEW U \in SUBSET Ids, Theory(U)
  PROVE  IInv'
<1>1. CASE ~(\A u \in U : Named(u))
  <2>1. Panic  BY <1>1 DEF Theory
  <2> QED  BY <2>1, PanicInv
<1>2. CASE \A u \in U : Named(u)
  <2>1. /\ accepted' = (accepted /\ \A u \in U : map[u] \in db)
        /\ UNCHANGED <<phase, k, map, copies, usedOrigs, db, content, claim>>
    BY <1>2 DEF Theory
  <2>2. accepted' = TRUE
    BY <1>2, <2>1 DEF IInv, Accepted, MappedLive
  <2>3. TypeOK' /\ HeaderState' /\ MappedLive' /\ Accepted'
    BY <2>1, <2>2 DEF IInv, TypeOK, HeaderState, MappedLive, Named, Accepted
  <2>4. \A j : Refs(j)' = Refs(j)  BY <2>1 DEF Refs
  <2>5. RefCounts'
    BY <2>1, <2>4 DEF IInv, RefCounts, OrigCounts, DerivedCounts
  <2> QED  BY <2>3, <2>5 DEF IInv
<1> QED  BY <1>1, <1>2
(* A relocation keeps every count, but for a clause whose only name it      *)
(* overwrites.                                                             *)
LEMMA RelocInv ==
  ASSUME IInv, NEW src \in Relocations, Reloc(src)
  PROVE  IInv'
<1>1. /\ map' = Moved(map, src, 0)
      /\ claim' = Moved(claim, src, {})
      /\ UNCHANGED <<phase, k, copies, usedOrigs, db, content, accepted>>
  BY DEF Reloc
<1>2. TypeOK  BY DEF IInv
<1>3. /\ \A x \in DOMAIN src : src[x] \in Ids
      /\ DOMAIN src \subseteq Ids
      /\ \A x \in DOMAIN src \ Range(src) : Named(src[x]) => Replaceable(x)
  BY DEF Relocations
<1>4. TypeOK'
  <2>1. map' \in [Ids -> 0..MaxK]  BY <1>1, <1>2, <1>3, Bounds DEF TypeOK, Moved
  <2>2. claim' \in [Ids -> Clauses]  BY <1>1, <1>2, <1>3 DEF TypeOK, Moved, Clauses
  <2> QED  BY <1>1, <1>2, <2>1, <2>2 DEF TypeOK
<1>5. \A h \in Outs : Cardinality(Refs(h)') = Cardinality(Refs(h) \ Overwritten(src))
  BY <1>1, <1>2, RefsAfterReloc, Numbers DEF TypeOK
<1>6. \A h \in Outs :
        \/ h \notin Origs /\ copies[h] = 0 /\ Cardinality(Refs(h)') = 0
        \/ Cardinality(Refs(h)') = Cardinality(Refs(h))
  <2> SUFFICES ASSUME NEW h \in Outs
               PROVE  \/ h \notin Origs /\ copies[h] = 0 /\ Cardinality(Refs(h)') = 0
                      \/ Cardinality(Refs(h)') = Cardinality(Refs(h))
    OBVIOUS
  <2>1. CASE \E x \in Overwritten(src) : map[x] = h
    <3>1. PICK x \in Overwritten(src) : map[x] = h  BY <2>1
    <3>2. x \in Ids /\ Replaceable(x)  BY <1>3 DEF Overwritten
    <3>3. h \notin Origs /\ copies[h] = 0 /\ Refs(h) = {x}
      BY <3>1, <3>2, ReplaceableEntry
    <3>4. Refs(h) \ Overwritten(src) = {}  BY <3>3
    <3>5. Cardinality(Refs(h)') = 0  BY <1>5, <3>4, FS_EmptySet
    <3> QED  BY <3>3, <3>5
  <2>2. CASE ~ \E x \in Overwritten(src) : map[x] = h
    <3>1. Refs(h) \ Overwritten(src) = Refs(h)  BY <2>2 DEF Refs
    <3> QED  BY <1>5, <3>1
  <2> QED  BY <2>1, <2>2
<1>7. OrigCounts'
  BY <1>1, <1>6, Bounds DEF IInv, RefCounts, OrigCounts
<1>8. DerivedCounts'
  <2> SUFFICES ASSUME NEW h \in Outs \ Origs
               PROVE  /\ Refs(h)' = {} => copies[h] = 0
                      /\ Refs(h)' # {} =>
                           h <= k /\ Cardinality(Refs(h)') = copies[h] + 1
    BY <1>1 DEF DerivedCounts
  <2>1. /\ Refs(h) = {} => copies[h] = 0
        /\ Refs(h) # {} => h <= k /\ Cardinality(Refs(h)) = copies[h] + 1
    BY DEF IInv, RefCounts, DerivedCounts
  <2> QED  BY <1>6, <2>1, Numbers
<1>9. MappedLive'
  <2> SUFFICES ASSUME NEW x \in Ids, map'[x] # 0
               PROVE  map'[x] \in db
    BY <1>1 DEF MappedLive, Named
  <2>1. \E y \in Ids : map'[x] = map[y]  BY <1>1, <1>3 DEF Moved
  <2> QED  BY <2>1 DEF IInv, MappedLive, Named
<1>10. HeaderState' /\ Accepted'
  BY <1>1 DEF IInv, HeaderState, Accepted
<1> QED  BY <1>4, <1>7, <1>8, <1>9, <1>10 DEF IInv, RefCounts

(* A deletion drops one name and one of its clause's two counts, and        *)
(* releases the clause when that was its only name.                        *)
LEMMA DelInv ==
  ASSUME IInv, NEW i \in Ids, Del(i)
  PROVE  IInv'
<1>1. CASE ~Named(i) /\ Panic  BY <1>1, PanicInv
<1>2. CASE Named(i) /\ ~Panic
  <2>1. TypeOK /\ MappedLive  BY DEF IInv
  <2>2. PICK j \in Outs : j = map[i] /\ j # 0 /\ j \in db /\ 0 \in 0..MaxK
    BY <1>2, <2>1, Bounds DEF TypeOK, MappedLive, Named, Outs
  <2>3. /\ map' = [map EXCEPT ![i] = 0]
        /\ claim' = [claim EXCEPT ![i] = {}]
        /\ copies' = [copies EXCEPT ![j] = IF @ > 0 THEN @ - 1 ELSE 0]
        /\ usedOrigs' =
             IF copies[j] = 0 /\ j \in Origs /\ usedOrigs[j] # RefMax
             THEN [usedOrigs EXCEPT ![j] = @ - 1] ELSE usedOrigs
        /\ db' = IF Released(j) THEN db \ {j} ELSE db
        /\ accepted' = (accepted /\ (Released(j) => j \in db))
        /\ UNCHANGED <<phase, k, content>>
        /\ phase = "steps"
    BY <1>2, <2>2 DEF Del
  <2>4. i \in Refs(j) /\ Cardinality(Refs(j)) > 0
    <3>1. i \in Refs(j)  BY <2>2 DEF Refs
    <3>2. Cardinality(Refs(j)) # 0 /\ Cardinality(Refs(j)) \in Nat
      BY <3>1, Numbers
    <3> QED  BY <3>1, <3>2
  <2>5. copies[j] \in Nat /\ j \in Origs => usedOrigs[j] \in 0..RefMax
    BY <2>1, <2>2 DEF TypeOK
  <2>6. \A h \in Outs : Cardinality(Refs(h)') =
          IF h = j THEN Cardinality(Refs(h)) - 1 ELSE Cardinality(Refs(h))
    <3> SUFFICES ASSUME NEW h \in Outs
                 PROVE  Cardinality(Refs(h)') =
                          IF h = j THEN Cardinality(Refs(h)) - 1
                          ELSE Cardinality(Refs(h))
      OBVIOUS
    <3>1. map \in [Ids -> 0..MaxK] /\ h # 0  BY <2>1 DEF TypeOK, Outs
    <3>2. CASE h = j
      <4>1. Cardinality(Refs(h)') = Cardinality(Refs(h)) - 1
        BY <2>3, <2>2, <3>1, <3>2, InsertNumbers
      <4> QED  BY <3>2, <4>1
    <3>3. CASE h # j
      <4>1. Cardinality(Refs(h)') = Cardinality(Refs(h))
        BY <2>3, <2>2, <3>1, <3>3, InsertNumbers
      <4> QED  BY <3>3, <4>1
    <3> QED  BY <3>2, <3>3
  <2>7. j \in Origs =>
          /\ usedOrigs[j] < RefMax => Cardinality(Refs(j)) = usedOrigs[j] + copies[j]
          /\ usedOrigs[j] = 0 => copies[j] = 0
    BY DEF IInv, RefCounts, OrigCounts
  <2>8. j \in Origs /\ copies[j] = 0 => usedOrigs[j] > 0
    <3> SUFFICES ASSUME j \in Origs, copies[j] = 0, usedOrigs[j] = 0 PROVE FALSE
      BY <2>1, Bounds DEF TypeOK
    <3> QED  BY <2>4, <2>7, Bounds
  <2>9. j \notin Origs =>
          /\ j <= k
          /\ Cardinality(Refs(j)) = copies[j] + 1
    BY <2>2, <2>4 DEF IInv, RefCounts, DerivedCounts
  <2>10. TypeOK'
    <3>1. usedOrigs' \in [Origs -> 0..RefMax]
      <4>1. CASE copies[j] = 0 /\ j \in Origs /\ usedOrigs[j] # RefMax
        <5>1. usedOrigs[j] - 1 \in 0..RefMax
          BY <2>1, <2>8, <4>1, Bounds DEF TypeOK
        <5> QED  BY <2>3, <2>1, <4>1, <5>1 DEF TypeOK
      <4>2. CASE ~(copies[j] = 0 /\ j \in Origs /\ usedOrigs[j] # RefMax)
        BY <2>3, <2>1, <4>2 DEF TypeOK
      <4> QED  BY <4>1, <4>2
    <3>2. copies' \in [Outs -> Nat]  BY <2>3, <2>1, <2>2 DEF TypeOK
    <3>3. claim' \in [Ids -> Clauses]  BY <2>3, <2>1 DEF TypeOK, Clauses
    <3>4. map' \in [Ids -> 0..MaxK]  BY <2>3, <2>1, <2>2 DEF TypeOK
    <3> QED  BY <2>3, <2>1, <3>1, <3>2, <3>3, <3>4 DEF TypeOK
  <2>11. OrigCounts'
    <3> SUFFICES ASSUME NEW h \in Origs
                 PROVE  /\ usedOrigs'[h] < RefMax =>
                             Cardinality(Refs(h)') = usedOrigs'[h] + copies'[h]
                        /\ usedOrigs'[h] = 0 => copies'[h] = 0
      BY DEF OrigCounts
    <3>1. h \in Outs  BY Bounds
    <3>2. CASE h # j
      <4>1. usedOrigs'[h] = usedOrigs[h] /\ copies'[h] = copies[h]
        BY <2>3, <2>1, <3>1, <3>2 DEF TypeOK
      <4>2. Cardinality(Refs(h)') = Cardinality(Refs(h))  BY <2>6, <3>1, <3>2
      <4> QED  BY <4>1, <4>2 DEF IInv, RefCounts, OrigCounts
    <3>3. CASE h = j
      <4>0. /\ Cardinality(Refs(j)') = Cardinality(Refs(j)) - 1
            /\ Cardinality(Refs(j)) \in Nat
            /\ usedOrigs[j] \in Nat /\ copies[j] \in Nat
            /\ copies'[j] = IF copies[j] > 0 THEN copies[j] - 1 ELSE 0
            /\ usedOrigs'[j] = IF copies[j] = 0 /\ usedOrigs[j] # RefMax
                               THEN usedOrigs[j] - 1 ELSE usedOrigs[j]
            /\ usedOrigs[j] <= RefMax
        BY <2>3, <2>1, <2>2, <2>6, <3>3, Numbers, Bounds DEF TypeOK
      <4>1. CASE copies[j] > 0
        BY <2>7, <3>3, <4>0, <4>1, Bounds
      <4>2. CASE copies[j] = 0
        BY <2>7, <2>8, <3>3, <4>0, <4>2, Bounds
      <4> QED  BY <4>0, <4>1, <4>2
    <3> QED  BY <3>2, <3>3
  <2>12. DerivedCounts'
    <3> SUFFICES ASSUME NEW h \in Outs \ Origs
                 PROVE  /\ Refs(h)' = {} => copies'[h] = 0
                        /\ Refs(h)' # {} =>
                             h <= k /\ Cardinality(Refs(h)') = copies'[h] + 1
      BY <2>3 DEF DerivedCounts
    <3>1. CASE h # j
      <4>1. copies'[h] = copies[h]  BY <2>3, <2>1, <3>1 DEF TypeOK
      <4>2. Cardinality(Refs(h)') = Cardinality(Refs(h))  BY <2>6, <3>1
      <4> QED  BY <4>1, <4>2, Numbers DEF IInv, RefCounts, DerivedCounts
    <3>2. CASE h = j
      <4>1. /\ Cardinality(Refs(j)') = Cardinality(Refs(j)) - 1
            /\ copies[j] \in Nat
            /\ copies'[j] = IF copies[j] > 0 THEN copies[j] - 1 ELSE 0
        BY <2>3, <2>1, <2>2, <2>6 DEF TypeOK
      <4> QED  BY <2>9, <3>2, <4>1, Numbers
    <3> QED  BY <3>1, <3>2
  <2>13. MappedLive'
    <3> SUFFICES ASSUME NEW x \in Ids, map'[x] # 0 PROVE map'[x] \in db'
      BY DEF MappedLive, Named
    <3>1. x # i /\ map'[x] = map[x] /\ map[x] \in db
      BY <2>3, <2>1 DEF TypeOK, MappedLive, Named
    <3>2. CASE ~Released(j) \/ map[x] # j  BY <2>3, <3>1, <3>2
    <3>3. CASE Released(j) /\ map[x] = j
      <4>1. copies[j] = 0 /\ (j \in Origs => usedOrigs[j] = 1)
        BY <3>3 DEF Released
      <4>2. Cardinality(Refs(j)) = 1  BY <2>7, <2>9, <4>1, Bounds
      <4>3. Cardinality(Refs(j)') = 0  BY <2>2, <2>6, <4>2
      <4>4. x \in Refs(j)'  BY <3>1, <3>3 DEF Refs
      <4> QED  BY <4>3, <4>4, Numbers
    <3> QED  BY <3>2, <3>3
  <2>14. HeaderState' /\ Accepted'
    BY <2>3, <2>2 DEF IInv, HeaderState, Accepted
  <2> QED  BY <2>10, <2>11, <2>12, <2>13, <2>14 DEF IInv, RefCounts
<1> QED  BY <1>1, <1>2, PanicInv DEF Del
-----------------------------------------------------------------------------
(* Every step preserves the invariant: one case per action.                *)
LEMMA NextInv == IInv /\ [Next]_vars => IInv'
<1> SUFFICES ASSUME IInv, [Next]_vars PROVE IInv'
  OBVIOUS
<1>1. ASSUME NEW i \in Ids, NEW c \in Clauses, Orig(i, c) PROVE IInv'
  BY <1>1, OrigInv, PanicInv DEF Orig
<1>2. ASSUME EndOrigs PROVE IInv'
  BY <1>2, EndOrigsInv
<1>3. ASSUME Define PROVE IInv'
  <2>1. PICK i \in Ids, c \in Clauses :
          /\ Replaceable(i) /\ phase = "steps"
          /\ \E U \in SUBSET (Ids \ {i}) : Derive(i, c, U)
    BY <1>3 DEF Define, Add, Imply
  <2> QED  BY <2>1, DeriveInv
<1>4. ASSUME DefineCopy PROVE IInv'
  <2>1. PICK i \in Ids, u \in Ids, c \in Clauses :
          Replaceable(i) /\ u # i /\ phase = "steps" /\ Share(i, c, u)
    BY <1>4 DEF DefineCopy, Add
  <2> QED  BY <2>1, ShareInv
<1>5. ASSUME NEW U \in SUBSET Ids, Theory(U) PROVE IInv'
  BY <1>5, TheoryInv
<1>6. ASSUME NEW src \in Relocations, Reloc(src) PROVE IInv'
  BY <1>6, RelocInv
<1>7. ASSUME NEW i \in Ids, Del(i) PROVE IInv'
  BY <1>7, DelInv
<1>8. ASSUME LateOrig \/ EndOfFile PROVE IInv'
  BY <1>8, PanicInv DEF LateOrig, EndOfFile
<1>9. ASSUME UNCHANGED vars PROVE IInv'
  <2>1. \A j : Refs(j)' = Refs(j)  BY <1>9 DEF vars, Refs
  <2>2. RefCounts'
    BY <1>9, <2>1 DEF vars, IInv, RefCounts, OrigCounts, DerivedCounts
  <2>3. TypeOK' /\ HeaderState' /\ MappedLive' /\ Accepted'
    BY <1>9 DEF vars, IInv, TypeOK, HeaderState, MappedLive, Accepted, Named
  <2> QED  BY <2>2, <2>3 DEF IInv
<1> QED
  BY <1>1, <1>2, <1>3, <1>4, <1>5, <1>6, <1>7, <1>8, <1>9 DEF Next

(* The inductive invariant of trim().                                      *)
THEOREM Invariance == Spec => []IInv
<1> QED  BY InitInv, NextInv, PTL DEF Spec

(* Types, and no counter below zero or beyond its width: used_origs and     *)
(* copies are never decremented at zero (elab.rs:1321-1330).               *)
THEOREM TypeCorrect == Spec => []TypeOK
<1>1. IInv => TypeOK  BY DEF IInv
<1> QED  BY <1>1, Invariance, PTL

(* The reference counts are exact, for any number of IDs, copies and        *)
(* relocations, and any width of the saturating counter.                   *)
THEOREM CountsExact == Spec => []RefCounts
<1>1. IInv => RefCounts  BY DEF IInv
<1> QED  BY <1>1, Invariance, PTL

(* No ID the proof can still cite is renamed to a deleted clause.          *)
THEOREM MappedStayLive == Spec => []MappedLive
<1>1. IInv => MappedLive  BY DEF IInv
<1> QED  BY <1>1, Invariance, PTL

(* The checker never reads a hint or a deletion of a clause it does not     *)
(* hold.                                                                   *)
THEOREM NeverRejected == Spec => []Accepted
<1>1. IInv => Accepted  BY DEF IInv
<1> QED  BY <1>1, Invariance, PTL

-----------------------------------------------------------------------------
(* Clauses.                                                                *)

(* The clauses of the formula stay under their own IDs.                     *)
OrigsKept == \A j \in Origs : content[j] = Cnf[j]

(* The inductive invariant, on top of IInv.  A copy stands for its hint and  *)
(* a hint for a clause that was written or read: StandIn needs OrigsKept     *)
(* where the chain of copies starts.  StopsAtEmpty needs that no name is for *)
(* an empty clause before a copy of it could be taken.                      *)
CInv == OrigsKept /\ StandIn /\ StopsAtEmpty /\ OriginalsExact

(* The next output ID is not in use.                                       *)
LEMMA NewOutput ==
  ASSUME IInv, k < MaxK
  PROVE  /\ k + 1 \in Outs \ Origs
         /\ \A x \in Ids : map[x] # k + 1
<1>1. TypeOK /\ DerivedCounts  BY DEF IInv, RefCounts
<1>2. k \in Nat /\ k >= Len(Cnf)  BY <1>1, Bounds DEF TypeOK
<1>3. k + 1 \in Outs \ Origs  BY <1>2, Bounds DEF Outs, Origs
<1>4. Refs(k + 1) = {}  BY <1>1, <1>2, <1>3 DEF DerivedCounts
<1> QED  BY <1>3, <1>4 DEF Refs

(* Every entry is an output ID.                                            *)
LEMMA NamedOutput ==
  ASSUME IInv, NEW x \in Ids, Named(x)
  PROVE  map[x] \in Outs /\ Refs(map[x]) # {}
BY DEF IInv, TypeOK, Named, Outs, Refs

(* The counts of an original say whether it has a name.                     *)
LEMMA UsedOrig ==
  ASSUME IInv, NEW j \in Origs, usedOrigs[j] # RefMax
  PROVE  /\ Refs(j) # {} <=> usedOrigs[j] > 0
         /\ Cardinality(Refs(j)) = usedOrigs[j] + copies[j]
         /\ usedOrigs[j] \in Nat /\ copies[j] \in Nat
<1>1. /\ usedOrigs[j] \in 0..RefMax /\ copies[j] \in Nat
      /\ usedOrigs[j] < RefMax => Cardinality(Refs(j)) = usedOrigs[j] + copies[j]
      /\ usedOrigs[j] = 0 => copies[j] = 0
  BY Bounds DEF IInv, TypeOK, RefCounts, OrigCounts
<1>2. usedOrigs[j] < RefMax  BY <1>1, Bounds
<1> QED  BY <1>1, <1>2, Numbers

LEMMA InitClaims == Init => CInv
<1> SUFFICES ASSUME Init PROVE CInv
  OBVIOUS
<1>1. OrigsKept  BY Bounds DEF Init, OrigsKept
<1>2. StandIn /\ StopsAtEmpty /\ OriginalsExact
  BY DEF Init, StandIn, StopsAtEmpty, OriginalsExact, Named
<1> QED  BY <1>1, <1>2 DEF CInv

(* A step that leaves the clauses and their names alone.                    *)
LEMMA SameClaims ==
  ASSUME CInv, UNCHANGED <<map, claim, content, db, usedOrigs>>,
         phase' \in {phase, "panic"}
  PROVE  CInv'
<1>1. OrigsKept' /\ StandIn'  BY DEF CInv, OrigsKept, StandIn, Named
<1>2. StopsAtEmpty'  BY DEF CInv, StopsAtEmpty, Named
<1>3. OriginalsExact'  BY DEF CInv, OriginalsExact, Refs
<1> QED  BY <1>1, <1>2, <1>3 DEF CInv

LEMMA OrigClaims ==
  ASSUME IInv, CInv, NEW i \in Ids, NEW c \in Clauses, phase = "origs", OrigFound(i, c)
  PROVE  CInv'
<1>1. PICK j \in Origs :
        /\ Cnf[j] = c
        /\ map' = [map EXCEPT ![i] = j]
        /\ claim' = [claim EXCEPT ![i] = c]
        /\ IF c = {}
           THEN /\ phase' = "done"
                /\ db' = db \union {k + 1}
                /\ content' = [content EXCEPT ![k + 1] = {}]
           ELSE UNCHANGED <<phase, db, content>>
  BY DEF OrigFound, Position, Matches
<1>2. TypeOK /\ k = Len(Cnf)  BY DEF IInv, HeaderState
<1>3. k < MaxK  BY <1>2, Counters
<1>4. \A h \in Outs : h # k + 1 => content'[h] = content[h]
  BY <1>1, <1>2 DEF TypeOK
<1>5. OrigsKept'
  BY <1>3, <1>4, NewOutput, Bounds DEF CInv, OrigsKept
<1>6. StandIn'
  <2> SUFFICES ASSUME NEW x \in Ids, map'[x] # 0 PROVE content'[map'[x]] \subseteq claim'[x]
    BY DEF StandIn, Named
  <2>1. CASE x = i
    <3>1. map'[x] = j /\ claim'[x] = c  BY <1>1, <1>2, <2>1 DEF TypeOK
    <3> QED  BY <1>1, <1>5, <3>1 DEF OrigsKept
  <2>2. CASE x # i
    <3>1. map'[x] = map[x] /\ claim'[x] = claim[x]  BY <1>1, <1>2, <2>2 DEF TypeOK
    <3>2. Named(x)  BY <3>1 DEF Named
    <3>3. content'[map[x]] = content[map[x]]
      BY <1>3, <1>4, <3>2, NamedOutput, NewOutput
    <3> QED  BY <3>1, <3>2, <3>3 DEF CInv, StandIn
  <2> QED  BY <2>1, <2>2
<1>7. StopsAtEmpty'
  <2>1. CASE c = {}
    <3>1. k + 1 \in db' /\ content'[k + 1] = {}
      BY <1>1, <1>2, <1>3, <2>1, NewOutput DEF TypeOK
    <3> QED  BY <1>1, <2>1, <3>1 DEF StopsAtEmpty
  <2>2. CASE c # {}
    <3>1. phase' = "origs"  BY <1>1, <2>2
    <3>2. \A x \in Ids : map'[x] # 0 => claim'[x] # {}
      BY <1>1, <1>2, <2>2 DEF CInv, StopsAtEmpty, Named, TypeOK
    <3> QED  BY <3>1, <3>2 DEF StopsAtEmpty, Named
  <2> QED  BY <2>1, <2>2
<1>8. OriginalsExact'
  BY <1>1 DEF OriginalsExact
<1> QED  BY <1>5, <1>6, <1>7, <1>8 DEF CInv

(* At the end of the header, the originals without a name are deleted.      *)
LEMMA EndOrigsClaims ==
  ASSUME IInv, CInv, EndOrigs
  PROVE  CInv'
<1>1. OrigsKept' /\ StandIn'  BY DEF CInv, OrigsKept, StandIn, Named, EndOrigs
<1>2. StopsAtEmpty'  BY DEF CInv, StopsAtEmpty, Named, EndOrigs
<1>3. OriginalsExact'
  <2> SUFFICES ASSUME NEW j \in Origs
               PROVE  j \in db' <=> Refs(j)' # {} \/ usedOrigs'[j] = RefMax
    BY DEF OriginalsExact
  <2>1. Refs(j)' = Refs(j) /\ usedOrigs'[j] = usedOrigs[j]  BY DEF EndOrigs, Refs
  <2>2. j \in db' <=> usedOrigs[j] > 0  BY DEF EndOrigs, IInv, HeaderState
  <2>3. CASE usedOrigs[j] = RefMax  BY <2>1, <2>2, <2>3, Bounds
  <2>4. CASE usedOrigs[j] # RefMax  BY <2>1, <2>2, <2>4, UsedOrig
  <2> QED  BY <2>3, <2>4
<1> QED  BY <1>1, <1>2, <1>3 DEF CInv

(* A line is written under a new ID: no clause that has a name changes.     *)
LEMMA DeriveClaims ==
  ASSUME IInv, CInv, NEW i \in Ids, NEW c \in Clauses, NEW U,
         phase = "steps", Replaceable(i), Derive(i, c, U)
  PROVE  CInv'
<1>1. CASE ~(\A u \in U : u = i \/ Named(u))
  BY <1>1, SameClaims DEF Derive, Panic
<1>2. CASE \A u \in U : u = i \/ Named(u)
  <2>1. /\ k < MaxK
        /\ map' = [map EXCEPT ![i] = k + 1]
        /\ claim' = [claim EXCEPT ![i] = c]
        /\ content' = [content EXCEPT ![k + 1] = c]
        /\ db' = db \union {k + 1}
        /\ phase' = IF c = {} THEN "done" ELSE phase
        /\ UNCHANGED usedOrigs
    BY <1>2 DEF Derive
  <2>2. TypeOK  BY DEF IInv
  <2>3. k + 1 \in Outs \ Origs /\ \A x \in Ids : map[x] # k + 1
    BY <2>1, NewOutput
  <2>4. /\ content'[k + 1] = c
        /\ \A h \in Outs : h # k + 1 => content'[h] = content[h]
    BY <2>1, <2>2, <2>3 DEF TypeOK
  <2>5. OrigsKept'  BY <2>3, <2>4, Bounds DEF CInv, OrigsKept
  <2>6. StandIn'
    <3> SUFFICES ASSUME NEW x \in Ids, map'[x] # 0
                 PROVE  content'[map'[x]] \subseteq claim'[x]
      BY DEF StandIn, Named
    <3>1. CASE x = i
      <4>1. map'[x] = k + 1 /\ claim'[x] = c  BY <2>1, <2>2, <3>1 DEF TypeOK
      <4> QED  BY <2>4, <4>1
    <3>2. CASE x # i
      <4>1. map'[x] = map[x] /\ claim'[x] = claim[x]  BY <2>1, <2>2, <3>2 DEF TypeOK
      <4>2. Named(x)  BY <4>1 DEF Named
      <4>3. content'[map[x]] = content[map[x]]  BY <2>3, <2>4, <4>2, NamedOutput
      <4> QED  BY <4>1, <4>2, <4>3 DEF CInv, StandIn
    <3> QED  BY <3>1, <3>2
  <2>7. StopsAtEmpty'
    <3>1. CASE c = {}  BY <2>1, <2>3, <2>4, <3>1 DEF StopsAtEmpty
    <3>2. CASE c # {}
      <4>1. phase' = "steps"  BY <2>1, <3>2
      <4>2. \A x \in Ids : map'[x] # 0 => claim'[x] # {}
        BY <2>1, <2>2, <3>2 DEF CInv, StopsAtEmpty, Named, TypeOK
      <4> QED  BY <4>1, <4>2 DEF StopsAtEmpty, Named
    <3> QED  BY <3>1, <3>2
  <2>8. OriginalsExact'
    <3> SUFFICES ASSUME NEW j \in Origs
                 PROVE  j \in db' <=> Refs(j)' # {} \/ usedOrigs'[j] = RefMax
      BY DEF OriginalsExact
    <3>1. map[i] # j
      <4>1. j # 0  BY DEF Origs
      <4> QED  BY <4>1 DEF Replaceable, Named
    <3>2. Refs(j)' = Refs(j)  BY <2>1, <2>2, <2>3, <3>1 DEF Refs, TypeOK
    <3>3. j \in db' <=> j \in db  BY <2>1, <2>3
    <3> QED  BY <2>1, <3>2, <3>3 DEF CInv, OriginalsExact
  <2> QED  BY <2>5, <2>6, <2>7, <2>8 DEF CInv
<1> QED  BY <1>1, <1>2

(* A copy stands for what its hint stands for, which is contained in it.    *)
LEMMA ShareClaims ==
  ASSUME IInv, CInv, NEW i \in Ids, NEW u \in Ids, NEW c \in Clauses,
         phase = "steps", Replaceable(i), Named(u) => claim[u] \subseteq c, Share(i, c, u)
  PROVE  CInv'
<1>1. CASE ~Named(u)
  BY <1>1, SameClaims DEF Share, Panic
<1>2. CASE Named(u)
  <2>1. /\ map' = [map EXCEPT ![i] = map[u]]
        /\ claim' = [claim EXCEPT ![i] = c]
        /\ UNCHANGED <<phase, db, content, usedOrigs>>
    BY <1>2 DEF Share
  <2>2. TypeOK  BY DEF IInv
  <2>3. content[map[u]] \subseteq c /\ claim[u] # {} /\ claim[u] \subseteq c
    BY <1>2 DEF CInv, StandIn, StopsAtEmpty
  <2>4. OrigsKept'  BY <2>1 DEF CInv, OrigsKept
  <2>5. StandIn'
    BY <2>1, <2>2, <2>3 DEF CInv, StandIn, Named, TypeOK
  <2>6. StopsAtEmpty'
    <3>1. \A x \in Ids : map'[x] # 0 => claim'[x] # {}
      BY <2>1, <2>2, <2>3 DEF CInv, StopsAtEmpty, Named, TypeOK
    <3> QED  BY <2>1, <3>1 DEF StopsAtEmpty, Named
  <2>7. OriginalsExact'
    <3> SUFFICES ASSUME NEW j \in Origs
                 PROVE  j \in db' <=> Refs(j)' # {} \/ usedOrigs'[j] = RefMax
      BY DEF OriginalsExact
    <3>1. map[i] # j
      <4>1. j # 0  BY DEF Origs
      <4> QED  BY <4>1 DEF Replaceable, Named
    <3>2. Refs(j)' = {} <=> Refs(j) = {}
      <4>1. map[u] = j => u \in Refs(j) /\ i \in Refs(j)'
        BY <2>1, <2>2 DEF Refs, TypeOK
      <4>2. map[u] # j => Refs(j)' = Refs(j)
        BY <2>1, <2>2, <3>1 DEF Refs, TypeOK
      <4> QED  BY <4>1, <4>2
    <3> QED  BY <2>1, <3>2 DEF CInv, OriginalsExact
  <2> QED  BY <2>4, <2>5, <2>6, <2>7 DEF CInv
<1> QED  BY <1>1, <1>2

(* A relocation moves an entry with its clause, and no original loses its   *)
(* last name.                                                              *)
LEMMA RelocClaims ==
  ASSUME IInv, CInv, NEW src \in Relocations, Reloc(src)
  PROVE  CInv'
<1>1. /\ map' = Moved(map, src, 0)
      /\ claim' = Moved(claim, src, {})
      /\ phase = "steps"
      /\ UNCHANGED <<phase, db, content, usedOrigs>>
  BY DEF Reloc
<1>2. TypeOK  BY DEF IInv
<1>3. /\ DOMAIN src \subseteq Ids
      /\ \A x \in DOMAIN src : src[x] \in Ids
      /\ \A x \in DOMAIN src \ Range(src) : Named(src[x]) => Replaceable(x)
  BY DEF Relocations
<1>4. \A x \in Ids : map'[x] # 0 =>
        \E y \in Ids : map'[x] = map[y] /\ claim'[x] = claim[y]
  BY <1>1, <1>3 DEF Moved
<1>5. OrigsKept'  BY <1>1 DEF CInv, OrigsKept
<1>6. StandIn'  BY <1>1, <1>4 DEF CInv, StandIn, Named
<1>7. StopsAtEmpty'  BY <1>1, <1>4 DEF CInv, StopsAtEmpty, Named
<1>8. \A j \in Origs : Refs(j)' = {} <=> Refs(j) = {}
  <2> SUFFICES ASSUME NEW j \in Origs PROVE Refs(j)' = {} <=> Refs(j) = {}
    OBVIOUS
  <2>0. j # 0  BY DEF Origs
  <2>1. \A x \in Refs(j)' : \E y \in Ids : y \in Refs(j)
    BY <1>4, <2>0 DEF Refs
  <2>2. \A y \in Refs(j) : \E x \in Ids : x \in Refs(j)'
    <3> SUFFICES ASSUME NEW y \in Refs(j) PROVE \E x \in Ids : map'[x] = j
      BY DEF Refs
    <3>1. y \in Ids /\ map[y] = j /\ Named(y)  BY <2>0 DEF Refs, Named
    <3>2. CASE y \in Range(src)
      <4>1. PICK x \in DOMAIN src : src[x] = y  BY <3>2 DEF Range
      <4>2. x \in Ids /\ map'[x] = j  BY <1>1, <1>3, <3>1, <4>1 DEF Moved
      <4> QED  BY <4>2
    <3>3. CASE y \notin Range(src)
      <4>1. ~(y \in DOMAIN src /\ Named(src[y]))
        BY <1>3, <3>1, <3>3 DEF Replaceable
      <4>2. map'[y] = j  BY <1>1, <3>1, <3>3, <4>1 DEF Moved
      <4> QED  BY <3>1, <4>2
    <3> QED  BY <3>2, <3>3
  <2> QED  BY <2>1, <2>2
<1>9. OriginalsExact'  BY <1>1, <1>8 DEF CInv, OriginalsExact
<1> QED  BY <1>5, <1>6, <1>7, <1>9 DEF CInv

(* A deletion takes an original out of the checker with its last name, and  *)
(* not before.                                                             *)
LEMMA DelClaims ==
  ASSUME IInv, CInv, NEW i \in Ids, Del(i)
  PROVE  CInv'
<1>1. CASE ~Named(i) /\ Panic  BY <1>1, SameClaims DEF Panic
<1>2. CASE Named(i)
  <2> DEFINE j == map[i]
  <2>1. /\ map' = [map EXCEPT ![i] = 0]
        /\ claim' = [claim EXCEPT ![i] = {}]
        /\ copies' = [copies EXCEPT ![j] = IF @ > 0 THEN @ - 1 ELSE 0]
        /\ usedOrigs' =
             IF copies[j] = 0 /\ j \in Origs /\ usedOrigs[j] # RefMax
             THEN [usedOrigs EXCEPT ![j] = @ - 1] ELSE usedOrigs
        /\ db' = IF Released(j) THEN db \ {j} ELSE db
        /\ UNCHANGED <<phase, content>>
        /\ phase = "steps"
    BY <1>2 DEF Del
  <2>2. TypeOK /\ j \in Outs /\ i \in Refs(j)
    BY <1>2, NamedOutput DEF IInv, Refs
  <2>3. \A x \in Ids : map'[x] # 0 => x # i /\ map'[x] = map[x] /\ claim'[x] = claim[x]
    BY <2>1, <2>2 DEF TypeOK
  <2>4. OrigsKept'  BY <2>1 DEF CInv, OrigsKept
  <2>5. StandIn'  BY <2>1, <2>3 DEF CInv, StandIn, Named
  <2>6. StopsAtEmpty'  BY <2>1, <2>3 DEF CInv, StopsAtEmpty, Named
  <2>7. OriginalsExact'
    <3> SUFFICES ASSUME NEW h \in Origs
                 PROVE  h \in db' <=> Refs(h)' # {} \/ usedOrigs'[h] = RefMax
      BY DEF OriginalsExact
    <3>1. h \in db <=> Refs(h) # {} \/ usedOrigs[h] = RefMax
      BY <2>1 DEF CInv, OriginalsExact
    <3>2. h # 0 /\ h \in Outs  BY Bounds DEF Origs
    <3>3. CASE h # j
      <4>1. Refs(h)' = Refs(h)  BY <2>1, <2>2, <3>2, <3>3 DEF Refs, TypeOK
      <4>2. usedOrigs'[h] = usedOrigs[h]  BY <2>1, <2>2, <3>3 DEF TypeOK
      <4> QED  BY <2>1, <3>1, <3>3, <4>1, <4>2
    <3>4. CASE h = j /\ usedOrigs[h] = RefMax
      <4>1. ~Released(j)  BY <3>4, Bounds DEF Released
      <4>2. usedOrigs' = usedOrigs  BY <2>1, <3>4
      <4> QED  BY <2>1, <3>1, <3>4, <4>1, <4>2
    <3>5. CASE h = j /\ usedOrigs[h] # RefMax
      <4>1. /\ Cardinality(Refs(h)) = usedOrigs[h] + copies[h]
            /\ usedOrigs[h] \in Nat /\ copies[h] \in Nat
            /\ usedOrigs[h] > 0
            /\ usedOrigs[h] < RefMax
        BY <2>2, <3>5, UsedOrig, Bounds DEF TypeOK
      <4>2. Cardinality(Refs(h)') = Cardinality(Refs(h)) - 1
        <5>1. map \in [Ids -> 0..MaxK] /\ 0 \in 0..MaxK /\ map[i] = h
          BY <2>2, <3>5, Bounds DEF TypeOK
        <5> QED  BY <2>1, <3>2, <5>1, InsertNumbers
      <4>3. Refs(h)' = {} <=> Cardinality(Refs(h)) = 1
        BY <4>1, <4>2, Numbers
      <4>4. Released(j) <=> Refs(h)' = {}
        BY <3>5, <4>1, <4>3 DEF Released
      <4>5. usedOrigs'[h] # RefMax
        BY <2>1, <2>2, <3>5, <4>1, Bounds DEF TypeOK
      <4> QED  BY <2>1, <2>2, <3>1, <3>5, <4>4, <4>5
    <3> QED  BY <3>3, <3>4, <3>5
  <2> QED  BY <2>4, <2>5, <2>6, <2>7 DEF CInv
<1> QED  BY <1>1, <1>2 DEF Del
-----------------------------------------------------------------------------
(* Every step preserves the invariant: one case per action.                *)
LEMMA NextClaims == IInv /\ CInv /\ [Next]_vars => CInv'
<1> SUFFICES ASSUME IInv, CInv, [Next]_vars PROVE CInv'
  OBVIOUS
<1>1. ASSUME NEW i \in Ids, NEW c \in Clauses, Orig(i, c) PROVE CInv'
  BY <1>1, OrigClaims, SameClaims DEF Orig, Panic
<1>2. ASSUME EndOrigs PROVE CInv'
  BY <1>2, EndOrigsClaims
<1>3. ASSUME Define PROVE CInv'
  <2>1. PICK i \in Ids, c \in Clauses :
          /\ Replaceable(i) /\ phase = "steps"
          /\ \E U \in SUBSET (Ids \ {i}) : Derive(i, c, U)
    BY <1>3 DEF Define, Add, Imply
  <2> QED  BY <2>1, DeriveClaims
<1>4. ASSUME DefineCopy PROVE CInv'
  <2>1. PICK i \in Ids, u \in Ids, c \in Clauses :
          /\ Replaceable(i) /\ phase = "steps"
          /\ Named(u) => claim[u] \subseteq c
          /\ Share(i, c, u)
    BY <1>4 DEF DefineCopy, Add
  <2> QED  BY <2>1, ShareClaims
<1>5. ASSUME NEW U \in SUBSET Ids, Theory(U) PROVE CInv'
  BY <1>5, SameClaims DEF Theory, Panic
<1>6. ASSUME NEW src \in Relocations, Reloc(src) PROVE CInv'
  BY <1>6, RelocClaims
<1>7. ASSUME NEW i \in Ids, Del(i) PROVE CInv'
  BY <1>7, DelClaims
<1>8. ASSUME LateOrig \/ EndOfFile PROVE CInv'
  BY <1>8, SameClaims DEF LateOrig, EndOfFile, Panic
<1>9. ASSUME UNCHANGED vars PROVE CInv'
  BY <1>9, SameClaims DEF vars
<1> QED
  BY <1>1, <1>2, <1>3, <1>4, <1>5, <1>6, <1>7, <1>8, <1>9 DEF Next

(* The inductive invariant about clauses.                                  *)
LEMMA ClaimInvariance == Spec => []CInv
<1> QED  BY InitClaims, NextClaims, Invariance, PTL DEF Spec

(* The clause that an ID is renamed to subsumes the clause that the proof    *)
(* knows by that ID, for any chain of copies, relocations and deletions.     *)
THEOREM StandsIn == Spec => []StandIn
<1>1. CInv => StandIn  BY DEF CInv
<1> QED  BY <1>1, ClaimInvariance, PTL

(* trim() stops at the first empty clause: no live name is for an empty      *)
(* clause, and when it has returned the checker holds one.                  *)
THEOREM Stops == Spec => []StopsAtEmpty
<1>1. CInv => StopsAtEmpty  BY DEF CInv
<1> QED  BY <1>1, ClaimInvariance, PTL

(* After the header the checker holds just the originals that have a name    *)
(* or a saturated counter.                                                 *)
THEOREM OriginalsHeld == Spec => []OriginalsExact
<1>1. CInv => OriginalsExact  BY DEF CInv
<1> QED  BY <1>1, ClaimInvariance, PTL
-----------------------------------------------------------------------------
(* What LastNameReleases says of output ID j and one step.                  *)
LosesNames(j) ==
  /\ Refs(j) # {}
  /\ \A i \in Refs(j) : map'[i] = 0
  /\ Refs(j)' = {}
  /\ j \in Origs => usedOrigs[j] # RefMax

(* Only a deletion takes the last name of a clause away: an added entry is   *)
(* a name, and a relocation gives one name for another.                     *)
LEMMA OnlyDelLoses ==
  ASSUME IInv, NEW j \in db, LosesNames(j), [Next]_vars
  PROVE  \E i \in Ids : Del(i) /\ map[i] = j
<1>1. TypeOK /\ j # 0 /\ j \in Outs  BY DEF IInv, TypeOK, Outs
<1>2. PICK x \in Ids : map[x] = j /\ map'[x] = 0
  BY DEF LosesNames, Refs
<1>3. map' # map  BY <1>1, <1>2
<1>4. \A y \in Ids : map'[y] # j  BY DEF LosesNames, Refs
<1>5. ASSUME NEW i \in Ids, NEW c \in Clauses, Orig(i, c) PROVE FALSE
  <2>1. map[i] = 0 /\ \E h \in Origs : map' = [map EXCEPT ![i] = h]
    BY <1>3, <1>5 DEF Orig, OrigFound, Panic, Position, Matches, Named
  <2> QED  BY <1>1, <1>2, <2>1 DEF TypeOK
<1>6. ASSUME Define PROVE FALSE
  <2>1. PICK i \in Ids : map' = [map EXCEPT ![i] = k + 1]
    BY <1>3, <1>6 DEF Define, Add, Imply, Derive, Panic
  <2>2. k + 1 # 0  BY <1>1, Bounds DEF TypeOK
  <2> QED  BY <1>1, <1>2, <2>1, <2>2 DEF TypeOK
<1>7. ASSUME DefineCopy PROVE FALSE
  <2>1. PICK i \in Ids, u \in Ids : map[u] # 0 /\ map' = [map EXCEPT ![i] = map[u]]
    BY <1>3, <1>7 DEF DefineCopy, Add, Share, Panic, Named
  <2> QED  BY <1>1, <1>2, <2>1 DEF TypeOK
<1>8. ASSUME NEW src \in Relocations, Reloc(src) PROVE FALSE
  <2>1. map' = Moved(map, src, 0)  BY <1>8 DEF Reloc
  <2>2. DOMAIN src \subseteq Ids  BY DEF Relocations
  <2>3. CASE x \in Range(src)
    <3>1. PICK y \in DOMAIN src : src[y] = x  BY <2>3 DEF Range
    <3>2. y \in Ids /\ map'[y] = j
      BY <1>1, <1>2, <2>1, <2>2, <3>1 DEF Moved, Named
    <3> QED  BY <1>4, <3>2
  <2>4. CASE x \notin Range(src)
    BY <1>1, <1>2, <2>1, <2>4 DEF Moved, Named
  <2> QED  BY <2>3, <2>4
<1>9. ASSUME \/ EndOrigs \/ LateOrig \/ EndOfFile
            \/ \E U \in SUBSET Ids : Theory(U)
            \/ UNCHANGED vars
      PROVE FALSE
  BY <1>3, <1>9 DEF EndOrigs, LateOrig, EndOfFile, Theory, Panic, vars
<1>10. PICK i \in Ids : Del(i)
  BY <1>5, <1>6, <1>7, <1>8, <1>9 DEF Next
<1>11. map' = [map EXCEPT ![i] = 0]
  BY <1>3, <1>10 DEF Del, Panic
<1>12. x = i  BY <1>1, <1>2, <1>11 DEF TypeOK
<1> QED  BY <1>2, <1>10, <1>12

(* A deletion of the only name releases the clause.                         *)
LEMMA DelReleases ==
  ASSUME IInv, NEW i \in Ids, Del(i), NEW j \in db, map[i] = j, LosesNames(j)
  PROVE  j \notin db'
<1>1. TypeOK /\ j # 0 /\ j \in Outs  BY DEF IInv, TypeOK, Outs
<1>2. /\ map' = [map EXCEPT ![i] = 0]
      /\ db' = IF Released(j) THEN db \ {j} ELSE db
  BY <1>1 DEF Del, Named
<1>3. Refs(j) = {i}
  BY <1>1, <1>2 DEF LosesNames, Refs, TypeOK
<1>4. Cardinality(Refs(j)) = 1  BY <1>3, FS_Singleton
<1>5. CASE j \in Origs
  <2>1. usedOrigs[j] # RefMax  BY <1>5 DEF LosesNames
  <2>2. usedOrigs[j] = 1 /\ copies[j] = 0  BY <1>3, <1>4, <1>5, <2>1, UsedOrig
  <2> QED  BY <1>2, <2>2 DEF Released
<1>6. CASE j \notin Origs
  <2>1. copies[j] \in Nat /\ Cardinality(Refs(j)) = copies[j] + 1
    BY <1>1, <1>3, <1>6 DEF IInv, TypeOK, RefCounts, DerivedCounts
  <2>2. copies[j] = 0  BY <1>4, <2>1
  <2> QED  BY <1>2, <1>6, <2>2 DEF Released
<1> QED  BY <1>5, <1>6

(* No clause stays behind in the checker when its last name is deleted,      *)
(* whether the name is the first one or that of a copy.                     *)
THEOREM LastNameReleasesAlways == Spec => LastNameReleases
<1>1. IInv /\ [Next]_vars => \A j \in db : LosesNames(j) => j \notin db'
  BY OnlyDelLoses, DelReleases
<1> QED  BY <1>1, Invariance, PTL DEF Spec, LastNameReleases, LosesNames
=============================================================================
