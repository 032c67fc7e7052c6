-------------------------------- MODULE Trim --------------------------------
(***************************************************************************)
(* trim() of src/elab.rs: the forward pass of `frat-xor elab`.  It reads   *)
(* the elaborated proof in proof order, renames FRAT step IDs to fresh     *)
(* output IDs, lets a one-hint step share the output ID of its hint, and   *)
(* writes the XLRUP lines that an external checker reads.                  *)
(*                                                                         *)
(* The state is the renaming and its two reference counts, and beside it   *)
(* what the written lines make of the checker: the clauses it holds and    *)
(* whether some line named a clause it did not hold.                       *)
(***************************************************************************)
EXTENDS Naturals, FiniteSets, Sequences, Functions

CONSTANTS
  Ids,     \* the FRAT step IDs
  Lits,    \* the literals
  Cnf,     \* the input formula: a sequence of clauses
  RefMax,  \* the largest value of a used_origs counter, u8::MAX in the code
  MaxK     \* bound: the largest output ID

ASSUME IdsFinite == IsFiniteSet(Ids)
ASSUME CnfClauses == Cnf \in Seq(SUBSET Lits)
ASSUME Counters == RefMax \in Nat \ {0, 1} /\ MaxK \in Nat /\ Len(Cnf) < MaxK

VARIABLES
  phase,      \* "origs" (the header loop), "steps" (the main loop), "done", "panic"
  k,          \* the last used output ID
  map,        \* FRAT ID -> output ID, 0 where the HashMap has no entry
  copies,     \* output ID -> number of steps that share it, beyond the first
  usedOrigs,  \* position in Cnf -> saturating number of orig steps naming it
  db,         \* the output IDs the checker holds
  content,    \* history: output ID -> the clause written under it
  claim,      \* history: FRAT ID -> the clause the proof knows by that ID
  accepted    \* the checker met no reference to a clause it does not hold

vars == <<phase, k, map, copies, usedOrigs, db, content, claim, accepted>>

Origs == 1..Len(Cnf)
Outs == 1..MaxK

Named(i) == map[i] # 0
Refs(j) == {i \in Ids : map[i] = j}

(* HashMap::get(&PermClauseRef(ls)): of equal clauses the last one inserted *)
(* won.                                                                    *)
Matches(c) == {j \in Origs : Cnf[j] = c}
Position(c) == {j \in Matches(c) : \A h \in Matches(c) : h <= j}

Init ==
  /\ phase = "origs"
  /\ k = Len(Cnf)
  /\ map = [i \in Ids |-> 0]
  /\ copies = [j \in Outs |-> 0]
  /\ usedOrigs = [j \in Origs |-> 0]
  /\ db = Origs
  /\ content = [j \in Outs |-> IF j \in Origs THEN Cnf[j] ELSE {}]
  /\ claim = [i \in Ids |-> {}]
  /\ accepted = TRUE

Panic ==
  /\ phase' = "panic"
  /\ UNCHANGED <<k, map, copies, usedOrigs, db, content, claim, accepted>>

-----------------------------------------------------------------------------
(* The header: orig steps name clauses of the formula, the rest is deleted. *)

(* Mutant: wrapping_add for saturating_add.                                *)
WrappingInc(n) == IF n = RefMax THEN 0 ELSE n + 1

SaturatingInc(n) == IF n = RefMax THEN n ELSE n + 1

OrigFound(i, c) ==
  /\ ~Named(i)
  /\ \E j \in Position(c) :
     /\ usedOrigs' = [usedOrigs EXCEPT ![j] = SaturatingInc(@)]
     /\ map' = [map EXCEPT ![i] = j]
     /\ claim' = [claim EXCEPT ![i] = c]
     /\ IF c = {}
        THEN /\ phase' = "done"
             /\ db' = db \union {k + 1}
             /\ content' = [content EXCEPT ![k + 1] = {}]
             /\ accepted' = (accepted /\ j \in db)
        ELSE UNCHANGED <<phase, db, content, accepted>>
     /\ UNCHANGED <<k, copies>>

Orig(i, c) ==
  /\ phase = "origs"
  /\ \/ OrigFound(i, c)
     \/ (Matches(c) = {} \/ Named(i)) /\ Panic

(* Mutant: the unused originals are not deleted.                           *)
EndOrigsKeepsAll ==
  /\ phase = "origs"
  /\ phase' = "steps"
  /\ UNCHANGED <<k, map, copies, usedOrigs, db, content, claim, accepted>>

EndOrigs ==
  /\ phase = "origs"
  /\ phase' = "steps"
  /\ db' = {j \in db : j \in Origs => usedOrigs[j] > 0}
  /\ UNCHANGED <<k, map, copies, usedOrigs, content, claim, accepted>>

-----------------------------------------------------------------------------
(* The main loop.  A hint is an ID looked up in map; an absent one panics.  *)

(* Mutant: no early return at the empty clause.                            *)
DeriveGoesOn(i, c, U) ==
  IF \A u \in U : u = i \/ Named(u)
  THEN /\ k < MaxK
       /\ k' = k + 1
       /\ map' = [map EXCEPT ![i] = k + 1]
       /\ claim' = [claim EXCEPT ![i] = c]
       /\ content' = [content EXCEPT ![k + 1] = c]
       /\ accepted' = (accepted /\ i \notin U /\ \A u \in U : map[u] \in db)
       /\ db' = db \union {k + 1}
       /\ UNCHANGED <<phase, copies, usedOrigs>>
  ELSE Panic

(* A line that defines output ID k+1 as clause c.  The new ID is inserted   *)
(* before the hints U are looked up.                                       *)
Derive(i, c, U) ==
  IF \A u \in U : u = i \/ Named(u)
  THEN /\ k < MaxK
       /\ k' = k + 1
       /\ map' = [map EXCEPT ![i] = k + 1]
       /\ claim' = [claim EXCEPT ![i] = c]
       /\ content' = [content EXCEPT ![k + 1] = c]
       /\ accepted' = (accepted /\ i \notin U /\ \A u \in U : map[u] \in db)
       /\ db' = db \union {k + 1}
       /\ phase' = IF c = {} THEN "done" ELSE phase
       /\ UNCHANGED <<copies, usedOrigs>>
  ELSE Panic

(* Mutant: the copy is not counted.                                        *)
ShareUncounted(i, c, u) ==
  IF Named(u)
  THEN /\ map' = [map EXCEPT ![i] = map[u]]
       /\ claim' = [claim EXCEPT ![i] = c]
       /\ UNCHANGED <<phase, k, copies, usedOrigs, db, content, accepted>>
  ELSE Panic

(* "A one-hint RUP step is a subsumed clause, so we can skip it"           *)
Share(i, c, u) ==
  IF Named(u)
  THEN /\ map' = [map EXCEPT ![i] = map[u]]
       /\ claim' = [claim EXCEPT ![i] = c]
       /\ copies' = [copies EXCEPT ![map[u]] = @ + 1]
       /\ UNCHANGED <<phase, k, usedOrigs, db, content, accepted>>
  ELSE Panic

(* oneHint: the hint list is one positive ID, the member of U.             *)
Add(i, c, U, oneHint) ==
  /\ phase = "steps"
  /\ IF oneHint THEN \E u \in U : Share(i, c, u) ELSE Derive(i, c, U)

(* Imply and BnnImply; U are the unit clauses a BnnImply cites.            *)
Imply(i, c, U) ==
  /\ phase = "steps"
  /\ Derive(i, c, U)

(* AddXor, ImplyXor, AddBnn and, with no hints, DelXor and DelBnn: lines    *)
(* about XOR and BNN constraints, whose IDs are not renamed.               *)
Theory(U) ==
  /\ phase = "steps"
  /\ IF \A u \in U : Named(u)
     THEN /\ accepted' = (accepted /\ \A u \in U : map[u] \in db)
          /\ UNCHANGED <<phase, k, map, copies, usedOrigs, db, content, claim>>
     ELSE Panic

(* src maps each new ID to the old one it replaces.  All old IDs are taken  *)
(* out before any new one is put in.                                       *)
Moved(f, src, none) ==
  [x \in Ids |-> IF x \in DOMAIN src /\ Named(src[x]) THEN f[src[x]]
                 ELSE IF x \in Range(src) THEN none
                 ELSE f[x]]

(* Mutant: the entries are moved one after the other, each over what is     *)
(* there, and the old ones stay.                                           *)
RelocKeepsOld(src) ==
  /\ phase = "steps"
  /\ map' = [x \in Ids |-> IF x \in DOMAIN src /\ Named(src[x]) THEN map[src[x]]
                           ELSE map[x]]
  /\ claim' = Moved(claim, src, {})
  /\ UNCHANGED <<phase, k, copies, usedOrigs, db, content, accepted>>

Reloc(src) ==
  /\ phase = "steps"
  /\ map' = Moved(map, src, 0)
  /\ claim' = Moved(claim, src, {})
  /\ UNCHANGED <<phase, k, copies, usedOrigs, db, content, accepted>>

(* Mutants: the first deletion of a shared clause releases it; an original   *)
(* is released one deletion too late.                                      *)
ReleasedWithCopies(j) == j \in Origs => usedOrigs[j] = 1
ReleasedLate(j) == copies[j] = 0 /\ (j \in Origs => usedOrigs[j] = 0)

(* The line that deletes output ID j is written for the last reference.    *)
Released(j) ==
  /\ copies[j] = 0
  /\ j \in Origs => usedOrigs[j] = 1

Del(i) ==
  /\ phase = "steps"
  /\ \/ /\ Named(i)
        /\ LET j == map[i] IN
           /\ map' = [map EXCEPT ![i] = 0]
           /\ claim' = [claim EXCEPT ![i] = {}]
           /\ copies' = [copies EXCEPT ![j] = IF @ > 0 THEN @ - 1 ELSE 0]
           /\ usedOrigs' =
                IF copies[j] = 0 /\ j \in Origs /\ usedOrigs[j] # RefMax
                THEN [usedOrigs EXCEPT ![j] = @ - 1] ELSE usedOrigs
           /\ db' = IF Released(j) THEN db \ {j} ELSE db
           /\ accepted' = (accepted /\ (Released(j) => j \in db))
           /\ UNCHANGED <<phase, k, content>>
     \/ ~Named(i) /\ Panic

(* An orig step, or one of an XOR or BNN constraint, after the header.     *)
LateOrig ==
  /\ phase = "steps"
  /\ Panic

(* "did not find empty clause"                                             *)
EndOfFile ==
  /\ phase = "steps"
  /\ Panic

-----------------------------------------------------------------------------
(***************************************************************************)
(* The steps trim() may be given.  elab() removes an ID from its context    *)
(* when it meets the definition, so a definition never cites itself and    *)
(* names an ID that is free, but for an implied clause whose deletion was   *)
(* dropped because nothing ever needed it: that entry is overwritten.  A    *)
(* single hint is the whole RUP proof of its step, so it subsumes it.      *)
(***************************************************************************)
Clauses == SUBSET Lits

Replaceable(i) == Named(i) => map[i] \notin Origs /\ copies[map[i]] = 0

Relocations ==
  {src \in UNION {[D -> Ids] : D \in (SUBSET Ids) \ {{}}} :
     /\ IsInjective(src)
     /\ \A x \in DOMAIN src \ Range(src) : Named(src[x]) => Replaceable(x)}

Define ==
  \E i \in Ids, c \in Clauses :
    /\ Replaceable(i)
    /\ \E U \in SUBSET (Ids \ {i}) : Add(i, c, U, FALSE) \/ Imply(i, c, U)

DefineCopy ==
  \E i \in Ids, u \in Ids, c \in Clauses :
    /\ Replaceable(i)
    /\ u # i
    /\ Named(u) => claim[u] \subseteq c
    /\ Add(i, c, {u}, TRUE)

Next ==
  \/ \E i \in Ids, c \in Clauses : Orig(i, c)
  \/ EndOrigs
  \/ Define
  \/ DefineCopy
  \/ \E U \in SUBSET Ids : Theory(U)
  \/ \E src \in Relocations : Reloc(src)
  \/ \E i \in Ids : Del(i)
  \/ LateOrig
  \/ EndOfFile

Spec == Init /\ [][Next]_vars

-----------------------------------------------------------------------------
(* Type invariant: the renaming maps into the output IDs, and no counter    *)
(* leaves its range (no reference count is taken below zero).              *)
TypeOK ==
  /\ phase \in {"origs", "steps", "done", "panic"}
  /\ k \in Len(Cnf)..MaxK
  /\ map \in [Ids -> 0..MaxK]
  /\ copies \in [Outs -> Nat]
  /\ usedOrigs \in [Origs -> 0..RefMax]
  /\ db \in SUBSET Outs
  /\ content \in [Outs -> Clauses]
  /\ claim \in [Ids -> Clauses]
  /\ accepted \in BOOLEAN

(* The two reference counts of an original clause (orig steps, copies) add  *)
(* up to the IDs that map to it, until the 8-bit one saturates.            *)
OrigCounts ==
  \A j \in Origs :
    /\ usedOrigs[j] < RefMax => Cardinality(Refs(j)) = usedOrigs[j] + copies[j]
    /\ usedOrigs[j] = 0 => copies[j] = 0

(* A derived clause has one copy less than it has names.                   *)
DerivedCounts ==
  \A j \in Outs \ Origs :
    /\ Refs(j) = {} => copies[j] = 0
    /\ Refs(j) # {} => j <= k /\ Cardinality(Refs(j)) = copies[j] + 1

(* Reference counting is exact over every interleaving of sharing, moving   *)
(* and deleting: used_origs and copies agree with map (elab.rs:1316-1342).  *)
RefCounts == OrigCounts /\ DerivedCounts

(* Every ID the proof can still cite names a clause the checker holds:     *)
(* no del step of one name deletes the clause under another name.          *)
MappedLive == \A i \in Ids : Named(i) => map[i] \in db

(* After the header the checker holds exactly the original clauses that a   *)
(* name refers to, and those whose counter saturated: the others were      *)
(* deleted in the header or with their last name.                          *)
OriginalsExact ==
  phase = "steps" =>
    \A j \in Origs : j \in db <=> Refs(j) # {} \/ usedOrigs[j] = RefMax

(* The checker meets no hint and no deletion of a clause it does not hold,  *)
(* whatever IDs were shared, moved or reused before.                       *)
Accepted == accepted

(* The clause an ID is renamed to subsumes the clause the proof knows by    *)
(* that ID, through chains of copies, relocations and deletions of the     *)
(* clause first copied: so a hint still does what it did in the proof.      *)
StandIn ==
  \A i \in Ids : Named(i) => content[map[i]] \subseteq claim[i]

(* The early returns: trim stops at the first empty clause and only there,  *)
(* so no empty clause is ever taken for a copy that writes no line.        *)
StopsAtEmpty ==
  /\ phase \in {"origs", "steps"} => \A i \in Ids : Named(i) => claim[i] # {}
  /\ phase = "done" => \E j \in db : content[j] = {}

(* A clause whose last name is deleted (not overwritten) leaves the checker *)
(* with it, unless it is an original with a saturated counter.             *)
LastNameReleases ==
  [][\A j \in db :
       (/\ Refs(j) # {}
        /\ \A i \in Refs(j) : map'[i] = 0
        /\ Refs(j)' = {}
        /\ j \in Origs => usedOrigs[j] # RefMax)
       => j \notin db']_vars
-----------------------------------------------------------------------------
(* What the header leaves alone: no output ID is used up and no clause of   *)
(* the formula is deleted before the last orig step.                       *)
HeaderState == phase = "origs" => k = Len(Cnf) /\ Origs \subseteq db

(* The inductive invariant.  MappedLive is not inductive without the two    *)
(* counts: a del step releases a clause by its counts, and only RefCounts   *)
(* says that the count at zero leaves no other name behind.                *)
IInv ==
  /\ TypeOK
  /\ RefCounts
  /\ HeaderState
  /\ MappedLive
  /\ Accepted

=============================================================================
