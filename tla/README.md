# A TLA+ model of frat-xor

`frat-xor` turns unsatisfiability proofs in the FRAT-XOR-BNN format into XLRUP
proofs, which the verified checker `cake_xlrup` accepts. This directory holds
TLA+ modules of its elaborator, TLC configurations that check them on small
instances, and proofs that TLAPS checks for every instance. Paths such as
`elab.rs:979` are below `src/src/`.

## The system

| component | state | operations | who it talks to |
|---|---|---|---|
| `elab()`, the backward pass (`elab.rs:917-1166`) | the clauses live at the point reached (`Context`: name, literals, mark), delayed orig steps, `last_non_finalize`, `finalized_empty_clause` | one arm per FRAT step, read from the last to the first | reads `StepIter`, asks the propagation engine for hints, appends to the temporary file |
| propagation engine (`elab.rs:42-706`) | trail `tru_stack`, reasons, `first_hyp`, `first_unprocessed`, two watch lists per literal, units | `insert`, `remove`, `propagate`, `propagate_hint`, `finalize_hint`, `build_step` | called by `run_step()` |
| RAT and PR steps (`elab.rs:708-906`) | `rat_set` and `rat_set_lit`, kept from step to step | `run_step`, `pr_resolve_one` | called by `elab()` and `check_lrat()`, uses the engine |
| `trim()`, the forward pass (`elab.rs:1168-1446`) | `map` from step IDs to output IDs, `copies`, `used_origs`, last output ID `k` | header loop, deletion of unused originals, one arm per elaborated step | reads the temporary file from its end, writes XLRUP lines |
| `main`/`finish` (`elab.rs:1448-1544`) | the temporary file | run `elab()`, then `trim()`, then optionally `check_lrat()` | - |
| `check_lrat`, `lratchk` (`elab.rs:1546-1604`) | a `Context` in LRAT mode | add, delete | reads what `trim()` wrote |
| `refrat` (`elab.rs:1606-1699`) | clauses, XORs, BNNs by ID | one arm per elaborated step | temporary file to FRAT |
| `BackParser`, `StepIter`, `ElabStepIter` (`backparser.rs`) | chunks of the file, position | next segment, next step | below `elab()`, `trim()`, `stat`, `refrat` |
| `parser.rs`, `serialize.rs` | none | bytes to segments, steps to bytes | the two ends of every file |
| `stat` (`stat.rs`) | live clauses, need marks, counters | one arm per FRAT step, backward | a second reader of FRAT proofs |
| `dratchk` (`dratchk.rs`) | active clauses, need marks | forward pass, backward pass | - |
| `from-drat`, `from-pr` | IDs of the copies of each clause, last ID, largest variable | add, delete, PR step | read DRAT or PR, write FRAT |
| `drat-trim` (`drat_trim.rs`) | a port of drat-trim | parse, forward, core-first backward | - |
| `dimacs.rs`, `midvec.rs`, `perm_clause.rs`, `to_cnf.rs`, `strip_frat.rs`, `main.rs` | none worth a model | | |
| `cake_xlrup`, `frat.c`, `bench.pl` | outside the Rust program | | `cake_xlrup` reads the XLRUP file |

The program is sequential: one process, no threads, no locks. What is hard in it
is order. A FRAT proof is read backward, the temporary file is written in that
order and read backward again; deletions are made up on the way, at the last use
of a clause, so in front of a step in one order is after it in the other; orig
steps move to the front; IDs are renamed twice, may be exchanged by relocations
and used again after a deletion; one clause of the checker may stand for many
steps and is deleted by reference counts, one of them a byte that saturates. A
test proof exercises one such sequence; the ones that go wrong are longer.

What makes each part correct:

* `elab()`: the temporary file, read in proof order, defines every clause before
  a step cites it, deletes it after the last citation and never before; what the
  proof does not need leaves nothing behind; a proof whose empty clause is not
  finalized is refused.
* propagation: the trail is closed under the live clauses, no assignment rests on
  a removed clause, watches are on the first two literals, and the hints of a
  step, replayed in order, derive it.
* RAT and PR steps: the hint that is written is a proof over the clauses a checker
  holds then, and a step of a valid proof is not given up.
* `trim()`: every ID of the proof maps to a clause the checker holds, and that
  clause subsumes the one the proof knows by the ID; each output ID is deleted
  once, with its last name; the proof ends with the empty clause.
* the pipeline: a proof `elab()` accepts never makes `trim()` fail.
* readers and writers: what is written can be read back; a file is the same
  sequence of steps whichever chunks it is read in.
* `check_lrat()`: accepts what `trim()` writes, and only derivations.
* `dratchk`: both passes see the same active clauses in the same places; a line
  cites what was printed before it; what is called a reason implies the clause.
* `from-drat`, `from-pr`: after each step the FRAT file has the clauses of the
  proof, under IDs that are unique; the hints of `from-pr` are proofs, and its one
  line without a hint can be found by `elab()`.

`PROJECT.json` lists the places where this bites, each with the properties that
watch it.

## Modules

### Trim.tla: the forward pass

State: `map` (0 for no entry), `copies`, `usedOrigs`, `k` are the variables of
`trim()`; `phase` is where it is (header loop, main loop, returned, panicked).
The output is not kept as text. Instead `db` is the set of output IDs that a
reader of the lines holds, `content` the clause under each, and `accepted` says
that no line so far cited or deleted a clause the reader did not hold. `claim`
is the clause the proof means by an ID.

| action | code |
|---|---|
| `Orig`, `EndOrigs` | header loop `1206-1240`; unused originals `1242-1247` |
| `Add` = `Share` or `Derive` | `1258-1306`: a one-hint step is a copy, all others a line |
| `Imply` | `Imply`, `BnnImply` `1368-1380`, `1419-1441` |
| `Theory` | `AddXor`, `DelXor`, `ImplyXor`, `AddBnn`, `DelBnn` |
| `Reloc`, `Del` | `1308-1314`, `1316-1342` |
| `LateOrig`, `EndOfFile` | the panics `1255`, `1344`, `1396`, `1445` |

Every failed lookup is a step to `"panic"`. What the actions are given is
limited in `Next` to what `elab()` writes: no free ID is defined twice
(`Replaceable` has the one exception, an implied clause nothing needed), no
step cites itself, a single hint subsumes its step. `Pipeline` checks that
`elab()` keeps these promises.

### TrimProofs.tla: proofs about the forward pass

See "What is proved".

### Elab.tla, ElabProofs.tla: the backward pass

State: the context as `names`, `lits`, `marked`; `nonFinal` and
`finalizedEmpty` are the two flags of `elab()`; `origs` and `theoryOrigs` the
delayed steps; `temp` the temporary file as a sequence of entries. One action
per arm: `Orig`, `Add` (and `Stuck`, when propagation fails), `Reloc`, `Del`,
`Final`, `TheoryOrig` (OrigXor, OrigBnn), `Theory` (AddXor, ImplyXor, AddBnn,
DelXor, DelBnn), `ImplyClause` (Imply, BnnImply), `TheoryFinal`, `NoProof`, and
`StartOfFile` for the code after the loop. Every action has its panic branch.

The propagation engine appears as the choice of the hints `U` of an `Add`: a set
of clauses of the context. The one thing the passes rely on is kept: if the hint
list is one clause, that clause subsumes the step (`HintSubsumes` of
`UnitHints.tla` says so of the engine, and is proved of it). Hints are a set because nothing here depends on their
order; the made-up deletions of one step are adjacent and commute.

`Readable` and `NothingOwed` are about `temp` as its reader will see it. They
are stated for every prefix of the backward reading: the clauses that the
context holds and needs (`Pending`) are taken to be there from the start.

### Pipeline.tla, PipelineProofs.tla: both passes

`E == INSTANCE Elab` and `T == INSTANCE Trim` over one set of variables; the
temporary file is the only thing they share. `Elaborate` is a step of `elab()`,
`Trim` a step of `trim()` that pops the last entry and hands it to the action of
`Trim.tla` for its kind. `Elaborate` is limited to whole proofs: at the start of
the file every clause is introduced, orig steps quote the formula, nothing makes
`elab()` panic. `TrimContract` is the refinement: every behaviour of the pipeline,
seen through `trim()`'s variables, is a behaviour of `Trim.tla`. `PipelineProofs`
proves it for every instance, so that the guards of `Trim!Next` are facts about
`elab()`, and what is proved of `Trim` holds of the program.

### UnitProp.tla, UnitHints.tla: the propagation engine

State: the clauses by address with their marks (`names`, `clauses`, `marked`),
the watch lists, and the fields of `VAssign` under their own names. `names` is a
set of addresses: IDs only matter to `elab()`. A literal is an integer, as in the
code, and 0 is the literal of the empty clause, its own complement. Between steps
clauses are inserted, removed and marked as the arms of `elab()` do; `Step` begins
a `build_step()`, and `pc` and the local variables lead through it.

| action | code |
|---|---|
| `InsertClause`, `RemoveClause`, `MarkClause` | `insert`, `remove`, `966-977` |
| `StartHint`, `UseHint`, `HintRound` | `propagate_hint` `631-688`, with the shortcut for a fresh pivot `761-792` |
| `Propagate`, `Assume` | `propagate` `540-575` |
| `ProcessUnits`, `NextPropLit`, `Visit`, `PropDone` | `propagate_core` `440-538` |
| `Finish` | the end of a proved step in `run_step` |

`Visit` keeps the place in a watch list that `Replace` takes a clause out of. The
order of the hash map of units is a choice. What is left out: `all_hints` mode.
In this module `pc = "stuck"` is final; `RatStep` goes on from there.
`UnitHints.tla` computes the hint that `finalize_hint()` would write in a state
where a conflict was found, and replays it as `lratchk` would. `mark()` is recursive;
`Mark` is a function over the depth of the calls, which the length of the trail
bounds, as a reason rests on earlier literals. `Rup(c)` is the reference definition: the
closure of the negated clause under unit propagation, with no data structure.

`UnitPropProofs` proves what `UnitProp` is checked for, and what `UnitHints` is.

### RatStep.tla, RatStepProofs.tla, RatVerdictProofs.tla: RAT and PR steps

Extends the engine with `run_step()` and `pr_resolve_one()` and drives it as the
arms of `elab()` do: `Insert` (del and final), `Take` and `BeginStep` (add), `Need`
(a mark from a theory step). `task` says what the engine is at work for.

| action | code |
|---|---|
| `Run`, `RoundEnds` | `build_step` `690-706` with the engine's actions; the special case of an empty hint `761-792` |
| `Proved`, `NotProved` | `798-802`; the witness and the set of touched clauses `804-862` |
| `NextResolvent`, `Resolve`, `AssumeReduct` | the groups of RAT hints in their order, then the rest in any order `866-893`; `709-732` |
| `Refutes`, `CannotRefute` | the part of the hint that resolvents share `739-750`; the panic `733` |
| `Write` | `895-904` and the marks `965-978` |

`ratSet` and `ratSetLit` outlive a step, as in the code. `clauses_by_maxvar` is an
index with no effect of its own and appears as `Candidates`. The steps a proof may
have are limited to valid ones (`Justified`: RUP, or every resolvent is), with
hints that may be wrong, incomplete or missing, and

* RAT hints only with a clause that is not RUP. With a RUP clause that the given
  hint does not prove, the code resolves although it need not, and if one of the
  resolvents marks a clause with the negated pivot that was not marked before, the
  hint has no group for it. Solvers write RAT hints only where they are needed.
* no PR step with an empty hint, which the comment at `elab.rs:768` assumes.

The passing run has no PR steps, for the reason that `rat_after_pr` shows.
`RatStepProofs` proves that the hints are accepted, PR steps included;
`RatVerdictProofs` proves the rest of what the run checks of single states.

### Segments.tla, VecRead.tla, BackRead.tla, BackReadProofs.tla: the files as bytes

`Segments` is the binary form: `StepBytes`, `ElabBytes` are the `write` functions of
`serialize.rs`, `Read` the segment parser of `parser.rs` with its numbers of 7 bits
a byte, and `StepShapes`, `ElabShapes` the sequences of segments that `StepIter` and
`ElabStepIter` take for a step. `BackRead` reads a file from its end as
`BackParser` does: `Open` is `new()`, `ReadChunk`, `Hit`, `Miss` and `FileStart` the
loop of `next()` over the buffers, `TakeStep`, `NoStep`, `End` the iterators on top.
The loop and the iterators take turns in the code; since a segment does not depend
on the ones read after it, the model reads all segments first.

`VecRead` is `VecBackParser`, the reader of a temporary file held in memory (`-m`):
`NextSegment` takes the bytes behind the last 0 but for the closing one, `NoZero` is
its panic. It serves as the abstract specification of `BackRead`, with the bytes that
are in no segment yet (`Unread`) for its vector; `ReadsAsVec` is the refinement.

### Rewind.tla, Dratchk.tla, DratchkProofs.tla: dratchk

`Rewind` is the abstract specification: a list that moves on from value to value
and then back through the very same values. `Dratchk` is the code: `AddHyp`, `Add`,
`Del`, `DelMissing` are `Pass1`; `Turn` is `Pass2::new`; `UndoDel`, `UndoAdd` are
`process_step`; `Number` is the end of `run`. A deletion is `swap_remove`, its
undoing `swap_insert`, and only the place and the clause are remembered.
`FindReason` is the search for a hyper-resolution and then for a RUP chain, with the
two priorities of the loop. `snaps` is a history variable: the lists of the first
pass; `Rewinds` is the refinement `Dratchk => Rewind` with `now <- active`,
`past <- snaps`.

### FromPr.tla: from-drat and from-pr

One module, as the two programs share the context: `ReadClause`, `AddRat`, `Del`,
`DelMissing`, `Finish`; PR steps are `CopyPr` in `from-drat` and `AddPr` in `from-pr`,
where `PrLines` is the whole of `add_pr_step()`: the assignment and its
minimization (`-O`), the four phases, the clauses that come back under their old
IDs. A hash map is iterated in any order (`SetToSeqs(ctx)`). `db` and `drat` are
history: what a reader of the file holds, and what the DRAT proof has.

## Runs

| run | instance | what it shows |
|---|---|---|
| `trim` | 3 IDs, 2 literals, formula `<<{p}, {}, {p}>>`, `RefMax` 2, `MaxK` 5 | the reference counts and the renaming, over all orders of sharing, moving, deleting, reusing IDs |
| `elab` | 2 IDs, 1 literal, both modes, 5 steps | the temporary file is well formed after every step read |
| `pipeline` | 2 IDs, 1 literal, formula `<<{p}, {p}>>`, 6 steps | the contract between the passes, no panic, the refutation is reached |
| `unit_prop` | 3 addresses, 3 variables, 6 clauses that may be inserted, 3 goals, up to 2 hints | trail and watches stay sound, propagation misses nothing, the verdict is right, the hint replays |
| `rat_step` | two sets of 4 addresses with one clause each, 3 variables, 1 add step in the first set, up to 2 in the second, up to two resolvents a step, 1 hint, 1 group of RAT hints | written hints are proofs and list every resolvent, no valid step is given up but where the code drops the hypotheses or has half propagated the trail, every step is answered |
| `back_read` | 15 to 27 kinds of step, files of up to 2 steps, buffers of 1, 3, 8 and 64 bytes | what is read back is what was written, wherever a chunk ends, each segment is the one that reading in memory gives, and reading ends |
| `dratchk` | 6 clauses over 3 variables, 3 formulas, 7 steps | the second pass retraces the first; reasons are cited in order, imply their clause, and are missed only where unit propagation fails |
| `from_pr` | 4 formulas, 5 clauses, 5 PR steps, 3 programs, 2 steps | a well-formed FRAT file with the clauses of the proof; its hints prove; its line without hints can be found |
| `rat_after_pr`, `rat_half_propagated`, `from_pr_opt`, `bnn_no_output` | instances of their own of `RatStep`, `FromPr`, `BackRead` | violations: see "Divergences" |

Bounds. `RefMax` stands for `u8::MAX` (255): the code compares with it and
nothing else depends on its value, so 2 is enough for a counter to be 0, in
between, and saturated, and three IDs can name a clause once more than it
counts. A formula that holds a clause twice has the position of the last one in
the map (`PermClauseRef` keys), and the first is deleted as unused. Three IDs
are two copies of a clause and one more to exchange or reuse. `MaxK` leaves two
derived clauses beside the three of the formula. In `elab`, five steps are the
shortest proofs in which a clause is finalized or deleted, used twice, moved,
and introduced. `pipeline` needs six so that a proof with an original, a copy, a
deletion and the empty clause runs through both passes. In `Pipeline`,
`Completable` cuts proofs that can no longer introduce all their clauses within
the bound; it removes no proof that could. In `unit_prop` the clauses are chosen
so that one has a literal that is not watched, chains of two propagations exist,
the empty clause can come at any time, a goal is a tautology, and removals cut
the trail in the middle; two hints are the fewest of which one can be put off.
Symmetry is used for the IDs of `trim` and the addresses of `unit_prop`, where no
definition chooses between them, and not for liveness.

In `rat_step` the clause `(1)` is RAT on 1 because of `(-1 2)`, whose resolvent needs
`(2 -3)` and `(3)`; depending on when these come, the resolvent's hint is its own,
shared, or found by the unit propagation of the root trail. Here a valid step is given
up because `propagate()` drops the hypotheses. The other four clauses are there for
what happens between two resolvents: `(1 3)` is RAT on 1 because of `(-1 -3)`, whose
resolvent is a tautology, and `(-1 2)`, whose resolvent needs `(2 3)`, in a part of the
trail that both share or in its own. They come in either order, one of them
may be passed over as not needed yet, and the trail of the first is to be gone for
the second: without `clear_to(depth)` the hint written is no proof. A second add step
finds what the first left on the trail and in `rat_set`, which an insertion between them
must give up. A clause is live only with clauses of its own set (`MaxSteps` has a
bound for each), so that the run is of two instances that share one trail. In both a
resolvent is refuted by one clause, so that a reason found in one resolvent and
wanted again in the next is the business of `HintsAlwaysAccepted`, which
is proved, and a resolvent that is given up after another was refuted that of
`StuckOnlyRightly` and `rat_half_propagated`. In `back_read` a segment has 2 to 8 bytes and literals of one and of
two bytes, so that with the four sizes of a buffer a chunk ends at every place of a
segment, a segment lies in one, two and many chunks, and a file is empty, shorter
than, equal to and longer than a chunk. In `dratchk` seven steps leave four to the
proof: a deletion in the middle, additions after it, and a second deletion that
moves the clause that the first one moved. In `from_pr` the two steps are a PR step
after, or followed by, any other; the formulas have a clause in two spellings.

`CHECK_DEADLOCK FALSE` everywhere: all passes stop, by returning or by a panic.

Fairness. `Pipeline` assumes `WF_vars(Trim)` and nothing else: once the file is
written, `trim()` is a loop over a finite file in the same process and takes its
next step as long as it has one. Nothing is assumed of `elab()`, since how long
the proof is, and whether it is whole, is up to the solver. So `Refuted` says:
a whole proof with a finalized empty clause is always turned into a refutation,
not just never into a panic. `RatStep` assumes `WF_ratVars(RatEngine)` and `BackRead`
`WF_vars(Reader)` for the same reason: `run_step()` is called and runs to its end,
the reader has opened the file and goes on, and nothing else moves meanwhile.
`AddStepEnds` is about the loops that edit what they iterate over (watch lists,
hints put off to the next round), `ReadEnds` about the loop over the buffers.

Every property has a mutant in `PROJECT.json`: a plausible slip in one definition
(a missing count, a wrong order, a dropped check) under which TLC finds the
property violated.

### Divergences

`rat_after_pr`: the special case of `run_step()` for a fresh pivot trusts
`rat_set_lit`. A PR step with several witness literals refills `rat_set` and does
not touch `rat_set_lit`; the next RAT step with the old pivot, an empty hint and no
insertion in between takes the PR step's set for its own, and is accepted with no
proof although clauses hold the negated pivot.

`rat_half_propagated`: with RAT hints `run_step()` does not call `propagate()` for the
clause, so the part of the trail that the resolvents share may not be propagated. When
`propagate_core()` ends a resolvent with a conflict it sets `first_unprocessed` to the
length of the trail (`elab.rs:518`), though it was told of a part of it only, and
`clear_to(depth)` (`elab.rs:739`) cuts that back to `depth`. No later resolvent
propagates the shared part, and the code panics on a valid step.

The clauses are `(1)`, `(1 3)`, `(-1 -3 2)`, `(-1 2)` and, marked, `(-3 4 2)`,
`(-3 -4 2)`; the step is `(1)` under `--full`. It has one group of RAT
hints, which is empty and for a clause that is no candidate, `(1 3)`, so
that it is passed over and the order is that of the hash map. With `(-1 -3 2)` first,
the trail is -1, 3, -2. The marked clauses are gone through first: they are told of -1
and 3, `(-3 4 2)` gives 4 and `(-3 -4 2)` the conflict. The unmarked clauses were told of
nothing, so `(1 3)` has not been told of -1; it was not skipped as satisfied.
After `clear_to(1)` the queue of both starts behind -1. The resolvent with `(-1 2)`
has only -2 to tell, `(1 3)` is not looked at, 3 is missed, and the panic is
that of `elab.rs:733`. A group for `(-1 -3 2)`, which is then the first, does the same; with a
group for `(-1 2)` that clause is the first, the first propagation reaches `(1 3)`, and both
resolvents are refuted. `StuckRightly` has the premise that excludes this. The
divergence was found while looking for a proof of a `StuckRightly` without it.

`from_pr_opt`: under `-O` the clause that minimizes a literal may be one that phase
II weakens and deletes; phase IV then cites its ID. The comment at
`from_pr.rs:180` says that this takes `mflag`; it does not.

`bnn_no_output`: the binary deletion of a BNN without an output literal ends with a
0 too many, which the readers take for a segment without a keyword.

Four more, seen while modelling, have no run of their own. `elab()` panics with "'f'
steps should only appear at the end of the proof" when it meets a final step after (in
proof order: before) another step, but the flag it looks at is set by orig, add and del
steps only; implied, BNN, XOR and reloc steps leave it alone, so that final steps in
front of them are taken (`Next` of `Elab` keeps final steps at the end).
Without `--full`, `pr_resolve_one()` leaves out a clause that nothing needs yet
(`elab.rs:714`); with a PR step the refutation of another resolvent may use that very
clause, which is then marked and kept although the hint has no resolvent for it
(clauses (1 4), (-1 3), (-2 3), (2 3), PR step for (1 4) with witness 1 2). `rat_set` keeps the slab
index of a clause that `remove()` takes out, and a later RAT step with the same pivot
indexes the slab with it: the branch of `Resolve` for `i \notin names` is a panic in
the model as in the code. `propagate()` drops the hypotheses when the root trail is
not propagated; called for a resolvent it does not assume them again, so that a
valid RAT step may be given up. `StuckRightly` says that this case and the one of
`rat_half_propagated` are the only ones.

## What is proved

`TrimProofs.tla`, for every finite set of IDs, every set of literals, every
formula, every `RefMax > 1` and `MaxK` above the length of the formula:

| theorem | statement |
|---|---|
| `Invariance` | `Spec => []IInv` |
| `TypeCorrect` | `Spec => []TypeOK`: in particular no reference count goes below zero |
| `CountsExact` | `Spec => []RefCounts` |
| `MappedStayLive` | `Spec => []MappedLive` |
| `NeverRejected` | `Spec => []Accepted` |

The argument. What one wants is `MappedLive`: an ID that can be cited maps to a
clause the reader holds. Only `Del` removes from `db`, when the counts say that
the name deleted is the last. That this is so needs `RefCounts`: for an original
`|Refs(j)| = usedOrigs[j] + copies[j]` while the byte is not saturated (and a
saturated one is never released), for a derived clause `|Refs(j)| = copies[j] + 1`.
`RefCounts` in turn needs the types (the counters are never taken below zero, or
subtraction would not be exact), and a definition to be of an ID whose entry may
be lost (`Replaceable`). `HeaderState` says that nothing was deleted and no
output ID used up in the header. `Accepted` follows step by step from
`MappedLive` before the step. `IInv` is the conjunction. The lemmas are one per
action (`OrigInv`, `DeriveInv`, `ShareInv`, `RelocInv`, `DelInv`, ...), with
three about cardinalities: the sets `Refs(j)` gain or lose one ID when an entry
is put or removed, and a relocation, being injective, keeps their size.

Its second part goes from names to clauses, under the same assumptions:

| theorem | statement |
|---|---|
| `StandsIn` | `Spec => []StandIn` |
| `Stops` | `Spec => []StopsAtEmpty` |
| `OriginalsHeld` | `Spec => []OriginalsExact` |
| `LastNameReleasesAlways` | `Spec => LastNameReleases` |

The argument. `CInv` joins the first three with `OrigsKept`, which gives a chain of
copies its start: an original stays under its own ID. A written line takes an
output ID that no name has (`NewOutput`, from `DerivedCounts`), so no entry changes
its clause; a copy stands for its single hint, which subsumes it. No copy of an
empty clause can be made, because `StopsAtEmpty` leaves no live name for one.
`UsedOrig` ties the release of an original at the end of the header to its names.
For `LastNameReleases`, `OnlyDelLoses` says that of all steps only a deletion takes
the last name of a clause away, and `DelReleases` that the counts then allow it.

Assumptions: `IdsFinite` (a proof has finitely many steps), `CnfClauses` (types),
`Counters` (`RefMax` is at least 2, the bound leaves room for one line).

`DratchkProofs.tla`, for every number of variables, every set of clauses, every set
of formulas and every bound on the steps:

| theorem | statement |
|---|---|
| `Invariance` | `Spec => []IInv` |
| `TypeCorrect` | `Spec => []TypeOK` |
| `RewindsAlways` | `Spec => Rewinds`: `Dratchk` implements `Rewind` |
| `CitedAlways` | `Spec => []CitedBefore` |
| `ReasonsJustify` | `Spec => []Justified` |
| `GivesUpOnlyRightly` | `(\A c \in Clauses : Plain(c)) /\ Spec => GivesUpRightly` |

The argument. `SwapUndo` is the lemma the program rests on: `swap_insert` undoes
`swap_remove` at the same place. `IInv` is `TypeOK` and `Replay`: each step
that is recorded leads from its old list to the next one, and the last leads to
`active`. `Replay` is what makes `UndoAdd` take off the clause that this step added,
and `Restored` says that the list after an undone step is the recorded one, which is
the refinement. For `CitedBefore`, `Dated` says that every clause of a recorded
list was added by an earlier step, and `Pending` that a cited step is either printed
later or still to be undone; at the end no step is left. What `FindReason` cites is
bounded by `ReasonCites` alone, so the theorem holds for any search.

For `Justified` the search matters. `Locals` is the invariant of the local steps:
each is a literal of the clause or comes from a clause of the list (`FromClause`)
whose other literals were falsified by earlier local steps, and falsifies a new
variable. `ProcessGood`, `SweepRun`, `RoundGood` and `LocalGood` carry it through the
loops. `UsedClosed` says that the stack keeps with every step its antecedents, all
earlier ones; so if the cited clauses hold and the clause does not, the least kept
step whose literal is true contradicts itself (`RupSound`, `HyperSound`). That is
a statement about the list the search ran on; `Justified` is about the lines
printed. Between them stand `OneClause` (a token means one clause, in every recorded
list), `PrintedOnce`, and `Follows`: what a printed clause follows from is what its
cited tokens mean, printed or still to come.

For giving up, `NewVars` is the pigeonhole: every round that changes the local steps
takes a new variable, so that `NumVars + 1` rounds end in a conflict or in a round
that changes nothing, and such a round has asked every clause of the list
(`RoundAsksAll`). The literals falsified so far are then the closed set `NotRup` asks
for. `Plain` says that a clause has no literal twice and not with its complement: with
two equal literals `process_local` takes the clause for one with two literals left. The code does
not drop such literals when it reads a proof, so this is a hypothesis of the theorem and
not an assumption of the model; the clauses of the `dratchk` run satisfy it.

Assumptions: `Bounds`, `ClausesAreClauses`, `FormulasAreFormulas` (types).

`ElabProofs.tla`, for every finite set of IDs, every set of literals, both values of
`--full` and every bound on the steps:

| theorem | statement |
|---|---|
| `Invariance` | `Spec => []IInv` |
| `TypeCorrect` | `Spec => []TypeOK` |
| `ReadsBack` | `Spec => []Readable` |
| `NothingStaysOwed` | `Spec => []NothingOwed` |

The argument. `Readable` is about the states a reader passes through, which
`LiveAfter` computes from the end of the file that was not written yet; a step of
`elab()` adds its entries at the other end and changes what is pending, so every
state may change at once. The invariant therefore does not mention `LiveAfter`. It
says that there is a chain (`CertOf`, `Chain`): sets of known clauses, IDs with
their literals, one between every two entries, where `Step(Q, e, R)` says what the
entry `e` needs of `Q` and makes of it. A chain starts at `Start`, the clauses the
context holds and needs with those of the delayed orig steps, and ends in a set
where, without `--full`, only empty clauses are left, and where one is left if one
was finalized. Entries are added by putting a chain for them in front
(`ChainBoth`). For an `Add` that is `HintsChain`, the deletions made up for the new
hints, and the step itself; for a relocation `RelocRead`; at the start of the file
`DelsChain` and `OrigsChain`. `Apart` keeps the IDs of delayed orig steps out of all
later steps, so that they can be read first.

From chains to readers: `StepReads` takes any reader who knows at least the clauses
of `Q` and owes no more than `Q` has (`Covers`) over `e` to `R`, without citing a
missing clause or taking an owed ID. The spare clauses that `Covers` allows are the
implied clauses nothing needs. `ChainReads` follows a chain to its end by a least
counterexample (`Least`, from the well-foundedness of the naturals), which also
shows that the recursion of `LiveAfter` defines a function (`LiveExists`). The chain
is quantified over sets of sets and is not evaluated by TLC; what follows from it is.

Assumptions: `IdsFinite` (the deletions made up for a set of hints are a sequence),
`StepsBound`. Of the engine nothing is assumed but that hints are in the context.

`PipelineProofs.tla`, for every finite set of IDs, every formula, both values of
`--full` and every bound:

| theorem | statement |
|---|---|
| `Invariance` | `Spec => []PInv` |
| `NeverPanics` | `Spec => []NoPanic` |
| `CheckerAlwaysAgrees` | `Spec => []CheckerAgrees` |
| `ContractKept` | `Spec => TrimContract`: the pipeline implements `Trim.tla` |

The argument. While `elab()` runs, `PInv` is its invariant and `trim()` has not
begun. When the file is written, its chain runs from the orig steps to an empty
clause (`FileWritten`): nothing is in the context any more, and an empty clause was
finalized. From then on `trim()` is a reader of the chain, one that renames. `Fits`
says how: every clause of the first set of what is left of the chain has an output
ID, and what `trim()` means by it subsumes it; an ID outside the set has no entry, or
one that may be lost (`Replaceable`, the implied clauses nothing needed); in the
header it has none. `FirstRead` takes the last entry off the file and the first link
off the chain, and the lemmas `DeriveFits`, `ShareFits`, `DelFits`, `RelocFits` follow
`trim()` over it. With `Fits` every lookup of `trim()` succeeds, a definition is of an
ID that `Trim!Next` lets define, and a one-hint step is a copy of a clause that
subsumes it, although the hint was renamed, copied and moved since `elab()` saw it.
That the file does not end before the refutation is `NoMoreNever`: the chain of an
empty file is one set, which has an empty clause; `trim()` has a name for it, but by
`StopsAtEmpty` it has stopped as soon as it had. `OrigsLast` keeps orig steps in the
header. `CheckerAgrees` then follows from `TrimProofs`, whose two
invariants are conjuncts of `PInv`. The proof modules of the two passes are
instances (`EP`, `TP`); `SameElab`, `SameTrim` and `SameEnvironment` say that their
definitions are the ones `Pipeline` uses.

Assumptions: those of the two passes, named again in `Pipeline.tla`.

`UnitPropProofs.tla`, for every number of variables, every set of addresses, every set
of clauses that may be inserted or asked for (without repeated literals) and every
bound on the hints:

| theorem | statement |
|---|---|
| `EngineInv` | `Spec => []IInv` |
| `WatchesAlwaysOk` | `Spec => []WatchesOk` |
| `TrailAlwaysOk` | `Spec => []TrailOk` |
| `EngineSound` | `Spec => [](pc = "found" => Rup(goal))` |
| `PropagationInv` | `Spec => []SInv` |
| `AlwaysSaturated` | `Spec => []Saturated` |
| `EngineVerdict` | `Spec => []Verdict` |

The argument. `IInv` has the types; `Lists`, which says where each clause is on the
watch lists as a sequence without repetition (with `Visit` at its place `cur.at` in the
list that `swap_remove` shortens); `Derivation`, that a literal of the trail has a
reason whose other literals are false before it, or is a hypothesis; `ConflictLast`;
and what `pc` and `stage` tell of the trail (`Stages`, `Consistently`). For soundness a
set closed under unit propagation that holds the negated goal holds the trail, by
the least place of a literal outside it (`FoundRup`).

That no unit clause is missed needs more, as a clause may have a false watch at any
time: after a backtrack, after an insertion with false literals, while it waits in
the list being visited. `Watched` says when: let n be the place of the complement of
one watch, told to the class of the clause already (`Reach`: the positions
`unprocessed` of the two classes during a call, `first_unprocessed` between calls).
Then the clause is still to be visited (`Due`) or its other watch is true; and if n
is in the part of the trail that outlives the step (`Ground`) then so is the place of the other
watch. The last clause is what a backtrack to `first_hyp` needs: it
takes both literals or none. It is not true once the units alone are in conflict,
where the code stops visiting and every later step ends with this conflict
(`UnsatAt(firstHyp)`). `UnitsIn` says the same of the unit clauses, which have no
watches; `Marks` orders the positions, `Assumed` says that the goal is false but for the
literals left to assume. In a stuck state every class was told of the whole trail,
so `Saturated` follows (`SeenAll`), and the trail is itself the closed set that shows
the goal not RUP (`StuckNotRup`). TLC checked `Watched`, `UnitsIn`, `Marks` and `Assumed` on the
instance of `unit_prop` before they were proved.

Assumptions: `Sizes`, `NoneIsNoId`, `InputsAreClauses` (types; a clause names no
literal twice, as `dedup_vec` sees to before each `insert`; it may be a tautology).

The same module, for the same instances and under the same assumptions:

| theorem | statement |
|---|---|
| `HintsReplay` | `Spec => []HintReplays` |
| `HintsSubsume` | `Spec => []HintSubsumes` |

The argument rests on `IInv` alone. `Ordered` says of the hint so far, at any time
during `mark()`, that each clause of it is the reason of its first literal and that
its other literals are false by a hypothesis or by the reason of an earlier clause of
the hint, and that a marked literal needs no more than what is listed (`Done`).
`OneMarks` carries it over one call: by `Derivation` the calls it makes are for
literals that come earlier on the trail, so that `MarkMarks` follows by induction on the
place of the literal, and the depth `Mark` allows is never used up. `FinalHintReplays`
then reads the hint with the checker: what it holds true stays consistent and has the
first literal of every clause read (`Followed`, `UseFollows`), as the only literal of a
clause that can be free or true is its first. At the end it holds both sides of the conflict
unless a clause was falsified on the way; holding both is not consistent, so one
was. For `HintsSubsume`, the one clause explains one side of the conflict, its other literals
are hypotheses, and the other side of the conflict is a hypothesis too.
`mark()` and the replay are functions over the number of turns of a loop; `LoopOf` and
`Upward` are the induction over it, by the least turn that fails.

`BackReadProofs.tla`, for every set of buffer sizes, every set of steps with numbers below
`MaxNumber` and every length of the file:

| theorem | statement |
|---|---|
| `ReaderInv` | `Spec => []IInv` |
| `TypeCorrect` | `Spec => []TypeOK`: no seek goes before the start of the file |
| `ReadsLikeVec` | `Spec => ReadsAsVec`: `BackParser` implements `VecBackParser` |

The argument. `Base(n)` is the place in the file of the chunk in buffer n. `IInv` says
where the chunks and the read position are (`Placed`), that the bytes of each buffer,
of the first one up to `pos`, are those of the file from its base on (`Held`), and
that the chunks scanned without a hit have no 0 but for the closing one of the
segment (`Seen`). `Placed` has also that the last byte left is a 0: what is
written ends with one (`Ended`, over the shapes of `StepBytes` and `ElabBytes`), and so
does what remains after a segment was cut off behind a 0. `ChunksAreFile` joins the
tail of buffer n, the buffers between in reverse order, and the front of the first
one to a stretch of the file, by induction on n. With `Held` a hit at i is the last 0
before the closing one, since the later chunks are `Seen` (`HitParses`); at the start of
the file all chunks are (`FileStartParses`). `Segmented` reads that as a step of
`VecRead`, `RefinesNext` goes through the actions, and reading a chunk or passing
over one is a stutter. `NoZero` is no step of it: `VecBackParser` never panics on
what `elab()` writes.

Assumptions: `Bounds`; `StepsAreSteps` (types: the numbers of a step fit two groups of 7
bits, the most that `U` is written for).

`RatStepProofs.tla`, for every number of variables, every set of addresses, every set of
clauses, every set of witnesses, both values of `--full` and every bound on the hints:

| theorem | statement |
|---|---|
| `HintsAlwaysAccepted` | `RatSpec => []HintsAccepted` |

The argument. A step that is not RUP leaves the engine with its clause assumed false and
then, for one resolvent after the other, adds hypotheses and takes them back. The
engine's invariant `IInv` knows one goal. So the engine is looked at through a mapping
(`EPc`, `EStage`, `EGoal`, `ERest`): at work for a resolvent it is an engine that was
asked for the lemma and the resolvent together; between two resolvents it is one whose
goal is the lemma and that has assumed it. `E == INSTANCE UnitPropProofs WITH ...` gives
its invariant, `E!IInv`, and every lemma about the engine's actions is used again.
`LInv` adds where the engine may be in which task (`Tasks`), what is known of the
lemma (`Open`, `Denied`), and `Holding`, which is about the hint. The part of the trail
that the resolvents share gets its steps written once, before all resolvents (`preRat`);
each resolvent has steps for its own part. `Started` says that a checker which
reads `preRat` holds just the marked literals of the shared part, `Refuting(g)` that from any
consistent set with these and the resolvent of g false the hints of g lead to a conflict.
When a later resolvent marks more of the shared part, `preRat` grows behind the hints
that exist: since `Refuting` is about every larger set, they remain proofs. For the
resolvent at hand, the marks are `Linked` to their reasons, so that both parts are
derivations in their order (`Supported`), the checker follows each of them
(`Follow`), and reading one after the other is reading the joined hint (`ReplayJoin`).
`RInv` lets go of all this after a panic, after which nothing happens.

Assumptions: those of `UnitPropProofs`; `Bounds`, `ClausesAreInputs`, `WitnessesAreLits`
(types).

`RatVerdictProofs.tla`, for the same instances where `Witnesses = {}`, that is, for proofs
without PR steps:

| theorem | statement |
|---|---|
| `StuckOnlyRightly` | `RatSpec => []StuckRightly` |
| `NoneMissing` | `RatSpec => []ResolventsListed` |
| `FreshWithoutPr` | `RatSpec => []SpecialCaseFresh` |

The code needs the hypothesis: with PR steps the third statement is false, as
`rat_after_pr` shows, the second as well (the clause left out under "Divergences"), and
the first rests on the same kept set. The instance of `rat_step` satisfies it.

The argument. `PInv` is about what `propagate()` was told of. While the step is `Steady`
(the first resolvent, or the shared part was propagated to its end, or the hypotheses
are gone) the engine has the invariant of propagation it has for one goal,
`E!Propagated`. Otherwise the engine may have visited only a part of the
trail, and no more is known than of the units (`UnitsTold`) and of the literals visited
before the hypotheses (`SeenBy`): this is the case that `rat_half_propagated` shows to
give up. `AllDenied` says that the resolvent is false but for what is left to assume.

`QInv` is the bookkeeping. `CacheExact`: what is kept from an earlier step are the clauses
with the complement of the pivot it was kept for, over every insertion and removal since.
`Justly`: the step is valid in the context of this moment. `AllListed`: every such
clause that the checker holds is in the hint, being resolved, or still to come.
`Untouching`: no other clause of the hint has the complement of the pivot. A clause
that the hint cites is marked when the step is written, and the checker then holds it; had it
the complement of the pivot, it would be a resolvent that nobody listed. It cannot
(`ReasonOpposesNot`): a cited clause is the reason of its first literal, and its other
literals are false. The complement of the pivot is true with the lemma assumed, so it
could only be the first; then the rest of the clause is false in the shared part, its
resolvent is refuted there, and the step would be RUP.

A stuck engine that is `Steady` has a trail closed under unit propagation without a
conflict (`StuckHolds`). By `Justly` the hypotheses of the step and the resolvent cannot
all be on it. Where the engine runs without hypotheses but the trail has the negated
lemma all the same, the complement of the pivot has a reason; that clause is itself one to
resolve with, its resolvent is false, and `Justly` applies to it instead.

## What is only model-checked

* `RoundTrip` of `BackRead`: what `Read` makes of the bytes is a fold over data of any
  length.
* The properties of `FromPr`. They are the first item of the plan.
* `Refuted`, `AddStepEnds` and `ReadEnds`: liveness properties.
* Of RAT steps in proofs that also have PR steps, only that their hints are accepted
  is proved. Nothing else is claimed of them.

## What is not modelled

* Text: the ASCII form of files, numbers and comments, the forward segment, LRAT,
  DRAT and DIMACS parsers (`parser.rs`, `dimacs.rs`), `strip-frat` and `to-cnf`, which
  are one-pass filters over them. `strip-frat` drops `l` and `t` segments but keeps
  `u`, which the readers then reject.
* XOR and BNN constraints themselves. The code passes them through; only the
  clause IDs they cite have state. `format.md` says that RAT and PR steps are not
  supported together with them; the code takes both, and so do the models.
* `all_hints` mode of the engine (no propagation, hints must do) and the index
  `clauses_by_maxvar`.
* `check_lrat()` and `lratchk`: what they do with a line is `run_step()` over given
  hints, which `UnitProp` and `RatStep` model; what is missing is their outer loop
  over the lines, for which `Trim` has `db` and `accepted`. `cake_xlrup`, and not this
  checker, reads XLRUP.
* `refrat`: a loop that copies the temporary file to FRAT; the segments it writes are
  in `Segments`.
* `stat`: its only output is a report. `midvec.rs` is a container; where its bounds
  can bite, `FromPr` has `InBounds`.
* `drat_trim.rs`: a separate checker, a port of drat-trim with data structures of its
  own, not part of the way from FRAT to XLRUP.
* `frat.c`, `bench.pl`, subcommand dispatch.

## Plan

1. The books of `FromPr` (`TypeOK`, the deletions of `WellFormed`).
2. `Elab` with the engine in place of its choice of hints.
3. `drat_trim.rs`, as far as its own data structures are worth it.
