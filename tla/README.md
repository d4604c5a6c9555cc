# A verification project for sha1dc

sha1dc is SHA-1 with collision detection: a `no_std` Rust crate with two hashers, five ways to
compress a block, and a generated filter that decides which of 32 known attacks ("disturbance
vectors", DVs) a block could belong to. For each DV that is left, the block's *partner* (the block
the attack would collide it with) is recompressed from a state of the block's own compression; if
both end on the same chaining value, the block belongs to a collision. This directory models the
crate in TLA+, model-checks it with TLC on small instances, and proves the results that matter most
with TLAPS for every value of the constants.

- [Inventory](#inventory) – the parts of the system, what they keep and how they interact
- [Modules](#modules) – which module models what, and how its actions correspond to the code
- [Runs](#runs) – what each run asks, its bounds and why they are enough
- [Proofs](#proofs) – what is proved, from what, along which argument
- [Model-checked only](#model-checked-only), [Not modelled](#not-modelled), [Plan](#plan)

`PROJECT.json` lists the runs, for every definition the lines it stands for, for every property a
mutant of the code that breaks it, and the hazards with the properties that would catch them.
Paths below are those of the crate's repository.

## Inventory

| Part | State it keeps | Operations | Correct when |
|---|---|---|---|
| Hashers: `src/lib.rs`, `src/mitigate.rs` | `Inner`: chaining value, length, buffer, settings, collision flag | build, clone, `update`, `reset`, `finalize`, `finalize_reset` | a digest is that of the whole message fed, whatever the calls; an attack is never forgotten; the mitigated digest is no other message's |
| Block compression: `src/block.rs`, `src/block/backend.rs` | the scratch of one call: schedule, two stored states, remaining candidates | `compress`, `attacked`, `Backend::new`, `compress_spill`, `ensure_states`, `is_attack` | a candidate is recompressed from its own block's states; the answer is that of testing every DV |
| Rounds: `src/block/rounds.rs` | five registers, renamed instead of moved | `compression_w`, `states_from_60_64`, `recompression_step`, `partner_boundary` | the way back undoes the way forth; both ways of testing a candidate agree; the names line up over 80 steps |
| Backends: `src/block/backend/*` | vector registers, the schedule array | `compress_spill`, `recompress` per CPU | every pipeline leaves the digest, schedule and stored states of the plain compression |
| Filter: `src/ubc_check.rs`, `src/ubc_check/*` | none; the mask under construction | `ubc_check`, four generated forms | every form gives the mask of the C original, and keeps what an attack needs |
| Generator process: `codegen/src/main.rs` | threads, pipes, generated files | `write`, `check`, `rustfmt` | a command tells the truth about the files; a failure to generate touches none |
| Plan search: `codegen/src/solve.rs` | forests of known XORs per DV, units of a prefix with its forests and ranks, what descent and jumps keep | `spans`, `candidates`, `slots`, `best`, `fill`, `refill`, `greedy`, `descend`, `vns`, `tail`, `plan` | prefix and tail keep each DV exactly when its published conditions do; the prefix fits its budget; the search ends |
| Last-block scores: `codegen/src/padding.rs` | per DV and residue what is fixed and what a prefix has seen of it; totals moved on with each condition | `forms`, `shape`, `Dv::new`, `Exact::add`, `grown`, `Totals::swap`, `cliffs` | a chance is the share of real last blocks a DV survives on; what moves on by increments is what the start gives |
| Emitters: `codegen/src/{emit,tail,scalar,sse2,avx2,neon}.rs` | none | `lane_groups`, `all_groups`, `test_const`, `by_dv`, both tails, print a plan as Rust | the printed form makes the plan's checks and reads nothing outside the schedule |
| Reader of upstream's rules: `codegen/src/upstream.rs` | samples per DV, its bits and groups | draws schedules, reads bits and groups, holds the rules against the C | rules that are written say what the C says of every schedule |

**How they interact.** A hasher owns everything it uses and is borrowed mutably by each call, so
calls on several hashers interleave but one hasher's steps do not. `update` and `finalize` hand
whole blocks to `block::compress`, which keeps one scratch for all of them. For each block it runs the
backend (which writes the scratch), then the filter over the schedule, then for each candidate the
recompression from one of the two stored states, and on an attack, if the hasher mitigates, two more
compressions of the same block. Backends and filter forms are chosen at run time from the CPU's
features. The filter's source is written ahead of time by the generator, a separate program that
runs one thread per file and formats through a child process. Each file's thread searches a plan over the
published conditions, with scores that for vector targets take the last block of a message into account, and
hands it to the target's emitter; upstream's rules, which the filter's tests compare with, are read off
the C original by running it.

**What is hard here**, and where a test hardly reaches:

- the length counter wraps at 2^64, and the buffer's fill, the padding and the length field all
  come from it;
- the scratch outlives a block, its states are finished only on need, and each backend leaves them at
  other steps (58/65, 60/64) and in another form;
- collisions are rare: there is a real collision for a few of the 32 DVs only, so the test of most
  candidates never says yes in any test;
- the registers of 80 steps are renamed by hand, and the hardware pipelines hold groups of the
  schedule in several stages at once;
- the filter's conditions, regrouped for lanes and rearranged by a search, differ on one block in
  thousands when one of 156 of them is wrong;
- the search moves forests, ranks, chances and totals on by increments, takes units out and puts
  others in, and prunes with bounds; a slip costs a better plan, or an attack, and no test fails;
- a last block is fixed by padding but for a few bits, so a condition can fail there always or never;
- the C's rules are learnt from samples, and what the samples do not show must be caught by a few flips;
- three parties wait for each other over two bounded pipes, threads finish in any order, and a
  command can be killed between two writes.

There is no shared memory, no message passing and nothing persisted in the crate itself; crashes
matter only for the generator's files.

## Modules

### Hashers: `MessageFormat`, `HashSpec`, `Hasher`

`MessageFormat` says what SHA-1 hashes (padding, blocks, length field) over bytes below `Radix`, blocks
of `BlockSize` bytes and a length field of `LengthSize` bytes. A chaining value is the *sequence of
compressions that made it*, so no property can rest on two messages happening to collide.
`HashSpec` is the abstract promise: a hasher is its settings and the message fed; finalizing returns the
digest of exactly that. `Hasher` is the code:

| Action | Code |
|---|---|
| `Build`, `Clone`, `ResetHasher` | `Builder`, `Clone`, `reset` |
| `Update`, `UpdateBuffer`, `UpdateBlock`, `UpdateRest` (`BeginUpdate`, `FlushBuffer`, `TakeBlock`, `KeepRest`) | `Inner::update`: fill the buffer, compress it, whole blocks, the rest |
| `Finalize`, `FinalizeOverflow` (`BeginFinalize`, `FlushMarker`) | `finalize_inner`: marker, zeros, and a block of its own where the length does not fit |
| `FinalizeReturn`, `FinalizeResetReturn` (`CompressLast`) | `finalize_inner`'s last block, `finish`; the hasher is gone, or reset |

A call runs in steps, one per block compressed, since each may flag an attack; calls on other hashers
run between them. Which blocks are flagged is the constant operator `Attack(settings, chain, block)`.
The field `fed` of a hasher is a history of what it was given.

### Block compression: `BlockSpec`, `BlockDetect`

`BlockSpec` promises that a block goes in once, or three times when *any* DV flags it and the hasher
mitigates. `BlockDetect` is `block::compress` with `attacked`: `CompressSpill`, `RunFilter`,
`EnsureStates`, the walk over the candidates (`Dismiss`, `Flag`, `NotAttacked`), the two mitigating
compressions (`Mitigate`). What the scratch holds
is modelled by *whose* it is: a stored state is `[h, block, step, form]`, and moving one with another
block's words, from another step or in sha_ni's reversed form gives `"garbage"`, on which a test may say
anything. The filter is an operator with the assumption the crate's documentation names (conjecture 3
of the counter-cryptanalysis paper): a block recompression would flag is kept.

### Steps and recompression: `Steps`, `Words`, `Recompression`

`Steps` is the SHA-1 step and its inverse over *any* words with a group-like addition and inverse
rotations. `Recompression` runs both tests on one candidate: back to step 0 and on to step 80
(`Back`, `Forth`, `Meet`: `recompression_step` and `is_attack` in scalar form), and the hardware's, which
can only go forward: `FindBoundary` (`partner_boundary`), `RunOut`, `TurnRound`, `RunIn`, `Compare`.
`trail` is the compression of the partner that both must describe. `Words` is words of 8 bits for the
runs.

### Macro programs: `Rounds`

Each function of `rounds.rs` and the portable compressions as the list of macro calls it is, each with
the name it is given for `A`. The state is the five names' contents; beside it a compression that moves
its words by hand.

### Pipelines: `Lanes`, `Schoolbook`, `ShaNi`, `Armv8`, `Portable`, `Pipelines`

`Lanes` defines the vector instructions used, by the vendors' description, and the two layouts of
`Schedule`. `Schoolbook` has the word-by-word compression as history variables. `ShaNi` and `Armv8` run
one group of four rounds per step with the code's registers; `Portable` runs scalar (either layout) and
sse2 over memory that still holds another block's words, so that a word read too early is *wrong*,
not missing. `Pipelines` puts the three side by side: a behaviour is one build's, all use the same array
and all answer to the same schoolbook, so one run and one set of properties covers every backend.

### Filter: `UbcTables`, `UbcForms`, `DisturbanceVectors`, `UbcCheck`

`UbcTables` holds the published conditions (`codegen/src/ubc.rs`) and the rules read off the C original
(`src/ubc_check/upstream.rs`); `UbcForms` the checks of the four generated files, group by group, with
their real lanes, masks, tail tables and guards. These two are data with the code's own size.
`DisturbanceVectors` derives each DV's message difference from its seed as `ubc_check.rs` does at
compile time, and defines the *span* of a list of conditions by a normal form (the smallest bit of each
component and the XOR with it). `UbcCheck` runs a form: statements or lane groups, the fold of lanes, the
early exit, the table tail or NEON's guarded blocks. Words are the real 32 bits, as sets of one bits.

### Plan search: `Spans`, `Basis`, `Fills`, `Search`

`Spans` is `Forest` with `find`, `union` and the candidates: every XOR of two bits that some DV's
published conditions imply. `Basis` is the search's promise, without units, scores or order: candidates
are taken, taking begins again at any time, and a plan is called only when no candidate adds to
any DV's forest. `Fills` is the pure part: where a unit can go and what it costs
(`windows`, `cost`, `slots`), and the best unit to add next (`score`, `reach`, `fill`, `best`), with the bounds
that prune it and, beside them, the same without bounds (`BestOfAll`).

`Search` is the search. A prefix is built one condition a step, as `add` and `fill` apply them, and `goal`
says who asked for it:

| Action | Code |
|---|---|
| `Read` | the loop of `spans`; with the last condition `candidates` and `slots` |
| `Add`, `AddEnds` | `Search::state` and `add`, condition by condition |
| `PickUnit`, `Apply`, `Commit` | `refill`: `best`, what its fill applied, `State::commit` |
| `GreedyEnds` | `greedy`, which is done where it reaches every rank |
| `Round`, `RoundEnds`, `DescentEnds` | `descend`: `shake` by up to `STEP` units, and what is kept of it |
| `Jump`, `JumpEnds`, `SearchEnds` | `vns`: `shake` by more, and what is kept of the descent from there |
| `PickTail`, `Plan` | `tail`, `plan` with its assertion on the sum of ranks |
| `Emit` | `emit::module` for the plan |

Random choices (which units go, by which ranking the prefix is filled again) are `\E`. Scores are exact whole
numbers: the scalar score is `survivors`, the vector score `random`, both scaled by the powers of two they divide by.

### Emitters: `Forms`

The way from a plan to what the emitted source checks: a unit becomes a family with a shift,
`lane_groups` its windows with each lane's DVs and tested bit, `test_const` one constant for all lanes or
one for each, `all_groups` the order of reading; `by_dv`, the spans of `TAIL_CHECKS`, and the guard over the rare
DVs. `FormMask` runs the form. `UbcForms` is what these made of the real tables, statement by statement,
and `UbcCheck` checks that; `Forms` checks the making.

### Last blocks: `LastBlocks`

The part of a vector score that `Search` leaves out. A linear form is the set of block bits it adds up, a sum of
conditions the set of conditions, a chance 2^-n is n, and 0 is `Never`. `MakeForms`, `New` (`Dv::new`, one DV a
step), then what the search does with it: `Restart` and `Add` (`Search::state`, `Exact::add`), `BeginFill`,
`Pick`, `Drop` (a fill's own copy of what it touched, `AfterPick`, its totals and means by `Totals::swap`, `Swapped`), `Commit`, and
`Report` (`last_of`, which goes by the sums alone). Which condition a fill picks is left open, so any prefix
the scores could lead to is met.

### Reader of upstream's rules: `RuleReader`

`Draw` until every DV was kept often enough, `Read` one DV's bits, groups and ties, `Near` (the first assertion:
flips of bits, groups and parts of groups around each DV's first sample), `Random` (the second), `Write`. The C
check is outside: for each DV any sets of bits and what each adds up to.

### Generator process: `Formatter`, `Generator`

`Formatter` is `rustfmt()`: the calling thread, the feeding thread and the child, with two pipes of
`PipeSize`. The child is a filter that reads and writes in any order, one thing at a time, and may fail
anywhere; it cannot know that its input was cut short. `Generator` is `generate`, `write` and `check`
with one thread per file, in which a call of `rustfmt` is one step (it ends, and is whole or an error:
`CallWindsUp` and `OkIsWhole`). Between commands files may be edited and the generator changed; during
one it can be killed. A file's text is `[file, version]`.

## Runs

| Run | Question | Properties | Bounds |
|---|---|---|---|
| `wrap` | Do buffer, blocks, flags and refinement survive the wrap of the length? Is an attack ever forgotten? | `BufferHoldsTail`, `ChainHoldsBlocks`, `FoundMatchesChain`, `ImplementsHashSpec`, `AttackIsRemembered` | block 4 bytes, length field 2 bytes of 2 bits: it wraps at 16; 22 bytes are fed, up to 9 at once |
| `pair` | Does any history of two hashers show in a state or digest? Can a mitigated digest be another message's? | `SameMessageSameState`, `EqualDigestsEqualMessages`, `HashersAgreeUnlessFlagged` | block 2 bytes, two hashers, messages of up to 6 bytes: up to four blocks |
| `detect` | Is every candidate tested from its own state, is the outcome that of testing all DVs, and does a call return? | `FromOwnState`, `ImplementsBlockSpec`, `CallReturns` | 5 CPUs, all settings, four DVs (two per step), runs of two and three blocks |
| `recompression` | Do the two chains and the one-way test agree, on attacks and near misses? | `AgreesWithCompression`, `BoundaryOnTheWay`, `SameTest` | 8-bit words, both steps, three candidates each |
| `rounds` | Do the names of every macro program line up? | `StepsLineUp` | 8-bit words, two inputs |
| `pipelines` | Do registers, memory, digest, stored states and answer of every backend agree with the word-by-word compression after every group? | `RegistersSpellState`, `EveryStepHasItsWord`, `AllLeaveTheSame`, `AnswersForPartner` | 8-bit words; two blocks × both steps × difference zero or not; sha_ni, armv8, scalar with either layout, sse2 |
| `ubc_check` | Does every form give the C original's mask and span its rules, and can a candidate's recompression find the attack? | `SpansTheRules`, `KeepsExactly`, `SettlesInOrder`, `PartnerMeetsTheSame`, `RecompressesFromAgreement` | real tables; 320 blocks: one kept for each DV, partners along three DVs, blocks one bit away; every machine |
| `search` | Is a plan as strict as what is published and no stricter, does its form check it, and is everything that is moved on, kept or pruned what it should be? Does a search end? | `PlanKeepsPublished`, `FormKeepsPublished`, `StateIsThatOfUnits`, `GroupsFit`, `PruningLosesNothing`, `OnlyBetterIsKept`, `ImplementsBasis`, `SearchComesToAPlan` | six conditions of three DVs; one scalar and four vector targets; six words of two bits; `STEP` and `DESCENT` 1, `SHAKE` 3, `stall` 0 and 1; every schedule |
| `last_blocks` | Is each chance the share of real last blocks, and do increments give what the start gives? | `ChancesMatchCounting`, `TotalsFollow` | blocks of two words of four bytes of two bits; all eight residues; five conditions of two DVs, four taken |
| `upstream_rules` | Do rules that pass the reader's assertions say what the C says? | `ReadsUpstream` | five bits, two DVs, two samples each, one random schedule; a C of ties, and two that do more |
| `rustfmt` | Does a call end with nothing left behind, and never return part of a text? | `OkIsWhole`, `CallWindsUp` | a source of 7, pipes of 2 |
| `generator` | Does a command tell the truth about the files, write them in turn, and end? | `ExitTellsTheTruth`, `WritesInTurn`, `CommandEnds` | two targets, upstream's file, one stray file, two versions, one with a refused plan |

Each property has in `PROJECT.json` a mutant, a definition of the model changed the way a plausible bug
would change the code, under which the run finds it violated. The mutants stand beside the definitions
they replace, with a suffix that names the bug. Type invariants and inductive invariants are proved and
not run: the theorems below hold them for all instances, these among them.

**Why the bounds are enough.** *Hashers*: what distinguishes lengths is where they lie in a block,
whether marker and length fit, and whether the counter wrapped; each instance has all of these,
and two hashers are enough for a clone and its origin. The proofs below remove the bounds.
*Blocks*: a scratch can only be wrong by the block before, so two blocks in a run are enough, and three
put an attack between two others. Four DVs give a candidate of step 58 behind one of 65 and the
reverse. *Words of eight bits*: every program is straight-line data flow without a branch on data,
so a wrong operand shows on almost any input; eight bits keep rotations by 1, 2, 5 and 30 distinct and
the additions' wrap. Two unrelated inputs make a coincidence unlikely: every mutant tried was found.
*Filter*: `SpansTheRules` does not depend on the blocks at all: it compares the normal forms of all the
conditions of a form with those of the rules, for every DV, so agreement on the sampled blocks
(`KeepsExactly`) tests the machinery around the conditions: folds, exits, spans, guards. *Pipes*:
the source is more than both pipes hold together. *Generator*: files interact pairwise only.
*Search*: the six conditions have what makes the real ones hard: a condition that several DVs share, two DVs that want
a pair of bits different, a tree of five bits, candidates that no condition names. Of the targets one is scalar,
two fall short with the greedy and one of these needs a jump to get past it, one checks all in its
prefix and has no tail; units of one and of two windows occur, and windows that begin before their first member
because the schedule ends. Every schedule of the bits is tried on every form emitted. *Last blocks*: for one
residue the free bits reach every sum, for two some, for the others few; residues with room for the
length and without occur, and chances 0, 1 and between. *Reader*: two samples tie bits by chance often, where 64 do
almost never, so the assertions have something to catch.

`ExitTellsTheTruth` speaks of commands during which nobody edits the files. `write` never removes a
file, so after a file stops being generated `--check` goes on failing until it is deleted by hand.

**Deadlock** is checked except where a run of straight-line code ends (`recompression`, `rounds`,
`pipelines`, `ubc_check`). In `BlockDetect`, `Hasher` and `Generator` a new call can always begin;
`Formatter` stutters only when the call, the thread and the child have all ended, `Search`, `LastBlocks` and
`RuleReader` only when they have ended: `Done`, `LastDone`.

**Fairness.** `CallReturns` (`BlockDetect`) assumes that a call in progress takes its next step: it
is a loop on its own thread and waits for nothing. `CallWindsUp` (`Formatter`) assumes the same of each
operation of each party *while it is possible*: nothing is assumed of a thread blocked on a full or
empty pipe. Failures are never owed, except that a write whose reader is gone fails. `CommandEnds`
(`Generator`) assumes that the main thread and each file's thread go on while they can, the call of
rustfmt included, which is what `CallWindsUp` shows. `SearchComesToAPlan` (`Search`) assumes `GoesOn`: one thread that
waits for nothing takes steps until it has ended. Until then a step is always possible, so that is weak
fairness of `Next`. Nothing is assumed of the random choices: the search ends whatever they are.
`RuleReader` and `LastBlocks` state no liveness. The reader draws until each DV was kept often enough, which is
likely and not certain.

## Proofs

TLAPS proves the following for all values of the constants that satisfy the named assumptions; none
uses a bound.

**`HasherProofs`** (`SpecIInv`, `SpecTypeOK`, `SpecBufferHoldsTail`, `SpecChainHoldsBlocks`,
`SpecFoundMatchesChain`, `SpecSameMessageSameState`, `SpecHashersAgreeUnlessFlagged`,
`SpecAttackIsRemembered`, `SpecEqualDigestsEqualMessages`, `SpecImplementsHashSpec`), from `InputAssumption`
(data is bytes) and `MessageFormat`'s assumptions: the sizes are positive, the length field fits in a
block with the marker, and `LenMod` is a multiple of `BlockSize`, as 2^64 is of 64. The invariant `IInv`
says for a hasher at *every step of a call* which prefix of the message is in the chain and which bytes
are in the buffer; between calls it is `BufferHoldsTail` and `ChainHoldsBlocks`. Those alone are not
inductive, because a call changes the length before the buffer, and compresses before it forgets. The
arithmetic (the first lemmas of the module: the counter modulo `LenMod`, taken modulo `BlockSize`, is the message's
length modulo `BlockSize`) is where the wrap is shown harmless;
`WeightAssumption` only says that powers of the radix are positive numbers and `LengthBytesAssumption` that the bytes of a
length give it back; TLC evaluates both.

For the refinement a message reaches `HashSpec` when `update` begins, a digest when the finalization returns; all
other steps stutter. That the hashers agree unless one flags needs no induction: both digests are chains of the same
padded message, so they can differ only in how often a block went in.

That no message has the digest of another, mitigated or not, has two hypotheses of its own. `BitLengthsDiffer`: the length field tells
the messages apart that may be fed (in the code, below 2^61 bytes; in the `pair` instance too). `OneQuestion`: hashers that mitigate
flag the same blocks. Without it the statement can fail in principle: if one hasher flags a first block that goes in once in the other, and
the other flags a later block, both can end with the same sequence of compressions. With it, the first places where two digests
differ would hold blocks that are the same and so flagged the same (`SameAsFar`); a plain and a mitigated digest that are spelled alike end
in the same block, so their messages have one length and as many blocks, and nothing can have gone in three times (`NoneMitigated`).

**`BlockProofs`**, which extends `BlockDetect` and `LastBlocks`: `SpecIInv`, `SpecTypeOK`, `SpecFromOwnState`, `SpecImplementsBlockSpec`, from
`FilterAssumption` (the conjecture), `StepAssumption` and the types of the constants. The invariant adds to
the types, phase by phase, that the scratch is the current block's, which step and form each stored
state has on each backend, and that every DV which flags the block is still a candidate. The last is
what lets the walk stop at the first attack and the mask be walked in any order.

**Last-block scores**, also in `BlockProofs`: `SpecTotalsFollow`, for any published conditions, schedule and block size, any number
of conditions taken and any of them picked. From `FiniteDvAssumption` (DVs are finitely many numbers), `UbcsAssumption` of `LastBlocks`
(the table lists the conditions), `SizeAssumption` and `PowersAssumption` (a chance that can occur is a whole number of units). The code
never works a fill's totals out from the start: it keeps ranks and moves totals, means and chances by difference. The
property itself is not inductive, since nothing in it ties a chance to what the fill has seen. `LastInv` does: in the
state and where a fill stands, for every DV, the chance is the one of the subspaces seen and of the rank, and the subspaces are
`Clean` (no row holds another's pivot). The argument:

- A row added to a clean subspace leaves it clean and is new, so the rank goes up by one exactly when `Grows` says so (`InsertKeeps`). Thus
  `alive_after`, which counts without inserting, has the chance that `alive` reads off after `seen_after` (`AfterIs`). This
  needs that all that is ever inserted is made of the DV's own conditions, so the lemmas follow `Dv::new` through the elimination
  (`EliminatedWithin`), the sums that come out right (`PassingWithin`) and the classes (`ExactlyIs`).
- Totals are folds over the DVs. They come out the same in any order (`TotalInAnyOrder`), an entry can be taken back
  (`EnteredBack`), and so replacing one DV's chance is `Totals::swap` (`TotalsSwap`). Swapping those of the DVs a
  condition gains, one after the other, ends at the totals of where the fill then stands (`SwappedFollows`), provided
  each swap takes out the chance that *stands*, the fill's own if it has one: `At`.

The library's facts about folds have an operator as parameter, so each fold of the module is proved to run
through the function it defines (`FoldExists`, `FoldStays`), from the least element of a set of numbers.

**`RecompressionProofs`**: `SpecIInv`, `SpecAgreesWithCompression`, `SpecBoundaryOnTheWay`, `SpecSameTest`,
from `WordAssumption`: addition has a subtraction that undoes it, each rotation has an inverse. Nothing
is assumed of the round functions. `IInv` says the two chains are one run of steps of the partner, and on
the way in that the hardware is on that trail throughout or never; from it, that comparing at
the boundary answers as comparing at step 80 does. Inverse steps make this an equivalence.

The module also extends `Rounds` and proves `SpecProgramIInv` and `SpecStepsLineUp`, for every program, any schedule and
states and any words with the types and inverses of `WordAssumption`. Every step turns the names by one place, so the step a chain
has reached decides the name its next call must be given for A (`Turned`). A call that has this name and this step `Fits`; the
invariant says that the calls still to come fit one after the other from where the chains are, and that the names read from
there spell the state. That each program of the code is such a sequence is put together from its turns: `five!` and `unfive!`
five calls at a time (`FivesRun`, `UnfivesRun`, `BothWaysRun`), the single calls around them one by one, and `RunsOn` for what
runs on from what.

**`PipelineProofs`**: `RegistersAlwaysSpellState`, `StepsAlwaysHaveTheirWord`, `BackendsLeaveTheSame`,
`RecompressionAnswersForPartner`, for all five pipelines, any words, blocks and schedule differences. Each pipeline has an inductive
invariant that follows the groups: between two groups of four rounds the registers spell the
schoolbook's state at that step, rotated as the instructions leave it (`NiInv`, `ArmInv`), and the vectors in flight are the
schoolbook's words, each at the stage of its expansion that the group has reached; in memory the groups stored so far hold
the block's words (`SoftInv`), whatever was there before. One step of it is one
lemma on four rounds (`FourRounds` is four steps with the round constant added to the words), the rest is where each word lies. Assumed of words
are `WordAssumption`; `XorAssumption` (XOR goes bit by bit and rotations move bits), without which the recurrence that reaches
32 words back, for four words at once, would not be SHA-1's; `PlusAssumption`, since the hardware adds E, word and constant in another
order; and `ZeroAssumption`. Of the builds
`BuildsAssumption` says that sse2's array is the mirrored one, as in the code. In recompression, that comparing where the two halves
meet answers as the partner's whole compression would is the argument of `RecompressionProofs`, carried through the groups.

**`UbcProofs`**: `SpanMeans`, `SpecIInv`, `FormsKeepExactly`, `FormsSettleInOrder`, `PartnersMeetTheSame`, for every block and every
machine. The invariant `IInv` says what each accumulator, the mask and the tail have cleared so far: lane by lane exactly the DVs
for which some group before failed. What is returned is then the DVs all of whose `Tests` hold. That a form's tests
are other conditions than the rules of the C original does not matter where they have the same *span*: the normal form that `Span` computes by
a fold describes exactly the schedules that meet the conditions (`SpanMeans`, by induction over the set; a fold in
any order, since each `Tie` keeps it). So all that is left to the tables is `SpansTheRules` and, for the partner,
`DifferencesCoverRules`: two facts of constants, hypotheses of the theorems and computed by TLC for the four
real forms. With them the filter is right for all blocks and not only for the 320 of the run.

**`GeneratorProofs`**: `SpecIInv`, `SpecExitTellsTheTruth`, `SpecWritesInTurn`, from `NamesAssumption` (the files'
names are distinct), for any number of targets, stray files and versions. `IInv` follows a command: a
joined result is that of the thread in its place; while `--check` walks, the files left over are those listed and
not met, and the difference noted is that of those met; while `write` walks, those behind it are up to date.
Every way of ending, killed included, forgets all but the report (`EndIInv`). The module also proves of `Formatter`, which it extends,
`CallSpecIInv` and `CallSpecOkIsWhole`, for a source and pipes of any size: a joined thread that
fed everything and a child that succeeded mean that everything came through both pipes.

**`SearchProofs`**: `SpecIInv`, `SpecImplementsBasis`, `SpecPlanKeepsPublished`, `SpecStateIsThatOfUnits`,
`SpecOnlyBetterIsKept`, `SpecPruningLosesNothing` (both of the score on random data), for any bits, DVs, published conditions, targets and settings of the search, and every random choice.
Assumed are `ConsistentAssumption` (a DV's published conditions can all hold at once), `UbcsAssumption` (the table lists them, each
once), `FiniteAssumption` (finitely many bits and DVs, and at least one DV), `SlotsAssumption`
(widths are positive) and `InfinityAssumption` (`f64::INFINITY` is positive and no score reaches it; `vns` and `best` take it
for "nothing found yet"). The argument has four layers.

- *Forests.* Each forest is `Grown` from the conditions taken: its edges hold on every schedule that keeps them, and
  heights fall from every bit to its parent, so that `Find`, a recursive function, has a value (`OneSolution`, by induction from
  the roots: the bits on which two solutions differ would have a lowest one). `union` hangs one root below another and
  keeps all that (`HungGrown`); two bits of one tree then have a known XOR (`ConnectedXor`). A schedule that keeps the
  published conditions keeps what they tie, candidates included. Conversely, when nothing gains, the forest of what is taken
  ties what each published condition ties, with the same XOR because one schedule satisfies both. This is the claim the filter's
  exactness rests on, and it is not obvious: a plan's conditions need not be published ones, and are taken in any order.
- *Fills.* `fill` does not work on forests but on the trees that were there when `best` began, which it joins itself, and counts
  ranks from them. What it has at any lane is what the units and the group so far give when they are added one
  by one to nothing (`FillAt`), score included: `FillKeeps` over the lanes, `BestKeeps` over the slots, whichever
  bound stops them. So what `commit` writes into the state is right although nothing recomputes it.
- *The search.* `IInv` says which conditions are taken at every step, in which order (`TakenSeq`), that the forests are
  those of exactly these, that ranks are too except while a fill is applied (they are then still those of before), and which
  scores belong to which units. That the states agree between steps is not inductive without the middle of a commit; that only
  better prefixes are kept is not without the first descent, whose units are the greedy's or better while `vns.best` is still infinite.

- *Bounds.* More ranks never make a score worse (`ScoreFalls`: each DV's share of it, and the product, fall together), and a
  lane raises only DVs its options hit in the trees from before the fill, because trees only grow together
  (`JoinedCovers`, `AddsFewer`). So along a fill no bound stops (`Runs`), what the lanes that are left could reach
  (`LowAfter`) only gets worse and ends as the score it reaches, while its cost, the groups of the walk over its members, only
  grows (`WindowsGrow`): where a fill is given up, it would have ended empty or ranked beyond the cut
  (`GivingUpLosesNothing`), and a slot's bound is not above its rank (`FullFacts`). What was found is then kept either way
  (`SameTurn`), so both walks are led by the slot that no other slot walked so far is ahead of (`Leads`, `LeadsOn`), whatever their
  orders; places of slots differ (`SlotsApart`), so there is one such slot (`LeadsOne`). That the walk of `best` can stop
  where it does rests on ties too: a slot with a bound equal to the best rank is still filled.

The folds the code's loops became (`FoldLeft`, `FoldSet`, `MapThenFoldSet`) have values for the same reason `Find`
has: sets are finite, and by induction over subsets there is a function that satisfies what the fold recurs on.

**`FormProofs`**, of the same `Search`: `SpecGroupsFit`, `SpecFormKeepsPublished`. What a search ends with
fits the budget, and the form printed of it keeps, on *every* schedule, exactly the DVs that the published conditions keep. Two
assumptions join those of `SearchProofs`: `DvAssumption` (DVs are numbers, by which the tail is ordered and laid out) and
`ScheduleAssumption` (conditions lie in the schedule, and a vector that begins as late as two words allow still fits into it).
`FInv` is `IInv` with `UnitsFit` (every prefix the search holds, its best and its descent's included, is within the budget and made of
`Sound` units: candidates of one shift in the lanes of a slot) and `PlanIs` (a plan is of the units held, a form of the plan). From there the
argument goes through what the emitter does:

- *Costs.* The search counts windows, the emitter lays them. Both walk the members in order and begin a
  window where one no longer fits (`WindowsPart`: windows part the members into runs, `Offsets` says where each begins);
  `LaneGroupsAre` and `LaidWell` turn runs into groups, so there are as many groups as were paid for, each loads inside the
  schedule, and ordering them by what they read loses none (`EmittedAre`).
- *Prefix.* A lane has one test and clears its members' DVs. That it tests what *each* of its members asks is why only members of one
  shift share a lane (`LinesUp`, `TestsItsOwn`). So a group clears the DVs of its members that fail (`GroupClearsFailing`), all
  groups those for which some condition of the prefix fails (`VectorPrefixIs`), and so do the scalar statements, which strike by masks
  (`ScalarPrefixIs`).
- *Tail.* One row of checks for each DV, rows one behind the other, with a table of where each begins (`TailLaidOut`, by induction
  over the DVs in order); what a DV's span of the table names is its row (`TailLeaves`).
- Together the form keeps the DVs for which all conditions *taken* hold (`FormMaskIs`). That these are as strict as the published
  ones is `PlanKeepsPublished` of `SearchProofs`.

**Reader of rules**, also in `GeneratorProofs`, which extends `RuleReader`: `SpecReaderIInv`, and `SpecReadsUpstream` for a C
that only ties bits in pairs (`OnlyTies`), any number of bits, DVs, samples and tries. Written rules have passed the flips near each DV's first sample, on which the C
keeps the DV. If they said otherwise than the C somewhere, either a pair the C ties is not tied by a rule, but then
both bits were read and go together on every sample, because the C keeps these; or a rule ties two bits the C leaves
free. Then the bits of that group whose XOR with its first bit is as on the sample are a part of the group, and
flipping it breaks the rule and no tie of the C's: the assertion has tried that flip. So if the reader
fails with such a C, two bits went together by chance (`ByChance`). Of a C that does more, the run shows that the
instances tried do not get past.

## Model-checked only

- Liveness (`CallReturns`, `CallWindsUp`, `CommandEnds`, `SearchComesToAPlan`) is beyond the prover.
- `ChancesMatchCounting` of `LastBlocks`: it counts the real last blocks, and that a rank is the logarithm of such a share is induction over data.
- The data of `UbcCheck`: `SpansTheRules` and `RecompressesFromAgreement` are facts of the real tables, which TLC computes.
- That the real files are what the emitter of `Forms` makes of the real plans: proved is `FormKeepsPublished` for any table, computed is
  `SpansTheRules` for the real files; between the two lies the printing of the source.

## Not modelled

- In the plan search: the rounding of floating point and the margins of 1e-12 that `fill` and `descend` allow for it (scores
  are exact here, comparisons strict), the generator of random numbers (every choice is possible), and the share of last blocks
  in a vector score with what goes with it in `fill`: the last-block means in its bounds, and the skip of options that random
  data alone rules out (without the share, that skip changes nothing). `LastBlocks` has the share, apart from the search. What
  `PruningLosesNothing` and `OnlyBetterIsKept` say is therefore said of the score on random data, which is the whole
  score of the scalar target only. `--report`, which prints what searches cost.
- In the last-block scores: the breadth-first walk that finds the path between two bits is modelled by the path, which is
  the only one because a DV's conditions make no circle. Messages whose length has more bits than the code
  counts (16) are left out as they are there (`LENGTH_BITS`). `Cliffs` are the residues where one DV is certain to survive, as in
  the code; two DVs that between them survive every block are no cliff, though the doc comment says "every last block".
- In the emitters: the wording of the printed source.
- In the generator process: a read error of `--check` on a file that is up to date, which the code reports as missing and
  fails for; a file that does not read as text counts as absent here.
- In the reader: the table of DVs with its hash and the assertion on where it ends, copied beside the rules, and the shift
  in `parts`, which has no room for a group of more than 32 bits. A C that adds up four bits can
  pass the flips when its samples happen to tie these bits in pairs, and is left to the random schedules; the rules of
  the run are ties, a fixed bit and a sum of three.
- `src/mem.rs` (one intrinsic per function), tests, benchmarks, fuzzing and CI.
- The conjecture behind the filter is about SHA-1 attacks and not about this code: it is `FilterAssumption`, and `KeepsExactly`,
  `PartnerMeetsTheSame` and `RecompressesFromAgreement` check what the code contributes to it: the conditions are the
  published ones, a partner meets the same ones, and the states chosen are where block and partner agree.

## Plan

Done, in this order: hashers, block compression, recompression, macro programs, pipelines, filter,
generator process; the plan search with its abstract specification and proof, the forms made of a plan, the last-block
scores, and the reader of upstream's rules; the proofs of pipelines, filter and macro programs, of the rules that are read, the
forms that are printed, the hashers' digests and the last-block totals. Next:

1. The search's score with the last blocks in it, as one composition of `Search` and `LastBlocks`, on an instance small
   enough.
