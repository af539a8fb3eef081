# Verification of sbpf-ir-fuzzer

TLA+ models, TLC runs and TLAPS proofs for the SBPF IR fuzzer: a tool that keeps
small SBPF programs in an intermediate representation (IR), mutates and generates
them, and runs each through the interpreter and the JIT of `solana_sbpf` to find a
difference. Source paths below are relative to the repository root, which is
`src/` here: `src/src/ir.rs` is the module `ir`.

## 1. Inventory

| Component | State it keeps | Operations | What makes it correct |
|---|---|---|---|
| `ir` (`src/src/ir.rs`) | `IrSeq`: version, memory, ordered regions of nodes; a builder cursor (`generated_ids`, `current_region`, `next_id`) that is not serialized | `new`, `generate_id`, `add_node`, `change_region`, `sbpf2ir`, `Display`, bincode | no instruction lost, repeated or reordered; labels stay on their code; region names distinct |
| `mutator` (`src/src/mutator.rs`) | the IR being mutated, `splice_id` | `mutate`: splice from each donor of the same version, 1-5 point mutations, exit at the end | labels of the base survive; calls to spliced functions resolve and do not recurse; exits conserved; offsets do not wrap |
| `executor` (`src/src/executor.rs`) | two VMs per run | `run_diff`, `run_diff_ir`, `triage_ir` | success only if interpreter and JIT agree; only verified programs run |
| `semantic_aware` | instruction list of a `FuzzProgram` | `make_program`, `fix_jump` | jumps land on instruction starts |
| `gen_smart`, `gen_jit_stress` | the corpus directory | remove the old family, write a new one; six stress templates | count, names, version of the seeds; programs that end and do not fault, with operations of their version |
| `gen_pqr`, `gen_corpus` | a file counter | write the fixed corpus | each program does what its name says: fails if it is named for a failure, computes its case otherwise |
| `main` | command-line flags | the loop over the arguments, mode selection, demos | values and flags are told apart, one mode runs, with each value in its place |
| fuzz target `ir_jit_diff` (in `src/setup.sh`) | in-memory corpus, time of last reload | reload every 10 s, mutate, run | survives torn and missing files |
| controller (`src/fuzz_loop.py`) | last coverage, time of last growth, refresh count | watch the fuzzer's output, regenerate seeds on a plateau | plateaus are noticed, nobody waits for ever, the script ends when the fuzzer does |
| `solana_sbpf` | external | assemble, verify, interpret, compile | not in the repository |

How they interact. The controller starts the generators (subprocesses that rewrite
a directory) and the fuzzer (a subprocess whose output it reads). The fuzz target
reads that directory now and then, and for each input calls `mutate` on the IRs it
holds and `run_diff_ir` on the result, which goes through `Display` for `IrSeq`,
the external assembler and verifier, and the two engines. `main` calls every part
once, on files. The generators build IRs with `sbpf2ir`.

Hard behaviours. In `ir`, the cursor moves backwards on a repeated label and a flag
set on one line takes effect on a later one. In `mutator`, operations that are
harmless alone are applied in random sequences, and an output may become an input.
The corpus is assembly written by hand, with jump offsets and call addresses counted in
slots, and random templates in which the operands of each draw decide whether a later
instruction faults. In `main`, a loop skips ahead over values by an index of its own.
Between generator, fuzz target and controller there are torn files, processes
killed between two writes, a bounded pipe and timeouts. The list of hazards with
their lines is in `PROJECT.json`.

## 2. Plan

Order: the IR and its translation, the mutator, the differential oracle, the corpus
directory with its generators, fuzz target and controller, the layout of
`make_program`, the command line, and the programs that the generators write: these are
done. What is left is listed last.

| Module | Models | Checked | Proved |
|---|---|---|---|
| `IrSeq` | the IR value, its builder operations, what `Display` shows and serialization loses | through `Sbpf2Ir`, `Mutator` | through `Sbpf2IrProofs` |
| `Sbpf2Ir` | `sbpf2ir()`, one step per line of the text | yes | yes |
| `AsmText` | abstract: what an assembly text means | refined by `Sbpf2Ir` | the refinement |
| `Opcodes`, `Operands` | tables and operand classification of the mutator | through the next three | through `OperandWalkProofs`, `MutatorProofs` |
| `OperandWalk` | one operand under repeated `operand_mutate` | yes | yes |
| `Mutator` | `mutate()`, one step per loop turn | yes | yes |
| `MutateAgain` | `--mutate` on saved output: `Mutator` composed with saving and loading | yes | no |
| `MakeProgram` | `calculate_length`, `make_program`, `fix_jump` | yes | yes |
| `Executor` | `run_diff`, `run_diff_ir`, `triage_ir`, `run_executable` | yes | yes |
| `DiffOracle` | abstract: the one verdict the oracle owes | refined by `Executor` | the refinement |
| `SeedFiles` | the corpus directory | through the next four | through `FuzzLoopProofs` |
| `SeedGenerator`, `GeneratorRuns` | `generate()` of the two seed generators, run and killed again and again | yes | safety |
| `IrJitDiff` | the fuzz target with its hot reload | through `FuzzLoop` | through `FuzzLoopProofs` |
| `FuzzLoop` | `fuzz_loop.py` composed with `SeedGenerator` and `IrJitDiff` | yes | safety |
| `Cli` | `main()`: the loop over the arguments, the choice of the mode | yes | yes |
| `SeedCode` | the notation of the seed programs | through the next four | through `SeedProgramsProofs` |
| `CorpusTexts` | the programs of `gen_corpus` and the demos of `main` | through `SeedPrograms`, `Sbpf2Ir` | through `SeedProgramsProofs` |
| `PqrCorpus` | the programs of `gen_pqr` | through `SeedPrograms` | through `SeedProgramsProofs` |
| `JitStress` | what the six templates of `gen_jit_stress` may write | through `SeedPrograms` | through `SeedProgramsProofs` |
| `Alu`, `SeedPrograms` | a machine (external) that runs all of these | yes | safety |

Left, in this order:

1. A specification of what the fuzz target may assume of the directory, refined by
   `SeedGenerator`.
2. The file numbering of `gen_pqr` and `gen_corpus`.

## 3. How the models correspond to the code

`PROJECT.json` maps every definition to its lines. Here is how to read them.

**`IrSeq`, `Sbpf2Ir`.** An `IrSeq` is the record of the Rust struct. `memory` is left
out: nothing modelled touches it. Names are a stem and a number, so that generated
ids, spliced functions and program labels can collide exactly when the strings can.
Region indices start at 1. `sbpf2ir` is a loop over lines: `pos` is its position,
`need_new_region` its flag, and `ReadLabel`, `ReadInstruction`, `SkipBlank` are the
three branches with everything they call. A node carries the number of its line as a
history; no guard reads it. `Reloaded` is what a trip through bincode does to the
fields marked `#[serde(skip)]`. The loops of `Display` are written by the rank of places: the
`k`-th line shown is that of the place with `k - 1` places before it (`InOrder`), a region's
label being at index 0 of the region. That is the order of the two nested `for`s, in a form
about which the provers can reason.

**`Mutator`.** `pc` is where `mutate()` is; `PickBase`, one turn of the splicing loop
(`SkipDonor`, `SpliceInline`, `SpliceRegion`), one point mutation (`OpSubstitute`,
`OperandMutate`, `NodeDelete`, `NodeSwap`) and `EnsureExitAtEnd` are its steps. A random
choice is a `\E`. An operand is its form and value, not its text.

**`MakeProgram`.** The three loops run one after the other; `k` is the turn of the first
two, `walk.k` that of `fix_jump`, called from inside the second. `only_verified` is the
Cargo feature that the `#[cfg]`s ask for; the crate does not declare it, so the build
has `FALSE`; both are modelled. `starts` is a history that `Measure` writes: the slot
where each instruction begins.

**`Executor`.** `program` holds what the assembler, verifier, JIT compiler and engines of
`solana_sbpf` will do, chosen in `Init`: engines are functions from the initial memory to
what can be observed. The steps are the calls and comparisons, in the order of the code.
`DiffOracle` answers in one step, from nothing but what the engines do with the memory of
the question; `Verdict` is the mapping. A program that is not built is rejected, or fails to
load in `run_diff`, which is the one choice the abstract oracle leaves open; and after an
error it has to compare only how and where the two stopped, as the code does.

**`SeedFiles`, `SeedGenerator`.** A file is its name and which generator run wrote it, or
`Torn`. `fs::write` is two steps, `CreateFile` and `WriteFile`, since a reader can see the
truncated file between them. `KillGenerator` stands for a signal and for the panic on a
failed write. `remove_file`, whose failure the code ignores, is taken to succeed.
`GenSpec` is the generators run and killed by anybody any number of times; `GeneratorRuns` is
the same with at most `MaxRuns` runs and fairness, for TLC, and `FuzzLoop` implements it.

**`IrJitDiff`.** The directory scan is one step per entry. The operating system promises
of entries that come or go during a scan only what `ScanComplete` says. A torn file does
not decode and is skipped. The `Mutex` of the target is uncontended and is left out.

**`Cli`.** `i` is the index of the loop, `opts` the variables the loop fills in; each arm of
the `match` is an action, as is each test that follows. `outcome` records the call that
`main` ends with: what is read, in which format, and where it is written to; "usage",
"error" and "panic" are the other ends. A word of the line is a flag, a file or a number. The
property `LineUnderstood` does not go through the line: a word is a value (`IsValue`) if the
words that take a value and stand in an unbroken row before it are odd in number.

**`SeedCode` and the programs.** A text is kept to the depth of its control flow, its
accesses to the input memory and the operations under test; `O(n)` stands for `n`
instructions that only move data. Programs that are alike to that depth are one. Register
`r0` and `r1` are followed, a loaded value is `Unknown`, and a conditional jump goes both
ways. Widths are scaled: 32 bits are `W`, 64 are `2 * W`, and constants such as `u32::MAX`
or the shift by 63 are written as what they are for the width. `says` is what the file name
announces. The length and the last instruction of a function, which two templates draw for each function,
are drawn once for all functions of a text. The machine of `SeedPrograms` and `Alu` is
`solana_sbpf`'s, external, one action for each class of instructions; what its verifier rejects stops the program there.
`prog` is one of the programs of `CorpusTexts` (one definition per function of
`gen_corpus.rs`), `PqrCorpus` and `JitStress`, where a random draw is a set.

**`FuzzLoop`.** `ctl` is the script's program counter and variables; `pipe` is the pipe to
the fuzzer's output, of bounded capacity; a generator is a subprocess the script waits
for. `cov_at`, `finished_at`, `healthy` are histories. With a limit by `--max-cycle-secs` the
fuzzer may end between any two inputs (`FuzzerTimesOut`): its clock is left open.

## 4. Runs

| Run | Shows |
|---|---|
| `sbpf2ir` | On every text of up to four of nine kinds of lines, with repeated, empty and reserved labels: each instruction is in the IR exactly once and no two regions share a name. On every text of up to six lines of five kinds, and of the whole corpus, with fresh labels: order and labels are kept, regions end at terminators only, `Display` gives the text back, and every step of the translation is a step of `AsmText`. |
| `operand_walk` | With the code's own numbers, one operand under any number of mutations: an offset moves by at most 5 and stops at the ends of `i16`. |
| `mutate` | On lists of up to three small programs and up to three point mutations: labels keep code, spliced calls resolve and do not recurse, exits are conserved, the program ends in one. |
| `make_program` | Both builds, all versions, all programs of up to two instructions of any kind and of up to four of the four kinds that differ in slots: the loops agree; with `only-verified` every jump lands on an instruction. |
| `executor` | Engines that differ in any one observable on any memory: a crash is reported only if the engines differ, a success after a normal end only if they agree, only verified programs run, and the oracle implements `DiffOracle`. |
| `generator_runs` | Three runs of either family, each killed anywhere: a finished family is whole, seeds do not overwrite each other, a run ends. |
| `fuzz_loop` | Script, generator, fuzz target and clock interleaved: new seeds are in use within the reload interval, the target never finds an empty corpus while generators work, a refresh is started on a plateau only, a plateau that shows in a line is answered, a full pipe does not stop the fuzzer forever, and the script ends once the fuzzer has. |
| `cli` | On every line of up to three words and on longer ones of the words that interfere: the loop tells flags from values as the whole line does, the lines of the docs and of `fuzz_loop.py` have their effect. |
| `seed_programs` | Every fixed program and demo and the stress templates, on every path: no fault but the one in the name, programs named for a failure never end normally, both variants of a case compute the same, operations are of the version, calls enter functions at their heads, programs without a loop end. |
| `mutate_again_names` | Violation: a second `--mutate` defines `function_spliced_0` twice. |
| `executor_any_mismatch` | Violation: after an error in both engines a difference in memory, budget, stack or heap is a success. |
| `mempat_base` | Violation: a load of the memory template may overwrite `r1`, the base of the accesses that follow, which then fault. |

Each violation is a finding in `PROJECT.json`, with the sentence that it contradicts.

More differences between documents and code were met and have no run of their own.

* Regions are called basic blocks (`src/README.md:39`), but a call does not end one and a
  label that is given twice continues an old one (`src/src/ir.rs:145`).
* A negative immediate has the form of an offset and is moved by at most 5, although the
  comment has immediates drawn again (`src/src/mutator.rs:143`, 119-120).
* The panic message for a JIT that fails to compile speaks of a verified program, but
  `--no-verify` reaches it with one that is not (`src/src/executor.rs:135`, 229-236).
* `make_program` "produces valid SBPF programs" (`src/README.md:32`), but the crate declares
  no feature `only-verified`, so that as built no jump offset is fitted.
* `fuzz_loop.py` "runs the fuzzer continuously" until Ctrl+C (`src/README.md:167`, 197), but
  libFuzzer ends at the first crash it finds, and the script with it.
* The usage text gives `--load` one file; with another one before it, `--load` prints that
  one (`src/src/main.rs:175`, 287). `--seed` is documented for `--mutate` and also used by
  the two generators. `Total:` prints the last number, not the number of files, of which
  `gen_pqr` writes two to most numbers (`src/src/main.rs:306`).
* `input_corpus/100_ldxb.ir` of `src/README.md:86` is not a name the corpus has.
* `err_exit_capped_1` to `_3` (`src/src/gen_corpus.rs:888-919`) are named for the limit on
  instructions of the tests they come from; the corpus does not keep the limit, so they
  exit. Such programs claim nothing in the model (`Unclaimed`).
* "10-20 function regions" are 3 to 8, "Depth 5-10" is 3 to 6
  (`src/src/gen_jit_stress.rs:128`, 131, 163, 165).

### Bounds

* Texts of four lines suffice for a label to come back after another one was opened and
  a terminator was read between them; six for the same with code on both sides.
* Three IRs make a base and two donors, so a spliced function can be called from a
  region that was itself spliced; three point mutations can hit a splice, its call and
  the exit. `MaxMutations` is 5 in the code; the properties are invariants of each step.
* `MakeProgram` has 4 instructions, an `i16` of 4 bits and a `usize` of 8 bits, so that
  `4 * Len(prog)` is just the range of `i16`, the assumption of the proofs.
* `GeneratorRuns` has two seeds with two attempts each and two versions, so that the
  number and the version of a file can come apart.
* `Cli` has all flags in lines of up to three words, so that every flag meets every
  other as its value, and four words of the seven that take part in a mix-up: two values in
  a row, a value that looks like a flag, a flag at the end.
* `SeedPrograms` has `W = 5`, in which 13, 4, their negatives and `u32::MAX` are as different
  as in 32 bits; two random instructions per template, which is what a draw that spoils a
  later one takes; a memory of 33 bytes, where an access of 8 that is aligned to the end
  would not fit; divisors 1 and 3; versions `V0`, `V2` and `V4`, one on each side of `V2`
  (`uses_pqr` asks for `V2` only). The memory template does not look at the version. The
  number of instructions in a function of a template takes its whole range (3 to 10, 2 to 5),
  the same in each function of a text. Calls
  may nest 8 deep, more than any template does; 64 in `solana_sbpf`.
* `FuzzLoop` has one seed per family, intervals of one tick, four ticks, a pipe for one
  line, and every second refresh for the JIT-stress family instead of every third
  (`JitStressEvery`), so that both kinds of refresh come within the four ticks. The
  directory begins with a torn and an old file, as a killed session leaves them.

### Fairness and timing

Fairness is assumed in three places. `SeedPrograms`: the machine that runs a seed gets on
(`WF` of the next step). `GeneratorRuns`: a generator that runs gets on (`WF` of its own
steps), never that it is started or killed. `FuzzLoop`: the script, the generator,
the fuzz target and its printing each get on, which is what an operating system's
scheduler gives to processes; nothing of the user, of failures or of the clock. That is
enough for `FuzzerGoesOn`: the script that holds the fuzzer up waits for a generator, and a
generator ends. `PlateauIsNoticed` starts from a line that the fuzzer has to print, for
nothing in the repository says how often it has one. `ScriptEndsWithFuzzer` needs that the
script reads on. All other runs check safety.

Timing is in the guard of `Tick`. While the script is in its reading loop it takes lines as
they come, and one scan of the directory takes less than `PlateauSecs` (120 s by default).
Without the first the script could see a plateau in lines it is late to read. The clock
does not go back.

`CHECK_DEADLOCK FALSE` is in the configurations of programs that end: a translation, a
mutation, a layout, a comparison, a command line, a seed, and `MaxRuns` generator runs.
`FuzzLoop` is checked for deadlock; its two ways to end are the step `Stopped`.

## 5. Proofs

Eight modules hold proofs, for every value of the constants under the named assumptions.

**`Sbpf2IrProofs`** (`TextsAssumption`: a text is a sequence of lines, and a line has the
fields of its kind only). First, what each builder operation does to an IR with its cursor in
range (`Opens`, `Moves`, `Adds`).

* `InstructionsKept`: `Holds` says that the places of the IR and the instruction lines read so
  far correspond one to one; every operation keeps all places and adds one or none.
* `NamesUnique` needs `IdsInv`: generated names in use are below `next_id`, else a fresh one
  could be taken.
* `OrderKept` needs `EndInv`: with fresh labels the cursor is at the last region and each name
  of a region comes from a label already read, so that no label moves the cursor back.
* `SplitOnlyAtTerminators` needs `SplitInv`: `need_new_region` is set just when the last
  region ends in a terminator.
* `TranslationMeansText` is the refinement of `AsmText`. With the invariants above, a label
  line adds one label behind all the code and moves none, an instruction line appends its
  number to the code; that the new place has the highest rank and the others keep theirs are
  facts about finite sets (`InOrder` and its lemmas).
* `DisplayUndoesTranslation` needs `LabelInv`: the line of a label lies after the lines of all
  regions before its own and before those of the others. So the lines of the text and the
  lines shown are in a correspondence that keeps the order, and two finite sets in such a
  correspondence agree rank by rank (`OrderIso`).

**`OperandWalkProofs`** (`OperandsAssumption`, `StartsAssumption`). `TypeCorrect` is inductive
with the lemma that mutations of a well-formed operand are well formed; `DriftBounded` and
`WideFromOutside` follow with the bound of the saturating addition.

**`MutatorProofs`** (`MutatorAssumption`, `OperandsAssumption`; the latter now also has the edge
immediates be numbers, as they are in `src/src/mutator.rs:40-51`: a name among them could call a
function). `MutatorInv` is one relation between the IR and the one it was made from, which
every step extends: the regions of the base come first, with their names and not without code
(`RegionsKept`); behind them come spliced functions, numbered upwards, each with an exit; a
function spliced is named only further up (`CallsDownwards`), which is why the places for the
call have to be collected before the region is pushed; and there are as many exits as in the
base plus one for each such region (`ExitsCounted`). Hardly any of the listed properties is
inductive without the others: that a call resolves rests on numbers being fresh, that it does not recurse
on where the regions are. A point mutation changes the nodes of at most one region (`Gentle`),
leaves it as many exits and at least one node (`Spares`) and names no further spliced function
(`MentionsNoMore`); what is taken from a donor brings no exit and, if the inputs are
`FreshInputs`, no spliced name. This gives `RegionsNeverVanish`, `SplicesOnlyAdd`,
`SplicedCallsAlwaysResolve`, `SplicedCallsNeverRecurse` and `ExitsConserved`.

**`MakeProgramProofs`** (`MakeProgramAssumption`: a program has at most a quarter as many
instructions as `i16` has values, 16384, so that offsets in slots fit; nothing in the code
limits the length, and beyond it the cast to `i16` would wrap). None of the properties is
inductive. `starts` ties the loops together: `StartsInv` says it is the running sum of the
sizes, `CountInv` that the second loop is at slot `starts[k]`, `WalkInv` that what remains
of a walk is the target minus `starts[walk.k]`. `HalvesInv` places the second halves of
`lddw` behind starts and `LandInv` says each fitted jump goes to one; a start is not a
second half because `starts` is monotone (`StartIsNoHalf`). From this `LengthsAlwaysAgree`,
`WalksEnd` (the panic after the loop is unreachable), `JumpsAlwaysLand` and `TypeCorrect`.

**`ExecutorProofs`** (`ExecutorAssumption`). `StageInv` says for each place of the oracle what
has been run and on which memory, `ComparedInv` what has been compared. A comparison that
fails then blames the engines (`Blame`), which gives `AlarmsAreTrue`; that none of the
observables is the first to differ means none differs (`NoFirst`), which gives
`SuccessIsAgreement`. `OnlyVerifiedRuns` and `TypeCorrect` come from the same invariant. (No run lists
`RunOnlyVerified`, which the refinement implies, nor `GenTypeOK`, which is part of the
`TypeOK` of `FuzzLoop`.)
`OracleImplemented` is the refinement of `DiffOracle`: with `BuiltInv`, what must have
succeeded before each place, a step that decides is an `Answer` of the abstract oracle
(`PanicAnswers`, `ReturnAnswers`) whose condition holds (`Compared`), all others stutter.

**`FuzzLoopProofs`**, first part: `SeedGenerator` (`FilesAssumption`, `CountsAssumption`,
`FirstDisksAssumption`).
`Done` is the set of files of the present run that are written to the end. `CountInv`: there
are as many as were counted, all with smaller numbers than the next, and for the stress
seeds the count is the loop counter; hence the next name is new. `WholeInv`: all of `Done`
is of this run, and a family being written does not count as finished. This gives
`EverySeedAlwaysItsOwnFile`, `FinishedFamilyAlwaysWhole` and `GenTypeCorrect`.

**`FuzzLoopProofs`**, second part: `FuzzLoop` (the same assumptions with `ReloadAssumption` and
`LoopAssumption`). `GeneratorsAsAlone` is the refinement `Spec => GenSpec`: whatever the
script, the fuzz target, the clock and the user do, the directory goes through what it goes
through when generators run alone, so that `GenInv` may be used of the composition. `LoopInv`
adds five parts. `ProcessInv`: which process can be there at which place of the script.
`SeededInv`: as long as no generator failed, each family begun is whole or being written right
now. `ScanInv`: a scan sees at most one family change under its eyes; a family finished before
the scan began is as the scan found it, and what the scan has read of it is what it has passed.
This rests on a scan taking no longer than `PlateauSecs`. `CorpusInv`: the same of the corpus
after the last reload. `PlateauInv`: growth of the coverage that the script has not noted is on
a line that it can still read, printed in this very second. `SeedsAlwaysPickedUp` and
`AlwaysSeedsToPick` follow from `CorpusInv`, `RefreshesOnlyOnPlateau` from `PlateauInv`.

**`CliProofs`** (`CliAssumption`: numbers and JSON names are not flags). Lines may have any
length. `LineInv` is the loop invariant: the index never stands on a value, and the options hold
what the words before the index say, in the sense in which `LineUnderstood` means the whole
line (`FlagsRead`, `ValuesRead`, `InputsRead`, `Complete`). One lemma per kind of word moves it
past that word. That a word after a flag with a value is one, and the word after it is not, is
where the unbroken row of `IsValue` is counted. `DocumentedLinesWork` follows each of the
documented lines, with any names and numbers in it, from one state to the next (`DocInv`).

**`SeedProgramsProofs`** (`WidthAssumption`: words of at least 5 bits, so that the constants of
the cases are different; `PowersOfTwo`: what the provers do not know of powers of 2, true for each
such width and evaluated by TLC for the one of the run; `StressAssumption`: divisors are positive
numbers of one word, as `gen_jit_stress.rs` draws them; `MachineAssumption`: calls may nest at
least 6 deep, 64 in `solana_sbpf`). A run of a seed would be easy to follow for one text. Here
the texts are as many as the templates can draw: bodies of any length up to `MaxOps`, any memory
size, any divisors, any width.

* Where things are. A text is its parts in a row and jumps count slots, some lines having two.
  `FlattenLayout` and `TextLayout` give the line and the slot at which each part begins as a sum
  over the parts before it. `FlattenSeq` and the sums are recursive functions; that there is
  one that satisfies its recursion is proved from the least number for which there is not.
* `Certified`: each line has a level, one for each function. From a line the program goes on in
  its own level, jumps land on an instruction of it, and a call leads to the head of a
  function of a higher level, which bounds the depth of calls. Accesses lie in the memory,
  each operation is of the version, no division can be by zero or overflow, no shift is too wide. That a
  certified text stays `OnCourse` is proved once, action by action (`NextIn`); then each
  fixed program and each template is certified by itself.
* `Traced`: the registers are known line by line, up to the exit or to a line that gets
  stuck. For the cases of `gen_pqr` this is arithmetic of words of any width: products
  and their upper halves, quotients, remainders, sign extension.
* `Trapped`: a set of lines and of second halves that no step leaves and from which none
  exits. A program named for a failure has such a set or a trace that ends stuck, but for one
  that calls what lies before its entrypoint (`CallsBack`): there it depends on where the
  frame returns to, and `CallsBackInv` says where that is.

`SeedInv` gives `SeedsStopAsNamed` and `CasesComputeTheirResult`, and with the heads of the
certificate `CallsEnterHeads`; `FailInv` gives `FailuresNeverExit`. Why
`FaultsOnlyAsNamed` speaks of the memory template only as long as `r1` holds the base is the
finding of `mempat_base`.

Only model-checked:

* The liveness properties (`GeneratorEnds`, `FuzzerGoesOn`, `PlateauIsNoticed`,
  `ScriptEndsWithFuzzer`, `EverySeedEnds`): they need fairness and with it `ENABLED`.
* What the runs with a violation show.

Nothing is proved by induction over data: the theorems of the library for it take the
property as an operator, which no installed prover can be given. Where an argument needs one,
it is put as a statement about the least element of a set (`NatLessThanWellFounded` and `WFMin`)
or about the number of elements of a finite set.

## 6. Not modelled

* The names and numbers of the files of `gen_pqr` and `gen_corpus`.
* The values that the fixed programs compute, but for the cases of `gen_pqr`: nothing in
  the repository says what they are.
* The `Arbitrary` derivations of `semantic_aware`.
* Printing: `print_ir`, the usage text, disassembly in triage.
* A wall clock that is set back (`src/setup.sh:78`).
* What `src/setup.sh` does besides writing out the fuzz target: it clones, copies and builds.
* `solana_sbpf`, libFuzzer, the file system: external, modelled by how they are used.
