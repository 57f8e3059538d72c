# A TLA+ verification of 3dsrecomp

3dsrecomp turns the code of a 3DS title into C, compiles it into a library,
and leaves a host (an emulator, a port) to run the guest with it. This
directory holds TLA+ modules of what has state and control in it, TLC
configurations that check them on small instances, and theorems about them that
TLAPS checks for every value of the constants.

## The system

What each part keeps, does and must get right. `PROJECT.json` lists them again
with their sources, and under `hazards` what in them a test would hardly reach.

| part | state | operations | what makes it correct |
|---|---|---|---|
| **Runtime**: generated functions and the macros of `abi/recomp.h`, written by `src/codegen` | `Context`: registers, `thumb`, `budget`, `exit`, `depth`, `module_base`; the C stack | the way in, dispatch, `BLOCK`, `CALL`, `RETURNED`, `SVC`, `INTERPRET`, `RECOMP_NATIVE`, `RECOMP_ORIGINAL` | the guest runs as the interpreter would run it, wherever the code stops; budgets are kept; the C stack is bounded; code of changed functions never runs |
| **Host loop**: `src/verify.rs`, and the one docs/interface.md tells hosts to write | the same Context, the guest's memory, a waiting svc | enter, interpret, serve | goes on from every exit and gets on |
| **Library**: `abi/src/lib.rs` | entries, origins, pieces, stale flags, module bases | `open`, `place`, `lookup`, `check`, `interpret`, `interpret_at` | a function is skipped exactly while its code is not what it was made from |
| **Generation**: `src/codegen/mod.rs` | units, names, entries, pieces | which C function a call names, what labels a function gets, the entry table | an entry wherever execution can come back |
| **Locals**: `src/codegen/locals.rs` | a dataflow over a function's blocks | which registers are kept in C locals and when they are stored | the context is complete wherever somebody reads it |
| **Discovery**: `src/discover.rs` | marks, functions, leads, a queue | follow, guess, undo, cut | every path is followed to its end, a guess that is no code leaves nothing behind, it ends |
| **Compiling**: `src/compile.rs` | a pool of threads, the memory they use | `objects` | every source once, within memory, and it ends |
| **Building**: `src/build.rs` | a cancel flag, the library's file and its old ones | `build`, `install` | a host always finds a whole library |
| **Natives, overrides, hints**: `src/natives.rs`, `src/overrides.rs`, `src/build.rs` | patterns, lists of addresses | find, parse | a replaced function does what it did |
| **Title**: `src/image.rs`, `src/cro.rs`, `src/lib.rs` | the executable, its modules, exports, imports, relocations | `programs` | whatever leads into a unit's code is a lead of it |
| **Images**: `src/rom.rs`, `src/arm.rs`, `src/thumb.rs`, `src/codegen/vfp.rs` | none | parsing, decoding | pure |
| **Port, command line**: `src/port.rs`, `src/main.rs` | none | text | pure |

How they interact. `build` reads an image, has discovery find functions, has
generation write them as C, hands the sources to the pool and the objects to
the linker, and installs the library. A host opens it as a `Library`, places
modules, checks origins when code is loaded, and then calls functions with a
Context. The code calls back into the host three times: `lookup` where it does
not know a function, `svc`, and `interpret`. All of this runs on one thread;
what is hard about it is not threads but re-entry: every point where the code
stops has to be one the host can go on from, and flags, budgets and modules
change between the stop and the re-entry, or in a callback while C frames are
live. Only the pool is concurrent, and only `install` meets crashes and other
processes.

## Modules

| module | what it is |
|---|---|
| `Instructions` | the guest's code and what an instruction does to control; shared by the next two |
| `Guest` | abstract specification: one instruction after another |
| `Recomp` | the generated code, the macros and the host loop on a C stack; implements `Guest` |
| `Handwritten` | `Recomp` with a history of what an override written by hand does |
| `JobPool` | the pool of compilers and the cancel flag |
| `RecompProofs` | theorems about `Recomp`, that it implements `Guest` among them |
| `Origins` | the spans, pieces and runs `write_origins` says a unit was made from |
| `OriginsProofs` | theorems about it |
| `Tables` | the tables of a library, shared by the next two |
| `Checked` | abstract specification: what a library promises a host |
| `Library` | `recomp_abi::Library` with modules that come and go; implements `Checked` |
| `LibraryProofs` | theorems about it |
| `Install` | `install` and `step_aside`, stopped anywhere, and hosts that load what they find |
| `InstallProofs` | theorems about it |
| `JobPoolProofs` | theorems about `JobPool` |
| `Discover` | `src/discover.rs`: leads, guesses and their undoing, gaps, the split of huge functions |
| `DiscoverProofs` | theorems about it |
| `Emitted` | the C that is written for each instruction, as far as it says when registers are read and written |
| `Locals` | `src/codegen/locals.rs`: `keep` over that C, and the C that it makes, run |
| `LocalsProofs` | theorems about it |
| `Title` | what a title is made of, and the programs `lib.rs`, `image.rs` and `cro.rs` make of it |
| `Build` | `Discover` in each unit of a title, with what is replaced and hinted, and the tables `codegen/mod.rs` makes of it |
| `BuildProofs` | theorems about it |
| `MCRecomp`, `MCHandwritten`, `MCJobPool`, `MCOrigins`, `MCLibrary`, `MCInstall`, `MCDiscover`, `MCBuild`, `MCLocals` | instances for TLC |

`Instructions`, `Guest`, `Recomp` and `Handwritten` are about running code,
`Emitted` and `Locals` about the registers in it, `Origins`, `Tables`, `Checked` and `Library` about code that changes, `Title`,
`Discover`, `Build`, `JobPool` and `Install` about making it. `Build` composes `Title` and `Discover`: it has
the variables and steps of `Discover` for the unit being analyzed, and its own for the rest. `Recomp` keeps of the library what the code sees of it
(flags and `lookup`); `Library` keeps of the code what the library sees (bytes).

### Recomp

A *key* is an address with bit 0 set for Thumb, what `Host::lookup` takes.
`frames` is the C stack: each frame is a C function, where in it execution is
(`at`) and the key that goes with that. `at` is

| `at` | in the generated C |
|---|---|
| `in` | called, before the test of the way in |
| `dispatch` | at the label `dispatch`, `key` is the C variable `pc` |
| `block` | at a label, before `BLOCK` |
| `run` | at an instruction |
| `called` | in a `CALL` that `RETURNED` follows |
| `tail` | in a `CALL` that `return` follows |
| `original` | in `CALL(RECOMP_ORIGINAL)` of an override or native |
| `svc` | in the host's svc callback |
| `native` | doing what a native does |

`r15`, `thumb`, `lr`, `exit`, `depth` and `budget` are the Context's; r15 is
written only where the code writes it, so it is out of date in the middle of a
function as it is in C. `given` is what the host's `run` remembers of the budget
it set (`src/verify.rs`), `ran` counts the instructions since, and exists for
properties only. Actions are what happens between two points at which a
callback or the host could look: the way in (`WayIn`), `Dispatch`, the charge
(`Block`), one instruction (`Plain` ... `Undefined`, `Skip` when its condition
fails), and the end of a `CALL` (`Back`). `Enter`, `Interpret`, `Serve` and
`Restart` are the host loop; `ServeInPlace`, `ServeAndUnwind` and `LeaveSvc`
the three ways docs/interface.md gives a host to answer an svc. `Reload` changes
memory and checks; `Mark` is `interpret` or `interpret_at`.

What is abstracted. An instruction is its operation (a class `codegen/arm.rs`
and `thumb.rs` tell apart), the keys it may lead to, and whether it has a
condition. Registers but r14 and r15, memory but pushed return addresses, and
flags are left out, so a condition may hold or not and a register branch goes to
any of its targets. A native charges exactly its `Cost` and does what the code it
replaces does, which is straight-line code up to a return. Masking
of branch targets' low bits is left out: keys are aligned.
A host is assumed to change flags only in its own loop, or in an svc callback for
functions with no frame on the C stack (`MayMark`): a flag is read on the way in
only, so a live frame would run on; docs/interface.md does not speak of that.

Labels and entries are computed as `codegen/mod.rs` computes them, from the
functions' bodies, so that a missing label is a mutant TLC catches.

### JobPool

A critical section of the mutex is an action; the counter, the callback and the
stop flag, which are outside it, are split where another thread can come
between. `left` is the part of `order` from `next` on. Condition variables wake
spuriously too. `cancel` is `build`'s flag, which the progress callback reads.

### Origins

Each round of a loop is an action. An interval is a pair of where it starts and
ends, None the Rust `None`. `rest` is what `pieces` has not come to of the sorted
spans, `covered` and `cutting` are the stretch it is in and what is left of one it cuts.
The tables are read as `Library` reads them: `Run` is the `partition_point` pair,
`Held` the pieces of a function's runs.

### Library

`placed`, `base` and `stale` are the code's; `stale` stands for the flag and the start
that goes with it, which every operation writes together. Modules have an index,
the executable is a unit of its own, and addresses wrap at `Top`. The guest loads,
unloads and patches code; `due` are the calls docs/interface.md asks of the host
when it does (`place`, `check`), in any order, before the guest goes on. `Check`,
`Interpret` and `InterpretAt` may also come any time. `marked` is there for properties
only. A guest loads modules apart from each other and from the executable and below
where addresses wrap (`Apart`, `LibraryAssumption`), as a 3DS process has its memory.
Libraries older than generation 3, which have no origins, are left out, and a
piece's hash is taken to tell codes apart: `Changed` compares bytes.

### Install

`dir` is the directory (a name's file), `data` which build a file has all of, `into` the file each
build copied into. An install is `Copy`, `Copied`, `Remove` for each aside name, `StepAside` and `Rename`;
`Stop` ends one anywhere, be it by a crash or an error of a step. Windows refuses to remove or
replace a file that is loaded and lets it be renamed. `MayBegin` lets one install of a title run at a
time, unless `AtOnce`: then two share the partial file, where nothing in `install` keeps them
apart, and the library may be a mix of both (`Shared`).

### Discover

The text is halfwords from 0. What `decode` makes of each in either mode, where the words
that may be addresses point, and the relocations are parts of `program`, one of `Programs`:
every text can be one, since nothing is assumed of what an instruction does.

An action is one round of a loop. `Skip`, `Refuse` and `Begin` are `run` taking a lead
(surer ones are in `queue`, guesses in `guesses`); `NextBlock`, `Stop` and `Join` are
`explore` beginning a path and ending one, and the nine actions of `Step` an instruction of
each flow; `Keep`, `Accept` and `Reject` are what `run` does with what was explored, `Scan`
a round of `analyze` over the gaps, `Split`, `ExploreAgain`, `NextRound` and `SplitDone`
`split_huge`, and `LabelJoins` the labels at the end. `Start` is `analyze` before its first lead. `ex` are the locals of `explore` and
`trial` the `Trial` of a guess. The code logs what each mark was and undoes the log
backwards; `trial.before` keeps what each halfword was before the first mark, which is the
same. What the code counts for its report is left out; nothing depends on it.

### Title and Build

`Units` is `programs`: the executable, led into by its entry, what its CRS exports, what modules
import from it and every word of its data that lands in the text; then each module with code, led into by
exports, imports and relocations, whose text has the addresses its relocations write. What may be
missing in the Rust (`Option`) is a set of one member or none.

A step of `Build` is one of `build.rs`'s `generate`: `Load` has the overrides and natives
made leads of their units (`Seeded`), or `Fail`s; `Discovering` is a step of `Discover` in the unit at hand
(`NextUnit` takes the next); `NoHints`, `AnalyzeAgain` and `TakeAgain` are `apply_hints`, and `Generate` is where
`codegen::generate` writes what the operators before it compute from `found`: who runs whose code (`Homes`, the
`containers`), where calls go (`Names`), what an override calls (`Originals`), and where the host comes
in (`Entries`). The overrides' files, the places of the divisions and the hints are part of a title, since
nothing in the program decides them. C functions are named by what they are: the generated one at an
entry, or the override of a number. Labels after interpreted instructions are in `Recomp`.

### Emitted and Locals

A function's text is lines of *tokens*: a register read, assigned or modified, a brace, the
end of a statement, a guard, a label, a macro. `Emitted` has an operator for each form of
instruction, which gives the lines the lowering writes; what is computed is left out, and
`WriteBody` puts the way in, dispatch and the labels around them. What `scan` finds in
C by its spelling it finds in these tokens by their kind.

`Scan` is a token of `scan`, with `blocks` the `Blocks` that says what is guarded; `Behind`
and `Live` a line of a round of the two passes, `jumped`, `stores`, `budgets`, `falls`, `liveIn` and
`liveAtBudget` the vectors of the same names; `Ways` shares the ways out. Then the
same variables say what the macros of the finished C store, and the rest of the actions run
it, a token at a time: `ctx` and `loc` are the registers whose place in the context, or local,
has what the guest's register has at this point. A condition may hold or not, whoever is called
leaves the context whole, and the budget may end at any block, from where the
host goes on (`Enter`) with what the way out stored. A statement's assignments
happen at its end (`writing`). The stale check on the way in, the budget and the page
tables are left out, and no code changes under the function.

## Runs

| run | instance and bounds | what it shows |
|---|---|---|
| `recomp` | 7 functions (ARM and Thumb, recursive, with shared instructions, one held in another, a return with `mov pc, lr` into either state), a native, a handwritten wrapper, code nobody found, a mod that changes one; limit on depth 2, budgets 1 and 9, 2 remembered return addresses | all the properties of `Recomp` |
| `job_pool` | 3 jobs, 3 sources of two size profiles, 3 memory budgets | all the properties of `JobPool` |
| `origins` | 2 functions of up to 4 instructions of either size, overlapping ones too, and 3 small ones | the runs of each function are its bytes, pieces are in order and all of them code |
| `library` | an executable and 2 modules, loaded at either of 2 places, any mod on 4 of their bytes | lookup is right, what it finds is as it was made, `Implements` |
| `install` | Windows, 4 builds, 3 hosts, 2 aside names, a stop anywhere | hosts find and keep whole libraries |
| `build` | titles of an executable alone, with programs of 3 to 16 words: all of 4 words of a few instructions, of 7 that branch to and fro, with 4 Thumb halfwords, and some laid out like those of the tests or where words, modes and cuts meet; titles with 6 choices of override files and 3 of divisions over 25 texts; with a guess, a gap and 3 sets of hints; with exports inside functions; with a module that the executable and it import from each other, relocations and slots | all the properties of `Discover` and `Build`, and that it ends |
| `locals` | about 350 functions of two instructions and a return: each form before and after calls, branches, svcs and other forms, with or without a condition, labels at one to all of them; one way out besides the shared one | no read of an old register, no context handed over with one, and that `keep` ends |
| `stale_original`, `begins_once` | 2 functions, a wrapper | findings below |
| `huge_join` | a program with a huge guess and a huge function it leads to | the finding about what a split loses |
| `labels_are_entries` | a title with a function in a split one | the finding about a label that is no entry |
| `installs_at_once` | 2 builds that install at once, one host | the finding about the partial file |

Why the bounds are enough. `RECOMP_DEPTH_LIMIT` is 2048; nothing but the
comparison depends on it, and with 2 every call site is reached at, below and
above the limit. A budget of 1 is less than a block, which is what a budget has to be for
`out_of_budget` at entry, and 9 is more than any path charges before a
call, so that code also stops in the middle. A guest that returns to more than
two saved addresses returns `Home`, which is one more place it could return to
anyway. Three jobs are what it takes for one to hold memory, one to sleep and one
to come between; three sources leave one for each.

Two functions over four halfwords have every way for
their spans to nest, overlap, touch and leave a gap, and a third shares what the two do. Two modules are what it takes for
one to be where the other was and for two to be placed together; the second place
ends at `Top`, where offsets wrap. Four builds are what it takes for three hosts to
hold an old library each and for all aside names (2 here, 17 in the code) to be taken.

`HUGE`, `FAR`, `JUDGED_ARM` and the other thresholds of discovery are hundreds; with `Huge` and
`Far` 4 and the others 1 and 2 each is met, missed and met exactly within a text that short. So with
`OwnFunction` (128), which is 1. A module and the executable that import from each other are every way
for code in one unit to lead into another, and an address replaced in one file twice, in two, by hand and natively, in
a module and in one there is none of, every way for overrides to meet; one gap and one guess are what it takes
for a hint to be in a guess, outside everything, or both.

`Exits` is 16; with 1 any two blocks that need different registers share the other way out.
Two instructions and labels that jump back are a loop with a call, a guard or an exit in each
place of it, which is what a path has to have to bring something to a place it was not read at.

`install` checks Windows, where more can go wrong; `InstallProofs` shows the same elsewhere. The type invariants of
`Install` and `Origins` are left to the proofs.

The properties of `Recomp`, each at the code it is about, are in the module.
The main one is `Implements`: with `pc` mapped to `Pc`, where the guest is
(r15 at points where C has stored it, else the frame's key), every step of
code and host is one step of `Guest` or none. So an instruction skipped or run
twice at any exit, resume, tail call or return is a violation. `Progress`
says that the host and the code together never go round without an instruction.

### Fairness

`Recomp`: `WF_vars(Step)`. Code and loop are one thread that keeps running;
nothing is assumed of the host's flags or mods (`Reload`, `Mark`). It is one weak
fairness of the whole, so no particular branch is ever assumed taken.
`Build`: `WF` of `BuildNext`, one thread that runs until it is done, for `Ends`. `Locals`: `WF_vars(Keep)`, for
the passes only; a guest may stop anywhere.
`JobPool`: `WF` of each job and of `Join`: the operating system schedules threads and a
compiler that runs ends. `Cancel` and spurious wakeups may never happen.

## Proofs

`JobPoolProofs`, from `JobPoolAssumption` alone (finite sets of jobs and sources,
needs and spare memory natural numbers), for any number of them:

* `TypeCorrect`, `SourcesOnce`, `CountCorrect`, `LedgerCorrect`, `UnderflowNever`, `MemoryCorrect`,
  `WakeupCorrect`, `CancelCorrect`, `OutcomeCorrect`, `ToldCorrect`.

`MemoryBound` and `SleeperHasWaker` are not inductive alone. That a sleeper has
a waker needs `running > 0` when a job goes to sleep (`MayStart` lets anything
start when nothing runs) and that `running` is the number of holders, so
`CompilersCounted` is part of the invariant; `EachSourceOnce` needs that a job
holds a source exactly in the places it is counted in. `ToldIsDone` needs where a job is for its count to
count (`CountsInv`), and that what is done and the jobs about to count are as many as the sources that have
an object or a failure (`DoneInv`). `Ledger` is a sum over the jobs, of which each step changes
one term: that the sum changes by as much is an induction over the set of jobs, which the library's induction theorems
cannot be used for here; it is shown by a least counterexample instead, as numbers are well-founded.

`RecompProofs`, from `InstructionsAssumption` (widths and where instructions lead),
`RecompAssumption` (bodies, entries, containers, the limit on depth) and `NativesAssumption`
(a native replaces straight-line code), for any program, host and mods:

* `TypeCorrect`, `DepthCorrect`, `StackCorrect`, `StateCorrect`, `StaleCorrect`.

`DepthIsCalls` counts the frames that wait in a `CALL` and `InOwnState` speaks of the top
frame only. What is below it matters when it comes back, so the invariant is about
every frame: `Inv == RegsFit /\ CountsFit /\ ExitFits /\ FramesInv`, where `FramesInv`
has each waiting frame at a key of its function, in a place that goes with the frame above
it (`FramesFit`), the top in one that goes with where the guest is (`TopFits`), `depth` the
number of waiting frames, and the bound they keep (`DepthIsCalls`, `StackIsBounded`);
`RegsFit` and `CountsFit` are types, and `ExitFits` is about what is left on the way out. From the
assumptions it needs that code which replaces a native's is never changed by a mod, and
that the host interprets at keys only.

From the same assumptions and invariant:

* `RunsTheGuest` (that `Recomp` implements `Guest`, the safety of it), `ChargeCorrect`, and `EntriesCorrect`,
  which also asks that no function ends in an svc (`SvcsGoOn`; the program of `MCRecomp` has none that does).

That a step of the code is one of the guest's needs three things of the states between:
functions that are not stale are as they were made (`CodeIsMade`, which `Reload` keeps as it checks what it
changes), an svc waits to be served where its callback runs or on the way out and nowhere else, and an
override is entered with `r15` at what it replaces (`TopTells`). Then each step is one of five kinds
(`StepFollows`): of the guest it runs an instruction, serves an svc, restarts, has its code changed, or
stutters. For `RanIsCharged` the instructions up to the next label are to the credit of the frame that
runs (`TopPaid`), a run of the code starts at a label or is the rest of one (`RunShrinks`), and what is
behind a call or an svc is a label, charged for anew (`CallsEnd`, `AfterEnds`).

`OriginsProofs`, from `OriginsAssumption` (instructions are intervals) alone:

* `TypeCorrect`, `OrderCorrect`, `CodeCorrect`, `RunsCorrect`.

A cut is an end of some span, so no piece has one inside (`Whole`), and pieces with what
is left cover what the spans do (`Coverage`). With pieces in order, those that start before
an end of a span are those that end there or before, which makes `partition_point` right.

`LibraryProofs`, from `TablesAssumption`, `LibraryAssumption` and `OriginsAssumption` of `Tables`, which says that a
function's code is its runs, what `RunsCorrect` shows of what `write_origins` wrote:

* `TypeCorrect`, `LookupCorrect`, `FoundCorrect`, `PromiseKept` (that `Library` implements
  `Checked`).

`Inv` adds that the list of placed modules agrees with their bases (`PlacesInv`), that
bases are where the guest has modules but for due calls (`ToldInv`), that units are apart
(`LoadedInv`), and that functions not stale are as they were made but for due checks
(`CheckedInv`). Apart units take an address in once, so which is first in `placed` never matters.
That sums before and after a run differ exactly when a piece in it changed (`RunChanged`)
is counting over finite sets.

`InstallProofs`, from `InstallAssumption` and `~AtOnce` (the run `installs_at_once` shows that they do not
hold without): `TypeCorrect`, `FoundCorrect`, `ThereCorrect`, `HostsKeep`. Names have files of their own and nobody runs the partial one (`NamesInv`), and
an install that goes on has its partial file (`RunningInv`).

`DiscoverProofs`, from `DiscoverAssumption` (what a decoded text is), for any program and thresholds:

* `TypeCorrect`, `MarksCorrect` (`MarksAreHeld`), `JoinsCorrect` (`JoinsAreLabels`), and `PathsCorrect`, which is
  `PathsAreFollowed` where code is not split.

That rejecting a guess leaves the marks of the functions there are says nothing about the
marks in the middle of it, so `TrialInv` says that the marks without the trial
(`OldMap`, `OldModes`) are always those of the functions; a step keeps it since what was
logged first for a halfword is never logged again (`BeforeFacts`). All nine kinds of step are one
to the marks (`StepIs`: every `Step` is `Stepped`).

A path is followed when each place it leads to is *settled*: out of the text, in a function, refused, data, not an
instruction, or a function of the other mode. What a mark says of a place may be undone, so `Settled` is about the marks
without the trial and never comes undone. `FunctionsFollowed` has the places functions lead to settled or
waiting in a queue, `ExploredInv` the same of what is explored, with what is ahead of it or goes into a queue when the trial is
kept, and both are in `FollowedInv`. It holds until huge functions are split, which takes back code that was there. `CallsInv` has
each sure lead start a function or wait, `WholeInv` has what is marked held and `LabelsInv`
says which labels functions have: those their code needs (`LabelsOf`) and, at the end, those joined.
`JoinsInv` follows a cut from the guess it is of to the labels at the end, through trials that are
undone and pieces that take it over.

These properties have exceptions, for programs the proofs met, which `build` has now (`Over`, `Cross`, `Odd`). There is one
function for an address: a path, a lead or an override that comes to it in the other mode finds that one. A function may have
no code, where a lead comes to data an instruction of the other mode lies over (`Answered`, `LeadsAreEntries` and `OverridesRun` name
both). A join is a label where its halfword is decoded in one mode, as a piece may take over where
to stop from code in the other.

`BuildProofs`, from `BuildAssumption` (every unit of every title is a `Program`, whatever leads into it; overrides, divisions and
hints are of their types):

* `BuildTypeCorrect`, `BuildMarksCorrect`, `BuildJoinsCorrect`, `BuildPathsCorrect`, the same of each analysis a build makes;
* `BuildHomesCorrect` (`HomesHaveLabels`), `BuildLeadsCorrect` (`LeadsAreEntries`), `BuildOverridesCorrect` (`OverridesRun`).

A build is `Discover` started again and again: `BuildInv` is the invariant of `DiscoverProofs` with the types of
the units, it holds of the empty program before the first, and each `Analyze` is a `Start` (`AnalyzeInv`), as leads into a unit
change nothing else of its program (`UnitSeeds`, `UnitProgram`).

`StagesInv` remembers the rest: which program is at hand in each stage, that what overrides replace leads into their units from
`Load` on (`SeedsThere`; the seeds of hints come behind and take none away), and of each unit that is done what its
analysis ended with (`Analyzed`), except of the executable while it is analyzed again. An override's
lead then is one of its program's calls (`ProgramLeads`), so it started a function, and if that has the code in the right
mode it is recompiled and has the name the override's original goes by (`ChainHolds`).

`HomesHaveLabels` needs that functions are ranked: a parent outranks its child (`RankFalls`), so the chain of parents ends
(`TopExists`, `TopIs`), and labels only grow along it, as a function that has all of another's code needs all of its labels
(`OwnersLabelled`). What a recursive function or a filter computes (`Homes`, `Chain`, `Within`) is shown
by least counterexample: there is one that satisfies the recursion up to any rank, number or length, and any
one that does has the property.

`LocalsProofs`, from `LocalsAssumption` (the texts of the functions are `WellFormed`, and `Exits` is a number), for any
functions, any number of instructions and labels, and any number of ways out:

* `LocalsTypes` (`TypeOK`), `LocalsReads` (`ReadsAreRight`), `LocalsContext` (`ContextIsWhole`).

`WellFormed` says how `write_body` writes, and nothing of what the passes find: lines follow each other, braces close whole
statements, an if or an else is for a statement, a label is a line of its own with its check behind it, all gotos go to labels,
the way in leads to each label's case past nothing but other cases, and past the last label execution leaves. Each
instruction's text is made of such statements, and TLC evaluates `WellFormed` on every function of the run `locals`, which has
every form of instruction there is. That `WriteBody` always makes such a text would be an induction over its lines.

Nothing the passes have at hand is an invariant of what runs: an old register that nobody reads is fine, and which those are
is what the rest of the function says. The proof goes in four parts.

* `Kept`: the events of a line are those of its tokens (`Scanned`), each as guarded as the braces before it have it, and what a
  pass has found so far are registers the function uses. Tokens and events are related through `Shape`, the braces before each
  token and how many of its line's events come before it, which `After` determines.
* `Passed`: what a round that finds nothing new has found. Up to the line a round is at, what each line was given to start with
  covers what falls from the line before and what jumps bring (`Forward`), unless `changed` says that another round comes; the
  same backwards (`Backward`). A pass ends after such a round only, so both hold of all lines once it runs.
* `FlowExists`: what the passes found comes to a `Flow`, three sets of registers for each token: what the context is behind on,
  what may be read from there on, and what is read before anything but reads and writes. What execution does not surely
  take away stays behind from a token to the next and from a goto to its label, what is looked at is stored, and at a check what is behind
  and may be read past it is in its way out. A statement that is skipped takes nothing away, since all in it is guarded
  (`SkipsGuarded`, where braces are counted).
* `RightThroughout`: by whatever flow there is, while it runs (`Normal`) a register that is not behind is right in the context,
  and one that may be read is right in its local. A way out leaves the context right by the flow at its block (`Old`), and
  until the host's entry has come back to that block (`Resuming`) nothing but r15 is read, which the way out set.

What stays with TLC: liveness (`Returns`, `Progress`, `Ends`, `KeepEnds`); `PathsAreFollowed` and `HomesHaveLabels`
in code that is split, where `FollowedInv` and `LabelsInv` do not hold; and of `Locals` that texts are `WellFormed`
whatever the instructions. Liveness and what is ENABLED are beyond the prover, and so are inductions over data, as a recursive definition makes them.
Every other invariant and action property that a run checks is a theorem.

## Findings

Five places where the code and its documents disagree, two of them about functions
written by hand around their original; each is a run that TLC ends with a
counterexample.

* `stale_original`: an override's entry is never stale, so when what it replaces
  is, the override's `CALL` unwinds to the override's own address, and a host
  that follows docs/interface.md enters it again for ever.
* `begins_once`: when the original's first block does not fit in the budget,
  the guest resumes at the override's address, and what the override does before
  the original is done again.
* `huge_join`: a huge guess that stopped at the entry of another function is explored
  again, and its branch there is a tail call now. The other function is given the
  guess's cuts, its own entry among them, and if it is huge and comes later it is left with no
  code: its bytes stay marked, so nothing looks for it again. The test
  `a_huge_guess_splits_without_losing_code` says pieces keep all of the code.
* `labels_are_entries`: `containers` asks whether the parent has a label where a function starts, but the
  function is run by the parent's root, which need not, when it was split and comes to the place by
  falling through after a call. No C function has the place as a label then, so a call to it leaves
  for the host each time, and the host has no entry either. In code that is not split, each home has all the
  labels of what it runs (`HomesHaveLabels`).
* `installs_at_once`: two builds of a title share the partial file, so one may write to a library
  that the other installed and a host has loaded.

## The plan

In this order, the most important behaviour first.

1. `Recomp`, `Guest`, `Handwritten`, `JobPool` and their proofs. Done.
2. `RecompProofs`: depth is the calls, the C stack is bounded, functions run in
   their own state, stale ones run no more, for every program. Done.
3. `Origins`, `Library` and their proofs. Done.
4. `Install` and its proofs. Done.
5. `Discover` and `DiscoverProofs`. Done, but for theorems about paths in split code.
6. `Emitted`, `Locals` and `LocalsProofs`: the dataflow against the paths of small functions, then of all. Done.
7. In `RecompProofs`, the refinement of `Guest`, what ran is charged, and the host comes back in. Done.
8. `Title`, `Build` and `BuildProofs`: natives, overrides, modules and hints, and which function an address
   goes to. Done.
9. The comparison `verify.rs` makes with an interpreter.

## Not modelled

Decoding (`arm.rs`, `thumb.rs`), parsing of images, CROs and C sources, what VFP and data instructions
compute, text output, and the command line have no state and control of the kind above. Finding a
compiler, linking and archiving are runs of other programs. `src/port.rs` writes files.

Within what is modelled: the comparisons of the verify loop; modules moving under live frames
(`codegen/mod.rs:491`) and flags changed under them; code replaced where the budget stopped; an
override that names the module `executable`, which `build.rs:88` finds and `codegen/mod.rs:240` does not; hints
inside a guess the second analysis does not keep; what Windows does with two installs at once.
