# TLA+ models of Alive2 (alive-next)

Alive2 checks that LLVM optimizations are refinements: it executes a source and
a target function symbolically, and asks an SMT solver whether the target can do
something that the source cannot. Around that core there are a Clang/opt plugin
that follows LLVM's pass pipeline and checks in parallel, a shared query cache,
and alive-tv-next, which splits one check into many small ones.

This directory models both sides: the parts in which several processes,
callbacks or interleaved steps have to cooperate, and the parts in which
sequential code translates meaning and may lose it on the way (simplification
of terms, encoding of instructions, merging of paths, alias analysis of memory,
the order of the solver queries). Modules of the second kind keep the code's
data beside a reference that is defined directly, and their properties compare
the two. TLC checks the modules on small instances; the safety properties of
the processes and protocols, of the checker's verdicts and of tv-next, and those of the
alias analysis of memory are proved with TLAPS for every size. `PROJECT.json` lists
components, runs, mutants, the map from definitions to source lines, findings,
hazards and theorems. File names below are relative to the repository.

## The system and its parts

| part | state | operations | interacts with |
|---|---|---|---|
| parallel manager (`util/parallel*.cpp`) | children, poll table, `active_children`, `parent_ss`, pipes | `limitedFork`, `readFromChildren`, `emitOutput`, `finishChild`, `finishParent` | plugin (caller), kernel (fork, pipe, poll, wait, signals), job server (FIFO) |
| job server (`tools/alive-jobserver.cpp`) | tokens in a FIFO | initial fill, `count_runnable`, `count_tokens`, `refill_tokens` | all compilers below the command it runs |
| Redis cache (`cache/cache.cpp`) | version key, one key per query | constructor, `lookup` | plugin and alive-tv processes that share the server |
| plugin (`tv/tv.cpp`) | `fns`, `pass_name`, batching and termination flags | pass callbacks, `TVPass::run`, `runOn`, `verify`, `finalize`, the finalizing pass, SIGALRM handler | LLVM's pass instrumentation, all of the above, the checker |
| refinement checker (`tools/transform.cpp`, `util/errors.cpp`, `llvm_util/compare.cpp`) | typings, queries, error list, counters | `verify`, `check_refinement`, `compareFunctions` | IR, SMT, the tools |
| symbolic execution (`util/symexec.cpp`, `ir/state.cpp`) | domains, predecessor data, undef and quantified variables, return value and memory | `sym_exec`, `exec`, `addJump`, `addReturn`, `addFnCall`, `startBB` | IR, memory, checker |
| instructions and types (`ir/instr.cpp`, `ir/type.cpp`, `ir/value.cpp`) | - | `toSMT` of each instruction, layout of values | state, memory, SMT |
| memory (`ir/memory.cpp`, `ir/pointer.cpp`) | block contents, liveness, escaped locals, `ptr_alias`, stored pointers | alloc, free, load, store, memset, memcpy, `setState`, `mkIf`, `refined` | state, instructions |
| SMT layer (`smt/`) | terms, solver | smart constructors, containers, `check`, `block` | Z3 |
| tv-next (`tools/alive-tv-next.cpp`, `tv-next/`) | diff regions, units, facts, ranges | diff, build unit, verify, propose, compose | checker, LLVM |
| front ends (`llvm_util/`, `tools/alive_parser.cpp`) | - | translation | LLVM, IR |
| tools (`alive-tv`, `alive-exec`, `quick-fuzz`), scripts, web, tests | - | drivers | - |

What is hard, part by part, and the property that speaks of it (the full list
with lines is `hazards` in `PROJECT.json`):

* Parallel manager: children write, exit, time out and are killed between any
  two steps of the parent. The poll table, the counter and the `eof` flags have
  to agree (`SlotsMatchChildren`, `ForkFindsSlot`), a read after the poll must
  not block (`ReadNeverBlocks`), EOF must mean the end of the child
  (`EofMeansEnded`), reports must come out whole and in program order although
  they arrive in any order (`ProgramOrder`, `ReportsIntact`,
  `FinishedIsComplete`, `RefinesOrderedReport`), tokens must not get lost or
  double (`TokenConservation`), and nobody may wait for ever (`EveryoneEnds`).
* Job server: it counts tokens by emptying the FIFO everyone else uses
  (`TokensAccounted`, `AllEnd`).
* Cache: GET and SET are two commands (`SkipOnlyRepeated`,
  `SkippedGetsVerified`).
* Plugin: passes nest, callbacks can be missing, translation can fail, and each
  check must compare the right two versions (`ComparesSameFunction`,
  `NoCheckSpansUnsupported`, `ChangesValidated`).
* SMT layer: hundreds of rewrites that look at the shape of a term, each with
  conditions at its boundaries (`RewritesKeepMeaning`).
* Instructions: poison must be neither lost nor invented (`PoisonPropagates`,
  `Monotone`), instructions that are called removable must have no undefined
  behaviour (`RemovableIsDefined`), padding and element order must survive
  (`LayoutKept`), rounding and special values of floats must agree with their
  definition (`FpReferences`).
* Symbolic execution: states are merged at joins, and static knowledge about a
  path (analysed domains, values known not to be poison, counts of calls,
  undef variables) must hold on every path merged (`EncodingExact`,
  `NonPoisonSound`, `CallCountsSound`, `AllQuantified`).
* Memory: accesses touch the blocks that the alias analysis leaves, escaping
  pointers must be noticed through stores, casts, calls and joins, and the
  comparison of two memories looks only at offsets that were stored to
  (`MemoryExact`, `EscapesRecorded`, `AccessesExact`, `RefinementSound`,
  `CallsMatchSound`).
* Checker: the verdict depends on the order of queries and on what an answer
  that is neither yes nor no does (`CorrectIsRefinement`, `UnsoundIsReal`,
  `NoExploitedUB`, `AllTypingsVerified`).
* tv-next: intervals wrap, facts are about one side, a unit is checked without
  its surroundings (`AcceptedIsRefinement`, `AssumptionsJustified`).

## Modules

Processes and protocols:

**`Parallel`** models `util/parallel.cpp` with `parallel_fifo.cpp` and
`parallel_unrestricted.cpp`, and from `tv/tv.cpp` `verify()` from the fork on,
`sigalarm_handler` and `finalize()`. There is one parent and one potential child
per job. A step is what happens between two points at which another process can
be noticed. `limitedFork` is the sequence `StartFork` (drain), `Poll`/`ReadSlot`,
`DrainDone`, `ThrottleDone`, `GetToken`, `Prepare` (with `EmitOutput` one time in
`EmitEvery`), `Fork` or `ForkFails`; `finishParent` is `StartFinish`,
`Poll`/`ReadSlot`, `FinishReading`, `FinishWait`, `FinishParent`. A child is
`VerifyDone` (or `Alarm`, or with `-tv-exit-on-error` `FinalizeInChild`),
`IgnoreAlarm`, `FinishChild`, `WriteChunk`, `ExitChild`. Kills of the parent and
of children can happen anywhere (`ParentCrash`, `ChildCrash`, `BrokenPipe`).
Pipes have a capacity and sets of processes that hold their ends, computed from
the `close` calls; the stringstream has a failbit; the buffer of `out_file` is
separate from the file, and a child inherits it. A report is a sequence of
chunks tagged with their job, the text of lines is left out. The job server is
the single action `Refill` here.

**`OrderedReport`** is the abstract specification: items are submitted in
program order, results arrive at any time, and the report is the items with
their results in that order. `Parallel` implements it with `items <- hist`,
`printed <- file` and the result of a child known once its EOF was seen.

**`JobServer`** models `alive-jobserver.cpp` step by step (each `read` of
`count_tokens`, each `add_token`) together with compilers reduced to what they do
with tokens. Without a command the server ends at once (`execvp` fails), so a
command is assumed and `nprocs = N - 1`.

**`RedisCache`** models the constructor and `lookup` as GET and SET steps of
several processes, with the caller in `tv.cpp` that decides on skipping.

**`TVPlugin`** models the callbacks of `llvmGetPassPluginInfo`, `TVPass::run`,
`runOnModule`/`runOn` and `ClangTVFinalizePass`. A pass name is reduced to its
class (plain, named by `-tv-check-pass`, unsupported, nop, terminating). LLVM is
external: passes nest, managers keep the level and adaptors go one level down,
a leaf may change functions of its unit, and for a loop pass that deleted its
loop the callback after the pass does not come. `vers` records which kind of pass
made a version and whether it can be translated; `checked` records the pairs
handed to `verify()`.

**`Refinement`** models `TransformVerify::verify` and `check_refinement` with the error
list, the solver wrapper, `compare.cpp` and the loop over typings of `alive.cpp`. A
program is a function from inputs and choices to behaviours: how an execution ends
(return, poison, undefined, excluded, ...), with a value and a memory that are
independent of it. A query is a formula over the two programs, and Z3 answers with
its truth or with a timeout or an error. There is one action per query, in the code's
order, with its early return.

The stand-alone tool verifies one model of the type constraints after the other
(`CheckTyping`, `NextTyping`). A symbolic type has variables for its kind, width,
address space and length; `fixup` reads those that the kind needs, so many models stand
for one type. After a verification `Solver::block` rules out the model and more: `Discard`
takes one assignment out of the clause if `sneg`, which holds the negated constraints,
says "unsat" without it, and leaves it in on any other answer; `Block` adds the clause.
The code takes the assignments in the order of Z3's term ids, the model in any order.
`verified` records the combinations of types that were really verified. A typing query
without an answer fails the assertion of `operator++` (assertions stay on in every
build: `CMakeLists.txt:42` removes `-DNDEBUG`).

Terms, values and instructions:

**`BVMeaning`** gives the constructors of bit-vector terms their meaning on
integers; it is the reference for everything below. **`Expr`** models the smart
constructors of `smt/expr.cpp`: a term is a record, a constructor looks at the
shape of its arguments and returns a rewritten term. **`ExprOps`** is a machine
that calls constructors on two registers and keeps the calls beside the terms. Its
registers start with a variable or a numeral, or with a seed: an if-then-else of words or
of bits, or a Boolean. Reads go through stores into a constant array, an array variable
or a lambda.

**`Types`** models `ir/type.cpp`: the layout of vectors, arrays and structs with
padding as one bit vector, and conversions to and from bytes, in the byte order that
`little_endian` says (either, from the start of a behaviour on). **`Floats`** is the
IEEE layer that Z3 provides. **`Instr`** and **`InstrFp`** are `toSMT` of the
instructions on values; **`InstrSpec`** applies it to one well-typed instruction
with chosen operands and states the properties of the outcome.

**`SymExec`** models `sym_exec` and `state.cpp` on programs of basic blocks with
one-bit values. An expression is the set of assignments of the variables that
make it true, so conjunction is intersection and equivalence of formulas is
equality; which formulas the code keeps as structure (disjoint lists, and-lists,
sets of undef variables) is kept. A direct interpreter of the same program gives
the reference.

**`Bytes`** models pointers and bytes: the bit fields of a pointer (logical
or physical, local bit, block id, offset, attributes), of a byte, and the
conversions between values and bytes. **`Memory`** models `memory.cpp`, the memory
instructions of `instr.cpp` and `State::addFnCall` under one assignment of the
solver's variables: `mem` has what the code keeps, `ref` is the memory of a
machine without alias analysis in which an access touches the one block that it
points to. A behaviour runs a source and then a target program, with branches
and joins of memories, and compares the two.

**`TvRange`** models `range.cpp`, **`TvProposer`** units, proposals and their
injection (`unit.cpp`, `proposer.cpp`, `back.cpp`), and **`TvNext`** composes them
to the pipeline: a pair of functions grows instruction by instruction, is diffed,
each region is lifted, checked, and checked again with facts. The inputs are what
LLVM's verifier lets through: names are new, operands are arguments or earlier
results of the same width (`SSA`), and instructions are `WellTyped`. The diff yields
groups of positions (`Flush`, `PairStep`, `Groups`), from which the regions are cut. A
backward slice is the least set of names that holds its root and what its members
depend on, which is what the work list of `back.cpp` computes. The semantics of
instructions is a set of results per tuple of operand values, `UB` one of them; an
environment that met `UB` is `Dead`.

**`MC*`** modules and `.cfg` files give the instances. The proofs are in
**`ParallelProofs`** (poll table and tokens), **`ParallelReportProofs`** (the report),
**`JobServerProofs`**, **`RedisCacheProofs`**, **`TVPluginProofs`**,
**`RefinementProofs`**, **`TvNextProofs`** and **`MemoryProofs`**, each of which extends the module it is
about. Definitions named `X_Something` that precede `X` and are marked
"Mutant" are plausible wrong versions of `X`; each property of a passing run is
violated when one of them takes the place of the original.

## Runs, bounds, results

| run | checks | result |
|---|---|---|
| `parallel_fifo` | nine invariants, `RefinesOrderedReport`, `EveryoneEnds` | hold |
| `jobserver_fifo` | `TokensAccounted`, `AllEnd` | hold |
| `redis_shared` | `SkipOnlyRepeated`, `SkippedGetsVerified` | hold |
| `redis_always` | `SkipOnlyRepeated` with `-tv-always-verify` | violated |
| `plugin` | `ComparesSameFunction`, `NoCheckSpansUnsupported`, `ChangesValidated` | hold |
| `refinement` | `CorrectIsRefinement`, `UnsoundIsReal`, `NoExploitedUB`, `AllTypingsVerified` | hold |
| `expr_rewrites` | `RewritesKeepMeaning` | hold |
| `encode` | `TypeOK`, `LayoutKept`, `RemovableIsDefined`, `Monotone`, `PoisonPropagates`, `FpReferences` | hold |
| `symexec` | `EncodingExact`, `NonPoisonSound`, `CallCountsSound`, `AllQuantified` | hold |
| `memory` | `MemoryExact`, `EscapesRecorded`, `AccessesExact`, `RefinementSound`, `CallsMatchSound` | hold |
| `tvnext_units` | `AcceptedIsRefinement`, `AssumptionsJustified` | hold |
| `tvnext_compose` | `ComposeSound` | violated |

Bounds.

* `Parallel`: three items with two slots, so that the throttle blocks and a
  third child meets inherited descriptors; pipes of one chunk and reports of two, so
  that writes block and a report arrives in parts; one token, so that parent and
  children compete; `EmitEvery = 2`, so that output is emitted both at a fork and at
  the end; one kill, anywhere. The real constants (128 slots, 100, 64 KiB) differ
  only in size, and the proofs show the safety properties for all of
  them, and for the unrestricted manager (`Fifo = FALSE`) too.
* `JobServer`: two compilers with two checks each, two tokens and two leaks
  let the counting overlap with takes, returns, leaks and a finishing compiler.
* `RedisCache`: two processes, three programs, two lookups each, one crash.
* `TVPlugin`: a setup is part of the initial state. Two functions (one unnamed) and
  four passes nested up to three deep when every pass is checked; one function and
  five passes with `-tv-check-pass`; one function and six passes, not nested, with
  `-tv-batch-opts`: enough for a supported pass on either side of an unsupported
  one and the end of the pipeline.
* `Refinement`: two inputs and two choices with ten base behaviours (four ways not to
  return, four returns of a value and a memory, poison with either memory), so that a
  target can be matched by different choices of the source on one input; the
  unusual configurations meet deterministic programs. Two kinds of missing answer. Two
  symbolic types that must be equal, each an integer of one or two bits or a vector of
  one element; at most two unanswered queries while models are blocked (`MaxGaveUp`),
  so that a variable that matters not can stay in a clause and a type be verified twice.
* `ExprOps`: 3-bit vectors, arrays with one-bit indices, the numerals 1 and 6 (others
  arise by folding), two layers of operations on variables, numerals and the seeds:
  most rewrites look no deeper than that, and those that do are not shown beyond it.
  The seeds are there for the rules on if-then-elses (`cmp_eq`, `extract`, `mkIf`), on
  one-bit `&`, `|`, `^` and on loads from lambdas.
* `InstrSpec`: integers of one to four bits, vectors of two, structs with padding,
  both byte orders, floats with three exponent bits and two or three fraction bits (normal,
  subnormal, infinite, NaN all occur), bytes of two bits, pointers of two bits.
* `SymExec`: straight lines, diamonds, triangles, an unrolled loop, a switch with a
  shared target, calls on some paths, a value with undef that was frozen before it must
  be well defined; at most four blocks, one-bit values.
* `Memory`: bytes of two bits, pointers of two bytes, so that parts of a pointer
  can be overwritten; the null block, a constant global of one byte, a global of
  three bytes, a block of unknown size, the block of calls, two locals; programs of
  up to seven instructions, eight assignments of addresses, sizes and contents,
  three outcomes of a callee. `MaxInline`, `SmallBlock` and `MaxStored` stand
  for the code's 4, 8 and `MAX_STORED_PTRS_SET` and are small so that both sides of each
  threshold occur.
* `TvNext`: up to three positions on two 3-bit arguments. The menu holds regions that
  are self-contained and not, right and wrong rewrites (one of them without any
  operand that is not a constant), flags that need a fact, bounds that wrap, and
  tails of different lengths. The proofs hold for all menus, lengths and widths.

`CHECK_DEADLOCK FALSE` stands where a behaviour is one program, one term or one
pipeline and ends. The other runs end in states that stutter explicitly.

Fairness. The kernel schedules every process that can run, LLVM and the solver
come to an end (time limits, alarm): weak fairness of the parent and of each
child. Blocked readers of a FIFO are served in the order of arrival: strong
fairness of the two blocking token reads in `JobServer`. The server wakes up every
second, but a refill is assumed to happen only if a token leaked: `EveryoneEnds`
and `AllEnd` therefore also say that without leaks nobody depends on refills
(which do nothing on systems other than Linux). Crashes, kills and alarms are
never forced. In `RedisCache` Redis answers and a started check ends. `AllEnd`
counts only Alive2's processes as runnable; `/proc/loadavg` counts the whole
machine, and on one that is always busy no leaked token is replaced. The other
modules are sequential and have no fairness.

## What the violated properties show

* `redis_always`: with `-tv-always-verify` the cache key omits the source, and a
  check that was never made is skipped.
* `tvnext_compose`: a unit returns only the exit value of its region. A value that
  the region defines and that is used behind it is compared by no unit, and equal
  positions that read it count as matching. `AcceptedIsRefinement` is the same
  statement for pairs whose regions pass values on only through their exits.

Known limits of the code that the passing runs leave out by their constants or by
the condition of a property (the ones with the widest effect are hazards with a note
in `PROJECT.json`):

* under `-tv-exit-on-error` a forked child whose check fails calls `finalize()`,
  and `ensureParent()` aborts it before its report is sent (`tv.cpp:355`; the path
  is in the model, the rest survives it);
* `-j1`, which the usage message allows, leaves no token and no refill
  (`alive-jobserver.cpp:140`);
* the check of the cache's version is not atomic (`cache.cpp:113`), and a
  process that dies after the SET of `lookup` leaves a query that is skipped though
  never verified (`cache.cpp:86`);
* with `-tv-batch-opts`, a first pass that contains another one opens the batch and
  closes it, and a pipeline that begins with an unsupported pass gets a batch that
  spans it (`tv.cpp:741`); two unnamed functions are mixed up between function and
  module visits (`tv.cpp:203`); with `-tv-check-pass` a loop pass that deletes its
  loop is not checked (`tv.cpp:788`);
* the comment above `smul_fix_helper` says that fixed-point products are rounded towards
  zero (`expr.cpp:969-973`), but the arithmetic shift (`expr.cpp:979`) rounds towards
  minus infinity: `smul_fix(-1, 1, 1)` is -1. LLVM allows either. `BVMeaning` takes the
  direction of the code, so that `RewritesKeepMeaning` speaks of the rewrites and not of
  this disagreement;
* a bound of the range analysis that wrapped to zero is used as a divisor
  (`range.cpp:255`);
* `setState` forgets stored offsets of blocks that a callee only may have modified
  (`memory.cpp:2126`) and keeps the static type of a block whose contents it
  replaces (`memory.cpp:2122`); realloc copies beyond the old size
  (`memory.cpp:2624`); `isFullUpToAlias` tests the wrong index (`memory.cpp:800`);
  pointers without provenance are compared by their low bits whatever the byte
  (`memory.cpp:526`);
* the memory of a call that does not return may be overridden by the one of a later
  return (`state.cpp:936`).

## Assumptions of the properties

* `CorrectIsRefinement` is about sources that on each input return for all choices
  or for none (`ReturnsUniformly`), because the query for the return domain
  is separate from the one for the value, and that do not choose together about
  poison and memory (`PoisonKeepsMemory`): where one choice returns poison and another
  a value, the memories are equal. The memory query conjoins `value_cnstr` but not
  `poison_cnstr` (`transform.cpp:782`), so a source that returns a value with memory
  0 or poison with memory 1, and a target that returns poison with memory 0, pass
  all queries although no choice of the source allows the target. Without either
  condition TLC violates the property. `UnsoundIsReal` is about pairs that return
  or are undefined for the choice that `expr::some` picks (`DefaultReturns`), with
  which `encode_undef_refinement` compares; `NoExploitedUB` is about
  deterministic programs. The memory of a return is one bit there; what a
  comparison of memories is worth is the question of `RefinementSound`.
* `EncodingExact` compares, input by input, the set of outcomes of the encoding
  with that of the interpreter; where the interpreter may reach undefined behaviour
  only that is required. The memory of a call that does not return is left out.
* `MemoryExact` compares what loads return and what memory holds, for accesses that
  are defined. A pointer loaded from memory is either the one that was stored there
  or opaque. It is checked for callees whose contents fit the type of the block
  (`FitsTypes`).
* `RefinementSound` and `CallsMatchSound` take the same addresses for the locals of
  both sides. A callee that returns a local in the source must be given that local in
  the target too; blocks given to two calls are compared byte by byte. Callees read
  and write everything, read everything, or read their arguments; arguments that a
  callee does not read are outside `CallsMatchSound`. A callee always leaves a mark in
  the block of calls, so a dropped or added call is visible. The code itself has TODOs
  here that the model keeps: escaped locals are not compared, and a callee does not
  change locals.

## Proofs

Every theorem is about `Spec` and holds for all values of the constants that satisfy
the assumptions named in the component's module.

### The parallel manager (`ParallelProofs`, `ParallelReportProofs`)

`ParallelAssumption`: the numbers are natural; slots, pipe capacity, read size and
emission interval are positive.

| theorem | property |
|---|---|
| `TypeCorrect` | `TypeOK` |
| `SlotsCorrect` | `SlotsMatchChildren` |
| `ForkAlwaysFindsSlot` | `ForkFindsSlot`, that is `assert(found)` |
| `ReadsNeverBlock` | `ReadNeverBlocks` |
| `EofOnlyAfterEnd` | `EofMeansEnded` |
| `TokensConserved` | `TokenConservation` |
| `ReportInProgramOrder` | `ProgramOrder` |
| `FinishedComplete` | `FinishedIsComplete` |
| `ReportsStayIntact` | `ReportsIntact` |
| `ImplementsSequentialReport` | `RefinesOrderedReport`: `Parallel` implements `OrderedReport` |

The inductive invariant `IInv` is the conjunction of `TypeOK`, `ControlInv`,
`SlotsMatchChildren`, `ReadNeverBlocks`, `WriterInv` and `EofMeansEnded`.
`ControlInv` ties the control state to the counters (a check is counted before
it gets an index; a child with a higher index does not exist; after the throttle
there is room), which is needed to see that a fork concerns a child that does not
exist yet and that a slot is free: as many slots are used as `active` says, and
fewer than there are. `WriterInv`, a living child holds the write end of its own
pipe, is what turns "no writer left" into "the child has ended". `ReadNeverBlocks`
is preserved because pipes only lose data through the parent's own reads and
a pipe without writers never gets one again, which again needs `ControlInv` (a
fork gives write ends only to a new child).

The order of the report rests on `OInv`: what is printed and what waits in
`parent_ss` are together the items produced so far, but for the one a fork is working
on; each check has its own index, so a placeholder occurs once; nothing is printed for
a check before its EOF; and the stringstream never keeps its failbit, nor does a child
inherit buffered text. The texts rest on `RInv`: for each child, what is printed or
received, what is in the pipe and what is still to be written are its report, in this
order; a child that ended on its own has written everything; the parent keeps the read
ends of open pipes. With both, an emission in `Parallel` is one `Emit(n)` of
`OrderedReport`, and every other step maps to `Submit`, to `Finish` or to none.

### The job server (`JobServerProofs`)

`JobServerAssumption`: finitely many compilers, `-jN` with `N > 0`, any bounds.
`TokensAreAccounted` states `TokensAccounted`. The invariant adds that the server owes
tokens to the FIFO only while it writes back what it counted, and that a compiler has
at most as many children as it forked, so that the sets counted are finite.

### The cache (`RedisCacheProofs`)

* `SkipsAreRepeated`: `SkipOnlyRepeated`, assuming `~AlwaysVerify`. With
  `-tv-always-verify` the statement is false (run `redis_always`).
* `SkipsHaveKnownKey`: with any option, what is skipped has the key of a check that
  was started, so the key alone is what the option gets wrong.
* `SkipsAreInWork`: assuming `~AlwaysVerify`, as long as no process died, a check that
  was skipped has been made or is being made. This is the safety half of
  `SkippedGetsVerified`.

The invariant says that every key set belongs to a check that missed, and that a check
that missed and is not verified has a process at work on it.

### The plugin (`TVPluginProofs`)

`TVPluginAssumption` types the setups; pipelines have any length, depth and number of
functions.

* `ChecksCompareOneFunction`: `ComparesSameFunction` for modules with at most one
  unnamed function (`OneAnon`). With two, the counter that names them means different
  functions in different visits, and the property fails.
* `ChecksSpanNothingUnsupported` and `ChangesAreValidated`:
  `NoCheckSpansUnsupported` and `ChangesValidated` for pipelines that the plugin
  follows exactly (`Regular`): `OneAnon`; with `-tv-batch-opts` passes do not nest and
  the first one is supported; with `-tv-check-pass` no callback is lost, since
  otherwise a later check spans the change of a pass that was not named.

`SrcInv` and `CheckedInv` say that an entry of `fns` is a version of its own function
and that a check is about two versions of one function. Without batching,
`FreshInv` (on entering a leaf, the entry is the current version), `SpanInv` (a
change nobody asked to check is newer than the entry only while its pass is on top of
the stack) and `PendingInv` (a change that has to be checked is covered, or it is the
newest version and a callback that will check it is still to come) are inductive together; they
need that loop passes are leaves and who their adaptors are (`StackInv`). With
batching the corresponding facts are tied to the toggle `batch_started` (`BatchInv`).

### The checker (`RefinementProofs`)

`RefinementAssumption`: the default choice is a choice, the solver's other answers are
timeouts or errors; programs, inputs and choices are arbitrary sets. `TypeAssumption`:
the variables of a symbolic type may have values that the constraints forbid (the kind
"undefined", width 0, length 0). `TypeVarsAssumption`: the constraints read no variable
that is not in the model.

* `CorrectMeansRefined`: `CorrectIsRefinement`, with its two conditions on the source
* `UnsoundMeansCounterexample`: `UnsoundIsReal`
* `AcceptedExploitsNothing`: `NoExploitedUB`
* `CorrectVerifiedAllTypings`: `AllTypingsVerified`

`VerdictInv` says what the error list knows of the queries: as long as it is empty,
all queries so far were answered "unsat"; an unsound error comes from a query with a
model. The rest is logic: the formulas of the queries, all unsatisfiable,
add up to refinement. The only place where the conditions on the source are used is the
choice of the source behaviour that allows the target's (`QueriesAddUp`).

`AllTypingsVerified` needs that a clause never rules out a type that was not verified.
`TypingInv` says that all models that fit the clause being made satisfy the constraints,
which `Discard` keeps because an assignment leaves only on "unsat", and that every typing
that is ruled out has been verified as far as its types go. That the models which fit one
clause all have the same types is `CubeMeansOneType`: if the kind of a type, the width
of a number or the length of a vector were not in the clause, then neither the
clause nor the constraints would keep it from being undefined or 0, and `sneg` would have
had a model. No order of the discards and no answer of `sneg` other than "unsat" is
assumed.

### alive-tv-next (`TvNextProofs`)

`TvNextAssumption` says of the inputs what LLVM's verifier ensures. Instructions are
`WellTyped`: operands of their widths give a result of its width. That is stated
in place of the arithmetic, because the prover has no facts about `2^n`; the
operations themselves (`Meaning`) stay uninterpreted, so the theorems do not depend on
them. TLC evaluates the assumption, and with it `WellTyped`, on the menu of the runs.

* `AssumptionsAreJustified`: `AssumptionsJustified`, whatever the range analysis
  computes. A check runs the slices of the facts only, on the parent's arguments; that its
  claims hold of the whole parent follows from a simulation of the parent by its
  slice (`Simulates`), since a slice contains what it depends on.
* `AcceptedMeansRefined`: `AcceptedIsRefinement`. `DriverInv` says that each
  verdict that passed belongs to its region of the diff and has a reason (`Justified`):
  equal halves, a unit that holds, or a modified unit that holds and whose checks hold.
  The functions are then run side by side, segment by segment: wherever no group is open,
  each environment the target reached is covered by one of the source (equal, or
  poison in the source) on the operands that are visible, that is arguments and results of
  positions that are not inside a group (`GroupsSimulate`). A segment is an equal
  position, a group or the tails; it takes only visible operands because the groups
  before it are self-contained, and its unit, run on the values that the target computed,
  carries the simulation over it (`SegmentStep`). For a unit with assumptions these
  values satisfy them, by the first theorem's lemmas.

Inductions over positions are by the least counterexample (`LeastNat`, from the
well-foundedness theorems), and the recursive functions of the model are shown to exist in
the same way (`RunsStep`, `DiffsStep`). The attempt to prove the second theorem showed
that an earlier `Dead`, the empty environment, was also the input of a unit without
parameters, so that such units were accepted whatever they computed; TLC had no such
unit in its menu, and has one now.

### Memory (`MemoryProofs`)

`MemoryAssumption` and `BytesAssumption` bound nothing but the order of the constants
(there are a null block, globals, one input block and the block of calls);
`AssignmentsAssumption`, `OutputsAssumption` and `ProgramsAssumption` say of which kind
the values are that a behaviour is chosen from (bytes, pointers, sizes), and that a
pointer in initial memory or written by a callee is one opaque variable. Programs of
any length, with any operands, assignments and callees are covered.

* `EscapesAreRecorded`: `EscapesRecorded`.
* `AccessesAreExact`: `AccessesExact`, on which every load, store and bulk operation
  rests. It covers logical pointers; what a physical pointer is resolved to is arithmetic
  on addresses and left to `MemoryExact`.
* `HiddenLocalsAreOwn`: `NoHiddenLocal`, the fact that lets the analysis give a loaded
  or returned pointer only the locals that escaped.

`EscapesRecorded` is not inductive: whether a pointer that is stored escapes all it
should depends on where the pointer came from. `IInv` adds that a register that points to
a local block either points to one that has escaped, or shows it (its value is one of
its leaves and that leaf is the constant that the allocation returned, with a
number below `next_local_bid`), and that a pointer in memory never points to a local that
has not escaped (`RegSafe`, `MemSafe`). Both are true only of the path that is taken:
on the other side of a branch the reference machine stands still, and the registers and
memory there are those of an execution that does not happen. So while that side
runs, the facts are kept of `br.saved` and of the first `br.n` registers (`BranchOk`),
and `mkIf` hands them back at the join.

`AccessesExact` needs in addition that what the code concludes from the origin of a
leaf is true (`OriginOk`, `AliasOk`): the input and initial memory lead to no local, a
callee's result is in the set that `ptr_alias` has for its key, and no pointer leads to the
block of calls. These facts are relative to the calls and locals that exist
(`Known`) and have to survive both growing, for the memory that is put aside, too
(`Grows`, `NewTo`). Given them, the block of a pointer survives each of the filters
(leaves dropped by `isDereferenceable`, `LeafBlocks`, `mayalias`), and the three
forms of the access condition pick it alone because each compares exactly what
distinguishes it within the set (`OneBlock`).

The proof attempt corrected the model in three places: a pointer that a callee returns is
added to `ptr_alias` when the call is new and not when it is matched with an earlier
one (the code calls `mkFnRet` under `inserted` only), the result is bound by the
axiom of `mkFnRet`, and a store of no bytes returns before anything escapes.

### Only model-checked

* Liveness: `EveryoneEnds`, `AllEnd`, `SkippedGetsVerified`. Liveness under fairness is
  beyond the proof system.
* `Expr`, `ExprOps`, `Instr`, `InstrFp`, `InstrSpec`, `Types`, `SymExec`: terms, values
  and programs are evaluated by recursive operators, which the prover does not support.
* `Memory`: `MemoryExact`, `RefinementSound`, `CallsMatchSound`. The inductive invariant of
  the first is a simulation of the encoded memory by the reference, with the bit fields of
  bytes and pointers in between: `And` and the casts are recursive functions over bits, about
  which nothing can be shown for all widths without induction over data. The other
  two compare two executions and hold for the callees of the run only (see the
  hazard at `memory.cpp:2126`).

## Not modelled

* Front ends: the translation from LLVM (`llvm_util/llvm2alive.cpp`, known functions,
  attributes) and the Alive language (`tools/alive_parser.cpp`, lexer): instruction
  by instruction translations whose inputs are the data structures of LLVM or text.
* The preprocessing of transforms and `calculateAndInitConstants` (sizes of bit
  fields, inferred alignment), `check_each_var`, counterexample printing. Array and struct
  types of the stand-alone tool, and vectors whose elements are of unknown type.
* Drivers and utilities: `alive-tv`, `alive-exec`, `quick-fuzz`, options, hashing,
  files, time, scripts, web, the vendored test runner. The null manager (no
  processes).
* Instructions: x86 intrinsics, variadic arguments, `memcmp`, `strlen`,
  `memset_pattern`, constant expressions, preconditions.
* State: `copyUBFrom`, `disallow_ub` during execution, indirect calls, the topological
  sort and `dataflow.h` (blocks come in topological order), pointer kinds of
  `assume`.
* Memory: alignment, growable blocks, assembly mode, undef bytes, `initializes`,
  `byval`, `noalias` results, `noreturn` callees, blocks of inaccessible memory,
  `observed_addrs`, conversion of physical
  pointers into locals.
* Processes: the SIGINT handler of the job server, exits on failing system calls other
  than `pipe` and `fork`, hash collisions of the cache key, statistics, quiet mode
  and the wording of reports, `max-subprocesses` 0 (the throttle would spin), the
  explicit `tv` pass of `opt` and the legacy pass manager, functions that
  passes create or delete, and the exit status (`has_failure` is set in children
  only, so a parallel run does not report failures by its status).
* tv-next: vectors, constant expressions, memory and control flow; loading and printing.

## Plan

1. Done: processes and protocols (`Parallel`, `OrderedReport`, `JobServer`,
   `RedisCache`, `TVPlugin`).
2. Done: the checker and what it rests on (`Refinement`, `SymExec`, `Memory`,
   `Bytes`, `Types`, `Floats`, `Instr`, `InstrFp`, `Expr`) and tv-next (`TvRange`,
   `TvProposer`, `TvNext`).
3. Done: proofs for all invariants of `Parallel`, `JobServer`, `RedisCache`,
   `TVPlugin`, `Refinement` and `TvNext`, that `Parallel` implements
   `OrderedReport`, and the escape and alias analysis of `Memory`.
4. Next: action properties (a poll slot changes its child only after the EOF of that
   child; a printed report only grows), and the part of `MemoryExact` that does not involve
   bit fields (undefined behaviour and live blocks).
